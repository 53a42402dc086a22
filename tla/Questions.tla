----------------------------- MODULE Questions -----------------------------
(***************************************************************************)
(* The pure algorithms of the services, asked one question at a time and   *)
(* compared with what the answer must be: the ranking of candidates for a  *)
(* vacated shift, the agent's proposal, its validator, an episode of its   *)
(* training environment, and the row scopes of the services.               *)
(***************************************************************************)
EXTENDS AgentPolicy, Ranking, Scopes

CONSTANTS
    RankQuestions,     \* [shift, pool]
    ProposeQuestions,  \* [problem, affinity]
    LearnQuestions,    \* [problem, teacher, edit]
    ValidateQuestions, \* [problem, x]
    EpisodeQuestions,  \* [problem, slots, actions]
    ScopeQuestions     \* [tenant, caller]

\* Times of a day in whole hours; midnight may be 0 or 24.
IsDemand(d) == d.day \in Int /\ d.start \in 0..DayHours /\ d.end \in 0..DayHours /\ d.count \in Nat

\* Employees have ids other than "not given", and the order names every demand once.
IsProblem(P) ==
    /\ IsFiniteSet(P.employees) /\ P.employees \subseteq Nat \ {0}
    /\ \A id \in DOMAIN P.demands : IsDemand(P.demands[id])
    /\ \A e \in P.employees :
         /\ IsFiniteSet(P.quals[e])
         /\ P.etat[e] \in Int /\ P.history[e] \in Int
         /\ \A loc \in DOMAIN P.minutes[e] : P.minutes[e][loc] \in Int
    /\ P.order \in Seq(DOMAIN P.demands)
    /\ \A id \in DOMAIN P.demands : \E i \in DOMAIN P.order : P.order[i] = id
    /\ \A i, j \in DOMAIN P.order : P.order[i] = P.order[j] => i = j

IsShift(s) == s.day \in Int /\ s.start \in Int /\ s.end \in Int

IsCandidate(c) ==
    /\ c.local \in BOOLEAN /\ c.fits \in BOOLEAN
    /\ c.travel \subseteq Int
    /\ IsFiniteSet(c.shifts) /\ \A s \in c.shifts : IsShift(s)
    /\ \A r \in c.rate : r.hourly \in Int

IsRankQuestion(q) ==
    /\ IsShift(q.shift) /\ \A r \in q.shift.rate : r.hourly \in Int
    /\ IsFiniteSet(DOMAIN q.pool) /\ DOMAIN q.pool \subseteq Int
    /\ \A c \in DOMAIN q.pool : IsCandidate(q.pool[c])

\* A caller with an employee is one of the tenant's, and so is who asks for a swap.
IsScopeQuestion(q) ==
    /\ q.caller.self \subseteq q.tenant.staff
    /\ Nobody \notin q.tenant.staff
    /\ \A s \in q.tenant.swaps : s.requester \in q.tenant.staff

ASSUME QuestionsAssumption ==
    /\ \A q \in RankQuestions : IsRankQuestion(q)
    /\ \A q \in ProposeQuestions : IsProblem(q.problem) /\ \A k \in DOMAIN q.affinity : q.affinity[k] \in Int
    /\ \A q \in LearnQuestions :
         /\ IsProblem(q.problem)
         /\ q.teacher \subseteq q.problem.employees \X DOMAIN q.problem.demands
         /\ q.edit.type \in {"MOVE", "SWAP", "ACCEPT", "REMOVE", "REJECT"}
    /\ \A q \in ValidateQuestions :
         IsProblem(q.problem) /\ q.x \subseteq q.problem.employees \X DOMAIN q.problem.demands
    /\ \A q \in EpisodeQuestions :
         /\ IsProblem(q.problem)
         /\ q.slots \in Seq(DOMAIN q.problem.demands)
         /\ DOMAIN q.slots \subseteq DOMAIN q.actions
    /\ \A q \in ScopeQuestions : IsScopeQuestion(q)

VARIABLES question, answer    \* answer: {} until it is given, then {the answer}

questionVars == <<question, answer>>

QuestionsInit ==
    /\ question \in ({"rank"} \X RankQuestions) \cup ({"propose"} \X ProposeQuestions)
                    \cup ({"learn"} \X LearnQuestions)
                    \cup ({"validate"} \X ValidateQuestions) \cup ({"episode"} \X EpisodeQuestions)
                    \cup ({"scope"} \X ScopeQuestions)
    /\ answer = {}

Answer(kind, a) ==
    /\ question[1] = kind
    /\ answer = {}
    /\ answer' = {a}
    /\ UNCHANGED question

AnswerRank == Answer("rank", Ranked(question[2].shift, question[2].pool))
AnswerPropose == Answer("propose", ProposeAssignments(question[2].problem, question[2].affinity))
AnswerLearn ==
    Answer("learn", ProposedAfter(question[2].problem, question[2].teacher, <<question[2].edit>>))
AnswerValidate == Answer("validate", Feasible(question[2].problem, question[2].x))
AnswerEpisode == Answer("episode", Episode(question[2].problem, question[2].slots, question[2].actions))
AnswerScope ==
    LET w == question[2].tenant
        a == question[2].caller
    IN  Answer("scope", [listed |-> Listed(w, a), mine |-> Mine(w, a), opened |-> Opened(w, a),
                         actable |-> Actable(w, a)])

QuestionsNext == \/ AnswerRank \/ AnswerPropose \/ AnswerLearn \/ AnswerValidate \/ AnswerEpisode
                 \/ AnswerScope

QuestionsSpec == QuestionsInit /\ [][QuestionsNext]_questionVars

-----------------------------------------------------------------------------
(* Properties *)

Asked(kind) == question[1] = kind

(* A ranking holds only people who can be there in time, nobody from       *)
(* another unit while one of the shift's own can, cheapest first, each     *)
(* once (rankCandidatesForShift, checkArrivalGap; reference RankingSound). *)
RankingIsSound ==
    Asked("rank") => \A a \in answer : RankingSound(question[2].shift, question[2].pool, a)

(* A greedy proposal breaks no hard rule but coverage, and a place it      *)
(* leaves open could not have been filled: everybody who is eligible and   *)
(* not on it works too near ("hard-feasible by construction whenever       *)
(* enough eligible staff exist", propose; the solver's Conflict is the     *)
(* reference).                                                             *)
ProposalKeepsRules ==
    Asked("propose") => \A x \in answer :
        LET P == question[2].problem IN
        /\ x \subseteq EligiblePairs(P)
        /\ HardConstraints(P, x, TRUE)
        /\ \A id \in Unmet(P, x) : \A e \in P.employees \ Crew(x, id) :
             EligibleFor(P, e, id) => \E other \in Duties(x, e) :
                Conflict(AbsWindow(P.demands[id]), AbsWindow(P.demands[other]))

(* A manager's correction is learned at once and survives the next         *)
(* retrain, which starts over from the stored rows: after a move the slot  *)
(* has the crew the manager accepted, and who was removed, rejected or     *)
(* swapped out is on it again only if nobody else is free ("a manager      *)
(* correction reliably flips a slot within a couple of rounds",            *)
(* policy.py).  It needs slots of different signatures, and features that  *)
(* are not further apart than the learning rates.  A stored move rewards   *)
(* who was moved in but does not penalise who was moved out: on a slot of  *)
(* several places the next retrain may keep the latter and drop a          *)
(* colleague, so there the move is only claimed to be learned at once.     *)
CorrectionIsLearned ==
    Asked("learn") => \A x \in answer :
        LET P == question[2].problem
            ed == question[2].edit
            accepted == InferAccepted(x.before, <<ed>>)
            Apart(e, f) == BaseScore(P, e, ed.demand) - BaseScore(P, f, ed.demand) < LrFeedback - LrTeacher
            Told == /\ <<ed.employee, ed.demand>> \in x.before
                    /\ \A i, j \in DOMAIN P.demands : i = j \/ Signature(P.demands[i]) # Signature(P.demands[j])
                    /\ \A f \in P.employees : Apart(ed.employee, f)
            Moves == /\ ed.type = "MOVE" /\ ed.other \in P.employees /\ <<ed.other, ed.demand>> \notin x.before
                     /\ EligibleFor(P, ed.other, ed.demand) /\ ~Conflicts(P, x.before, ed.other, ed.demand)
            Drops == \/ ed.type \in {"REMOVE", "REJECT"}
                     \/ ed.type = "SWAP" /\ ed.other # ed.employee /\ ed.otherDemand # ed.demand
        IN  Told =>
              /\ Moves => \A y \in {x.online} \cup (IF P.demands[ed.demand].count = 1 THEN {x.batch} ELSE {}) :
                    Crew(y, ed.demand) = Crew(accepted, ed.demand)
              /\ Drops => \A y \in {x.online, x.batch} : <<ed.employee, ed.demand>> \in y =>
                    \A f \in P.employees \ Crew(y, ed.demand) :
                       EligibleFor(P, f, ed.demand) => Conflicts(P, y, f, ed.demand)

(* "A violation list that is empty <=> the schedule satisfies every hard   *)
(* rule the solver would" (validate.py against solver.py).                 *)
ValidatorAgrees ==
    Asked("validate") => \A verdict \in answer :
        LET P == question[2].problem
            x == question[2].x
        IN  verdict <=> (x \subseteq EligiblePairs(P) /\ HardConstraints(P, x, FALSE))

(* The training environment books nobody into two overlapping windows of   *)
(* one day, as long as no window crosses midnight: _overlaps compares the  *)
(* clock times of a date (env.py).                                         *)
EpisodeBooksOnce ==
    Asked("episode") => \A x \in answer :
        LET P == question[2].problem IN
        (\A id \in DOMAIN P.demands : P.demands[id].start < P.demands[id].end) =>
            \A e \in P.employees : \A i, j \in Duties(x, e) :
                i = j \/ LET a == AbsWindow(P.demands[i])
                             b == AbsWindow(P.demands[j])
                         IN  a.end <= b.start \/ b.end <= a.start

(* The places of the agent that know the planning rules keep to those of   *)
(* the solver, and to those its managers have taught it.                   *)
AgentKeepsRules == ProposalKeepsRules /\ CorrectionIsLearned /\ ValidatorAgrees /\ EpisodeBooksOnce

(* "Load one request with the SAME scope as list" (leave, access,          *)
(* employees): a row opens by its id exactly when the plain list shows it. *)
(* A shift that opens is listed, and a proposal that is listed opens; the  *)
(* converse fails in the code for an employee's own shift and for a        *)
(* manager who is asked to take a shift of another unit.                   *)
ReadScopesAgree ==
    Asked("scope") => \A x \in answer :
        LET Of(kinds, rows) == {r \in rows : r[1] \in kinds}
            same == {"leave", "access", "employee"}
        IN  /\ Of(same, x.opened) = Of(same, x.listed)
            /\ Of({"shift"}, x.opened) \subseteq x.listed
            /\ Of({"proposal"}, x.listed \cup x.mine) \subseteq x.opened

(* Whoever a guard lets act on a row finds it in a list, with or without   *)
(* mine=true: nobody is waited for who cannot see what for.  The one       *)
(* exception of the code, a manager asked for consent (ai-proposal.service *)
(* list: the managed units come first, mine is then not looked at), is     *)
(* left out by name.                                                       *)
ActorsSeeTheirWork ==
    Asked("scope") => \A x \in answer :
        LET a == question[2].caller
            AskedManager(r) == r[1] = "proposal" /\ a.manages # {}
        IN  \A r \in x.actable : AskedManager(r) \/ r \in x.listed \cup x.mine


(* The three places that decide who sees or changes a row fit together.    *)
ScopesAgree == ReadScopesAgree /\ ActorsSeeTheirWork
=============================================================================
