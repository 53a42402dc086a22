---------------------------- MODULE AgentPolicy ----------------------------
(***************************************************************************)
(* The learning scheduler of agent-service/app: the imitation policy       *)
(* (policy.py), its hard-rule validator (validate.py) and the training     *)
(* environment (env.py).  A problem is the one of module Optimizer, with   *)
(* P.history (hours worked) and P.order, the demand ids by date, start,    *)
(* location and id.  Scores are in thousandths; an affinity table maps     *)
(* <<employee, signature>> to its score.  Employees are numbers in the     *)
(* order of their ids, 0 is an employee that is not given.                 *)
(***************************************************************************)
EXTENDS Optimizer, Sequences, SequencesExt

LrTeacher == 1000
LrFeedback == 3000
NeutralCommute == 60      \* _commute_minutes, the pair is not in the matrix

\* _slot_interval (validate.py), in hours.
SlotInterval(d) ==
    LET start == d.day * DayHours + d.start
        end   == d.day * DayHours + d.end
    IN  <<start, IF end <= start THEN end + DayHours ELSE end>>

\* The gap of two slots, by which of them starts first; negative if they overlap.
Gap(a, b) == IF b[1] >= a[1] THEN b[1] - a[2] ELSE a[1] - b[2]

Commute(P, e, loc) == IF loc \in DOMAIN P.minutes[e] THEN P.minutes[e][loc] ELSE NeutralCommute

\* _features and _base_score
BaseScore(P, e, id) ==
    500 * P.etat[e] - 10 * Commute(P, e, P.demands[id].loc) - 4 * P.history[e]
    + 200 \div Max({1, Cardinality(P.quals[e])})

\* slot_signature: two demands of one role, place and start share it.
Signature(d) == [role |-> d.role, loc |-> d.loc, day |-> d.day, start |-> d.start]

AffinityOf(aff, key) == IF key \in DOMAIN aff THEN aff[key] ELSE 0

ScoreCandidate(P, aff, e, id) == BaseScore(P, e, id) + AffinityOf(aff, <<e, Signature(P.demands[id])>>)

\* The order of the candidates of a demand: the best score first, then the id.
ScoresBefore(P, aff, id, a, b) ==
    \/ ScoreCandidate(P, aff, a, id) > ScoreCandidate(P, aff, b, id)
    \/ ScoreCandidate(P, aff, a, id) = ScoreCandidate(P, aff, b, id) /\ a < b

RankedFor(P, aff, id) ==
    LET eligible == {e \in P.employees : EligibleFor(P, e, id)}
    IN  CHOOSE s \in [1..Cardinality(eligible) -> eligible] :
           \A i, j \in DOMAIN s : i < j => ScoresBefore(P, aff, id, s[i], s[j])

\* As Conflicts, but only a slot that begins earlier is looked at.
ConflictsForward(P, x, e, id) ==
    \E other \in Duties(x, e) :
        LET a == SlotInterval(P.demands[id])
            b == SlotInterval(P.demands[other])
        IN  b[1] < a[1] /\ Gap(b, a) < DailyRest

\* conflicts: a slot the employee is already committed to is too near.
Conflicts(P, x, e, id) ==
    \E other \in Duties(x, e) :
        Gap(SlotInterval(P.demands[other]), SlotInterval(P.demands[id])) < DailyRest

\* The candidates of one demand, best first, while a place is open.
FillDemand(P, aff, x, id) ==
    FoldLeft(LAMBDA y, e :
                IF Cardinality(Crew(y, id)) >= P.demands[id].count \/ Conflicts(P, y, e, id)
                THEN y ELSE y \cup {<<e, id>>},
             x, RankedFor(P, aff, id))

\* propose: demand by demand, greedily.
ProposeAssignments(P, aff) ==
    FoldLeft(LAMBDA x, id : FillDemand(P, aff, x, id), {}, P.order)

-----------------------------------------------------------------------------
(* Learning *)

\* bump: nothing for a demand the problem lacks, or without an employee.
Bump(P, aff, e, id, delta) ==
    IF id \notin DOMAIN P.demands \/ e = 0 THEN aff
    ELSE LET key == <<e, Signature(P.demands[id])>>
         IN  [k \in DOMAIN aff \cup {key} |-> IF k = key THEN AffinityOf(aff, key) + delta ELSE aff[k]]

\* apply_teacher_assignments: each moves one entry, so their order is of no matter.
ApplyTeacher(P, aff, teacher) ==
    LET known  == {a \in teacher : a[2] \in DOMAIN P.demands}
        Key(a) == <<a[1], Signature(P.demands[a[2]])>>
    IN  [k \in DOMAIN aff \cup {Key(a) : a \in known} |->
           AffinityOf(aff, k) + LrTeacher * Cardinality({a \in known : Key(a) = k})]

\* apply_feedback_edits; an edit is [type, demand, employee, other]: a move goes
\* from employee to other, a swap exchanges their places on demand and otherDemand.
ApplyFeedbackEdits(P, aff, edits) ==
    LET Give(t, e, id) == Bump(P, t, e, id, LrFeedback)
        Take(t, e, id) == Bump(P, t, e, id, -LrFeedback)
        Edit(t, ed) ==
          CASE ed.type = "MOVE" -> Take(Give(t, ed.other, ed.demand), ed.employee, ed.demand)
            [] ed.type = "SWAP" -> LET one == Take(Give(t, ed.other, ed.demand), ed.employee, ed.demand)
                                   IN  Take(Give(one, ed.employee, ed.otherDemand), ed.other, ed.otherDemand)
            [] ed.type = "ACCEPT" -> Bump(P, t, ed.employee, ed.demand, LrFeedback \div 4)
            [] ed.type \in {"REMOVE", "REJECT"} -> Take(t, ed.employee, ed.demand)
    IN  FoldLeft(Edit, aff, edits)

\* BATCH_DELTA of the employee that is stored with an edit: toEmployeeId or employeeId
BatchDelta(type) ==
    CASE type = "MOVE" -> LrFeedback [] type = "ACCEPT" -> LrFeedback \div 4 [] OTHER -> -LrFeedback
StoredEmployee(ed) == IF ed.type = "MOVE" /\ ed.other # 0 THEN ed.other ELSE ed.employee

\* _apply_feedback_log: each stored row moves one entry.
ApplyFeedbackLog(P, aff, edits) ==
    FoldLeft(LAMBDA t, ed : Bump(P, t, StoredEmployee(ed), ed.demand, BatchDelta(ed.type)), aff, edits)

\* The proposal after feedback on the cold start, and after the next retrain.
ProposedAfter(P, teacher, edits) ==
    LET cold == ApplyTeacher(P, <<>>, teacher)
    IN  [before |-> ProposeAssignments(P, cold),
         online |-> ProposeAssignments(P, ApplyFeedbackEdits(P, cold, edits)),
         batch  |-> ProposeAssignments(P, ApplyFeedbackLog(P, cold, edits))]

\* _infer_accepted_schedule: what the manager kept of a proposal.
InferAccepted(x, edits) ==
    LET Keep(y, ed) ==
          IF ed.type \in {"MOVE", "SWAP"} THEN (y \ {<<ed.employee, ed.demand>>}) \cup {<<ed.other, ed.demand>>}
          ELSE IF ed.type = "REMOVE" THEN y \ {<<ed.employee, ed.demand>>} ELSE y
    IN  {a \in FoldLeft(Keep, x, edits) : a[1] # 0}

-----------------------------------------------------------------------------
(* validate *)

\* The codes of the hard rules an assignment breaks.
Violations(P, x) ==
    {<<"H1_QUALIFICATION", a>> : a \in {b \in x : P.demands[b[2]].role \notin P.quals[b[1]]}}
    \cup {<<"H3_LEAVE", a>> : a \in {b \in x : P.demands[b[2]].day \in P.leave[b[1]]}}
    \cup {<<"H1_COVERAGE_UNDER", id>> :
            id \in {i \in DOMAIN P.demands : Cardinality(Crew(x, i)) < P.demands[i].count}}
    \cup {<<"H1_COVERAGE_OVER", id>> :
            id \in {i \in DOMAIN P.demands : Cardinality(Crew(x, i)) > P.demands[i].count}}
    \cup {<<"H2H4_REST", e>> : e \in {f \in P.employees : \E i, j \in Duties(x, f) :
            i # j /\ Gap(SlotInterval(P.demands[i]), SlotInterval(P.demands[j])) < DailyRest}}

Feasible(P, x) == Violations(P, x) = {}

-----------------------------------------------------------------------------
(* env.py: one episode assigns the slots left to right *)

\* _overlaps: windows of one day, an end before the start taken as it is.
EnvOverlaps(a, b) == a.day = b.day /\ a.start < b.end /\ b.start < a.end

\* _score_action: what an action is worth to the current slot.
ActionKind(P, x, e, id) ==
    IF e = 0 THEN "unfilled"
    ELSE IF e \notin P.employees THEN "invalid_padding"
    ELSE IF P.demands[id].role \notin P.quals[e] THEN "unqualified"
    ELSE IF P.demands[id].day \in P.leave[e] THEN "on_leave"
    ELSE IF \E other \in Duties(x, e) : EnvOverlaps(P.demands[other], P.demands[id]) THEN "double_booked"
    ELSE "feasible"

\* step: only a feasible action is recorded.
EnvStep(P, x, e, id) == IF ActionKind(P, x, e, id) = "feasible" THEN x \cup {<<e, id>>} ELSE x

\* An episode of the actions given, one per slot.
Episode(P, slots, actions) ==
    FoldLeft(LAMBDA x, i : EnvStep(P, x, actions[i], slots[i]), {}, [i \in DOMAIN slots |-> i])
=============================================================================
