----------------------------- MODULE AiProposal -----------------------------
(***************************************************************************)
(* AI replacement proposals (apps/tenant-runtime/src/ai-grafik).           *)
(*                                                                         *)
(* A proposal offers a vacated shift to the feasible candidates in rank    *)
(* order: each is asked for consent until one accepts, then a manager      *)
(* approves, which reassigns the shift.  A call loads the proposal, checks *)
(* its copy, and writes later, so it is one action per database access     *)
(* that others can come between; a $transaction is one action.  Expiry is  *)
(* lazy: reading a proposal whose consent deadline has passed escalates it.*)
(***************************************************************************)
EXTENDS Tenant, Naturals, FiniteSets

CONSTANTS
    Shifts, Days, Proposals,
    Calls,        \* HTTP calls in progress at the same time
    DayOf,        \* day of a shift
    Qualified,    \* pairs <<e, s>>: e has the qualification s asks for (H1)
    Conflicts,    \* pairs {s, u} that overlap or are less than 11h apart (H2, H4)
    Commutes,     \* pairs <<e, s>> of other units that pass the H-TRAVEL gate
    Rank,         \* the candidates' order: total cost, hours, preference, id
    HasLogin,     \* employees with a userId: reachable
    ByHand,       \* the shifts a manager may ask a replacement for
    Coordinated,  \* managers never decide one proposal at the same time
    Levels,       \* autonomy levels that are configured in this instance
    InitialHolder

AutonomyLevel == {"SUGGEST_ONLY", "AUTO_NOTIFY", "AUTO_ASK_CONSENT", "AUTO_COMMIT_ON_APPROVAL"}

ASSUME ProposalAssumption ==
    /\ None \notin Shifts \cup Proposals
    /\ DayOf \in [Shifts -> Days]
    /\ Rank \in [Employees -> Nat]
    /\ \A e, f \in Employees : Rank[e] = Rank[f] => e = f
    /\ HasLogin \subseteq Employees
    /\ ByHand \subseteq Shifts
    /\ Coordinated \in BOOLEAN
    /\ Levels \subseteq AutonomyLevel
    /\ InitialHolder \in [Shifts -> Employees]

VARIABLES
    holder,     \* shift.employeeId
    leave,      \* days of APPROVED leave of an employee
    autonomy,   \* aiSchedulingConfig.autonomyLevel of a unit
    prop,       \* aiProposal rows with their candidates
    commits,    \* ai_proposal.approved rows of the audit log
    call,       \* locals of the calls in progress
    agreed      \* history: who accepted which proposal

aiVars == <<holder, leave, autonomy, prop, commits, call, agreed>>

ConsentState == {"NOT_ASKED", "PENDING", "GRANTED", "DECLINED", "EXPIRED"}

\* cands are the feasible candidates; late: expiresAt has passed.
NoRow == [stage |-> "ABSENT", shift |-> None, vacated |-> None, owning |-> None, cands |-> {},
          active |-> None, consent |-> [e \in Employees |-> "NOT_ASKED"], late |-> FALSE,
          decidedBy |-> None]

stage == [p \in Proposals |-> prop[p].stage]
Machine == INSTANCE ProposalMachine WITH approvals <- commits

Row == [stage : Machine!AiProposalState \cup {"ABSENT"}, shift : Shifts \cup {None},
        vacated : Employees \cup {None}, owning : Units \cup {None}, cands : SUBSET Employees,
        active : Employees \cup {None}, consent : [Employees -> ConsentState], late : BOOLEAN,
        decidedBy : Managers \cup {None}]

Points == {"idle", "rank", "insert", "ask", "expire", "accept", "decline", "reject", "revet",
           "commit", "flip", "scan", "each"}

\* p and row: the proposal and the copy of it that was loaded; shift, vacated,
\* cands and level: what createReplacement has read; leaveId, action and
\* todo: LeaveService.decide and the shifts its scan has left.
Idle == [at |-> "idle", who |-> None, p |-> None, row |-> NoRow, shift |-> None, vacated |-> None,
         cands |-> {}, level |-> None, leaveId |-> None, action |-> None, todo |-> {}]

-----------------------------------------------------------------------------
(* ReplacementService and the feasibility validator                        *)

Held(e) == {s \in Shifts : holder[s] = e}

\* The single-employee problem of S is not INFEASIBLE.
Workable(e, S) ==
    /\ \A s \in S : <<e, s>> \in Qualified /\ DayOf[s] \notin leave[e]
    /\ \A s, u \in S : s # u => {s, u} \notin Conflicts

\* validate, in the give-away shape: e takes s on top of what e holds.
Validate(e, s) == Workable(e, Held(e) \cup {s})

\* loadPool: everybody else who is qualified, of the unit or of the others.
Pool(s, vacated, cross) ==
    {e \in Employees \ {vacated} : /\ <<e, s>> \in Qualified
                                   /\ (UnitOf[e] # UnitOf[vacated]) = cross}

\* rankCandidatesForShift: the other units are only asked when the shift's own
\* unit has no feasible candidate, and must pass H-TRAVEL.
Feasible(s, vacated) ==
    LET local == {e \in Pool(s, vacated, FALSE) : Validate(e, s)}
        cross == {e \in Pool(s, vacated, TRUE) : Validate(e, s) /\ <<e, s>> \in Commutes}
    IN  IF local # {} THEN local ELSE cross

\* The first of a set in rank order, undefined (None) when there is none.
First(S) == IF S = {} THEN None ELSE CHOOSE e \in S : \A f \in S : Rank[e] <= Rank[f]

\* pickNextFeasibleCandidate
PickNext(row) == First({e \in row.cands : row.consent[e] = "NOT_ASKED"})

\* isStaleConsent
IsStale(row) == row.stage = "PENDING_EMPLOYEE_CONSENT" /\ row.late

-----------------------------------------------------------------------------
AiInit ==
    /\ holder = InitialHolder
    /\ leave = [e \in Employees |-> {}]
    /\ autonomy \in [Units -> Levels]
    /\ prop = [p \in Proposals |-> NoRow]
    /\ commits = [p \in Proposals |-> 0]
    /\ call = [c \in Calls |-> Idle]
    /\ agreed = {}

dbVars == <<holder, leave, autonomy, prop, commits, agreed>>

Return(c) == call' = [call EXCEPT ![c] = Idle]

\* A call that has loaded proposal p goes on to its write.
Begin(c, m, p, at) ==
    call' = [call EXCEPT ![c] = [Idle EXCEPT !.at = at, !.who = m, !.p = p, !.row = prop[p]]]

(* AiProposalService.createReplacement *)

\* The shift, its holder's unit, and the actor's scope.
CreateRead(c, m, s) ==
    /\ call[c].at = "idle"
    /\ InScope(m, UnitOf[holder[s]])
    /\ call' = [call EXCEPT ![c] = [Idle EXCEPT !.at = "rank", !.who = m, !.shift = s,
                                                !.vacated = holder[s]]]
    /\ UNCHANGED dbVars

\* Ranks the candidates and reads the unit's configuration.
CreateRank(c) ==
    /\ call[c].at = "rank"
    /\ call' = [call EXCEPT ![c].at = "insert",
                            ![c].cands = Feasible(call[c].shift, call[c].vacated),
                            ![c].level = autonomy[UnitOf[call[c].vacated]]]
    /\ UNCHANGED dbVars

\* The initial state and the candidate asked first, by autonomy level.
Initial(level, cands) ==
    LET asked == First(cands \cap HasLogin) IN
    IF cands = {} THEN <<Machine!NextProposalState("DRAFT", "direct_escalate"), None>>
    ELSE IF level \in {"AUTO_ASK_CONSENT", "AUTO_COMMIT_ON_APPROVAL"}
    THEN IF asked # None THEN <<Machine!NextProposalState("DRAFT", "ask_consent"), asked>>
         ELSE <<Machine!NextProposalState("DRAFT", "direct_escalate"), None>>
    ELSE <<"DRAFT", None>>

\* Variant: the scan ends with its first proposal.
AfterCreateOnce(c) == Idle

\* Where a finished createReplacement goes: back into the scan of an approved
\* leave, or to the client.
AfterCreate(c) ==
    IF call[c].todo = {} THEN Idle
    ELSE [Idle EXCEPT !.at = "each", !.who = call[c].who, !.leaveId = call[c].leaveId,
                      !.todo = call[c].todo]

CreateInsert(c, p) ==
    /\ call[c].at = "insert"
    /\ prop[p].stage = "ABSENT"
    /\ LET k == call[c]
           first == Initial(k.level, k.cands)
       IN  prop' = [prop EXCEPT ![p] =
                      [NoRow EXCEPT !.stage = first[1], !.active = first[2], !.shift = k.shift,
                          !.vacated = k.vacated, !.owning = UnitOf[k.vacated], !.cands = k.cands,
                          !.consent = [e \in Employees |->
                                         IF e = first[2] THEN "PENDING" ELSE "NOT_ASKED"]]]
    /\ call' = [call EXCEPT ![c] = AfterCreate(c)]
    /\ UNCHANGED <<holder, leave, autonomy, commits, agreed>>

(* AiProposalService.requestConsent *)

RequestConsentLoad(c, m, p) ==
    /\ call[c].at = "idle"
    /\ prop[p].stage = "DRAFT"
    /\ InScope(m, prop[p].owning)
    /\ Begin(c, m, p, "ask")
    /\ UNCHANGED dbVars

\* updateMany({ id, state: DRAFT }) with the candidate's row, or a rollback.
RequestConsent(c) ==
    /\ call[c].at = "ask"
    /\ LET p == call[c].p
           next == PickNext(call[c].row)
       IN  prop' = IF prop[p].stage # "DRAFT" THEN prop
                   ELSE IF next = None
                   THEN [prop EXCEPT ![p].stage = Machine!NextProposalState("DRAFT", "direct_escalate")]
                   ELSE [prop EXCEPT ![p].stage = Machine!NextProposalState("DRAFT", "ask_consent"),
                                     ![p].active = next,
                                     ![p].consent = [@ EXCEPT ![next] = "PENDING"],
                                     ![p].late = FALSE]
    /\ Return(c)
    /\ UNCHANGED <<holder, leave, autonomy, commits, agreed>>

(* Lazy expiry: list, getById, and an answer that comes too late *)

ReadStale(c, p) ==
    /\ call[c].at = "idle"
    /\ IsStale(prop[p])
    /\ Begin(c, None, p, "expire")
    /\ UNCHANGED dbVars

\* expireIfStale: guarded on the state; no row means somebody was faster.
ExpireIfStale(c) ==
    /\ call[c].at = "expire"
    /\ LET p == call[c].p
           from == "PENDING_EMPLOYEE_CONSENT"
       IN  prop' = IF prop[p].stage # from THEN prop
                   ELSE [prop EXCEPT ![p].stage = Machine!NextProposalState(from, "expire"),
                                     ![p].active = None]
    /\ Return(c)
    /\ UNCHANGED <<holder, leave, autonomy, commits, agreed>>

(* AiProposalService.employeeConsent *)

\* e's login asks to accept or decline: not stale, awaiting consent, e is the
\* active candidate and still PENDING.
ConsentLoad(c, e, p, answer) ==
    /\ call[c].at = "idle"
    /\ e \in HasLogin
    /\ prop[p].stage = "PENDING_EMPLOYEE_CONSENT"
    /\ ~IsStale(prop[p])
    /\ prop[p].active = e
    /\ prop[p].consent[e] = "PENDING"
    /\ Begin(c, None, p, answer)
    /\ UNCHANGED dbVars

\* Variant: the proposal is flipped by id alone.
AcceptUnguarded(c) ==
    /\ call[c].at = "accept"
    /\ prop' = [prop EXCEPT ![call[c].p].consent[call[c].row.active] = "GRANTED",
                            ![call[c].p].stage = "PENDING_MANAGER"]
    /\ agreed' = agreed \cup {<<call[c].p, call[c].row.active>>}
    /\ Return(c)
    /\ UNCHANGED <<holder, leave, autonomy, commits>>

\* The transaction of an accept: employee_accept, then submit_to_manager.
Accept(c) ==
    /\ call[c].at = "accept"
    /\ LET p == call[c].p
           e == call[c].row.active
           from == "PENDING_EMPLOYEE_CONSENT"
           to == Machine!NextProposalState(Machine!NextProposalState(from, "employee_accept"),
                                           "submit_to_manager")
       IN  \/ /\ prop[p].stage = from
              /\ prop' = [prop EXCEPT ![p].consent = [@ EXCEPT ![e] = "GRANTED"], ![p].stage = to]
              /\ agreed' = agreed \cup {<<p, e>>}
           \/ /\ prop[p].stage # from
              /\ UNCHANGED <<prop, agreed>>
    /\ Return(c)
    /\ UNCHANGED <<holder, leave, autonomy, commits>>

\* The transactions of a decline: the next candidate of the loaded copy is
\* asked, or nobody is left and a human takes over.
Decline(c) ==
    /\ call[c].at = "decline"
    /\ LET p == call[c].p
           e == call[c].row.active
           next == PickNext(call[c].row)
           from == "PENDING_EMPLOYEE_CONSENT"
       IN  prop' = IF prop[p].stage # from THEN prop
                   ELSE IF next # None
                   THEN [prop EXCEPT
                           ![p].stage = Machine!NextProposalState(from, "employee_decline_next"),
                           ![p].consent = [@ EXCEPT ![e] = "DECLINED", ![next] = "PENDING"],
                           ![p].active = next]
                   ELSE [prop EXCEPT
                           ![p].stage = Machine!NextProposalState(from, "employee_decline_last"),
                           ![p].consent = [@ EXCEPT ![e] = "DECLINED"],
                           ![p].active = None]
    /\ Return(c)
    /\ UNCHANGED <<holder, leave, autonomy, commits, agreed>>

(* AiProposalService.managerDecision *)

\* A decision on p is in progress.
Deciding(p) == \E d \in Calls : call[d].p = p /\ call[d].at \in {"reject", "revet", "commit"}

\* Variant: the candidate's consent is not looked at.
DecisionLoadAnyConsent(c, m, p, approve) ==
    /\ call[c].at = "idle"
    /\ Coordinated => ~Deciding(p)
    /\ prop[p].stage = "PENDING_MANAGER"
    /\ InScope(m, prop[p].owning)
    /\ Begin(c, m, p, IF approve THEN "revet" ELSE "reject")
    /\ UNCHANGED dbVars

\* An approval needs an active candidate who has granted consent.
DecisionLoad(c, m, p, approve) ==
    /\ call[c].at = "idle"
    /\ Coordinated => ~Deciding(p)
    /\ prop[p].stage = "PENDING_MANAGER"
    /\ InScope(m, prop[p].owning)
    /\ approve => prop[p].active # None /\ prop[p].consent[prop[p].active] = "GRANTED"
    /\ Begin(c, m, p, IF approve THEN "revet" ELSE "reject")
    /\ UNCHANGED dbVars

\* Variant: the employee of the login is stored for the login.
RejectStampsEmployee(c) ==
    /\ call[c].at = "reject"
    /\ prop' = [prop EXCEPT ![call[c].p].stage = "REJECTED",
                            ![call[c].p].decidedBy = EmployeeOf[call[c].who]]
    /\ Return(c)
    /\ UNCHANGED <<holder, leave, autonomy, commits, agreed>>

\* update({ id }): the state is not in the where.
Reject(c) ==
    /\ call[c].at = "reject"
    /\ prop' = [prop EXCEPT
                  ![call[c].p].stage = Machine!NextProposalState("PENDING_MANAGER", "manager_reject"),
                  ![call[c].p].decidedBy = call[c].who]
    /\ Return(c)
    /\ UNCHANGED <<holder, leave, autonomy, commits, agreed>>

\* The candidate is vetted again, outside the transaction.
Revet(c) ==
    /\ call[c].at = "revet"
    /\ call' = [call EXCEPT ![c] = IF Validate(@.row.active, @.row.shift)
                                     THEN [@ EXCEPT !.at = "commit"] ELSE Idle]
    /\ UNCHANGED dbVars

\* Variant: the shift is reassigned by id alone.
CommitAnyHolder(c) ==
    /\ call[c].at = "commit"
    /\ prop[call[c].p].stage = "PENDING_MANAGER"
    /\ holder' = [holder EXCEPT ![call[c].row.shift] = call[c].row.active]
    /\ prop' = [prop EXCEPT ![call[c].p].stage = "APPROVED", ![call[c].p].decidedBy = call[c].who]
    /\ commits' = [commits EXCEPT ![call[c].p] = @ + 1]
    /\ Return(c)
    /\ UNCHANGED <<leave, autonomy, agreed>>

\* The transaction: the shift if the vacated employee still holds it, the
\* proposal if it still awaits the manager, and the audit row; or nothing.
Commit(c) ==
    /\ call[c].at = "commit"
    /\ LET p == call[c].p
           row == call[c].row
       IN  \/ /\ holder[row.shift] = row.vacated
              /\ prop[p].stage = "PENDING_MANAGER"
              /\ holder' = [holder EXCEPT ![row.shift] = row.active]
              /\ prop' = [prop EXCEPT
                            ![p].stage = Machine!NextProposalState("PENDING_MANAGER", "manager_approve"),
                            ![p].decidedBy = call[c].who]
              /\ commits' = [commits EXCEPT ![p] = @ + 1]
           \/ /\ holder[row.shift] # row.vacated \/ prop[p].stage # "PENDING_MANAGER"
              /\ UNCHANGED <<holder, prop, commits>>
    /\ Return(c)
    /\ UNCHANGED <<leave, autonomy, agreed>>

-----------------------------------------------------------------------------
(* The rest of the tenant                                                  *)

\* The consent deadline of a proposal passes.
DeadlinePasses(p) ==
    /\ prop[p].stage = "PENDING_EMPLOYEE_CONSENT"
    /\ ~prop[p].late
    /\ prop' = [prop EXCEPT ![p].late = TRUE]
    /\ UNCHANGED <<holder, leave, autonomy, commits, call, agreed>>

\* AiConfigService.upsertConfig
UpsertConfig(m, u, level) ==
    /\ InScope(m, u)
    /\ autonomy[u] # level
    /\ autonomy' = [autonomy EXCEPT ![u] = level]
    /\ UNCHANGED <<holder, leave, prop, commits, call, agreed>>

\* An awaited call rejects: the optimizer or the database, or the pod dies.
CallFails(c) ==
    /\ call[c].at # "idle"
    /\ call[c].leaveId = None
    /\ Return(c)
    /\ UNCHANGED dbVars

ProposalCall(c) ==
    \/ \E m \in Managers, s \in ByHand : CreateRead(c, m, s)
    \/ CreateRank(c)
    \/ \E p \in Proposals :
        \/ CreateInsert(c, p)
        \/ \E m \in Managers : RequestConsentLoad(c, m, p)
        \/ ReadStale(c, p)
        \/ \E e \in Employees, answer \in {"accept", "decline"} : ConsentLoad(c, e, p, answer)
        \/ \E m \in Managers, approve \in BOOLEAN : DecisionLoad(c, m, p, approve)
    \/ RequestConsent(c)
    \/ ExpireIfStale(c)
    \/ Accept(c)
    \/ Decline(c)
    \/ Reject(c)
    \/ Revet(c)
    \/ Commit(c)
    \/ CallFails(c)

AiNext ==
    \/ \E c \in Calls : ProposalCall(c)
    \/ \E p \in Proposals : DeadlinePasses(p)
    \/ \E m \in Managers, u \in Units, level \in Levels : UpsertConfig(m, u, level)
=============================================================================
