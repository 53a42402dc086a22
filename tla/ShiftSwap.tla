----------------------------- MODULE ShiftSwap -----------------------------
(***************************************************************************)
(* Shift swaps between employees (apps/tenant-runtime/src/shift-swap).     *)
(*                                                                         *)
(* A request runs through the states of SwapMachine, driven by HTTP calls  *)
(* of its requester, its target and a manager; an approval exchanges the   *)
(* holders of two shifts.  A call is a sequence of awaited database and    *)
(* optimizer calls, so it is one action per await: authorise, load, check, *)
(* write.  Every write is guarded by the state that was loaded (optimistic *)
(* lock); the feasibility check runs before the approving transaction and  *)
(* outside it.  A $transaction is one action: it holds the row locks of    *)
(* everything it writes until it commits.                                  *)
(*                                                                         *)
(* The shifts are those of one planning week; what the optimizer is asked  *)
(* about them (H1 to H4) is reduced to who is qualified, which day a shift *)
(* is on and which two shifts are less than eleven hours apart.            *)
(***************************************************************************)
EXTENDS Naturals, FiniteSets

CONSTANTS
    Employees, Shifts, Days, Managers, Requests,
    Calls,           \* HTTP calls in progress at the same time
    Scope,           \* the employees in the units a manager manages
    Qualified,       \* pairs <<e, s>>: e has the qualification s asks for (H1)
    DayOf,           \* day of a shift
    Conflicts,       \* pairs {s, u} less than 11h apart (H2, H4)
    InitialHolders,  \* published schedules to start from
    InitialLeave,    \* days of approved leave to start from
    Bodies,          \* pairs <<shift, target shift>> of the create calls clients send
    Writers,         \* which other components write: "grafik", "leave"
    None             \* SQL NULL

ASSUME SwapConstants ==
    /\ None \notin Employees \cup Shifts \cup Managers \cup Requests
    /\ Scope \in [Managers -> SUBSET Employees]
    /\ DayOf \in [Shifts -> Days]
    /\ InitialHolders \subseteq [Shifts -> Employees]
    /\ InitialLeave \in [Employees -> SUBSET Days]

VARIABLES
    \* tenant database
    holder,      \* shift.employeeId
    leave,       \* days of APPROVED leave of an employee
    state,       \* shiftSwapRequest.state, "ABSENT" before the row exists
    requester, requesterShift, target, targetShift,   \* its other columns,
    decidedBy,   \*   decidedByManagerId
    audit,       \* shift_swap.approved rows of the audit log
    \* calls
    pc,          \* where a call is
    op,          \* what it does: "create" or an action of the machine
    on,          \* the request it is about
    who,         \* the caller
    rd,          \* the request's state it has loaded
    cShift,      \* create: the shift ids of the body,
    cTarget,
    cEmployee,   \*   and the holder read of the target shift
    \* history
    consent      \* who accepted the request as its peer

requestVars == <<requester, requesterShift, target, targetShift>>
localVars   == <<op, on, who, rd, cShift, cTarget, cEmployee>>
vars == <<holder, leave, state, requestVars, decidedBy, audit, pc, localVars, consent>>

Machine == INSTANCE SwapMachine

Points == {"idle", "readTarget", "insert", "load", "update", "checkTarget",
           "checkRequester", "commit"}

TypeOK ==
    /\ holder \in [Shifts -> Employees]
    /\ leave \in [Employees -> SUBSET Days]
    /\ state \in [Requests -> Machine!SwapState \cup {"ABSENT"}]
    /\ requester \in [Requests -> Employees \cup {None}]
    /\ requesterShift \in [Requests -> Shifts \cup {None}]
    /\ target \in [Requests -> Employees \cup {None}]
    /\ targetShift \in [Requests -> Shifts \cup {None}]
    /\ decidedBy \in [Requests -> Managers \cup {None}]
    /\ audit \in [Requests -> Nat]
    /\ pc \in [Calls -> Points]
    /\ op \in [Calls -> Machine!SwapAction \cup {"create"}]
    /\ on \in [Calls -> Requests \cup {None}]
    /\ who \in [Calls -> Employees \cup Managers \cup {None}]
    /\ rd \in [Calls -> Machine!SwapState \cup {"ABSENT"}]
    /\ cShift \in [Calls -> Shifts \cup {None}]
    /\ cTarget \in [Calls -> Shifts \cup {None}]
    /\ cEmployee \in [Calls -> Employees \cup {None}]
    /\ consent \in [Requests -> Employees \cup {None}]

-----------------------------------------------------------------------------
(* Feasibility: OptimizerSwapFeasibilityValidator and the solver's rules   *)

Held(e) == {s \in Shifts : holder[s] = e}

\* e can work all of S: the single-employee problem is not INFEASIBLE.
Workable(e, S) ==
    /\ \A s \in S : <<e, s>> \in Qualified /\ DayOf[s] \notin leave[e]
    /\ \A s, u \in S : s # u => {s, u} \notin Conflicts

Init ==
    /\ holder \in InitialHolders
    /\ leave = InitialLeave
    /\ \A e \in Employees : Workable(e, Held(e))
    /\ state = [r \in Requests |-> "ABSENT"]
    /\ requester = [r \in Requests |-> None]
    /\ requesterShift = [r \in Requests |-> None]
    /\ target = [r \in Requests |-> None]
    /\ targetShift = [r \in Requests |-> None]
    /\ decidedBy = [r \in Requests |-> None]
    /\ audit = [r \in Requests |-> 0]
    /\ pc = [c \in Calls |-> "idle"]
    /\ op = [c \in Calls |-> "create"]
    /\ on = [c \in Calls |-> None]
    /\ who = [c \in Calls |-> None]
    /\ rd = [c \in Calls |-> "ABSENT"]
    /\ cShift = [c \in Calls |-> None]
    /\ cTarget = [c \in Calls |-> None]
    /\ cEmployee = [c \in Calls |-> None]
    /\ consent = [r \in Requests |-> None]

-----------------------------------------------------------------------------
Goto(c, point) == pc' = [pc EXCEPT ![c] = point]

\* The call returns or throws: its locals are gone.
Return(c) ==
    /\ Goto(c, "idle")
    /\ op' = [op EXCEPT ![c] = "create"]
    /\ on' = [on EXCEPT ![c] = None]
    /\ who' = [who EXCEPT ![c] = None]
    /\ rd' = [rd EXCEPT ![c] = "ABSENT"]
    /\ cShift' = [cShift EXCEPT ![c] = None]
    /\ cTarget' = [cTarget EXCEPT ![c] = None]
    /\ cEmployee' = [cEmployee EXCEPT ![c] = None]

(* ShiftSwapService.create *)

\* The caller's employee and the requester shift, which must be theirs.  A
\* body without a target shift gives the shift away.
CreateReadShift(c, e, s, t) ==
    /\ pc[c] = "idle"
    /\ holder[s] = e
    /\ Goto(c, IF t = None THEN "insert" ELSE "readTarget")
    /\ op' = [op EXCEPT ![c] = "create"]
    /\ who' = [who EXCEPT ![c] = e]
    /\ cShift' = [cShift EXCEPT ![c] = s]
    /\ cTarget' = [cTarget EXCEPT ![c] = t]
    /\ UNCHANGED <<holder, leave, state, requestVars, decidedBy, audit, on, rd, cEmployee, consent>>

\* The target shift; a shift of the caller's own is refused (400).
CreateReadTarget(c) ==
    /\ pc[c] = "readTarget"
    /\ LET e == holder[cTarget[c]] IN
        \/ /\ e # who[c]
           /\ cEmployee' = [cEmployee EXCEPT ![c] = e]
           /\ Goto(c, "insert")
           /\ UNCHANGED <<op, on, who, rd, cShift, cTarget>>
        \/ /\ e = who[c]
           /\ Return(c)
    /\ UNCHANGED <<holder, leave, state, requestVars, decidedBy, audit, consent>>

CreateInsert(c, r) ==
    /\ pc[c] = "insert"
    /\ state[r] = "ABSENT"
    /\ state' = [state EXCEPT ![r] = "DRAFT"]
    /\ requester' = [requester EXCEPT ![r] = who[c]]
    /\ requesterShift' = [requesterShift EXCEPT ![r] = cShift[c]]
    /\ target' = [target EXCEPT ![r] = cEmployee[c]]
    /\ targetShift' = [targetShift EXCEPT ![r] = cTarget[c]]
    /\ Return(c)
    /\ UNCHANGED <<holder, leave, decidedBy, audit, consent>>

(* ShiftSwapController: authorise, then delegate *)

\* Variant: a manager of one party's unit decides for both.
AuthorisedOneSide(caller, r, action) ==
    \/ action \in {"submit", "submit_to_manager", "cancel"} /\ requester[r] = caller
    \/ action \in {"peer_accept", "peer_reject"} /\ target[r] = caller
    \/ /\ action \in {"manager_approve", "manager_reject"}
       /\ caller \in Managers
       /\ {requester[r], target[r]} \cap Scope[caller] # {}

\* assertRequester, assertTarget, assertManager (every affected unit).
Authorised(caller, r, action) ==
    \/ action \in {"submit", "submit_to_manager", "cancel"} /\ requester[r] = caller
    \/ action \in {"peer_accept", "peer_reject"} /\ target[r] = caller
    \/ /\ action \in {"manager_approve", "manager_reject"}
       /\ caller \in Managers
       /\ {requester[r], target[r]} \ {None} \subseteq Scope[caller]

\* A row's parties never change, so what the assertion reads cannot become stale.
Authorise(c, r, action, caller) ==
    /\ pc[c] = "idle"
    /\ state[r] # "ABSENT"
    /\ Authorised(caller, r, action)
    /\ Goto(c, "load")
    /\ op' = [op EXCEPT ![c] = action]
    /\ on' = [on EXCEPT ![c] = r]
    /\ who' = [who EXCEPT ![c] = caller]
    /\ UNCHANGED <<holder, leave, state, requestVars, decidedBy, audit, rd, cShift, cTarget,
                   cEmployee, consent>>

\* The load at the start of applyTransition and of approve: the action must be
\* legal, and an approval needs a counterparty.
Load(c) ==
    /\ pc[c] = "load"
    /\ LET r == on[c]
           legal == /\ \E to \in Machine!SwapState : Machine!NextState(state[r], op[c], to)
                    /\ op[c] = "manager_approve" => target[r] # None IN
        \/ /\ legal
           /\ rd' = [rd EXCEPT ![c] = state[r]]
           /\ Goto(c, IF op[c] = "manager_approve" THEN "checkTarget" ELSE "update")
           /\ UNCHANGED <<op, on, who, cShift, cTarget, cEmployee>>
        \/ /\ ~legal
           /\ Return(c)
    /\ UNCHANGED <<holder, leave, state, requestVars, decidedBy, audit, consent>>

(* applyTransition *)

\* Variant: update({ id }), without the state in the where.
UpdateUnguarded(c) ==
    /\ pc[c] = "update"
    /\ \E to \in Machine!SwapState :
        /\ Machine!NextState(rd[c], op[c], to)
        /\ state' = [state EXCEPT ![on[c]] = to]
    /\ decidedBy' = IF op[c] = "manager_reject"
                      THEN [decidedBy EXCEPT ![on[c]] = who[c]] ELSE decidedBy
    /\ consent' = IF op[c] = "peer_accept"
                    THEN [consent EXCEPT ![on[c]] = who[c]] ELSE consent
    /\ Return(c)
    /\ UNCHANGED <<holder, leave, requestVars, audit>>

\* Variant: every transition is stamped with its caller as the decider.
UpdateStampsCaller(c) ==
    /\ pc[c] = "update"
    /\ state[on[c]] = rd[c]
    /\ \E to \in Machine!SwapState :
        /\ Machine!NextState(rd[c], op[c], to)
        /\ state' = [state EXCEPT ![on[c]] = to]
    /\ decidedBy' = [decidedBy EXCEPT ![on[c]] = who[c]]
    /\ Return(c)
    /\ UNCHANGED <<holder, leave, requestVars, audit, consent>>

\* updateMany({ id, state: request.state }); count 0 is a 409 and no write.
Update(c) ==
    /\ pc[c] = "update"
    /\ LET r == on[c] IN
        \/ /\ state[r] = rd[c]
           /\ \E to \in Machine!SwapState :
                /\ Machine!NextState(rd[c], op[c], to)
                /\ state' = [state EXCEPT ![r] = to]
           /\ decidedBy' = IF op[c] = "manager_reject"
                             THEN [decidedBy EXCEPT ![r] = who[c]] ELSE decidedBy
           /\ consent' = IF op[c] = "peer_accept"
                           THEN [consent EXCEPT ![r] = who[c]] ELSE consent
        \/ /\ state[r] # rd[c]
           /\ UNCHANGED <<state, decidedBy, consent>>
    /\ Return(c)
    /\ UNCHANGED <<holder, leave, requestVars, audit>>

(* approve *)

\* The shifts of a party after the exchange: without the one given away and with
\* the one received.
TargetAfter(r) == (Held(target[r]) \ {targetShift[r]}) \cup {requesterShift[r]}
RequesterAfter(r) == (Held(requester[r]) \ {requesterShift[r]}) \cup {targetShift[r]}

\* checkEmployee, for the one and then for the other.
CheckTarget(c) ==
    /\ pc[c] = "checkTarget"
    /\ LET r == on[c] IN
        \/ /\ Workable(target[r], TargetAfter(r))
           /\ Goto(c, IF targetShift[r] = None THEN "commit" ELSE "checkRequester")
           /\ UNCHANGED localVars
        \/ /\ ~Workable(target[r], TargetAfter(r))
           /\ Return(c)
    /\ UNCHANGED <<holder, leave, state, requestVars, decidedBy, audit, consent>>

\* Variant: only the side that receives the requester's shift is checked.
CheckRequesterSkipped(c) ==
    /\ pc[c] = "checkRequester"
    /\ Goto(c, "commit")
    /\ UNCHANGED <<localVars, holder, leave, state, requestVars, decidedBy, audit, consent>>

CheckRequester(c) ==
    /\ pc[c] = "checkRequester"
    /\ LET r == on[c] IN
        \/ /\ Workable(requester[r], RequesterAfter(r))
           /\ Goto(c, "commit")
           /\ UNCHANGED localVars
        \/ /\ ~Workable(requester[r], RequesterAfter(r))
           /\ Return(c)
    /\ UNCHANGED <<holder, leave, state, requestVars, decidedBy, audit, consent>>

\* Who holds the shifts once the request's exchange is applied.
Exchanged(r) ==
    [s \in Shifts |-> IF s = targetShift[r] THEN requester[r]
                      ELSE IF s = requesterShift[r] THEN target[r]
                      ELSE holder[s]]

\* The transaction: both shifts, the guarded state, the audit row; if the
\* guard finds no row, all of it rolls back (409).
Commit(c) ==
    /\ pc[c] = "commit"
    /\ LET r == on[c] IN
        \/ /\ state[r] = "PENDING_MANAGER"
           /\ holder' = Exchanged(r)
           /\ state' = [state EXCEPT ![r] = "APPROVED"]
           /\ decidedBy' = [decidedBy EXCEPT ![r] = who[c]]
           /\ audit' = [audit EXCEPT ![r] = @ + 1]
        \/ /\ state[r] # "PENDING_MANAGER"
           /\ UNCHANGED <<holder, state, decidedBy, audit>>
    /\ Return(c)
    /\ UNCHANGED <<leave, requestVars, consent>>

-----------------------------------------------------------------------------
(* The rest of the tenant                                                  *)

\* An awaited call rejects (the optimizer is down or gives up, the pod dies).
CallFails(c) ==
    /\ pc[c] # "idle"
    /\ Return(c)
    /\ UNCHANGED <<holder, leave, state, requestVars, decidedBy, audit, consent>>

\* GrafikService.updateShift: a planner gives a shift to somebody else.
UpdateShift(s, e) ==
    /\ "grafik" \in Writers
    /\ holder' = [holder EXCEPT ![s] = e]
    /\ UNCHANGED <<leave, state, requestVars, decidedBy, audit, pc, localVars, consent>>

\* LeaveService.decide: the row turns APPROVED.
ApproveLeave(e, d) ==
    /\ "leave" \in Writers
    /\ leave' = [leave EXCEPT ![e] = @ \cup {d}]
    /\ UNCHANGED <<holder, state, requestVars, decidedBy, audit, pc, localVars, consent>>

Call(c) ==
    \/ \E e \in Employees, s \in Shifts, t \in Shifts \cup {None} :
            <<s, t>> \in Bodies /\ CreateReadShift(c, e, s, t)
    \/ CreateReadTarget(c)
    \/ \E r \in Requests : CreateInsert(c, r)
    \/ \E r \in Requests, action \in Machine!SwapAction, caller \in Employees \cup Managers :
          Authorise(c, r, action, caller)
    \/ Load(c)
    \/ Update(c)
    \/ CheckTarget(c)
    \/ CheckRequester(c)
    \/ Commit(c)
    \/ CallFails(c)

Next ==
    \/ \E c \in Calls : Call(c)
    \/ \E s \in Shifts, e \in Employees : UpdateShift(s, e)
    \/ \E e \in Employees, d \in Days : ApproveLeave(e, d)

Spec == Init /\ [][Next]_vars

-----------------------------------------------------------------------------
(* Properties                                                              *)

\* A request's row is complete as soon as it exists, names two different
\* people unless it gives the shift away, and no call is about a missing row.
RowsComplete ==
    \A r \in Requests :
        \/ /\ state[r] = "ABSENT"
           /\ audit[r] = 0
           /\ \A c \in Calls : on[c] # r
        \/ /\ state[r] # "ABSENT"
           /\ requester[r] \in Employees /\ requesterShift[r] \in Shifts
           /\ \/ target[r] = None /\ targetShift[r] = None
              \/ target[r] \in Employees \ {requester[r]} /\ targetShift[r] \in Shifts

\* Two decisions racing for one request, or a decision racing a cancel, move
\* its shifts at most once, and exactly when it ends APPROVED: the audit row
\* commits with the state, and a loser of the race rolls back.
AuditOnce ==
    \A r \in Requests : audit[r] = IF state[r] = "APPROVED" THEN 1 ELSE 0

\* Nobody is given somebody's shift by a swap they did not accept: from
\* PEER_AGREED on, the target itself has accepted.
ConsentFirst ==
    \A r \in Requests :
        state[r] \in {"PEER_AGREED", "PENDING_MANAGER", "APPROVED"} =>
            target[r] # None /\ consent[r] = target[r]

\* Whoever approved it manages both parties.
DecidedInScope ==
    \A r \in Requests :
        state[r] = "APPROVED" =>
            decidedBy[r] \in Managers /\ {requester[r], target[r]} \subseteq Scope[decidedBy[r]]

\* A request without a counterparty is a dead end: nobody can answer it, so
\* it never reaches a manager and only its cancellation ends it.
GiveAwayOnlyCancelled ==
    \A r \in Requests :
        target[r] = None => state[r] \in {"ABSENT", "DRAFT", "PENDING_PEER", "CANCELLED"}

\* What a call in progress has established.
CallEarned(c) ==
    LET r == on[c] IN
    /\ pc[c] \in {"readTarget", "insert"} => who[c] \in Employees /\ cShift[c] \in Shifts
    /\ pc[c] = "readTarget" => cTarget[c] \in Shifts
    /\ pc[c] = "insert" =>
         \/ cTarget[c] = None /\ cEmployee[c] = None
         \/ cTarget[c] \in Shifts /\ cEmployee[c] \in Employees \ {who[c]}
    /\ pc[c] \in {"idle", "readTarget"} => cEmployee[c] = None
    /\ pc[c] \in {"load", "update", "checkTarget", "checkRequester", "commit"} =>
         r \in Requests /\ who[c] # None /\ Authorised(who[c], r, op[c])
    /\ pc[c] = "update" => op[c] # "manager_approve"
    /\ pc[c] \in {"checkTarget", "checkRequester", "commit"} =>
         op[c] = "manager_approve" /\ target[r] # None

\* The invariant the others follow from.
SwapInv ==
    /\ RowsComplete
    /\ AuditOnce
    /\ ConsentFirst
    /\ DecidedInScope
    /\ GiveAwayOnlyCancelled
    /\ \A c \in Calls : CallEarned(c)

\* Whatever calls race, every request follows the transition table of
\* swap-state-machine.ts, a terminal state is final, and the audit row is
\* written with the approval.
ImplementsMachine == Machine!Spec

\* validator:49 "so a swap that would break the hard rules H1-H4 ... never
\* lands": everybody can work the shifts they hold.
ScheduleWorkable == \A e \in Employees : Workable(e, Held(e))

\* One call at a time, and neither planner nor leave writes between its steps.
Sequential == Writers = {} /\ \A c, d \in Calls : c = d

\* Why ScheduleWorkable holds then: what approve has found out of the two parties
\* is still so when its transaction commits.
FeasibilityInv ==
    /\ ScheduleWorkable
    /\ \A c \in Calls :
         /\ pc[c] \in {"checkRequester", "commit"} => Workable(target[on[c]], TargetAfter(on[c]))
         /\ pc[c] = "commit" => Workable(requester[on[c]], RequesterAfter(on[c]))
=============================================================================
