-------------------------- MODULE ShiftSwapProofs --------------------------
(***************************************************************************)
(* ShiftSwap for every set of employees, shifts, requests, managers and    *)
(* concurrent calls, and with any other component writing shifts and       *)
(* leave: type correctness, the invariant of the request rows and of the   *)
(* calls in progress, and that the service implements SwapMachine.         *)
(*                                                                         *)
(* The types are not inductive by themselves (a create writes the ids its  *)
(* call has collected, a rejection its caller): they are proved together   *)
(* with SwapInv.                                                           *)
(***************************************************************************)
EXTENDS ShiftSwap, TLAPS

USE SwapConstants DEF Machine!SwapState, Machine!SwapAction

\* A call that returns leaves well-typed locals behind.
LEMMA ReturnType ==
  ASSUME TypeOK, NEW c \in Calls, Return(c)
  PROVE  /\ pc' \in [Calls -> Points]
         /\ op' \in [Calls -> Machine!SwapAction \cup {"create"}]
         /\ on' \in [Calls -> Requests \cup {None}]
         /\ who' \in [Calls -> Employees \cup Managers \cup {None}]
         /\ rd' \in [Calls -> Machine!SwapState \cup {"ABSENT"}]
         /\ cShift' \in [Calls -> Shifts \cup {None}]
         /\ cTarget' \in [Calls -> Shifts \cup {None}]
         /\ cEmployee' \in [Calls -> Employees \cup {None}]
  BY DEF TypeOK, Return, Goto, Points

\* The checks and the load keep the types: they write only the call's own locals.
LEMMA LocalsType ==
  ASSUME TypeOK, SwapInv, NEW c \in Calls,
         CreateReadTarget(c) \/ Load(c) \/ CheckTarget(c) \/ CheckRequester(c) \/ CallFails(c)
  PROVE  TypeOK'
  <1>1. CASE Return(c)
    BY <1>1, ReturnType
       DEF TypeOK, CreateReadTarget, Load, CheckTarget, CheckRequester, CallFails, requestVars
  <1>2. CASE CreateReadTarget(c) /\ ~Return(c)
    <2>1. cTarget[c] \in Shifts
      BY <1>2 DEF SwapInv, CallEarned, CreateReadTarget
    <2> QED
      BY <1>2, <2>1 DEF TypeOK, CreateReadTarget, requestVars, Goto, Points
  <1>3. CASE Load(c) /\ ~Return(c)
    <2>1. on[c] \in Requests
      BY <1>3 DEF SwapInv, CallEarned, Load
    <2> QED
      BY <1>3, <2>1 DEF TypeOK, Load, requestVars, Goto, Points
  <1>4. CASE CheckTarget(c) /\ ~Return(c)
    BY <1>4 DEF TypeOK, CheckTarget, requestVars, localVars, Goto, Points
  <1>5. CASE CheckRequester(c) /\ ~Return(c)
    BY <1>5 DEF TypeOK, CheckRequester, requestVars, localVars, Goto, Points
  <1> QED
    BY <1>1, <1>2, <1>3, <1>4, <1>5 DEF CallFails

\* A create remembers the ids of its body.
LEMMA CreateReadShiftType ==
  ASSUME TypeOK, NEW c \in Calls, NEW e \in Employees, NEW s \in Shifts,
         NEW t \in Shifts \cup {None}, CreateReadShift(c, e, s, t)
  PROVE  TypeOK'
  BY DEF TypeOK, CreateReadShift, requestVars, Goto, Points

\* The new row gets ids the call has read.
LEMMA CreateInsertType ==
  ASSUME TypeOK, SwapInv, NEW c \in Calls, NEW r \in Requests, CreateInsert(c, r)
  PROVE  TypeOK'
  <1>1. who[c] \in Employees /\ cShift[c] \in Shifts
    BY DEF SwapInv, CallEarned, CreateInsert
  <1> QED
    BY <1>1, ReturnType DEF TypeOK, CreateInsert

\* An authorised call remembers what it is about.
LEMMA AuthoriseType ==
  ASSUME TypeOK, NEW c \in Calls, NEW r \in Requests, NEW action \in Machine!SwapAction,
         NEW caller \in Employees \cup Managers, Authorise(c, r, action, caller)
  PROVE  TypeOK'
  BY DEF TypeOK, Authorise, requestVars, Goto, Points

\* What is known of a call that is about to write.
LEMMA WriterKnown ==
  ASSUME TypeOK, SwapInv, NEW c \in Calls, pc[c] \in {"update", "commit"}
  PROVE  /\ on[c] \in Requests
         /\ who[c] # None
         /\ Authorised(who[c], on[c], op[c])
         /\ state[on[c]] # "ABSENT"
         /\ pc[c] = "update" => op[c] # "manager_approve"
         /\ pc[c] = "commit" => op[c] = "manager_approve" /\ target[on[c]] # None
         /\ op[c] \in {"manager_approve", "manager_reject"} => who[c] \in Managers
         /\ op[c] \in {"peer_accept", "peer_reject"} => who[c] = target[on[c]]
  <1>1. on[c] \in Requests /\ who[c] # None /\ Authorised(who[c], on[c], op[c])
    BY DEF SwapInv, CallEarned
  <1>2. state[on[c]] # "ABSENT"
    BY <1>1 DEF SwapInv, RowsComplete
  <1>3. /\ pc[c] = "update" => op[c] # "manager_approve"
        /\ pc[c] = "commit" => op[c] = "manager_approve" /\ target[on[c]] # None
    BY DEF SwapInv, CallEarned
  <1> QED
    BY <1>1, <1>2, <1>3 DEF Authorised

\* A transition writes a state, and a manager as the decider.
LEMMA UpdateType ==
  ASSUME TypeOK, SwapInv, NEW c \in Calls, Update(c)
  PROVE  TypeOK'
  <1>1. /\ on[c] \in Requests
        /\ op[c] = "manager_reject" => who[c] \in Managers
        /\ op[c] = "peer_accept" => who[c] = target[on[c]]
    BY WriterKnown DEF Update
  <1>2. state' \in [Requests -> Machine!SwapState \cup {"ABSENT"}]
    BY <1>1 DEF TypeOK, Update
  <1>3. decidedBy' \in [Requests -> Managers \cup {None}]
    BY <1>1 DEF TypeOK, Update
  <1>4. consent' \in [Requests -> Employees \cup {None}]
    <2>1. op[c] = "peer_accept" => who[c] \in Employees \cup {None}
      BY <1>1 DEF TypeOK
    <2> QED
      BY <1>1, <2>1 DEF TypeOK, Update
  <1>5. Return(c) /\ UNCHANGED <<holder, leave, requestVars, audit>>
    BY DEF Update
  <1> QED
    BY <1>2, <1>3, <1>4, <1>5, ReturnType DEF TypeOK, requestVars

\* An approval writes the two parties as holders.
LEMMA CommitType ==
  ASSUME TypeOK, SwapInv, NEW c \in Calls, Commit(c)
  PROVE  TypeOK'
  <1>1. /\ on[c] \in Requests /\ who[c] \in Managers
        /\ state[on[c]] # "ABSENT" /\ target[on[c]] # None
    BY WriterKnown DEF Commit
  <1>2. requester[on[c]] \in Employees /\ target[on[c]] \in Employees
    BY <1>1 DEF SwapInv, RowsComplete
  <1>3. holder' \in [Shifts -> Employees]
    <2>1. Exchanged(on[c]) \in [Shifts -> Employees]
      BY <1>2 DEF TypeOK, Exchanged
    <2>2. holder' = Exchanged(on[c]) \/ holder' = holder
      BY DEF Commit
    <2> QED
      BY <2>1, <2>2 DEF TypeOK
  <1>4. /\ state' \in [Requests -> Machine!SwapState \cup {"ABSENT"}]
        /\ decidedBy' \in [Requests -> Managers \cup {None}]
        /\ audit' \in [Requests -> Nat]
    BY <1>1 DEF TypeOK, Commit
  <1>5. Return(c) /\ UNCHANGED <<leave, requestVars, consent>>
    BY DEF Commit
  <1> QED
    BY <1>3, <1>4, <1>5, ReturnType DEF TypeOK, requestVars

\* The planner and the leave component write values of the right types.
LEMMA OthersType ==
  ASSUME TypeOK,
         \/ \E s \in Shifts, e \in Employees : UpdateShift(s, e)
         \/ \E e \in Employees, d \in Days : ApproveLeave(e, d)
         \/ UNCHANGED vars
  PROVE  TypeOK'
  <1>1. CASE \E s \in Shifts, e \in Employees : UpdateShift(s, e)
    BY <1>1 DEF TypeOK, UpdateShift, requestVars, localVars
  <1>2. CASE \E e \in Employees, d \in Days : ApproveLeave(e, d)
    BY <1>2 DEF TypeOK, ApproveLeave, requestVars, localVars
  <1>3. CASE UNCHANGED vars
    BY <1>3 DEF TypeOK, vars, requestVars, localVars
  <1> QED
    BY <1>1, <1>2, <1>3

\* The first step of a create call, as Call allows it.
Creating(c) ==
    \E e \in Employees, s \in Shifts, t \in Shifts \cup {None} :
        <<s, t>> \in Bodies /\ CreateReadShift(c, e, s, t)

\* Every step keeps the types.
LEMMA NextType == TypeOK /\ SwapInv /\ [Next]_vars => TypeOK'
  <1> SUFFICES ASSUME TypeOK, SwapInv, [Next]_vars PROVE TypeOK'
    OBVIOUS
  <1>1. CASE \E c \in Calls : Call(c)
    <2>1. PICK c \in Calls : Call(c)
      BY <1>1
    <2>2. CASE Creating(c)
      BY <2>2, CreateReadShiftType DEF Creating
    <2>3. CASE ~Creating(c)
      BY <2>1, <2>3, LocalsType, CreateInsertType, AuthoriseType, UpdateType, CommitType
         DEF Call, Creating
    <2> QED
      BY <2>2, <2>3
  <1>2. CASE ~\E c \in Calls : Call(c)
    BY <1>2, OthersType DEF Next
  <1> QED
    BY <1>1, <1>2

-----------------------------------------------------------------------------
(* The invariant                                                           *)

\* The call d does not move.
SameCall(d) ==
    /\ pc'[d] = pc[d] /\ op'[d] = op[d] /\ on'[d] = on[d] /\ who'[d] = who[d]
    /\ cShift'[d] = cShift[d] /\ cTarget'[d] = cTarget[d] /\ cEmployee'[d] = cEmployee[d]

\* The parties of an existing request stay.
PartiesKept ==
    \A r \in Requests : state[r] # "ABSENT" =>
        requester'[r] = requester[r] /\ target'[r] = target[r]

\* The part of SwapInv that is about the rows.
RowsInv == RowsComplete /\ AuditOnce /\ ConsentFirst /\ DecidedInScope /\ GiveAwayOnlyCancelled

\* The facts of the transition table the invariant needs of the six actions
\* that go through applyTransition.
LEMMA TransitionTable ==
  ASSUME NEW from, NEW action, NEW to,
         Machine!NextState(from, action, to), action # "manager_approve"
  PROVE  /\ from \notin {"ABSENT", "APPROVED"} /\ to \notin {"ABSENT", "APPROVED"}
         /\ to = "PEER_AGREED" => action = "peer_accept"
         /\ to = "PENDING_MANAGER" => from = "PEER_AGREED" /\ action = "submit_to_manager"
         /\ to = "REJECTED" => action = "peer_reject" \/ from = "PENDING_MANAGER"
         /\ action = "peer_accept" => to = "PEER_AGREED"
  BY DEF Machine!NextState, Machine!TRANSITIONS

\* Whatever a call established stays true while other calls move.
LEMMA StillEarned ==
  ASSUME TypeOK, SwapInv, PartiesKept, NEW d \in Calls, SameCall(d)
  PROVE  CallEarned(d)'
  <1>1. CallEarned(d)
    BY DEF SwapInv
  <1>2. on[d] \in Requests => requester'[on[d]] = requester[on[d]] /\ target'[on[d]] = target[on[d]]
    BY DEF SwapInv, RowsComplete, PartiesKept
  <1> QED
    BY <1>1, <1>2 DEF CallEarned, SameCall, Authorised

\* A call that is over relies on nothing.
LEMMA ReturnEarned ==
  ASSUME TypeOK, NEW c \in Calls, Return(c)
  PROVE  CallEarned(c)'
  <1>1. pc'[c] = "idle" /\ cEmployee'[c] = None
    BY DEF TypeOK, Return, Goto
  <1> QED
    BY <1>1 DEF CallEarned

\* A call that returns disturbs no other call.
LEMMA ReturnMovesOne ==
  ASSUME TypeOK, NEW c \in Calls, Return(c)
  PROVE  /\ \A d \in Calls \ {c} : SameCall(d)
         /\ on'[c] = None
  BY DEF TypeOK, Return, Goto, SameCall

\* One call moves, and has earned what it needs where it goes.
LEMMA CallsEarned ==
  ASSUME TypeOK, SwapInv, PartiesKept, NEW c \in Calls,
         \A d \in Calls \ {c} : SameCall(d), CallEarned(c)'
  PROVE  \A d \in Calls : CallEarned(d)'
  BY StillEarned

\* A step that leaves the rows alone, and starts no call about a missing one.
LEMMA RowsKept ==
  ASSUME TypeOK, SwapInv, UNCHANGED <<state, requestVars, decidedBy, audit, consent>>,
         \A d \in Calls : on'[d] \in {on[d], None} \/ state[on'[d]] # "ABSENT"
  PROVE  RowsInv' /\ PartiesKept
  <1>1. RowsComplete'
    BY DEF SwapInv, RowsComplete, requestVars
  <1>2. AuditOnce' /\ ConsentFirst' /\ DecidedInScope' /\ GiveAwayOnlyCancelled'
    BY DEF SwapInv, AuditOnce, ConsentFirst, DecidedInScope, GiveAwayOnlyCancelled, requestVars
  <1> QED
    BY <1>1, <1>2 DEF RowsInv, PartiesKept, requestVars

\* SwapInv is its part about rows and its part about calls.
LEMMA SwapInvFrom ==
  ASSUME RowsInv', \A d \in Calls : CallEarned(d)'
  PROVE  SwapInv'
  BY DEF RowsInv, SwapInv

\* A call returns, or throws, without writing.
LEMMA QuitInv ==
  ASSUME TypeOK, SwapInv, NEW c \in Calls, Return(c),
         UNCHANGED <<state, requestVars, decidedBy, audit, consent>>
  PROVE  SwapInv'
  <1>1. \A d \in Calls : on'[d] \in {on[d], None}
    BY ReturnMovesOne DEF SameCall
  <1>2. RowsInv' /\ PartiesKept
    BY <1>1, RowsKept
  <1> QED
    BY <1>2, ReturnMovesOne, ReturnEarned, CallsEarned, SwapInvFrom

\* A call reads, and goes on.
LEMMA ReadInv ==
  ASSUME TypeOK, SwapInv, NEW c \in Calls, \A d \in Calls \ {c} : SameCall(d), CallEarned(c)',
         UNCHANGED <<state, requestVars, decidedBy, audit, consent>>,
         on'[c] = on[c] \/ state[on'[c]] # "ABSENT"
  PROVE  SwapInv'
  <1>1. \A d \in Calls : on'[d] \in {on[d], None} \/ state[on'[d]] # "ABSENT"
    BY DEF SameCall
  <1>2. RowsInv' /\ PartiesKept
    BY <1>1, RowsKept
  <1> QED
    BY <1>2, CallsEarned, SwapInvFrom

\* A create starts with its caller and the caller's shift.
LEMMA CreateReadShiftInv ==
  ASSUME TypeOK, SwapInv, NEW c \in Calls, NEW e \in Employees, NEW s \in Shifts,
         NEW t \in Shifts \cup {None}, CreateReadShift(c, e, s, t)
  PROVE  SwapInv'
  <1>1. \A d \in Calls \ {c} : SameCall(d)
    BY DEF TypeOK, CreateReadShift, Goto, SameCall
  <1>2. CallEarned(c)'
    <2>1. /\ pc'[c] = IF t = None THEN "insert" ELSE "readTarget"
          /\ who'[c] = e /\ cShift'[c] = s /\ cTarget'[c] = t /\ cEmployee'[c] = cEmployee[c]
      BY DEF TypeOK, CreateReadShift, Goto
    <2>2. cEmployee[c] = None
      BY DEF CreateReadShift, SwapInv, CallEarned
    <2> QED
      BY <2>1, <2>2 DEF CallEarned
  <1> QED
    BY <1>1, <1>2, ReadInv DEF CreateReadShift

\* A create goes on with a target that is somebody else.
LEMMA CreateReadTargetInv ==
  ASSUME TypeOK, SwapInv, NEW c \in Calls, CreateReadTarget(c)
  PROVE  SwapInv'
  <1>1. CASE Return(c)
    BY <1>1, QuitInv DEF CreateReadTarget
  <1>2. CASE ~Return(c)
    <2>1. \A d \in Calls \ {c} : SameCall(d)
      BY <1>2 DEF TypeOK, CreateReadTarget, Goto, SameCall
    <2>2. CallEarned(c)'
      <3>1. /\ who[c] \in Employees /\ cShift[c] \in Shifts /\ cTarget[c] \in Shifts
            /\ pc[c] = "readTarget"
        BY DEF CreateReadTarget, SwapInv, CallEarned
      <3>2. /\ pc'[c] = "insert" /\ cEmployee'[c] = holder[cTarget[c]]
            /\ holder[cTarget[c]] # who[c]
            /\ who'[c] = who[c] /\ cShift'[c] = cShift[c] /\ cTarget'[c] = cTarget[c]
        BY <1>2 DEF TypeOK, CreateReadTarget, Goto
      <3> QED
        BY <3>1, <3>2 DEF TypeOK, CallEarned
    <2> QED
      BY <1>2, <2>1, <2>2, ReadInv DEF CreateReadTarget
  <1> QED
    BY <1>1, <1>2

\* The new row is complete: the call has collected every column.
LEMMA CreateInsertInv ==
  ASSUME TypeOK, SwapInv, NEW c \in Calls, NEW r \in Requests, CreateInsert(c, r)
  PROVE  SwapInv'
  <1>1. /\ who[c] \in Employees /\ cShift[c] \in Shifts
        /\ \/ cTarget[c] = None /\ cEmployee[c] = None
           \/ cTarget[c] \in Shifts /\ cEmployee[c] \in Employees \ {who[c]}
    BY DEF CreateInsert, SwapInv, CallEarned
  <1>2. /\ state'[r] = "DRAFT" /\ requester'[r] = who[c] /\ requesterShift'[r] = cShift[c]
        /\ target'[r] = cEmployee[c] /\ targetShift'[r] = cTarget[c]
    BY DEF TypeOK, CreateInsert
  <1>3. \A q \in Requests \ {r} :
          /\ state'[q] = state[q] /\ requester'[q] = requester[q] /\ target'[q] = target[q]
          /\ requesterShift'[q] = requesterShift[q] /\ targetShift'[q] = targetShift[q]
    BY DEF TypeOK, CreateInsert
  <1>4. state[r] = "ABSENT" /\ UNCHANGED <<decidedBy, audit, consent>> /\ Return(c)
    BY DEF CreateInsert
  <1>5. RowsComplete'
    <2>1. \A d \in Calls : on'[d] \in {on[d], None}
      BY <1>4, ReturnMovesOne DEF SameCall
    <2>2. \A q \in Requests \ {r} : state[q] = "ABSENT" => \A d \in Calls : on'[d] # q
      BY <2>1 DEF SwapInv, RowsComplete
    <2> QED
      BY <1>1, <1>2, <1>3, <1>4, <2>2 DEF SwapInv, RowsComplete
  <1>6. AuditOnce' /\ ConsentFirst'
    BY <1>2, <1>3, <1>4 DEF SwapInv, AuditOnce, ConsentFirst
  <1>7. DecidedInScope' /\ GiveAwayOnlyCancelled'
    <2>1. ASSUME NEW q \in Requests, state'[q] = "APPROVED"
          PROVE  /\ decidedBy'[q] \in Managers
                 /\ {requester'[q], target'[q]} \subseteq Scope[decidedBy'[q]]
      <3>1. q # r
        BY <1>2, <2>1
      <3>2. /\ decidedBy[q] \in Managers
            /\ {requester[q], target[q]} \subseteq Scope[decidedBy[q]]
        BY <1>3, <2>1, <3>1 DEF SwapInv, DecidedInScope
      <3> QED
        BY <1>3, <1>4, <3>1, <3>2
    <2>2. GiveAwayOnlyCancelled'
      BY <1>2, <1>3 DEF SwapInv, GiveAwayOnlyCancelled
    <2> QED
      BY <2>1, <2>2 DEF DecidedInScope
  <1>8. PartiesKept
    BY <1>3, <1>4 DEF PartiesKept
  <1> QED
    BY <1>4, <1>5, <1>6, <1>7, <1>8, ReturnMovesOne, ReturnEarned, CallsEarned, SwapInvFrom
       DEF RowsInv

\* A call is authorised against a row whose parties stay.
LEMMA AuthoriseInv ==
  ASSUME TypeOK, SwapInv, NEW c \in Calls, NEW r \in Requests, NEW action \in Machine!SwapAction,
         NEW caller \in Employees \cup Managers, Authorise(c, r, action, caller)
  PROVE  SwapInv'
  <1>1. \A d \in Calls \ {c} : SameCall(d)
    BY DEF TypeOK, Authorise, Goto, SameCall
  <1>2. pc'[c] = "load" /\ op'[c] = action /\ on'[c] = r /\ who'[c] = caller
    BY DEF TypeOK, Authorise, Goto
  <1>3. Authorised(caller, r, action)' /\ state[r] # "ABSENT"
    BY DEF Authorise, Authorised, requestVars
  <1>4. CallEarned(c)'
    BY <1>2, <1>3 DEF CallEarned, Authorised
  <1> QED
    BY <1>1, <1>2, <1>3, <1>4, ReadInv DEF Authorise

\* The load and the two checks: on success the call keeps what authorised it.
LEMMA LoadInv ==
  ASSUME TypeOK, SwapInv, NEW c \in Calls, Load(c) \/ CheckTarget(c) \/ CheckRequester(c)
  PROVE  SwapInv'
  <1>1. CASE Return(c)
    BY <1>1, QuitInv DEF Load, CheckTarget, CheckRequester
  <1>2. CASE ~Return(c)
    <2>1. \A d \in Calls \ {c} : SameCall(d)
      BY <1>2 DEF TypeOK, Load, CheckTarget, CheckRequester, localVars, Goto, SameCall
    <2>2. /\ op'[c] = op[c] /\ on'[c] = on[c] /\ who'[c] = who[c]
          /\ UNCHANGED <<state, requestVars, decidedBy, audit, consent>>
      BY <1>2 DEF Load, CheckTarget, CheckRequester, localVars
    <2>3. on[c] \in Requests /\ who[c] # None /\ Authorised(who[c], on[c], op[c])
      BY DEF Load, CheckTarget, CheckRequester, SwapInv, CallEarned
    <2>4. /\ pc'[c] \in {"update", "checkTarget", "checkRequester", "commit"}
          /\ pc'[c] = "update" => op[c] # "manager_approve"
          /\ pc'[c] # "update" => op[c] = "manager_approve" /\ target[on[c]] # None
      <3>1. CASE Load(c)
        BY <1>2, <3>1 DEF TypeOK, Load, Goto
      <3>2. CASE CheckTarget(c) \/ CheckRequester(c)
        BY <1>2, <3>2 DEF TypeOK, CheckTarget, CheckRequester, Goto, SwapInv, CallEarned
      <3> QED
        BY <3>1, <3>2
    <2>5. CallEarned(c)'
      BY <2>2, <2>3, <2>4 DEF CallEarned, Authorised, requestVars
    <2> QED
      BY <2>1, <2>2, <2>5, ReadInv
  <1> QED
    BY <1>1, <1>2

\* The guarded update: only the request the call is about moves, one row of
\* the table; an acceptance is the target's own.
LEMMA UpdateInv ==
  ASSUME TypeOK, SwapInv, NEW c \in Calls, Update(c)
  PROVE  SwapInv'
  <1>0. Return(c) /\ UNCHANGED <<requestVars, audit>>
    BY DEF Update
  <1>1. CASE UNCHANGED <<state, decidedBy, consent>>
    BY <1>0, <1>1, QuitInv
  <1>2. CASE ~UNCHANGED <<state, decidedBy, consent>>
    <2> DEFINE r == on[c]
    <2>1. /\ r \in Requests /\ who[c] # None /\ state[r] # "ABSENT"
          /\ op[c] # "manager_approve"
          /\ op[c] \in {"peer_accept", "peer_reject"} => who[c] = target[r]
      BY WriterKnown DEF Update
    <2>2. PICK to \in Machine!SwapState :
             /\ Machine!NextState(state[r], op[c], to)
             /\ state' = [state EXCEPT ![r] = to]
      BY <1>2 DEF Update
    <2>3. /\ decidedBy' = IF op[c] = "manager_reject"
                            THEN [decidedBy EXCEPT ![r] = who[c]] ELSE decidedBy
          /\ consent' = IF op[c] = "peer_accept"
                          THEN [consent EXCEPT ![r] = who[c]] ELSE consent
      BY <1>2 DEF Update
    <2>4. /\ state[r] \notin {"ABSENT", "APPROVED"} /\ to \notin {"ABSENT", "APPROVED"}
          /\ to = "PEER_AGREED" => op[c] = "peer_accept"
          /\ to = "PENDING_MANAGER" => state[r] = "PEER_AGREED" /\ op[c] = "submit_to_manager"
          /\ to = "REJECTED" => op[c] = "peer_reject" \/ state[r] = "PENDING_MANAGER"
          /\ op[c] = "peer_accept" => to = "PEER_AGREED"
      BY <2>1, <2>2, TransitionTable
    <2>5. state'[r] = to /\ \A q \in Requests \ {r} : state'[q] = state[q]
      BY <2>1, <2>2 DEF TypeOK
    <2>6. \A q \in Requests \ {r} : decidedBy'[q] = decidedBy[q] /\ consent'[q] = consent[q]
      BY <2>3 DEF TypeOK
    <2> HIDE DEF r
    <2>7. RowsComplete'
      <3>1. \A d \in Calls : on'[d] \in {on[d], None}
        BY <1>0, ReturnMovesOne DEF SameCall
      <3>2. \A q \in Requests : state[q] = "ABSENT" => \A d \in Calls : on'[d] # q
        BY <3>1 DEF SwapInv, RowsComplete
      <3> QED
        BY <1>0, <2>1, <2>4, <2>5, <3>2 DEF SwapInv, RowsComplete, requestVars
    <2>8. AuditOnce'
      BY <1>0, <2>1, <2>4, <2>5 DEF SwapInv, AuditOnce
    <2>9. ConsentFirst'
      <3>1. state'[r] \in {"PEER_AGREED", "PENDING_MANAGER", "APPROVED"}
              => target'[r] # None /\ consent'[r] = target'[r]
        <4>1. CASE to = "PEER_AGREED"
          <5>1. op[c] = "peer_accept" /\ who[c] = target[r]
            BY <4>1, <2>1, <2>4
          <5>2. consent'[r] = who[c]
            BY <5>1, <2>1, <2>3 DEF TypeOK
          <5> QED
            BY <1>0, <2>1, <5>1, <5>2 DEF requestVars
        <4>2. CASE to = "PENDING_MANAGER"
          <5>1. state[r] = "PEER_AGREED" /\ consent' = consent
            BY <4>2, <2>3, <2>4
          <5> QED
            BY <1>0, <2>1, <5>1 DEF requestVars, SwapInv, ConsentFirst
        <4> QED
          BY <4>1, <4>2, <2>4, <2>5
      <3>2. \A q \in Requests \ {r} :
              state'[q] \in {"PEER_AGREED", "PENDING_MANAGER", "APPROVED"}
                => target'[q] # None /\ consent'[q] = target'[q]
        BY <1>0, <2>5, <2>6 DEF requestVars, SwapInv, ConsentFirst
      <3> QED
        BY <3>1, <3>2 DEF ConsentFirst
    <2>10. DecidedInScope'
      <3>1. ASSUME NEW q \in Requests, state'[q] = "APPROVED"
            PROVE  /\ decidedBy'[q] \in Managers
                   /\ {requester'[q], target'[q]} \subseteq Scope[decidedBy'[q]]
        <4>1. q # r
          BY <3>1, <2>4, <2>5
        <4>2. /\ decidedBy[q] \in Managers
              /\ {requester[q], target[q]} \subseteq Scope[decidedBy[q]]
          BY <3>1, <4>1, <2>5 DEF SwapInv, DecidedInScope
        <4> QED
          BY <1>0, <4>1, <4>2, <2>6 DEF requestVars
      <3> QED
        BY <3>1 DEF DecidedInScope
    <2>11. GiveAwayOnlyCancelled'
      <3>1. target[r] = None => to \in {"DRAFT", "PENDING_PEER", "CANCELLED"}
        <4>1. target[r] = None => state[r] # "PENDING_MANAGER" /\ state[r] # "PEER_AGREED"
          BY <2>1 DEF SwapInv, GiveAwayOnlyCancelled
        <4> QED
          BY <4>1, <2>1, <2>4
      <3> QED
        BY <1>0, <2>1, <2>5, <3>1 DEF SwapInv, GiveAwayOnlyCancelled, requestVars
    <2>12. PartiesKept
      BY <1>0 DEF PartiesKept, requestVars
    <2> QED
      BY <1>0, <2>7, <2>8, <2>9, <2>10, <2>11, <2>12, ReturnMovesOne, ReturnEarned, CallsEarned,
         SwapInvFrom DEF RowsInv
  <1> QED
    BY <1>1, <1>2

\* The approving transaction: it only moves a PENDING_MANAGER request, whose
\* audit count is still 0, and its caller manages both parties.
LEMMA CommitInv ==
  ASSUME TypeOK, SwapInv, NEW c \in Calls, Commit(c)
  PROVE  SwapInv'
  <1>0. Return(c) /\ UNCHANGED <<requestVars, consent>>
    BY DEF Commit
  <1>1. CASE UNCHANGED <<state, decidedBy, audit>>
    BY <1>0, <1>1, QuitInv
  <1>2. CASE ~UNCHANGED <<state, decidedBy, audit>>
    <2> DEFINE r == on[c]
    <2>1. /\ r \in Requests /\ who[c] # None /\ Authorised(who[c], r, op[c])
          /\ op[c] = "manager_approve" /\ target[r] # None /\ who[c] \in Managers
      BY WriterKnown DEF Commit
    <2>2. /\ state[r] = "PENDING_MANAGER"
          /\ state' = [state EXCEPT ![r] = "APPROVED"]
          /\ decidedBy' = [decidedBy EXCEPT ![r] = who[c]]
          /\ audit' = [audit EXCEPT ![r] = @ + 1]
      BY <1>2 DEF Commit
    <2>3. state'[r] = "APPROVED" /\ decidedBy'[r] = who[c] /\ audit'[r] = audit[r] + 1
      BY <2>1, <2>2 DEF TypeOK
    <2>4. \A q \in Requests \ {r} :
            state'[q] = state[q] /\ decidedBy'[q] = decidedBy[q] /\ audit'[q] = audit[q]
      BY <2>2 DEF TypeOK
    <2> HIDE DEF r
    <2>5. RowsComplete'
      <3>1. \A d \in Calls : on'[d] \in {on[d], None}
        BY <1>0, ReturnMovesOne DEF SameCall
      <3>2. \A q \in Requests : state[q] = "ABSENT" => \A d \in Calls : on'[d] # q
        BY <3>1 DEF SwapInv, RowsComplete
      <3> QED
        BY <1>0, <2>1, <2>2, <2>3, <2>4, <3>2 DEF SwapInv, RowsComplete, requestVars
    <2>6. AuditOnce'
      <3>1. audit[r] = 0
        BY <2>1, <2>2 DEF SwapInv, AuditOnce
      <3> QED
        BY <2>3, <2>4, <3>1 DEF SwapInv, AuditOnce
    <2>7. ConsentFirst'
      BY <1>0, <2>1, <2>2, <2>3, <2>4 DEF SwapInv, ConsentFirst, requestVars
    <2>8. DecidedInScope'
      <3>1. requester[r] # None
        BY <2>1, <2>2 DEF SwapInv, RowsComplete
      <3>2. {requester[r], target[r]} \subseteq Scope[who[c]]
        BY <2>1, <3>1 DEF Authorised
      <3>3. ASSUME NEW q \in Requests, state'[q] = "APPROVED"
            PROVE  /\ decidedBy'[q] \in Managers
                   /\ {requester'[q], target'[q]} \subseteq Scope[decidedBy'[q]]
        <4>1. CASE q = r
          BY <4>1, <1>0, <2>1, <2>3, <3>2 DEF requestVars
        <4>2. CASE q # r
          <5>1. /\ decidedBy[q] \in Managers
                /\ {requester[q], target[q]} \subseteq Scope[decidedBy[q]]
            BY <4>2, <3>3, <2>4 DEF SwapInv, DecidedInScope
          <5> QED
            BY <4>2, <5>1, <1>0, <2>4 DEF requestVars
        <4> QED
          BY <4>1, <4>2
      <3> QED
        BY <3>3 DEF DecidedInScope
    <2>9. GiveAwayOnlyCancelled'
      BY <1>0, <2>1, <2>4 DEF SwapInv, GiveAwayOnlyCancelled, requestVars
    <2>10. PartiesKept
      BY <1>0 DEF PartiesKept, requestVars
    <2> QED
      BY <1>0, <2>5, <2>6, <2>7, <2>8, <2>9, <2>10, ReturnMovesOne, ReturnEarned, CallsEarned,
         SwapInvFrom DEF RowsInv
  <1> QED
    BY <1>1, <1>2

\* The planner, the leave component and stuttering touch no row and no call.
LEMMA OthersInv ==
  ASSUME TypeOK, SwapInv,
         \/ \E s \in Shifts, e \in Employees : UpdateShift(s, e)
         \/ \E e \in Employees, d \in Days : ApproveLeave(e, d)
         \/ UNCHANGED vars
  PROVE  SwapInv'
  <1>1. /\ UNCHANGED <<state, requestVars, decidedBy, audit, consent>>
        /\ UNCHANGED <<pc, localVars>>
    BY DEF UpdateShift, ApproveLeave, vars
  <1>2. \A d \in Calls : SameCall(d)
    BY <1>1 DEF SameCall, localVars
  <1>3. RowsInv' /\ PartiesKept
    BY <1>1, RowsKept DEF localVars
  <1> QED
    BY <1>2, <1>3, StillEarned, SwapInvFrom

\* Both invariants hold while there is no request and no call.
LEMMA InitInv == Init => TypeOK /\ SwapInv
  <1> SUFFICES ASSUME Init PROVE TypeOK /\ SwapInv
    OBVIOUS
  <1>1. TypeOK
    BY DEF Init, TypeOK, Points
  <1>2. RowsInv
    BY DEF Init, RowsInv, RowsComplete, AuditOnce, ConsentFirst, DecidedInScope,
           GiveAwayOnlyCancelled
  <1>3. \A c \in Calls : CallEarned(c)
    BY DEF Init, CallEarned
  <1> QED
    BY <1>1, <1>2, <1>3 DEF RowsInv, SwapInv

\* Every step keeps the invariant.
LEMMA NextInv == TypeOK /\ SwapInv /\ [Next]_vars => SwapInv'
  <1> SUFFICES ASSUME TypeOK, SwapInv, [Next]_vars PROVE SwapInv'
    OBVIOUS
  <1>1. CASE \E c \in Calls : Call(c)
    <2>1. PICK c \in Calls : Call(c)
      BY <1>1
    <2>2. CASE CallFails(c)
      BY <2>2, QuitInv DEF CallFails
    <2>3. CASE Creating(c)
      BY <2>3, CreateReadShiftInv DEF Creating
    <2>4. CASE ~Creating(c) /\ ~CallFails(c)
      BY <2>1, <2>4, CreateReadTargetInv, CreateInsertInv, AuthoriseInv, LoadInv, UpdateInv,
         CommitInv DEF Call, Creating
    <2> QED
      BY <2>2, <2>3, <2>4
  <1>2. CASE ~\E c \in Calls : Call(c)
    BY <1>2, OthersInv DEF Next
  <1> QED
    BY <1>1, <1>2

\* Types and invariant together are inductive.
LEMMA Invariant == Spec => [](TypeOK /\ SwapInv)
  BY InitInv, NextType, NextInv, PTL DEF Spec

\* Whatever calls of the shift-swap service are in progress, together with a
\* planner's updateShift and approved leave, every column of the tables and
\* every local of a call keeps its type: no row gets a dangling party, a
\* decider who is no manager, or a shift without a holder.
THEOREM SwapTypeCorrect == Spec => []TypeOK
  BY Invariant, PTL

\* The invariant of the request rows and the calls in progress: complete
\* rows, one audit row per approval, the target's own consent, a decider that
\* manages both parties, and no request without a counterparty at a manager.
THEOREM SwapCorrect == Spec => []SwapInv
  BY Invariant, PTL

\* Of any number of decisions and cancels racing for one request, at most one
\* commits an approval, and the audit log has one row for it and none else.
THEOREM ApprovedOnce == Spec => []AuditOnce
  <1>1. SwapInv => AuditOnce
    BY DEF SwapInv
  <1> QED
    BY <1>1, SwapCorrect, PTL

\* A swap reaches a manager, and is approved, only after its target accepted it.
THEOREM ConsentComesFirst == Spec => []ConsentFirst
  <1>1. SwapInv => ConsentFirst
    BY DEF SwapInv
  <1> QED
    BY <1>1, SwapCorrect, PTL

-----------------------------------------------------------------------------
(***************************************************************************)
(* The hard rules.  The feasibility check runs before the approving        *)
(* transaction and outside it, so the schedule stays workable only as long *)
(* as nothing moves shifts or approves leave in between.                   *)
(***************************************************************************)

\* Whoever can work a set of shifts can work fewer.
LEMMA FewerWorkable ==
  ASSUME NEW e, NEW S, NEW T \in SUBSET S, Workable(e, S)
  PROVE  Workable(e, T)
  BY DEF Workable

\* Shifts, leave and the columns of existing requests stay.
RowsStay ==
    /\ UNCHANGED <<holder, leave>>
    /\ \A r \in Requests : state[r] # "ABSENT" => UNCHANGED <<target[r], targetShift[r], requester[r], requesterShift[r]>>

\* While the rows stay, findings about a request stay true.
LEMMA FindingsStay ==
  ASSUME RowsStay, NEW r \in Requests, state[r] # "ABSENT"
  PROVE  /\ Workable(target[r], TargetAfter(r)) <=> Workable(target[r], TargetAfter(r))'
         /\ Workable(requester[r], RequesterAfter(r)) <=> Workable(requester[r], RequesterAfter(r))'
  BY DEF RowsStay, Workable, TargetAfter, RequesterAfter, Held

\* While shifts and leave stay, everybody can work what they hold.
LEMMA ScheduleStays ==
  ASSUME ScheduleWorkable, UNCHANGED <<holder, leave>>
  PROVE  ScheduleWorkable'
  BY DEF ScheduleWorkable, Workable, Held

\* The approving transaction gives each party what was checked, and takes from
\* anybody else.
LEMMA CommitWorkable ==
  ASSUME TypeOK, SwapInv, FeasibilityInv, NEW c \in Calls, Commit(c)
  PROVE  ScheduleWorkable'
  <1> DEFINE r == on[c]
  <1>1. /\ r \in Requests /\ state[r] # "ABSENT" /\ target[r] # None
    BY WriterKnown DEF Commit
  <1>2. /\ requester[r] \in Employees /\ target[r] \in Employees /\ requester[r] # target[r]
        /\ requesterShift[r] \in Shifts /\ targetShift[r] \in Shifts
    BY <1>1 DEF SwapInv, RowsComplete
  <1>3. CASE UNCHANGED holder
    BY <1>3, ScheduleStays DEF FeasibilityInv, Commit
  <1>4. CASE holder' = Exchanged(r)
    <2>1. /\ Workable(target[r], TargetAfter(r))
          /\ Workable(requester[r], RequesterAfter(r))
          /\ \A e \in Employees : Workable(e, Held(e))
      BY DEF FeasibilityInv, ScheduleWorkable, Commit
    <2> SUFFICES ASSUME NEW e \in Employees PROVE Workable(e, Held(e))'
      BY DEF ScheduleWorkable
    <2> DEFINE H == {s \in Shifts : Exchanged(r)[s] = e}
    <2>2. Workable(e, H)
      <3>1. CASE e = target[r]
        <4>1. H \subseteq TargetAfter(r)
          BY <1>2, <3>1 DEF Exchanged, TargetAfter, Held
        <4> QED
          BY <2>1, <3>1, <4>1, FewerWorkable
      <3>2. CASE e = requester[r]
        <4>1. H \subseteq RequesterAfter(r)
          BY <1>2, <3>2 DEF Exchanged, RequesterAfter, Held
        <4> QED
          BY <2>1, <3>2, <4>1, FewerWorkable
      <3>3. CASE e # target[r] /\ e # requester[r]
        <4>1. H \subseteq Held(e)
          BY <3>3 DEF Exchanged, Held
        <4> QED
          BY <2>1, <4>1, FewerWorkable
      <3> QED
        BY <3>1, <3>2, <3>3
    <2>3. Held(e)' = H /\ leave' = leave
      BY <1>4 DEF Held, Commit
    <2> QED
      BY <2>2, <2>3 DEF Workable
  <1> QED
    BY <1>3, <1>4 DEF Commit

\* No other step of the only call moves a shift or a row; a check passes only
\* with the finding that the next point stands for.
LEMMA CallFeasible ==
  ASSUME Sequential, TypeOK, SwapInv, FeasibilityInv, NEW c \in Calls, Call(c)
  PROVE  FeasibilityInv'
  <1>1. \A d \in Calls : d = c
    BY DEF Sequential
  <1>2. CASE Commit(c)
    <2>1. pc'[c] = "idle"
      BY <1>2 DEF Commit, Return, Goto, TypeOK
    <2> QED
      BY <1>1, <1>2, <2>1, CommitWorkable DEF FeasibilityInv
  <1>3. CASE ~Commit(c)
    <2>1. RowsStay
      <3>1. CASE \E r \in Requests : CreateInsert(c, r)
        BY <3>1 DEF CreateInsert, RowsStay, TypeOK
      <3>2. CASE ~\E r \in Requests : CreateInsert(c, r)
        <4>1. UNCHANGED <<holder, leave, requestVars>>
          BY <1>3, <3>2 DEF Call, CreateReadShift, CreateReadTarget, Authorise, Load, Update,
                            CheckTarget, CheckRequester, CallFails
        <4> QED
          BY <4>1 DEF RowsStay, requestVars
      <3> QED
        BY <3>1, <3>2
    <2>2. ScheduleWorkable'
      BY <2>1, ScheduleStays DEF RowsStay, FeasibilityInv
    <2>3. CASE pc'[c] \notin {"checkRequester", "commit"}
      BY <1>1, <2>2, <2>3 DEF FeasibilityInv
    <2>4. CASE pc'[c] \in {"checkRequester", "commit"}
      <3>1. /\ CheckTarget(c) \/ CheckRequester(c)
            /\ UNCHANGED on
        <4>1. ~Return(c)
          BY <2>4 DEF Return, Goto, TypeOK
        <4>2. ~Creating(c) /\ ~Load(c) /\ ~\E r \in Requests, action \in Machine!SwapAction,
                caller \in Employees \cup Managers : Authorise(c, r, action, caller)
          <5>1. Creating(c) => pc'[c] = "insert" \/ pc'[c] = "readTarget"
            BY DEF Creating, CreateReadShift, Goto, TypeOK
          <5>2. ~Load(c)
            BY <2>4, <4>1 DEF Load, Goto, TypeOK
          <5>3. ~\E r \in Requests, action \in Machine!SwapAction,
                   caller \in Employees \cup Managers : Authorise(c, r, action, caller)
            BY <2>4 DEF Authorise, Goto, TypeOK
          <5> QED
            BY <2>4, <5>1, <5>2, <5>3
        <4>3. CheckTarget(c) \/ CheckRequester(c)
          BY <1>3, <2>4, <4>1, <4>2
             DEF Call, Creating, CreateReadTarget, CreateInsert, Update, CallFails, Goto, TypeOK
        <4> QED
          BY <4>1, <4>3 DEF CheckTarget, CheckRequester, localVars
      <3>2. on[c] \in Requests /\ target[on[c]] # None /\ state[on[c]] # "ABSENT"
        BY <3>1 DEF CheckTarget, CheckRequester, SwapInv, CallEarned, RowsComplete
      <3>3. targetShift[on[c]] # None
        BY <3>2 DEF SwapInv, RowsComplete
      <3>4. /\ Workable(target[on[c]], TargetAfter(on[c]))
            /\ pc'[c] = "commit" => Workable(requester[on[c]], RequesterAfter(on[c]))
        BY <2>4, <3>1, <3>3 DEF CheckTarget, CheckRequester, FeasibilityInv, Return, Goto, TypeOK
      <3> QED
        BY <1>1, <2>1, <2>2, <3>1, <3>2, <3>4, FindingsStay DEF FeasibilityInv
    <2> QED
      BY <2>3, <2>4
  <1> QED
    BY <1>2, <1>3

\* "a swap that would break the hard rules H1-H4 ... never lands": for calls
\* that come one at a time, with nobody else writing, everybody can always
\* work the shifts they hold.  The row may be older than other approvals: what
\* is checked is who would hold the shifts now.
THEOREM SwapsStayWorkable ==
  ASSUME Sequential
  PROVE  Spec => []ScheduleWorkable
  <1>1. Init => FeasibilityInv
    BY DEF Init, FeasibilityInv, ScheduleWorkable
  <1>2. TypeOK /\ SwapInv /\ FeasibilityInv /\ [Next]_vars => FeasibilityInv'
    <2> SUFFICES ASSUME TypeOK, SwapInv, FeasibilityInv, [Next]_vars PROVE FeasibilityInv'
      OBVIOUS
    <2>1. CASE \E c \in Calls : Call(c)
      BY <2>1, CallFeasible
    <2>2. CASE UNCHANGED vars
      BY <2>2 DEF vars, requestVars, localVars, FeasibilityInv, ScheduleWorkable, Workable, Held,
                  TargetAfter, RequesterAfter
    <2> QED
      BY <2>1, <2>2 DEF Next, UpdateShift, ApproveLeave, Sequential
  <1>3. FeasibilityInv => ScheduleWorkable
    BY DEF FeasibilityInv
  <1> QED
    BY <1>1, <1>2, <1>3, Invariant, PTL DEF Spec

-----------------------------------------------------------------------------
(* Refinement                                                              *)

\* A step of a call is a step of the abstract machine of its request, or
\* leaves every request's state and audit count alone.
LEMMA CallImplements ==
  ASSUME TypeOK, SwapInv, NEW c \in Calls, Call(c)
  PROVE  [Machine!Next]_(Machine!machineVars)
  <1>1. CASE \E r \in Requests : CreateInsert(c, r)
    <2>1. PICK r \in Requests : CreateInsert(c, r)
      BY <1>1
    <2>2. Machine!Create(r)
      BY <2>1 DEF CreateInsert, Machine!Create
    <2> QED
      BY <2>2 DEF Machine!Next
  <1>2. CASE Update(c)
    <2>1. CASE UNCHANGED state
      BY <1>2, <2>1 DEF Update, Machine!machineVars
    <2>2. CASE ~UNCHANGED state
      <3>1. on[c] \in Requests /\ op[c] # "manager_approve"
        BY <1>2, WriterKnown DEF Update
      <3>2. PICK to \in Machine!SwapState :
              /\ Machine!NextState(state[on[c]], op[c], to)
              /\ state' = [state EXCEPT ![on[c]] = to]
        BY <1>2, <2>2 DEF Update
      <3>3. to # "APPROVED"
        BY <3>1, <3>2, TransitionTable
      <3>4. Machine!Step(on[c], state[on[c]], to)
        BY <1>2, <3>2, <3>3 DEF Update, Machine!Step
      <3> DEFINE t == <<state[on[c]], op[c], to>>
      <3>5. t \in Machine!TRANSITIONS /\ t[1] = state[on[c]] /\ t[3] = to
        BY <3>2 DEF Machine!NextState
      <3> QED
        BY <3>1, <3>4, <3>5 DEF Machine!Next
    <2> QED
      BY <2>1, <2>2
  <1>3. CASE Commit(c)
    <2>1. CASE UNCHANGED <<state, audit>>
      BY <2>1 DEF Machine!machineVars
    <2>2. CASE ~UNCHANGED <<state, audit>>
      <3>1. on[c] \in Requests
        BY <1>3, WriterKnown DEF Commit
      <3>2. Machine!Step(on[c], "PENDING_MANAGER", "APPROVED")
        BY <1>3, <2>2 DEF Commit, Machine!Step
      <3> DEFINE t == <<"PENDING_MANAGER", "manager_approve", "APPROVED">>
      <3>3. t \in Machine!TRANSITIONS /\ t[1] = "PENDING_MANAGER" /\ t[3] = "APPROVED"
        BY DEF Machine!TRANSITIONS
      <3> QED
        BY <3>1, <3>2, <3>3 DEF Machine!Next
    <2> QED
      BY <2>1, <2>2
  <1>4. CASE ~(\E r \in Requests : CreateInsert(c, r)) /\ ~Update(c) /\ ~Commit(c)
    BY <1>4 DEF Call, CreateReadShift, CreateReadTarget, Authorise, Load, CheckTarget,
                CheckRequester, CallFails, Machine!machineVars
  <1> QED
    BY <1>1, <1>2, <1>3, <1>4

\* The service, with every interleaving of its calls, implements the pure
\* machine of swap-state-machine.ts: each request follows TRANSITIONS one
\* action at a time and a terminal state is final.
THEOREM Refinement == Spec => ImplementsMachine
  <1>1. Init => Machine!Init
    BY DEF Init, Machine!Init
  <1>2. TypeOK /\ SwapInv /\ [Next]_vars => [Machine!Next]_(Machine!machineVars)
    <2> SUFFICES ASSUME TypeOK, SwapInv, [Next]_vars
                 PROVE  [Machine!Next]_(Machine!machineVars)
      OBVIOUS
    <2>1. CASE \E c \in Calls : Call(c)
      BY <2>1, CallImplements
    <2>2. CASE ~\E c \in Calls : Call(c)
      BY <2>2 DEF Next, UpdateShift, ApproveLeave, vars, Machine!machineVars
    <2> QED
      BY <2>1, <2>2
  <1> QED
    BY <1>1, <1>2, Invariant, PTL DEF Spec, ImplementsMachine, Machine!Spec
=============================================================================
