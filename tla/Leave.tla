------------------------------- MODULE Leave -------------------------------
(***************************************************************************)
(* Leave requests (apps/tenant-runtime/src/leave) and what an approval     *)
(* sets off: the employee's shifts on those days are scanned and an AI     *)
(* replacement proposal is created for each, one after the other, in the   *)
(* approving call.  A failure there is logged and swallowed.               *)
(***************************************************************************)
EXTENDS AiProposal

CONSTANTS
    LeaveRequests,
    Period        \* the days from startDate to endDate of a request

ASSUME LeaveAssumption ==
    /\ None \notin LeaveRequests
    /\ Period \in [LeaveRequests -> SUBSET Days]

VARIABLES
    status,       \* leaveRequest.status, "ABSENT" before the row exists
    leaveOf,      \* leaveRequest.employeeId
    decider,      \* leaveRequest.decidedByUserId
    scanned,      \* history: pairs <<request, shift>> a scan has found
    swallowed     \* history: requests whose scan ended in the catch

leaveVars == <<status, leaveOf, decider, scanned, swallowed>>

LeaveStatus == {"PENDING", "APPROVED", "REJECTED", "CANCELLED"}

\* LEAVE_TRANSITIONS from PENDING; the other states have none.
NextLeaveState(action) ==
    CASE action = "approve" -> "APPROVED"
      [] action = "reject"  -> "REJECTED"
      [] action = "cancel"  -> "CANCELLED"

LeaveInit ==
    /\ status = [l \in LeaveRequests |-> "ABSENT"]
    /\ leaveOf = [l \in LeaveRequests |-> None]
    /\ decider = [l \in LeaveRequests |-> None]
    /\ scanned = {}
    /\ swallowed = {}

\* createRequest: HR for anybody, everybody else for themselves.
CreateRequest(l, e) ==
    /\ status[l] = "ABSENT"
    /\ Period[l] # {}
    /\ status' = [status EXCEPT ![l] = "PENDING"]
    /\ leaveOf' = [leaveOf EXCEPT ![l] = e]
    /\ UNCHANGED <<aiVars, decider, scanned, swallowed>>

BeginLeave(c, m, l, action) ==
    call' = [call EXCEPT ![c] = [Idle EXCEPT !.at = "flip", !.who = m, !.leaveId = l,
                                             !.action = action]]

\* decide: scope, still PENDING, and nobody decides their own request.
DecideLoad(c, m, l, action) ==
    /\ call[c].at = "idle"
    /\ status[l] = "PENDING"
    /\ InScope(m, UnitOf[leaveOf[l]])
    /\ EmployeeOf[m] # leaveOf[l]
    /\ BeginLeave(c, m, l, action)
    /\ UNCHANGED <<dbVars, leaveVars>>

\* cancel: the requester, while PENDING.
CancelLoad(c, l) ==
    /\ call[c].at = "idle"
    /\ status[l] = "PENDING"
    /\ leaveOf[l] \in HasLogin
    /\ BeginLeave(c, None, l, "cancel")
    /\ UNCHANGED <<dbVars, leaveVars>>

\* Variant: update({ id }).
FlipUnguarded(c) ==
    /\ call[c].at = "flip"
    /\ LET l == call[c].leaveId IN
        /\ status' = [status EXCEPT ![l] = NextLeaveState(call[c].action)]
        /\ decider' = IF call[c].action = "cancel" THEN decider
                      ELSE [decider EXCEPT ![l] = call[c].who]
        /\ leave' = IF call[c].action # "approve" THEN leave
                    ELSE [leave EXCEPT ![leaveOf[l]] = @ \cup Period[l]]
    /\ Return(c)
    /\ UNCHANGED <<holder, autonomy, prop, commits, agreed, leaveOf, scanned, swallowed>>

\* updateMany({ id, status: PENDING }); an approval goes on to the scan.
Flip(c) ==
    /\ call[c].at = "flip"
    /\ LET l == call[c].leaveId
           action == call[c].action
       IN  \/ /\ status[l] = "PENDING"
              /\ status' = [status EXCEPT ![l] = NextLeaveState(action)]
              /\ decider' = IF action = "cancel" THEN decider
                            ELSE [decider EXCEPT ![l] = call[c].who]
              /\ leave' = IF action # "approve" THEN leave
                          ELSE [leave EXCEPT ![leaveOf[l]] = @ \cup Period[l]]
              /\ call' = [call EXCEPT ![c] = IF action = "approve"
                                               THEN [@ EXCEPT !.at = "scan"] ELSE Idle]
           \/ /\ status[l] # "PENDING"
              /\ Return(c)
              /\ UNCHANGED <<status, decider, leave>>
    /\ UNCHANGED <<holder, autonomy, prop, commits, agreed, leaveOf, scanned, swallowed>>

(* autoScanReplacements *)

\* findVacatedShifts, narrowed to the employee of the request.
Vacated(e, days) == {s \in Held(e) : DayOf[s] \in days /\ DayOf[s] \in leave[e]}

Scan(c) ==
    /\ call[c].at = "scan"
    /\ LET l == call[c].leaveId
           found == Vacated(leaveOf[l], Period[l])
       IN  /\ call' = [call EXCEPT ![c] = IF found = {} THEN Idle
                                          ELSE [@ EXCEPT !.at = "each", !.todo = found]]
           /\ scanned' = scanned \cup ({l} \X found)
    /\ UNCHANGED <<dbVars, status, leaveOf, decider, swallowed>>

\* The next createReplacement of the loop; its own scope check throws when the
\* shift has moved to another unit, which ends the scan.
ScanNext(c, s) ==
    /\ call[c].at = "each"
    /\ s \in call[c].todo
    /\ \/ /\ InScope(call[c].who, UnitOf[holder[s]])
          /\ call' = [call EXCEPT ![c].at = "rank", ![c].shift = s, ![c].vacated = holder[s],
                                  ![c].todo = @ \ {s}]
          /\ UNCHANGED swallowed
       \/ /\ ~InScope(call[c].who, UnitOf[holder[s]])
          /\ Return(c)
          /\ swallowed' = swallowed \cup {call[c].leaveId}
    /\ UNCHANGED <<dbVars, status, leaveOf, decider, scanned>>

\* An awaited call rejects in a call of this service: before the flip it is an
\* error of the request, in the scan it is caught.
LeaveCallFails(c) ==
    /\ call[c].leaveId # None
    /\ Return(c)
    /\ swallowed' = IF call[c].at = "flip" THEN swallowed ELSE swallowed \cup {call[c].leaveId}
    /\ UNCHANGED <<dbVars, status, leaveOf, decider, scanned>>

LeaveNext ==
    \/ \E l \in LeaveRequests, e \in Employees : CreateRequest(l, e)
    \/ \E c \in Calls :
        \/ \E l \in LeaveRequests :
            \/ \E m \in Managers, action \in {"approve", "reject"} : DecideLoad(c, m, l, action)
            \/ CancelLoad(c, l)
        \/ Flip(c)
        \/ Scan(c)
        \/ \E s \in Shifts : ScanNext(c, s)
        \/ LeaveCallFails(c)
=============================================================================
