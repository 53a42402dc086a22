---------------------------- MODULE SwapMachine ----------------------------
(***************************************************************************)
(* What the shift-swap component promises of each request                  *)
(* (apps/tenant-runtime/src/shift-swap/swap-state-machine.ts): its state   *)
(* follows the transition table one action at a time, a terminal state is  *)
(* final, and the approval, and nothing else, is recorded in the audit     *)
(* log, once.                                                              *)
(***************************************************************************)
EXTENDS Naturals

CONSTANT Requests      \* ids of the swap requests that may be created

VARIABLES
    state,   \* shiftSwapRequest.state, "ABSENT" before the row exists
    audit    \* number of shift_swap.approved rows of the audit log, per request

machineVars == <<state, audit>>

SwapState == {"DRAFT", "PENDING_PEER", "PEER_AGREED", "PENDING_MANAGER",
              "APPROVED", "REJECTED", "CANCELLED"}

SwapAction == {"submit", "peer_accept", "peer_reject", "submit_to_manager",
               "manager_approve", "manager_reject", "cancel"}

\* TRANSITIONS: <<from, action, to>>; an action absent for a state is illegal.
TRANSITIONS ==
    { <<"DRAFT", "submit", "PENDING_PEER">>,
      <<"DRAFT", "cancel", "CANCELLED">>,
      <<"PENDING_PEER", "peer_accept", "PEER_AGREED">>,
      <<"PENDING_PEER", "peer_reject", "REJECTED">>,
      <<"PENDING_PEER", "cancel", "CANCELLED">>,
      <<"PEER_AGREED", "submit_to_manager", "PENDING_MANAGER">>,
      <<"PEER_AGREED", "cancel", "CANCELLED">>,
      <<"PENDING_MANAGER", "manager_approve", "APPROVED">>,
      <<"PENDING_MANAGER", "manager_reject", "REJECTED">>,
      <<"PENDING_MANAGER", "cancel", "CANCELLED">> }

\* nextState(from, action) does not throw, and returns to.
NextState(from, action, to) == <<from, action, to>> \in TRANSITIONS

Init ==
    /\ state = [r \in Requests |-> "ABSENT"]
    /\ audit = [r \in Requests |-> 0]

Create(r) ==
    /\ state[r] = "ABSENT"
    /\ state' = [state EXCEPT ![r] = "DRAFT"]
    /\ UNCHANGED audit

Step(r, from, to) ==
    /\ state[r] = from
    /\ state' = [state EXCEPT ![r] = to]
    /\ audit' = IF to = "APPROVED" THEN [audit EXCEPT ![r] = @ + 1] ELSE audit

Next ==
    \E r \in Requests :
        \/ Create(r)
        \/ \E t \in TRANSITIONS : Step(r, t[1], t[3])

Spec == Init /\ [][Next]_machineVars
=============================================================================
