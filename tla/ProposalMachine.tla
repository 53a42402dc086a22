-------------------------- MODULE ProposalMachine --------------------------
(***************************************************************************)
(* What packages/shared/src/ai-grafik.ts promises of an AI proposal: its   *)
(* state moves along the transition table, terminal states are final, and  *)
(* an approval is written to the audit log exactly once.                   *)
(***************************************************************************)
EXTENDS Naturals

CONSTANT Proposals     \* ids of the proposals that may be created

VARIABLES
    stage,      \* aiProposal.state, "ABSENT" before the row exists
    approvals   \* ai_proposal.approved rows of the audit log, per proposal

AiProposalState == {"DRAFT", "PENDING_EMPLOYEE_CONSENT", "EMPLOYEE_AGREED", "PENDING_MANAGER",
                    "APPROVED", "REJECTED", "ESCALATED", "CANCELLED"}

\* AI_TRANSITIONS: <<from, action, to>>; an action absent for a state is illegal.
AI_TRANSITIONS ==
    { <<"DRAFT", "ask_consent", "PENDING_EMPLOYEE_CONSENT">>,
      <<"DRAFT", "submit_to_manager", "PENDING_MANAGER">>,
      <<"DRAFT", "direct_escalate", "ESCALATED">>,
      <<"DRAFT", "cancel", "CANCELLED">>,
      <<"PENDING_EMPLOYEE_CONSENT", "employee_accept", "EMPLOYEE_AGREED">>,
      <<"PENDING_EMPLOYEE_CONSENT", "employee_decline_next", "PENDING_EMPLOYEE_CONSENT">>,
      <<"PENDING_EMPLOYEE_CONSENT", "employee_decline_last", "ESCALATED">>,
      <<"PENDING_EMPLOYEE_CONSENT", "expire", "ESCALATED">>,
      <<"PENDING_EMPLOYEE_CONSENT", "direct_escalate", "ESCALATED">>,
      <<"PENDING_EMPLOYEE_CONSENT", "cancel", "CANCELLED">>,
      <<"EMPLOYEE_AGREED", "submit_to_manager", "PENDING_MANAGER">>,
      <<"EMPLOYEE_AGREED", "cancel", "CANCELLED">>,
      <<"PENDING_MANAGER", "manager_approve", "APPROVED">>,
      <<"PENDING_MANAGER", "manager_reject", "REJECTED">>,
      <<"PENDING_MANAGER", "cancel", "CANCELLED">> }

\* nextProposalState(from, action); only applied where the table has an entry.
NextProposalState(from, action) ==
    CHOOSE to \in AiProposalState : <<from, action, to>> \in AI_TRANSITIONS

\* The pairs one write may persist: one transition, an accepted consent that
\* is submitted to the manager at once, or a new row, which is a DRAFT or one
\* transition further.
Writes ==
    {<<t[1], t[3]>> : t \in AI_TRANSITIONS}
    \cup {<<"PENDING_EMPLOYEE_CONSENT", "PENDING_MANAGER">>, <<"ABSENT", "DRAFT">>}
    \cup {<<"ABSENT", t[3]>> : t \in {u \in AI_TRANSITIONS : u[1] = "DRAFT"}}

Init ==
    /\ stage = [p \in Proposals |-> "ABSENT"]
    /\ approvals = [p \in Proposals |-> 0]

Write(p, from, to) ==
    /\ stage[p] = from
    /\ stage' = [stage EXCEPT ![p] = to]
    /\ approvals' = IF to = "APPROVED" THEN [approvals EXCEPT ![p] = @ + 1] ELSE approvals

Next == \E p \in Proposals, w \in Writes : Write(p, w[1], w[2])

Spec == Init /\ [][Next]_<<stage, approvals>>
=============================================================================
