---------------------------- MODULE Replacements ----------------------------
(***************************************************************************)
(* Leave requests, the AI proposals they set off and a planner, over the   *)
(* shifts of one tenant.                                                   *)
(***************************************************************************)
EXTENDS Leave

CONSTANT Planned       \* pairs <<s, e>>: shifts a planner may give to e meanwhile

vars == <<aiVars, leaveVars>>

CallType ==
    [at : Points, who : Managers \cup {None}, p : Proposals \cup {None}, row : Row,
     shift : Shifts \cup {None}, vacated : Employees \cup {None}, cands : SUBSET Employees,
     level : Levels \cup {None}, leaveId : LeaveRequests \cup {None},
     action : {"approve", "reject", "cancel", None}, todo : SUBSET Shifts]

TypeOK ==
    /\ holder \in [Shifts -> Employees]
    /\ leave \in [Employees -> SUBSET Days]
    /\ autonomy \in [Units -> Levels]
    /\ prop \in [Proposals -> Row]
    /\ commits \in [Proposals -> Nat]
    /\ call \in [Calls -> CallType]
    /\ agreed \subseteq Proposals \X Employees
    /\ status \in [LeaveRequests -> LeaveStatus \cup {"ABSENT"}]
    /\ leaveOf \in [LeaveRequests -> Employees \cup {None}]
    /\ decider \in [LeaveRequests -> Managers \cup {None}]
    /\ scanned \subseteq LeaveRequests \X Shifts
    /\ swallowed \subseteq LeaveRequests

Init == AiInit /\ LeaveInit

\* GrafikService.updateShift
UpdateShift(s, e) ==
    /\ <<s, e>> \in Planned
    /\ holder' = [holder EXCEPT ![s] = e]
    /\ UNCHANGED <<leave, autonomy, prop, commits, call, agreed, leaveVars>>

Next ==
    \/ AiNext /\ UNCHANGED leaveVars
    \/ LeaveNext
    \/ \E s \in Shifts, e \in Employees : UpdateShift(s, e)

Spec == Init /\ [][Next]_vars

-----------------------------------------------------------------------------
(* Properties                                                              *)

\* The rows follow packages/shared/src/ai-grafik.ts, and each approval is
\* audited once, whatever deadlines, answers and decisions race.
ImplementsMachine == Machine!Spec

\* Terminal states have no outgoing transitions (AI_TERMINAL_STATES).
TerminalIsFinal ==
    [][\A p \in Proposals : prop[p].stage \in {"APPROVED", "REJECTED", "CANCELLED", "ESCALATED"}
            => prop'[p].stage = prop[p].stage]_vars

\* Nobody is given a shift by a proposal they have not accepted themselves,
\* however old the copies are that the answers were written from.
ConsentBeforeApproval ==
    \A p \in Proposals : commits[p] > 0 =>
        /\ prop[p].active \in prop[p].cands
        /\ prop[p].consent[prop[p].active] = "GRANTED"
        /\ <<p, prop[p].active>> \in agreed

\* A proposal that awaits consent has asked its active candidate, and one that
\* has been escalated points at nobody.
ActiveCandidate ==
    \A p \in Proposals :
        /\ prop[p].stage = "PENDING_EMPLOYEE_CONSENT" =>
               prop[p].active \in prop[p].cands /\ prop[p].consent[prop[p].active] = "PENDING"
        /\ prop[p].stage = "ESCALATED" => prop[p].active = None

\* The candidate of a proposal is asked, and answers, for itself.
ConsentSound == ConsentBeforeApproval /\ ActiveCandidate

\* An approval takes the shift from the employee the proposal was made for,
\* although planner and other proposals move shifts under it.
TakesFromVacated ==
    [][\A p \in Proposals : commits'[p] # commits[p] =>
            /\ holder[prop[p].shift] = prop[p].vacated
            /\ holder'[prop[p].shift] = prop[p].active]_vars

\* Of a racing approval, rejection and cancellation of a leave request one
\* counts: its outcome and its decider stay.
LeaveDecidedOnce ==
    [][\A l \in LeaveRequests : status[l] \notin {"ABSENT", "PENDING"} =>
            status'[l] = status[l] /\ decider'[l] = decider[l]]_vars

\* Once an approved leave has been scanned without a failure, every shift the
\* scan found has a proposal.
ScanProposes ==
    \A x \in scanned :
        \/ x[1] \in swallowed
        \/ \E c \in Calls : call[c].leaveId = x[1]
        \/ \E p \in Proposals : prop[p].shift = x[2]
-----------------------------------------------------------------------------
(* The inductive invariant                                                 *)

\* A row is a complete proposal; whoever has granted has answered; an approval
\* is recorded for the active candidate's consent.
RowSound(p) ==
    LET r == prop[p] IN
    /\ r.stage = "ABSENT" => r.shift = None /\ commits[p] = 0
    /\ r.stage # "ABSENT" => r.shift \in Shifts /\ r.vacated \in Employees
    /\ r.stage \in {"PENDING_EMPLOYEE_CONSENT", "PENDING_MANAGER"} => r.active \in r.cands
    /\ r.stage = "PENDING_EMPLOYEE_CONSENT" => r.consent[r.active] = "PENDING"
    /\ r.stage \in {"DRAFT", "ESCALATED"} => r.active = None
    /\ \A e \in Employees : r.consent[e] = "GRANTED" => <<p, e>> \in agreed
    /\ commits[p] > 0 => /\ r.stage \in {"APPROVED", "REJECTED"}
                         /\ r.active \in r.cands
                         /\ r.consent[r.active] = "GRANTED"

\* A manager's decision is past its checks.
Decided == {"PENDING_MANAGER", "APPROVED", "REJECTED"}

\* What a call has read and checked that still counts when it writes.
CallSound(c) ==
    LET k == call[c]
        row == k.row
        now == prop[k.p]
    IN  /\ k.at \in {"ask", "expire", "accept", "decline", "reject", "revet", "commit"} =>
               /\ k.p \in Proposals
               /\ now.stage # "ABSENT"
               /\ row.cands = now.cands /\ row.shift = now.shift /\ row.vacated = now.vacated
        /\ k.at \in {"accept", "decline"} =>
               row.active \in row.cands /\ row.consent[row.active] = "PENDING"
        /\ k.at \in {"reject", "revet", "commit"} => k.who \in Managers
        /\ k.at \in {"revet", "commit"} =>
               /\ now.stage \in Decided
               /\ now.active \in now.cands /\ now.consent[now.active] = "GRANTED"
               /\ row.active = now.active
        /\ k.at \in {"rank", "insert"} => k.shift \in Shifts /\ k.vacated \in Employees
        /\ k.at \in {"flip", "scan", "each"} \/ k.todo # {} => k.leaveId \in LeaveRequests
        /\ k.at = "flip" => k.action \in {"approve", "reject", "cancel"}

\* A request on file is somebody's.
LeaveSound == \A l \in LeaveRequests : status[l] # "ABSENT" => leaveOf[l] \in Employees

\* Call c still has to make a proposal for a shift of its scan.
WillPropose(c, l, s) ==
    /\ call[c].leaveId = l
    /\ \/ call[c].at \in {"each", "rank", "insert"} /\ s \in call[c].todo
       \/ call[c].at \in {"rank", "insert"} /\ s = call[c].shift

ScanSound ==
    \A x \in scanned :
        \/ x[1] \in swallowed
        \/ \E c \in Calls : WillPropose(c, x[1], x[2])
        \/ \E p \in Proposals : prop[p].shift = x[2]

\* Managers who do not decide at the same time find the proposal as they read it.
DecideSound ==
    Coordinated =>
        \A c \in Calls : call[c].at \in {"reject", "revet", "commit"} =>
            /\ prop[call[c].p].stage = "PENDING_MANAGER"
            /\ \A d \in Calls \ {c} : call[d].p = call[c].p =>
                   call[d].at \notin {"reject", "revet", "commit"}

ReplacementInv ==
    /\ \A p \in Proposals : RowSound(p)
    /\ \A c \in Calls : CallSound(c)
    /\ LeaveSound
    /\ ScanSound
    /\ DecideSound
=============================================================================
