--------------------------- MODULE MCReplacements ---------------------------
(* Instances of Replacements for TLC.                                      *)
EXTENDS Replacements, TLC

CONSTANTS e1, e2, e3, s1, s2, p1, p2, c1, c2, u1, hr, l1

ThreeEmployees == {e1, e2, e3}
OneUnit        == {u1}
TwoShifts      == {s1, s2}
OneShift       == {s1}
OneDay         == {1}
TwoProposals   == {p1, p2}
OneProposal    == {p1}
TwoCalls       == {c1, c2}
OneLeave       == {l1}
OtherShift     == {s2}
OnlyHr         == {hr}

InOneUnit      == [e \in Employees |-> u1]
AllUnits       == [m \in Managers |-> Units]
HrIsE3         == [m \in Managers |-> e3]
HeldByE1       == [s \in Shifts |-> e1]
SameDay        == [s \in Shifts |-> 1]
WholePeriod    == [l \in LeaveRequests |-> Days]
Everyone       == Employees \X Shifts
\* Only e1 can work s2: its proposals find no candidate.
NobodyForS2    == Everyone \ {<<e2, s2>>, <<e3, s2>>}
\* What the planner may do: give s1 to anyone.
AnyoneToS1     == {s1} \X Employees
NoConflicts    == {}
ByNumber       == [e \in Employees |-> IF e = e1 THEN 1 ELSE IF e = e2 THEN 2 ELSE 3]
AskAndDraft    == {"AUTO_ASK_CONSENT", "SUGGEST_ONLY"}
AskOnly        == {"AUTO_ASK_CONSENT"}

Interchangeable == Permutations(TwoCalls) \cup Permutations(TwoProposals)
=============================================================================
