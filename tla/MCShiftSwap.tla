---------------------------- MODULE MCShiftSwap ----------------------------
(* Instances of ShiftSwap for TLC.                                         *)
EXTENDS ShiftSwap, TLC

CONSTANTS e1, e2, e3, s1, s2, s3, r1, r2, c1, c2, mgr, hr

TwoEmployees   == {e1, e2}
ThreeEmployees == {e1, e2, e3}
TwoShifts      == {s1, s2}
ThreeShifts    == {s1, s2, s3}
OneRequest     == {r1}
TwoRequests    == {r1, r2}
OneCall        == {c1}
TwoCalls       == {c1, c2}
OneDay         == {1}
TwoDays        == {1, 2}
OnlyHr         == {hr}
TwoManagers    == {mgr, hr}

\* HR acts across every unit; mgr manages only e1.
HrScope    == [m \in OnlyHr |-> Employees]
NarrowScope == [m \in TwoManagers |-> IF m = hr THEN Employees ELSE {e1}]

AllQualified  == Employees \X Shifts
\* e3 lacks the qualification of s1.
SomeQualified == (Employees \X Shifts) \ {<<e3, s1>>}

SameDay       == [s \in Shifts |-> 1]
Day           == [s \in Shifts |-> IF s = s3 THEN 2 ELSE 1]
NoConflicts   == {}
OneConflict   == {{s1, s3}}

OwnShiftEach2 == {[s \in TwoShifts |-> IF s = s1 THEN e1 ELSE e2]}
OwnShiftEach3 == {[s \in ThreeShifts |-> IF s = s1 THEN e1 ELSE IF s = s2 THEN e2 ELSE e3]}

\* What create calls ask for: anything, or s1 and s3 each against s2.
AnyBody       == Shifts \X (Shifts \cup {None})
AgainstS2     == {<<s1, s2>>, <<s3, s2>>}

NoLeave       == [e \in Employees |-> {}]
LeaveOfE3     == [e \in Employees |-> IF e = e3 THEN {1} ELSE {}]

NoWriters     == {}
AllWriters    == {"grafik", "leave"}

Interchangeable == Permutations(TwoCalls) \cup Permutations(TwoRequests)
CallSymmetry    == Permutations(TwoCalls)
=============================================================================
