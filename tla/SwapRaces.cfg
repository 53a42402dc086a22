SPECIFICATION Spec
CONSTANTS
  e1 = e1  e2 = e2  e3 = e3  s1 = s1  s2 = s2  s3 = s3
  r1 = r1  r2 = r2  c1 = c1  c2 = c2  mgr = mgr  hr = hr
  None = None
  Employees <- TwoEmployees
  Shifts <- TwoShifts
  Requests <- OneRequest
  Calls <- TwoCalls
  Managers <- TwoManagers
  Scope <- NarrowScope
  Qualified <- AllQualified
  Conflicts <- NoConflicts
  InitialHolders <- OwnShiftEach2
  InitialLeave <- NoLeave
  Bodies <- AnyBody
  Writers <- AllWriters
  Days <- OneDay
  DayOf <- SameDay
SYMMETRY CallSymmetry
INVARIANT TypeOK
INVARIANT SwapInv
PROPERTY ImplementsMachine
CHECK_DEADLOCK FALSE
