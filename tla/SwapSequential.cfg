SPECIFICATION Spec
CONSTANTS
  e1 = e1  e2 = e2  e3 = e3  s1 = s1  s2 = s2  s3 = s3
  r1 = r1  r2 = r2  c1 = c1  c2 = c2  mgr = mgr  hr = hr
  None = None
  Employees <- ThreeEmployees
  Shifts <- ThreeShifts
  Requests <- TwoRequests
  Calls <- OneCall
  Managers <- OnlyHr
  Scope <- HrScope
  Qualified <- SomeQualified
  Conflicts <- OneConflict
  InitialHolders <- OwnShiftEach3
  InitialLeave <- LeaveOfE3
  Bodies <- AnyBody
  Writers <- NoWriters
  Days <- TwoDays
  DayOf <- Day
INVARIANT ScheduleWorkable
CHECK_DEADLOCK FALSE
