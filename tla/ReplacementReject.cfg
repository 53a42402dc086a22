SPECIFICATION Spec
CONSTANTS
  e1 = e1  e2 = e2  e3 = e3  s1 = s1  s2 = s2  p1 = p1  p2 = p2  c1 = c1  c2 = c2
  u1 = u1  hr = hr  l1 = l1
  None = None
  Employees <- ThreeEmployees
  Units <- OneUnit
  Managers <- OnlyHr
  UnitOf <- InOneUnit
  GlobalRoles <- OnlyHr
  Manages <- AllUnits
  EmployeeOf <- HrIsE3
  Shifts <- OneShift
  Days <- OneDay
  Proposals <- OneProposal
  Calls <- TwoCalls
  DayOf <- SameDay
  Qualified <- Everyone
  Conflicts <- NoConflicts
  Commutes <- Everyone
  Rank <- ByNumber
  HasLogin <- ThreeEmployees
  ByHand <- OneShift
  Coordinated = FALSE
  Levels <- AskOnly
  InitialHolder <- HeldByE1
  LeaveRequests <- OneLeave
  Period <- WholePeriod
  Planned <- NoConflicts
SYMMETRY Interchangeable
PROPERTY TerminalIsFinal
CHECK_DEADLOCK FALSE
