SPECIFICATION Spec
CONSTANTS
  t1 = t1  s1 = s1  p1 = p1  p2 = p2
  a = a  b = b  c = c  d = d
  None = None
  Tenants <- OneTenant
  Slugs <- OneSlug
  Pods <- TwoPods
  Passwords <- FourPasswords
  FailingSteps <- NoFaults
  FaultKinds <- Connection
  KcCount = 2
  BatchLimit = 1
  MaxFaults = 2
SYMMETRY PodSymmetry
INVARIANT NoPasswordDrift
CHECK_DEADLOCK FALSE
