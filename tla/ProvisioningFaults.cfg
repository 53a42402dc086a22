SPECIFICATION Spec
CONSTANTS
  t1 = t1  s1 = s1  p1 = p1  p2 = p2
  a = a  b = b  c = c  d = d
  None = None
  Tenants <- OneTenant
  Slugs <- OneSlug
  Pods <- TwoPods
  Passwords <- FourPasswords
  FailingSteps <- SomeSteps
  FaultKinds <- Redelivery
  KcCount = 2
  BatchLimit = 1
  MaxFaults = 1
SYMMETRY PodSymmetry
INVARIANT TypeOK
INVARIANT ActiveIsBuilt
INVARIANT JobDriven
CHECK_DEADLOCK FALSE
