SPECIFICATION FairSpec
CONSTANTS
  t1 = t1  s1 = s1  p1 = p1  p2 = p2
  a = a  b = b  c = c  d = d
  None = None
  Tenants <- OneTenant
  Slugs <- OneSlug
  Pods <- TwoPods
  Passwords <- FourPasswords
  FailingSteps <- SeedOnly
  FaultKinds <- Restarts
  KcCount = 1
  BatchLimit = 1
  MaxFaults = 1
PROPERTY Settles
CHECK_DEADLOCK FALSE
