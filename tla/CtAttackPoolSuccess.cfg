CONSTANTS
  Threads = {t1, t2}
  NoThread = NoThread
  NumDevices = 1
  Span = 4
  Stride = 2
  FixedBits = 1
  k1 = k1
  k2 = k2
  k3 = k3
  Keys = {k1, k2, k3}
  Found <- FoundKeys
  Valid <- ValidKeys
  MAX_CANDIDATES = 2
  StartupErrors = FALSE
  JobErrors = TRUE
SPECIFICATION Spec
INVARIANT SuccessMeansSearched
CHECK_DEADLOCK FALSE
