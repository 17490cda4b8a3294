CONSTANTS
  Threads = {t1, t2, t3, t4}
  NoThread = NoThread
  NumDevices = 2
  Span = 3
  Stride = 2
  FixedBits = 1
  k1 = k1
  k2 = k2
  k3 = k3
  Keys = {k1, k2, k3}
  Found <- FoundKeys
  Valid <- ValidKeys
  MAX_CANDIDATES = 2
  StartupErrors = TRUE
  JobErrors = TRUE
SPECIFICATION Spec
SYMMETRY Symmetry
INVARIANTS TypeOK DeviceAssignment WorkPartition ReadsWrittenSlots
CHECK_DEADLOCK FALSE
