CONSTANTS
  NumThreads = 3
  Rounds = 2
  NumPairs = 4
  NumKeys = 4
  NumMiddle = 4
  Inputs <- AllInputs
  tau1 = 2
  tau2 = 1
  Saturation = 2
  MAX_KEYS = 2
  MAX_MATCHES = 3
  MAX_CANDIDATES = 4
SPECIFICATION Spec
INVARIANTS TypeOK ReportsAreRight ReportedOnce NoneMissed Agreement
