SPECIFICATION MCSpec
CONSTANTS
  Algorithms = {1, 3}
  Span = 2
  Stride = 4
  FixedBits = 1
  NumInner = 1
  CounterSize = 4
  NumKeys = 2
  NumMiddle = 2
  NumRk7 = 2
  MaxHits = 4
  Inputs <- MCInputs
  tau1 = 2
  tau2 = 2
  MAX_KEYS = 2
  SlotSize = 8
  CandidateSize = 20
INVARIANTS TypeOK ReportsAreRight NoneMissed ReportedOnce Covered
