SPECIFICATION MCSpec
CONSTANTS
  NumHigh = 2
  NumByte = 2
  NumLow = 4
  NumCt = 2
  MaxLines = 5
  AllocStep = 2
  Bit30 = 2
  MaxDevices = 2
  MAX_DEVICES = 2
  DeviceLists <- Lists
  Numbers <- Taus
  UintRange = 64
  CounterMax = 1
  MaxTau = 2
  CandidateLists <- Found
  MaxOptions = 2
  ShortFile = 4
INVARIANTS MainTypeOK PairsAreRight DuplicatesThinned DevicesUsable ThresholdsAreRight SearchPairIsRight CandidatesAreTried
