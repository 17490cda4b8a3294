SPECIFICATION FairSpec
CONSTANTS
  MinutesPerBin = 2
  SlotsPerMinute = 3
  Seconds = 2
  BinsPerDay = 3
  Days <- ShortYear
  LowestChannel = 1
  Channels = 3
  ChannelLimit = 4
  Half = 8
  MaxBins = 2
  MaxCallsigns = 1
INVARIANTS TypeOK ClockIsValid CallsAreSeparate
PROPERTIES BinsAreConsecutive Finishes
CHECK_DEADLOCK FALSE
