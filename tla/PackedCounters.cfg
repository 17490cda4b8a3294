CONSTANTS
  t1 = t1
  t2 = t2
  t3 = t3
  Threads = {t1, t2, t3}
  NumCounters = 3
  PerWord = 2
  Saturation = 3
  CallChoices <- SharedWord
  Thresholds = {2, 4, 5}
  MAX_KEYS = 2
SPECIFICATION FairSpec
INVARIANTS TypeOK NoLostHits ListedOnce NoneMissed
PROPERTY Completion
