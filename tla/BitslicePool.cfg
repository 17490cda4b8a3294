CONSTANTS
  Threads = {t1, t2, t3, t4}
  NumCandidates = 2
  NumJobs = 3
  k1 = k1
  k2 = k2
  k3 = k3
  k4 = k4
  Keys = {k1, k2, k3, k4}
  NoKey = NoKey
  Found <- FoundKeys
  Valid = {k1, k2, k3}
  Good = {k1, k2, k4}
  StartupErrors = TRUE
  JobErrors = TRUE
SPECIFICATION FairSpec
INVARIANTS TypeOK NoKeyMissed PrintedKeyIsGood StopsPromptly
PROPERTIES FoundKeyIsPrinted Progress

CHECK_DEADLOCK FALSE
