SPECIFICATION FairSpec
CONSTANTS
  Threads = {t1, t2, t3}
  Threshold = 2
  Timeout = 2
  HalfOpenRequests = 2
  MaxFailures = 5
INVARIANT NeverWedged
PROPERTIES OpensAfterStreak Recovers
