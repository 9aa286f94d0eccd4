CONSTANTS
  Parts = {"pii", "rbac", "policy", "tuning", "evidence", "gc", "keys", "cards", "limits", "metering", "annotate", "bot", "delta", "consent", "executor"}
  Monitors = {"m1", "m2", "m3"}
  Workers = {"w1", "w2"}
  Maps = {"a", "b", "x"}
  Unparsed = {"x"}
  Policies = {"p"}
  Contents = {"a", "b"}
  Keys = {"k1", "k2"}
  FirstKey = "k1"
  MaxChain = 2
  Values = {0, 3, 5}
  Bases <- MCBases
  Low = 1
  High = 4
  Slew = 1
  WindowsLow = 3
  WindowsHigh = 4
  WindowsSlew = 1
  Factors = {2}
  Floor = 1
  Ceiling = 2
  Trigger = {"critical"}
  Consecutive = 2
  Names = {"a", "l"}
  Locked = {"l"}
  Files = {"a", "b", "l", "s"}
  Kept = {"l"}
  TenantOf <- MCTenantOf
  KeepMin = 2
  Runs = {"r1", "r2"}
  Ids = {"k1", "k2"}
  Secrets = {1, 2}
  Interval = 2
  Grace = 1
  MaxTime = 4
  CardClients = {"c1", "c2"}
  TrendClients = {"t1"}
  Indexes = {1, 2}
  MaxWrites = 2
  Callers = {"c1", "c2"}
  Cap = 2
  Refill = 1
  Window = 2
  MaxEvents = 2
  Ttl = 3
  EndOfTime = 4
  Ingesters = {"i1", "i2"}
  EventKeys = {"e", "f"}
  MaxBatches = 2
  Jobs = {"j1", "j2"}
  Reports <- MCReports
  Catalog = {"slo"}
  PageSize = 2
  MaxComments = 3
  Days = {1, 2}
  Countdown = {"soon-3", "soon-14"}
  CardIds = {"a", "b"}
  Bodies = {1, 2}
  NoId = "none"
  MaxCards = 2
  Docs = {"d1", "d2"}
  Terms = {0, 2}
  MaxRecords = 3
  LastDay = 3
  Retries = {0, 2}
SPECIFICATION Spec
CHECK_DEADLOCK FALSE
INVARIANTS SoleOrderStands UnchangedMeansCurrent ChainTellsHistory  TuningIsGuarded SealedIsGenuine MinimumIsKept KeysAreHonest NotModifiedMeansCurrent LimitHolds AcceptedOnce SingleComment ExpiryIsTold CopyIsExact RevokedIsGone NoUnaskedRepeat
