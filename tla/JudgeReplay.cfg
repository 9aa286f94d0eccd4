SPECIFICATION Spec
CONSTANTS
  Workers = {w1, w2}
  Nonces = {n1, n2}
  Backends = {"sqlite", "redis"}
  TTL = 4
  StoreSkew = 1
  Skew = 1
  Stall = 1
  Drift = 1
  MaxTime = 5
SYMMETRY Symmetry
CHECK_DEADLOCK FALSE
INVARIANTS JudgedAtMostOnce ReplayHasCause
PROPERTY ImplementsOnceOnly
