SPECIFICATION Spec
CONSTANTS
  k1 = k1
  k2 = k2
  Servers = {s1}
  Providers = {p1}
  Tools = {t1}
  KeyIds = {k1, k2}
  KeyOf <- Configured
  FirstKey = k1
  TTL = 1
  Grace = 1
  ToolStall = 0
  Latency = 1
PROPERTY RotationIsSeamless
