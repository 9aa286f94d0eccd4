SPECIFICATION Spec
CONSTANTS
  Controllers = {"c1", "c2"}
  Scripts = {"s1"}
  EnvFrozen = {}
  OpsOf <- Ops
  ServiceOf <- Services
  LabelsOf <- Labels
  Windows <- TwoWindows
  DayLen = 4
  Ttl = 1
  Pcts = {0, 100}
  MaxTime = 3
INVARIANTS FreezeRespected RefusalGrounded AbortPersists
