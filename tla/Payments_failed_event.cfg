SPECIFICATION Spec
CONSTANTS
  c1 = c1
  c2 = c2
  ok = ok
  failed = failed
  refund = refund
  other = other
  Threads = {t1}
  Adapter = "generic_pg"
  IntentAmount = 2
  Amounts = {1, 2, 3}
  Charges = {c1, c2}
  Events = {failed}
  Type <- AllTypes
  About <- AboutC1
  KeyTTL = 1
  MaxCalls = 1
PROPERTY FailedNotSettled
