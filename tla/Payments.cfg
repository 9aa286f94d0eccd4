SPECIFICATION Spec
CONSTANTS
  c1 = c1
  c2 = c2
  ok = ok
  failed = failed
  refund = refund
  other = other
  Threads = {t1, t2}
  Adapter = "stripe_stub"
  IntentAmount = 2
  Amounts = {1, 2, 3}
  Charges = {c1, c2}
  Events = {ok, refund, other}
  Type <- AllTypes
  About <- AboutC1
  KeyTTL = 1
  MaxCalls = 3
SYMMETRY ThreadSymmetry
INVARIANTS WithinIntent DuplicateWasHandled OneReceipt
