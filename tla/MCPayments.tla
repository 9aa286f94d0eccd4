----------------------------- MODULE MCPayments -----------------------------
(* Payments for TLC: events of each kind, all about one charge.  Threads are *)
(* interchangeable.                                                          *)
EXTENDS Payments, TLC

CONSTANTS c1, c2, ok, failed, refund, other

AllTypes ==
  [e \in Events |-> CASE e = ok -> "payment_succeeded"
                      [] e = failed -> "payment_failed"
                      [] e = refund -> "refund_succeeded"
                      [] OTHER -> "unknown"]
AboutC1 == [e \in Events |-> c1]

ThreadSymmetry == Permutations(Threads)
=============================================================================
