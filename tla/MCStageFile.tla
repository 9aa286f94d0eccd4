---------------------------- MODULE MCStageFile -----------------------------
(* StageFile for TLC: who holds which key.                                   *)
EXTENDS StageFile

\* Everybody holds the one key.
OneKey == [p \in Procs |-> {"k1"}]
SignK1 == [p \in Procs |-> "k1"]

\* In the middle of a rotation: r2 already runs with the new key only, the key
\* variable of r3 does not parse, and b1 (a TrafficController without a key,
\* which reads with the guard and writes in place) has none.
Rotating == [p \in Procs |-> CASE p = "r2" -> {"k2"}
                               [] p \in {"r3", "b1"} -> {}
                               [] OTHER    -> {"k1"}]
SignRotating == [p \in Procs |-> IF p = "r2" THEN "k2" ELSE "k1"]
=============================================================================
