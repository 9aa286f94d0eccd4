----------------------------- MODULE MCKeyRing ------------------------------
(* KeyRing for TLC: every provider is configured with k1, the key that is    *)
(* active at first.                                                          *)
EXTENDS KeyRing

CONSTANTS k1, k2

Configured == [p \in Providers |-> k1]
=============================================================================
