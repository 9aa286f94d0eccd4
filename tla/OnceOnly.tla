------------------------------ MODULE OnceOnly ------------------------------
(* What the replay check of POST /judge promises its callers, whatever the   *)
(* store, the clocks and the network: a signed request, known by its nonce,  *)
(* is claimed by at most one worker, ever.  That worker alone may judge it;  *)
(* if it dies or fails the claim is lost, and no redelivery revives it.      *)
EXTENDS Naturals

CONSTANTS Workers, Nonces

VARIABLES
  fresh,     \* the nonces never claimed
  claims,    \* claims[n]: the workers that hold a claim on n
  judged     \* how often the request with each nonce has been judged

vars == <<fresh, claims, judged>>

Init ==
  /\ fresh = Nonces
  /\ claims = [n \in Nonces |-> {}]
  /\ judged = [n \in Nonces |-> 0]

Claim(w, n) ==
  /\ n \in fresh
  /\ fresh' = fresh \ {n}
  /\ claims' = [claims EXCEPT ![n] = {w}]
  /\ UNCHANGED judged

Judge(w, n) ==
  /\ w \in claims[n]
  /\ claims' = [claims EXCEPT ![n] = {}]
  /\ judged' = [judged EXCEPT ![n] = 1]
  /\ UNCHANGED fresh

\* A claim ends without a verdict: the worker fails, or refuses the payload.
Drop(w, n) ==
  /\ w \in claims[n]
  /\ claims' = [claims EXCEPT ![n] = {}]
  /\ UNCHANGED <<fresh, judged>>

\* The store took the nonce, but the worker never heard of it.
Waste(n) ==
  /\ n \in fresh
  /\ fresh' = fresh \ {n}
  /\ UNCHANGED <<claims, judged>>

Next ==
  \E n \in Nonces :
    \/ \E w \in Workers : Claim(w, n) \/ Judge(w, n) \/ Drop(w, n)
    \/ Waste(n)

Spec == Init /\ [][Next]_vars
=============================================================================
