--------------------------- MODULE QuorumDecision ---------------------------
(* What a k-of-n decision promises: every judge casts one ballot, in any     *)
(* order; when all are in, the decision is made once, from the ballots; an   *)
(* error counts against it, and in a fail-closed round alone makes it fail.  *)
CONSTANTS
  Providers,
  Quorums       \* the sets of judges whose agreement is enough

VARIABLES
  ballot,    \* what each judge has cast in this round
  final,     \* the decision: "none", "pass" or "fail"
  failClosed \* whether an error alone makes this round fail

vars == <<ballot, final, failClosed>>

Ballots == {"pass", "fail", "error"}

With(b) == {p \in Providers : ballot[p] = b}

Outcome ==
  IF With("pass") \in Quorums /\ (failClosed => With("error") = {})
    THEN "pass" ELSE "fail"

Init ==
  /\ ballot = [p \in Providers |-> "none"]
  /\ final = "none"
  /\ failClosed \in BOOLEAN

Cast(p, b) ==
  /\ ballot[p] = "none"
  /\ final = "none"
  /\ ballot' = [ballot EXCEPT ![p] = b]
  /\ UNCHANGED <<final, failClosed>>

Decide ==
  /\ With("none") = {}
  /\ final = "none"
  /\ final' = Outcome
  /\ UNCHANGED <<ballot, failClosed>>

\* The next decision is asked for, or the first one.
NewRound ==
  /\ final # "none" \/ With("none") = Providers
  /\ ballot' = [p \in Providers |-> "none"]
  /\ final' = "none"
  /\ failClosed' \in BOOLEAN

Next == (\E p \in Providers, b \in Ballots : Cast(p, b)) \/ Decide \/ NewRound

Spec == Init /\ [][Next]_vars
=============================================================================
