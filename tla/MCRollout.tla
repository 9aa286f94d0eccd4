----------------------------- MODULE MCRollout ------------------------------
(* Rollout for TLC: a day off that a hotfix may ignore, and weekly hours in  *)
(* which ops-api is closed.                                                  *)
EXTENDS Rollout

\* c2 only registers results.
Ops == [p \in Actors |-> CASE p = "c1" -> {"promote", "abort", "cutover"}
                           [] p \in Scripts -> {"promote", "abort", "canary", "auto"}
                           [] OTHER -> {}]
Services == [p \in Actors |-> IF p \in Scripts THEN "ops-api" ELSE "core"]
Labels   == [p \in Actors |-> IF p \in Scripts THEN {"hotfix"} ELSE {}]

DayOff == [kind |-> "absolute", services |-> {"*"}, tags |-> {"hotfix"},
           days |-> {}, from |-> 3, to |-> 3]
Hours  == [kind |-> "weekly", services |-> {"ops-api"}, tags |-> {},
           days |-> {0}, from |-> 1, to |-> 2]
TwoWindows == {DayOff, Hours}
=============================================================================
