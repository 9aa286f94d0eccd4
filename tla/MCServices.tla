----------------------------- MODULE MCServices -----------------------------
(***************************************************************************)
(* Services for TLC.                                                       *)
(***************************************************************************)
EXTENDS Services

\* Thresholds within bounds, outside them, and none (-1).
MCBase(change, count) == [kind |-> "promote", delta |-> change, windows |-> count]
MCBases == {MCBase(2, 3), MCBase(0, 6), MCBase(-1, -1)}

\* Two files of one tenant, one of them locked, and one of another's.
MCTenantOf == [f \in Files |-> IF f = "s" THEN "u" ELSE "t"]

\* A gate that failed for a reason with a label, one that passed, and one that only
\* sets labels.
MCReport(result, upsert, sync, codes) ==
  [result |-> result, extra |-> "", badges |-> TRUE, upsert |-> upsert, sync |-> sync, codes |-> codes]
MCReports == {MCReport("failure", TRUE, TRUE, {"slo", "other"}), MCReport("success", TRUE, FALSE, {}),
              [MCReport("", FALSE, TRUE, {"slo"}) EXCEPT !.badges = FALSE]}
=============================================================================
