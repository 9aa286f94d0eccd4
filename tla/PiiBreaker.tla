----------------------------- MODULE PiiBreaker -----------------------------
(***************************************************************************)
(* The PII circuit breaker (apps/security/pii_circuit_breaker.py) and its  *)
(* monitor (jobs/pii_circuit_breaker_monitor.py). Each process keeps the   *)
(* state it read when it started, and writes it to one shared file without *)
(* reading it again.                                                       *)
(***************************************************************************)
CONSTANT Monitors  \* processes that hold a breaker: monitors, operators

VARIABLES stateFile,  \* the file: a state, "none", or "torn" while or after a failed write
          breaker,    \* breaker[p]: the state p holds, or "down"
          saving,     \* the processes that have truncated the file and not yet written it
          standing    \* history: an order to disable that nothing running could know less of
vars == <<stateFile, breaker, saving, standing>>

States  == {"enabled", "disabled_auto", "disabled_manual"}
\* What the metrics file says: nothing usable, too few requests, too many errors or
\* too slow, or neither.
Metrics == {"none", "few", "bad", "good"}

\* _load_state: what cannot be read counts as enabled.
Loaded(file) == IF file \in States THEN file ELSE "enabled"

\* Variant of Checked: good metrics enable whatever was disabled.
CheckedAnyRecovers(state, metrics) ==
  CASE metrics = "bad" /\ state = "enabled" -> "disabled_auto"
    [] metrics = "good" -> "enabled"
    [] OTHER -> state

\* check
Checked(state, metrics) ==
  CASE metrics = "bad" /\ state = "enabled" -> "disabled_auto"
    [] metrics = "good" /\ state = "disabled_auto" -> "enabled"
    [] OTHER -> state

-----------------------------------------------------------------------------
Init == /\ stateFile = "none"
        /\ breaker = [p \in Monitors |-> "down"]
        /\ saving = {} /\ standing = FALSE

Start(p) ==
  /\ breaker[p] = "down"
  /\ breaker' = [breaker EXCEPT ![p] = Loaded(stateFile)]
  /\ UNCHANGED <<stateFile, saving, standing>>

\* _save_state, its first half: the file is opened for writing.
Truncate(p, state) ==
  /\ breaker' = [breaker EXCEPT ![p] = state]
  /\ saving' = saving \cup {p}
  /\ stateFile' = "torn"

\* One round of the monitor.
Check(p) ==
  /\ breaker[p] # "down" /\ p \notin saving
  /\ \E m \in Metrics : LET state == Checked(breaker[p], m)
                        IN  state # breaker[p] /\ Truncate(p, state)
  /\ UNCHANGED standing

\* disable_manual, enable_manual
Order(p, state) ==
  /\ breaker[p] # "down" /\ p \notin saving
  /\ Truncate(p, state)
  /\ standing' = FALSE

\* _save_state, its second half. Over what another wrote meanwhile, the text may end
\* in the rest of the other's. An error of the disk is swallowed.
Save(p) ==
  /\ p \in saving
  /\ saving' = saving \ {p}
  /\ stateFile' \in {breaker[p], stateFile} \cup (IF stateFile = "torn" THEN {} ELSE {"torn"})
  /\ standing' = \/ standing
                 \/ /\ stateFile' = "disabled_manual" /\ breaker[p] = "disabled_manual"
                    /\ \A q \in Monitors \ {p} : breaker[q] = "down"
  /\ UNCHANGED breaker

\* The process ends, or dies at any point.
Stop(p) ==
  /\ breaker[p] # "down"
  /\ breaker' = [breaker EXCEPT ![p] = "down"]
  /\ saving' = saving \ {p}
  /\ UNCHANGED <<stateFile, standing>>

Next == \E p \in Monitors :
          \/ Start(p) \/ Check(p) \/ Save(p) \/ Stop(p)
          \/ \E state \in {"enabled", "disabled_manual"} : Order(p, state)

Spec == Init /\ [][Next]_vars

-----------------------------------------------------------------------------
\* An order to disable stands until the next order, whatever the metrics say and
\* whoever starts or dies, if no other process held an older state when it was written
\* (pii_circuit_breaker.py:69-158).
SoleOrderStands ==
  standing => /\ stateFile = "disabled_manual"
              /\ \A p \in Monitors : breaker[p] \in {"down", "disabled_manual"}

\* "If manually disabled, keep disabled" (pii_circuit_breaker.py:117): only an order
\* ends a manual disable.
ManualDisableStands ==
  [][stateFile = "disabled_manual" /\ stateFile' # stateFile =>
       \E p \in Monitors, s \in {"enabled", "disabled_manual"} : Order(p, s)]_vars
=============================================================================
