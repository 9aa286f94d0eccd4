------------------------------- MODULE Tuning -------------------------------
(***************************************************************************)
(* What tunes the canary between releases: the drift report (jobs/         *)
(* posterior_drift_check.py), the step of the canary (jobs/                *)
(* canary_step_adjust.py), the promotion thresholds and their guard (jobs/ *)
(* autotune_promote_threshold.py, apps/ops/optimizer). Jobs share files    *)
(* and may die while writing one.                                          *)
(***************************************************************************)
EXTENDS Integers

CONSTANTS Values,   \* values of a threshold that may be proposed, in steps
          Bases,    \* the thresholds people put into the base policy
          Low, High, Slew,        \* its bounds, and how far it may move in one run
          WindowsLow, WindowsHigh, WindowsSlew,  \* the same for min_windows; 0: no limit
          Factors,  \* how variance and congestion widen a cap: to this many times
          Floor, Ceiling,         \* what an adaptive cap is kept between
          Trigger, Consecutive    \* severities that roll back, seen so often in a row

VARIABLES drift,    \* the drift report: a severity, "none" or "torn"
          canary,   \* policy.autotuned.json under configs/canary: its canary block,
                    \* NoBlock, or Absent or TornFile
          base,     \* the thresholds of policy.json
          lastGood, \* policy.last_good.json: thresholds, or Absent
          tuned,    \* what the autotuner wrote: thresholds, or Absent
          streak,   \* the count that _drift_consec.state keeps
          from,     \* history: base and caps of the run that wrote 'tuned', Absent if restored
          halted    \* history: a critical report stopped the canary, nothing restarted it
vars == <<drift, canary, base, lastGood, tuned, streak, from, halted>>

Severities == {"info", "warn", "critical"}
Block(enabled, step, max) == [kind |-> "block", enabled |-> enabled, step |-> step, max |-> max]
Fresh    == Block(TRUE, 10, 50)
NoBlock  == [kind |-> "no block"]
Absent   == [kind |-> "absent"]
TornFile == [kind |-> "torn"]
None == -1
\* Thresholds of a policy; a policy file may lack them (None).
Promote(delta, windows) == [kind |-> "promote", delta |-> delta, windows |-> windows]

Larger(i, j)  == IF i > j THEN i ELSE j
Smaller(i, j) == IF i < j THEN i ELSE j
Clamp(v, lo, hi) == Larger(lo, Smaller(hi, v))
Distance(i, j) == Larger(i - j, j - i)

\* Two measures of the drift, each below both thresholds, between them, or above.
Levels == 0..2
Classify(kl, diff) ==
  CASE Larger(kl, diff) = 2 -> "critical" [] Larger(kl, diff) = 1 -> "warn" [] OTHER -> "info"

\* compute_adaptive_caps
AdaptiveCap(cap, factor) == Larger(Floor, Smaller(cap * factor, Ceiling))

\* The cap of a run, adaptive or (None) as configured.
CapOf(slew, factor) == IF factor = None THEN slew ELSE AdaptiveCap(slew, factor)

\* Towards v from b, at most 'cap' far.
Step(b, v, cap) ==
  IF Distance(v, b) > cap THEN (IF v > b THEN b + cap ELSE b - cap) ELSE v

\* Variant of Guarded: the slew limit is measured from the value proposed.
GuardedUnslewed(proposed, b, cap, windowsCap) ==
  Promote(Clamp(proposed.delta, Low, High), Clamp(proposed.windows, WindowsLow, WindowsHigh))

\* apply_bounds_slew: bounds first, then the distance from the base, if there is one.
Guarded(proposed, b, cap, windowsCap) ==
  LET delta   == Clamp(proposed.delta, Low, High)
      windows == Clamp(proposed.windows, WindowsLow, WindowsHigh)
  IN  Promote(IF b.delta = None THEN delta ELSE Step(b.delta, delta, cap),
              IF b.windows = None \/ windowsCap = 0 THEN windows ELSE Step(b.windows, windows, windowsCap))

\* canary_step_adjust.main, on the canary block it finds or makes
Adjusted(block, severity) ==
  CASE severity = "critical" -> [block EXCEPT !.enabled = FALSE]
    [] severity = "warn" -> [block EXCEPT !.step = Larger(5, @ \div 2), !.max = Larger(30, (@ * 7) \div 10)]
    [] OTHER -> Fresh

-----------------------------------------------------------------------------
Init == /\ drift = "none" /\ canary = Absent
        /\ base \in Bases
        /\ lastGood = Absent /\ tuned = Absent /\ streak = 0
        /\ from = Absent /\ halted = FALSE

\* posterior_drift_check.main
ReportDrift ==
  /\ drift' \in {Classify(kl, diff) : kl \in Levels, diff \in Levels} \cup {"torn"}
  /\ UNCHANGED <<canary, base, lastGood, tuned, streak, from, halted>>

\* The job needs a report, and fails on a torn file, its own included.
AdjustStep ==
  /\ drift \in Severities /\ canary # TornFile
  /\ LET block == IF canary.kind = "block" THEN canary ELSE Fresh
     IN  canary' \in {Adjusted(block, drift), TornFile}
  /\ halted' = (drift = "critical" \/ (halted /\ drift # "info"))
  /\ UNCHANGED <<drift, base, lastGood, tuned, streak, from>>

\* autotune_promote_threshold.main. A torn report leaves the streak and rolls back nothing.
Autotune ==
  /\ streak' = CASE drift \notin Severities -> streak
                 [] drift \in Trigger -> Smaller(streak + 1, Consecutive)
                 [] OTHER -> 0
  /\ lastGood' = IF lastGood = Absent THEN base ELSE lastGood
  /\ IF drift \in Severities /\ streak' >= Consecutive
       THEN tuned' = lastGood' /\ from' = Absent
       ELSE \E d \in Values, w \in 3..(WindowsHigh + 1), f \in Factors \cup {None} :
              LET cap        == CapOf(Slew, f)
                  windowsCap == CapOf(WindowsSlew, f)
              IN  /\ tuned' = Guarded(Promote(d, w), base, cap, windowsCap)
                  /\ from' = [kind |-> "run", base |-> base, cap |-> cap, windowsCap |-> windowsCap]
  /\ UNCHANGED <<drift, canary, base, halted>>

\* autotune_guard_rollback.main: the whole file is replaced, its canary block with it.
RestoreLastGood ==
  /\ lastGood # Absent
  /\ canary' = NoBlock /\ halted' = FALSE
  /\ UNCHANGED <<drift, base, lastGood, tuned, streak, from>>

\* Somebody edits the base policy.
EditBase(b) ==
  /\ base' = b
  /\ UNCHANGED <<drift, canary, lastGood, tuned, streak, from, halted>>

Next == ReportDrift \/ AdjustStep \/ Autotune \/ RestoreLastGood \/ \E b \in Bases : EditBase(b)

Spec == Init /\ [][Next]_vars

-----------------------------------------------------------------------------
\* Within bounds, or on the way to them from a base outside.
Reined(v, lo, hi, b) == IF b = None THEN v \in lo..hi ELSE v \in Smaller(lo, b)..Larger(hi, b)

\* Thresholds that the tuner wrote are no further from the base than the caps of that
\* run (no cap for min_windows if it is 0), and outside the bounds only where the base
\* is, and no further out than it: slew limits come after bounds (guard.py:12-63,
\* adaptive.py:45-91). A policy that was restored is under no such guard.
TunedWithinGuard ==
  from # Absent =>
    LET b == from.base
    IN  /\ b.delta # None => Distance(tuned.delta, b.delta) <= from.cap
        /\ b.windows # None /\ from.windowsCap # 0 => Distance(tuned.windows, b.windows) <= from.windowsCap
        /\ from.cap <= Larger(Slew, Ceiling) /\ from.windowsCap <= Larger(WindowsSlew, Ceiling)
        /\ Reined(tuned.delta, Low, High, b.delta)
        /\ Reined(tuned.windows, WindowsLow, WindowsHigh, b.windows)

\* A critical report stops the canary until a report without drift, or until its policy
\* is replaced by the last good one: no warning and no other job starts it again
\* (canary_step_adjust.py:38-63).
CriticalStops == halted /\ canary.kind = "block" => ~canary.enabled
=============================================================================
