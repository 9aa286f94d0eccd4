------------------------------ MODULE Rollout -------------------------------
(***************************************************************************)
(* Change governance around a rollout: the freeze guard of                 *)
(* apps/ops/freeze.py, break-glass manifests, and those who pass it -      *)
(* traffic controllers inside services and the scripts of pipeline/release *)
(* - together with what they change: the stage token, a controller's       *)
(* canary percentage and its state file, the blue/green stage.             *)
(*                                                                         *)
(* The guard reads the clock, the flag file, the manifest and the windows  *)
(* one after the other, and the change comes after the last of them.       *)
(* The stage token is one value here; StageFile has its two files.         *)
(***************************************************************************)
EXTENDS Naturals, FiniteSets

CONSTANTS
  Controllers,   \* services that hold a TrafficController and a BlueGreenController
  Scripts,       \* runs of promote.sh, abort.sh, canary_step.sh, canary_auto.sh
  EnvFrozen,     \* those with DECISIONOS_FREEZE=1 and no urgent or hotfix label
  OpsOf,         \* the guarded operations each of them uses
  ServiceOf, LabelsOf,   \* the service and the labels each of them names
  Windows,       \* freeze windows of the signed policy, see Window
  DayLen,        \* units of time in a day
  Ttl,           \* validity of a break-glass token
  Pcts,          \* stages of the canary policy, 0 and 100 among them
  MaxTime        \* bound on the clock

ASSUME ActorsAssumption == Controllers \cap Scripts = {}
ASSUME OpsAssumption ==
  /\ \A p \in Controllers : OpsOf[p] \subseteq {"promote", "abort", "cutover"}
  /\ \A p \in Scripts : OpsOf[p] \subseteq {"promote", "abort", "canary", "auto"}
ASSUME TimesAssumption  == Ttl \in Nat \ {0} /\ MaxTime \in Nat \ {0}

\* The stages are numbers in an order, beginning with 0.
ASSUME PctsAssumption ==
  /\ Pcts \subseteq Nat /\ 0 \in Pcts
  /\ \A v, w \in Pcts : w > v => \E x \in Pcts : x > v /\ \A y \in Pcts : y > v => x <= y

VARIABLES
  now,       \* the clock
  flag,      \* the freeze flag file exists
  glass,     \* when the break-glass manifest expires, or NoGlass
  token,     \* the stage token
  pctFile,   \* canary_state.json
  pct,       \* pct[c]: the percentage a controller routes by
  pc,        \* where everybody is
  due,       \* due[c]: the token a controller is going to write
  seen,      \* seen[p]: the clock as p's guard read it
  freed,     \* history: the grounds that did not bind p since its guard began
  bound,     \* history: whether p has met a ground, and no valid break glass
  aborted,   \* history: a controller aborted, and none has set a stage since
  raced      \* history: two controllers were writing at once, or one died writing

vars == <<now, flag, glass, token, pctFile, pct, pc, due, seen,
          freed, bound, aborted, raced>>

Actors  == Controllers \cup Scripts
Grounds == {"flag", "window"}

-----------------------------------------------------------------------------
\* Freeze windows: FreezeWindow.evaluate. A window is either absolute (start,
\* end) or weekly (days, from, to within a day).

Window == [kind : {"absolute", "weekly"}, services : SUBSET STRING, tags : SUBSET STRING,
           days : SUBSET (0 .. 6), from : Nat, to : Nat]

Weekday(t)  == (t \div DayLen) % 7
TimeOfDay(t) == t % DayLen

\* A weekly window that ends before it starts loses its lower end: the code
\* moves the end to the next day and the start to the day before.
ActiveInstant(w, t) ==
  IF w.kind = "absolute"
  THEN w.from <= t /\ t <= w.to
  ELSE /\ Weekday(t) \in w.days
       /\ w.to > w.from => w.from <= TimeOfDay(t) /\ TimeOfDay(t) <= w.to

BlocksAt(p, t) ==
  \E w \in Windows : /\ w.services \cap {"*", ServiceOf[p]} # {}
                     /\ ActiveInstant(w, t)
                     /\ w.tags \cap LabelsOf[p] = {}

-----------------------------------------------------------------------------
\* Break glass.

\* No manifest, one being written in place, one expired, or one whose key is gone.
NoGlass == 0

\* has_valid_break_glass, verify_token: any key still listed will do
GlassValid == glass # NoGlass

\* The grounds for a freeze that exist for p in this state, whatever its guard
\* has read, and those that no break glass lifts.
Existing(p) == {g \in Grounds : \/ g = "flag" /\ (flag \/ p \in EnvFrozen)
                                \/ g = "window" /\ BlocksAt(p, now)}
Binding(p) == IF GlassValid THEN {} ELSE Existing(p)
Met(p) == (IF Existing(p) # {} THEN {"ground"} ELSE {})
          \cup (IF GlassValid THEN {} ELSE {"no glass"})

InGuard == {"flag", "glass", "windows", "blocked", "token", "act"}

\* Called with every step that changes a ground: what those under way have met.
Observe ==
  /\ freed' = [p \in Actors |-> IF pc[p] \in InGuard
                                THEN freed[p] \cup (Grounds \ Binding(p)') ELSE freed[p]]
  /\ bound' = [p \in Actors |-> IF pc[p] \in InGuard
                                THEN bound[p] \cup Met(p)' ELSE bound[p]]

-----------------------------------------------------------------------------
Init ==
  /\ now = 1 /\ flag = FALSE /\ glass = NoGlass
  /\ token = "stable" /\ pctFile = 0
  /\ pct = [c \in Controllers |-> 0]
  /\ pc = [p \in Actors |-> "idle"] /\ due = [c \in Controllers |-> "none"]
  /\ seen = [p \in Actors |-> 0]
  /\ freed = [p \in Actors |-> {}] /\ bound = [p \in Actors |-> {}]
  /\ aborted = FALSE /\ raced = FALSE

\* The world: time, pause.sh, burn_alert_gate and resume.sh, break glass.

rollout == <<token, pctFile, pct, pc, due, seen, aborted, raced>>

Tick ==
  /\ now < MaxTime /\ now' = now + 1
  /\ glass' = IF glass < now' THEN NoGlass ELSE glass
  /\ UNCHANGED flag /\ UNCHANGED rollout /\ Observe

\* pause.sh, and burn_alert_gate when the burn rate is at warn or critical
Pause ==
  /\ ~flag /\ flag' = TRUE
  /\ UNCHANGED <<now, glass>> /\ UNCHANGED rollout /\ Observe

Resume ==
  /\ flag /\ flag' = FALSE
  /\ UNCHANGED <<now, glass>> /\ UNCHANGED rollout /\ Observe

\* Revoked by hand, opened in place by issue_token (which then fills it), or the
\* key that signed it leaves DECISIONOS_POLICY_KEYS.
Revoke ==
  /\ glass # NoGlass /\ glass' = NoGlass
  /\ UNCHANGED <<now, flag>> /\ UNCHANGED rollout /\ Observe

Issue ==
  /\ glass = NoGlass /\ glass' = now + Ttl
  /\ UNCHANGED <<now, flag>> /\ UNCHANGED rollout /\ Observe

World == Tick \/ Pause \/ Resume \/ Issue \/ Revoke

-----------------------------------------------------------------------------
\* The guard: _change_guard of a controller, verify_freeze_window of a script.

outside == <<now, flag, glass>>
book    == <<due, seen, freed, bound>>
effects == <<token, pctFile, pct, aborted, raced>>

Goto(p, l) == pc' = [pc EXCEPT ![p] = l] /\ UNCHANGED book /\ UNCHANGED outside

\* p's guard is over, p goes on at l.
EndGuard(p, l) ==
  /\ pc' = [pc EXCEPT ![p] = l] /\ seen' = [seen EXCEPT ![p] = 0]
  /\ freed' = [freed EXCEPT ![p] = {}] /\ bound' = [bound EXCEPT ![p] = {}]
  /\ UNCHANGED outside

Leave(p) == /\ EndGuard(p, "idle")
            /\ due' = [c \in Controllers |-> IF c = p THEN "none" ELSE due[c]]

\* The clock is read first. (Which operation it is matters from "act" on only.)
Begin(p) ==
  /\ pc[p] = "idle" /\ OpsOf[p] # {} /\ pc' = [pc EXCEPT ![p] = "flag"]
  /\ UNCHANGED due
  /\ seen' = [seen EXCEPT ![p] = now]
  /\ freed' = [freed EXCEPT ![p] = Grounds \ Binding(p)]
  /\ bound' = [bound EXCEPT ![p] = Met(p)]
  /\ UNCHANGED outside /\ UNCHANGED effects

CheckFlag(p) ==
  /\ pc[p] = "flag"
  /\ Goto(p, IF p \in EnvFrozen THEN "blocked" ELSE IF flag THEN "glass" ELSE "windows")
  /\ UNCHANGED effects

\* Variant of CheckGlass: break glass lifts the windows too, a while later.
CheckGlassForAll(p) ==
  /\ pc[p] = "glass"
  /\ Goto(p, IF GlassValid \/ p \in Scripts THEN "act" ELSE "blocked")
  /\ UNCHANGED effects

\* Break glass lifts the flag.
CheckGlass(p) ==
  /\ pc[p] = "glass"
  /\ Goto(p, IF GlassValid THEN "windows" ELSE "blocked")
  /\ UNCHANGED effects

\* Variant of CheckWindows: the allow tags are not looked at.
CheckWindowsNoTags(p) ==
  /\ pc[p] = "windows"
  /\ Goto(p, IF \E w \in Windows : ActiveInstant(w, seen[p]) THEN "blocked" ELSE "act")
  /\ UNCHANGED effects

\* The windows are loaded, and evaluated at the time read at the start.
\* A script that was given a token goes on to verify it.
CheckWindows(p) ==
  /\ pc[p] = "windows"
  /\ IF BlocksAt(p, seen[p]) THEN Goto(p, "blocked")
     ELSE \/ Goto(p, "act")
          \/ p \in Scripts /\ Goto(p, "token")
  /\ UNCHANGED effects

\* A controller asks for break glass once more; verify_freeze_window exits 2.
Override(p) ==
  /\ pc[p] = "blocked"
  /\ Goto(p, IF p \in Controllers /\ GlassValid THEN "act" ELSE "refused")
  /\ UNCHANGED effects

\* break_glass verify --token: an invalid one ends the script although nothing
\* is frozen.
VerifyToken(p) ==
  /\ pc[p] = "token"
  /\ IF GlassValid THEN Goto(p, "act") ELSE Leave(p)
  /\ UNCHANGED effects

\* A refusal is reported. So is a missing CAB signature or on-call
\* acknowledgement of promote.sh.
Refuse(p) ==
  /\ \/ pc[p] = "refused"
     \/ pc[p] = "act" /\ p \in Scripts /\ "promote" \in OpsOf[p]
  /\ Leave(p) /\ UNCHANGED effects

-----------------------------------------------------------------------------
\* What a permitted change does.

Writing == {c \in Controllers : pc[c] \in {"save", "stage"}}

\* write_stage_atomic by a script; canary_auto_promote may also hold
ScriptActs(p) ==
  /\ p \in Scripts /\ pc[p] = "act"
  /\ \E o \in OpsOf[p] : token' \in CASE o = "promote" -> {"promote"}
                                      [] o = "abort"   -> {"stable"}
                                      [] o = "canary"  -> {"canary"}
                                      [] o = "auto"    -> {"promote", "abort", token}
  /\ Leave(p) /\ UNCHANGED <<pctFile, pct, aborted, raced>>

\* The blue/green stage changes (unless the target is not healthy) in the
\* memory of this process, where nothing else reads it.
Cutover(c) ==
  /\ c \in Controllers /\ pc[c] = "act" /\ "cutover" \in OpsOf[c]
  /\ Leave(c) /\ UNCHANGED effects

Promote(c) ==
  /\ c \in Controllers /\ pc[c] = "act" /\ "promote" \in OpsOf[c]
  /\ EndGuard(c, "stage") /\ due' = [due EXCEPT ![c] = "promote"]
  /\ UNCHANGED effects

\* Percentage in memory; the state file is opened in place, and reads as 0.
StartSave(c, v, t) ==
  /\ pct' = [pct EXCEPT ![c] = v] /\ pctFile' = 0
  /\ due' = [due EXCEPT ![c] = t]
  /\ EndGuard(c, "save")
  /\ raced' = (raced \/ Writing # {}) /\ UNCHANGED token

\* Variant of Abort: only the token is written.
AbortTokenOnly(c) ==
  /\ c \in Controllers /\ pc[c] = "act" /\ "abort" \in OpsOf[c]
  /\ EndGuard(c, "stage") /\ due' = [due EXCEPT ![c] = "abort"] /\ aborted' = TRUE
  /\ UNCHANGED <<token, pctFile, pct, raced>>

Abort(c) ==
  /\ c \in Controllers /\ pc[c] = "act" /\ "abort" \in OpsOf[c]
  /\ StartSave(c, 0, "abort") /\ aborted' = TRUE

\* set_stage, which no guard protects
SetStage(c, v) ==
  /\ pc[c] = "idle"
  /\ StartSave(c, v, IF v > 0 THEN "canary" ELSE "stable") /\ aborted' = FALSE

\* register_result: the next stage of the policy, or 0 after a failure
NextStage(v) ==
  LET above == {x \in Pcts : x > v}
  IN  IF above = {} THEN v ELSE CHOOSE x \in above : \A y \in above : x <= y

RegisterResult(c, success) == SetStage(c, IF success THEN NextStage(pct[c]) ELSE 0)

SaveState(c) ==
  /\ pc[c] = "save" /\ pctFile' = pct[c] /\ Goto(c, "stage")
  /\ UNCHANGED <<token, pct, aborted, raced>>

WriteStage(c) ==
  /\ pc[c] = "stage"
  /\ token' = due[c]
  /\ Leave(c) /\ UNCHANGED <<pctFile, pct, aborted, raced>>

\* A service is killed and started again: _load_state.
Restart(c) ==
  /\ Leave(c)
  /\ pct' = [pct EXCEPT ![c] = pctFile]
  /\ raced' = (raced \/ c \in Writing)
  /\ UNCHANGED <<token, pctFile, aborted>>

Guard(p) == \/ Begin(p) \/ CheckFlag(p) \/ CheckGlass(p) \/ CheckWindows(p)
            \/ Override(p) \/ VerifyToken(p) \/ Refuse(p)

Change(c) == \/ Cutover(c) \/ Promote(c) \/ Abort(c) \/ SaveState(c) \/ WriteStage(c)
             \/ Restart(c)
             \/ \E ok \in BOOLEAN : RegisterResult(c, ok)

Next == \/ World
        \/ \E p \in Actors : Guard(p) \/ ScriptActs(p)
        \/ \E c \in Controllers : Change(c)

Spec == Init /\ [][Next]_vars

-----------------------------------------------------------------------------
TypeOK ==
  /\ now \in 1 .. MaxTime /\ flag \in BOOLEAN /\ glass \in 0 .. MaxTime + Ttl
  /\ token \in {"stable", "canary", "promote", "abort"}
  /\ pctFile \in Pcts /\ pct \in [Controllers -> Pcts]
  /\ pc \in [Actors -> InGuard \cup {"idle", "refused", "save", "stage"}]
  /\ due \in [Controllers -> {"none", "stable", "canary", "promote", "abort"}]
  /\ seen \in [Actors -> 0 .. MaxTime]
  /\ freed \in [Actors -> SUBSET Grounds] /\ bound \in [Actors -> SUBSET {"ground", "no glass"}]
  /\ aborted \in BOOLEAN /\ raced \in BOOLEAN

\* A guarded change is made only if each ground for a freeze - flag or
\* environment, windows - was absent, or lifted by a valid break-glass token,
\* at some moment since the guard began. Clock, flag, manifest and windows are
\* looked at one after the other, and any of them may change in between.
FreezeRespected == \A p \in Actors : pc[p] = "act" => freed[p] = Grounds

\* A controller refuses a change for a freeze only if, since its guard began,
\* there was a ground for one, and a moment without a valid break-glass token.
RefusalGrounded ==
  \A c \in Controllers : pc[c] = "refused" => bound[c] = {"ground", "no glass"}

\* RUNBOOK-CHANGE.md, "1." and "4.", says the same of the scripts.
ScriptsHonourGlass ==
  \A p \in Scripts : pc[p] = "refused" => bound[p] = {"ground", "no glass"}

\* Once a controller has aborted, no controller that starts later routes to the
\* canary until some controller sets a stage again - provided that no two
\* controllers were writing at once and none died writing.
AbortPersists == aborted /\ ~raced => pctFile = 0
=============================================================================
