------------------------------ MODULE Services ------------------------------
(***************************************************************************)
(* The parts of the system that share a file with their own kind only:     *)
(* several processes or jobs, one file or directory, no lock. A behaviour  *)
(* is one of some part, the others being at rest.                          *)
(***************************************************************************)
EXTENDS Integers, FiniteSets

CONSTANTS Parts,                                           \* the parts looked at
          Monitors,                                        \* PiiBreaker
          Workers, Maps, Unparsed,                         \* RbacReload
          Policies, Contents, Keys, FirstKey, MaxChain,    \* PolicyFiles
          Values, Bases, Low, High, Slew, WindowsLow, WindowsHigh, WindowsSlew,
          Factors, Floor, Ceiling, Trigger, Consecutive,   \* Tuning
          Names, Locked,                                   \* Evidence
          Files, Kept, TenantOf, KeepMin, Runs,            \* EvidenceGc
          Ids, Secrets, Interval, Grace, MaxTime,          \* KeyCaches
          CardClients, TrendClients, Indexes, MaxWrites,   \* Cards
          Callers, Cap, Refill, Window, MaxEvents, Ttl, EndOfTime, \* Limits
          Ingesters, EventKeys, MaxBatches,                \* Metering
          Jobs, Reports, Catalog, PageSize, MaxComments,   \* Annotate
          Days, Countdown,                                 \* RotationBot
          CardIds, Bodies, NoId, MaxCards,                 \* CardsDelta
          Docs, Terms, MaxRecords, LastDay,                \* Consent
          Retries                                          \* Executor

\* A file that is not there has no content, and no hash either.
ASSUME RbacAssumption == Maps \cap {"gone", "nothing"} = {}

\* There are policies; what stands for the hash of none is the hash of none.
ASSUME PolicyAssumption == Policies # {}

\* A directory is finite.
ASSUME GcAssumption == IsFiniteSet(Files) /\ KeepMin \in Nat

\* As configured, a round comes after the grace of the one before (300 s, 60 s).
ASSUME KeysAssumption == Interval \in Nat /\ Grace \in Nat /\ Grace <= Interval

\* A client keeps what each route told it apart.
ASSUME CardsAssumption == CardClients \cap TrendClients = {}

\* What CI says of a stage; a page has a size.
ASSUME AnnotateAssumption ==
  /\ PageSize \in Nat
  /\ \A r \in Reports : /\ r.result \in {"success", "failure", "skipped", ""} /\ r.extra \in {"", "pass", "fail"}
                         /\ r.badges \in BOOLEAN /\ r.upsert \in BOOLEAN

\* Thresholds are numbers, limits are in order and caps are amounts.
ASSUME TuningAssumption ==
  /\ Values \cup Factors \cup {Low, High, Ceiling, WindowsLow, WindowsHigh} \subseteq Int
  /\ Low <= High /\ WindowsLow <= WindowsHigh
  /\ {Slew, WindowsSlew, Floor} \subseteq Nat /\ Floor <= Ceiling
  /\ \A b \in Bases : b.delta \in Int /\ b.windows \in Int

\* A bucket is full again, and a window over, before Redis drops the key (120 s and a
\* capacity of 120 at 10 a second; the window and 60 s).
ASSUME LimitsAssumption ==
  /\ {Cap, Refill, Window, MaxEvents, Ttl, EndOfTime} \subseteq Nat
  /\ Refill * Ttl >= Cap /\ Ttl > Window

VARIABLES part,
          stateFile, breaker, saving, standing,
          mapFile, shown, back, worker, raced,
          policy, signature, keyState, signing, registry, updating, rotation, touched, history, orderly,
          drift, canary, base, lastGood, tuned, streak, from, halted,
          file, harvest, upload, bucket, swapped,
          disk, gc, calm, enough,
          env, ssm, clock, loader, kms, dropped,
          index, etags, trends, made, asked, held,
          limiter, time, call, tokens, ts, events, stamps, used, admitted, first, latest, overtaken,
          marked, conn, ingest, taken, returned, failed,
          comments, written, repoLabels, prLabels, job, blind,
          bot, notices, kept,
          cards, whole, copy, delta, sent,
          today, records, granted, revoked,
          decision, attempt, outcome, effects

Pii    == INSTANCE PiiBreaker
Rbac   == INSTANCE RbacReload WITH Contents <- Maps
Policy == INSTANCE PolicyFiles
Tune   == INSTANCE Tuning
Evi    == INSTANCE Evidence
Gc     == INSTANCE EvidenceGc
Cache  == INSTANCE KeyCaches
Card   == INSTANCE Cards
Limit  == INSTANCE Limits
Meter  == INSTANCE Metering
Note   == INSTANCE Annotate
Bot    == INSTANCE RotationBot
Patch  == INSTANCE CardsDelta
Agree  == INSTANCE Consent
Exec   == INSTANCE Executor

piiVars == <<stateFile, breaker, saving, standing>>
rbacVars == <<mapFile, shown, back, worker, raced>>
policyVars == <<policy, signature, keyState, signing, registry, updating, rotation, touched, history, orderly>>
tuneVars == <<drift, canary, base, lastGood, tuned, streak, from, halted>>
eviVars == <<file, harvest, upload, bucket, swapped>>
gcVars == <<disk, gc, calm, enough>>
cacheVars == <<env, ssm, clock, loader, kms, dropped>>
cardVars == <<index, etags, trends, made, asked, held>>
limitVars == <<limiter, time, call, tokens, ts, events, stamps, used, admitted, first, latest, overtaken>>
meterVars == <<marked, conn, ingest, taken, returned, failed>>
noteVars == <<comments, written, repoLabels, prLabels, job, blind>>
botVars == <<bot, notices, kept>>
patchVars == <<cards, whole, copy, delta, sent>>
agreeVars == <<today, records, granted, revoked>>
execVars == <<decision, attempt, outcome, effects>>
vars == <<part, piiVars, rbacVars, policyVars, tuneVars, eviVars, gcVars, cacheVars,
          cardVars, limitVars, meterVars, noteVars, botVars, patchVars, agreeVars, execVars>>

Init ==
  /\ part \in Parts
  /\ Pii!Init /\ Rbac!Init /\ Policy!Init /\ Tune!Init /\ Evi!Init /\ Gc!Init /\ Cache!Init /\ Card!Init
  /\ Limit!Init /\ Meter!Init /\ Note!Init /\ Bot!Init /\ Patch!Init
  /\ Agree!Init /\ Exec!Init
  \* Parts at rest begin in one state.
  /\ part # "rbac" => mapFile = CHOOSE c \in Maps \ Unparsed : TRUE
  /\ part # "policy" => policy = CHOOSE f \in [Policies -> Contents] : TRUE
  /\ part # "tuning" => base = CHOOSE b \in Bases : TRUE
  /\ part # "keys" => env = Cache!NoKeys
  /\ part # "limits" => limiter = Limit!SharedWindow
  /\ part # "executor" => decision = CHOOSE d \in Exec!Decisions : TRUE

\* One part moves, the others rest.
Next ==
  /\ UNCHANGED part
  /\ IF part = "pii"      THEN Pii!Next    ELSE UNCHANGED piiVars
  /\ IF part = "rbac"     THEN Rbac!Next   ELSE UNCHANGED rbacVars
  /\ IF part = "policy"   THEN Policy!Next ELSE UNCHANGED policyVars
  /\ IF part = "tuning"   THEN Tune!Next   ELSE UNCHANGED tuneVars
  /\ IF part = "evidence" THEN Evi!Next    ELSE UNCHANGED eviVars
  /\ IF part = "gc"       THEN Gc!Next     ELSE UNCHANGED gcVars
  /\ IF part = "keys"     THEN Cache!Next  ELSE UNCHANGED cacheVars
  /\ IF part = "cards"    THEN Card!Next   ELSE UNCHANGED cardVars
  /\ IF part = "limits"   THEN Limit!Next  ELSE UNCHANGED limitVars
  /\ IF part = "metering" THEN Meter!Next  ELSE UNCHANGED meterVars
  /\ IF part = "annotate" THEN Note!Next   ELSE UNCHANGED noteVars
  /\ IF part = "bot"      THEN Bot!Next    ELSE UNCHANGED botVars
  /\ IF part = "delta"    THEN Patch!Next  ELSE UNCHANGED patchVars
  /\ IF part = "consent"  THEN Agree!Next  ELSE UNCHANGED agreeVars
  /\ IF part = "executor" THEN Exec!Next   ELSE UNCHANGED execVars

Spec == Init /\ [][Next]_vars

-----------------------------------------------------------------------------

\* PiiBreaker: an order to disable stands until the next one (pii_circuit_breaker.py:69-158).
SoleOrderStands == Pii!SoleOrderStands

\* RbacReload: what needs no reload is current (rbac_enforce.py:198-230).
UnchangedMeansCurrent == Rbac!UnchangedMeansCurrent

\* PolicyFiles: a registry verifies, and tells every root there was (registry.py:48-186).
ChainTellsHistory == Policy!ChainTellsHistory

\* PolicyFiles: a prepared rotation leaves policies that verify
\* (rotate_key_zero_downtime.sh:164-206).
PreparedRotationHolds == Policy!PreparedRotationHolds

\* Tuning: thresholds that were tuned move no further than the caps of their run and not
\* further out of the bounds than the base was; a canary that a critical report stopped
\* is not started by a warning (guard.py:12-63, canary_step_adjust.py:38-63).
TuningIsGuarded == Tune!TunedWithinGuard /\ Tune!CriticalStops

\* Evidence: what is under lock was not changed by hand (indexer.py:58-95).
SealedIsGenuine == Evi!SealedIsGenuine

\* EvidenceGc: a tenant keeps its minimum (evidence_gc.py:27-67).
MinimumIsKept == Gc!MinimumIsKept

\* KeyCaches: grace lasts as long as it says, and ready is with all keys
\* (keyloader_refresh.py:90-147, kms_loader.py:198-234).
KeysAreHonest == Cache!GraceIsExact /\ Cache!ReadyMeansComplete

\* Cards: "not modified" is true (cards_delta.py:90-109, server.py:94-106).
NotModifiedMeansCurrent == Card!NotModifiedMeansCurrent

\* Limits: no more is let through than the limit says (rl.py:38-69, ratelimit_redis.py:19-43).
LimitHolds == Limit!LimitHolds

\* Metering: an event is accepted once (ingest.py:6-19, store.py:24-48).
AcceptedOnce == Meter!AcceptedOnce

\* Annotate: there is one comment of the gate (annotate_release_gate.py:166-184).
SingleComment == Note!SingleComment

\* RotationBot: what ends well, and was to tell, has left a notice
\* (key_rotation_bot.py:56-179).
ExpiryIsTold == Bot!ExpiryIsTold

\* CardsDelta: a copy kept by deltas is exact (etag_delta.py:11-108).
CopyIsExact == Patch!CopyIsExact

\* Consent: as many revocations as grants leave no consent (consent/store.py:64-97).
RevokedIsGone == Agree!RevokedIsGone

\* Executor: what may not be repeated is not (plugins.py:54-152).
NoUnaskedRepeat == Exec!NoUnaskedRepeat

\* "If manually disabled, keep disabled" (pii_circuit_breaker.py:117): only an order ends
\* a manual disable.
ManualDisableStands == Pii!ManualDisableStands

\* "Ensures safe key rotation with overlap period" (rotate_key_zero_downtime.sh:4): what
\* verified before a rotation verifies after it.
RotationIsSafe == Policy!RotationIsSafe

\* "Safe with several processes (default locking)" (store.py:27, in Korean): no process
\* finds the database locked by another that has nothing to write.
SafeForProcesses == Meter!SafeForProcesses
=============================================================================
