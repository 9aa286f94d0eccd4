----------------------------- MODULE KeyCaches ------------------------------
(***************************************************************************)
(* The two caches of keys in front of the environment and the parameter    *)
(* store (SSM): KeyLoader of apps/judge/keyloader_refresh.py reads all     *)
(* keys at once and keeps those of the last round for a time of grace;     *)
(* KMSLoader of apps/secrets/kms_loader.py reads the keys of its policies  *)
(* one by one. The environment stays, the store changes and fails.         *)
(***************************************************************************)
EXTENDS Integers

CONSTANTS Ids,        \* key identifiers
          Secrets,    \* what a key may be
          Interval,   \* refresh_interval_sec, as configured (300) more than
          Grace,      \* grace_window_sec (60): no round falls into another's grace
          MaxTime     \* bound: end of time

VARIABLES env, ssm, clock,
          loader,   \* KeyLoader: keys, time of the last round, grace keys and their end, degraded
          kms,      \* KMSLoader: active keys, degraded
          dropped   \* history: when a round dropped a key, None if it did not
vars == <<env, ssm, clock, loader, kms, dropped>>

None == -1
NoKeys == [k \in Ids |-> None]
Source == [Ids -> Secrets \cup {None}]
Over(high, low) == [k \in Ids |-> IF high[k] # None THEN high[k] ELSE low[k]]

\* load_all_keys: one key that is not found is enough.
Degraded(found) == \E k \in Ids : found[k] = None

\* build_kms_loader loads all keys, KeyLoader nothing.
Init ==
  /\ env \in Source /\ ssm = NoKeys /\ clock = 0
  /\ loader = [keys |-> NoKeys, at |-> -Interval, grace |-> NoKeys, end |-> 0, degraded |-> FALSE]
  /\ kms = [active |-> env, degraded |-> Degraded(env)]
  /\ dropped = [k \in Ids |-> None]

\* Someone changes a parameter.
EditSsm(k, v) ==
  /\ ssm' = [ssm EXCEPT ![k] = v]
  /\ UNCHANGED <<env, clock, loader, kms, dropped>>

Tick == clock < MaxTime /\ clock' = clock + 1 /\ UNCHANGED <<env, ssm, loader, kms, dropped>>

\* Variant of GraceOf: keys of former rounds stay as long as there are any.
GraceOfAll == [keys |-> Over(loader.keys, loader.grace), end |-> clock + Grace]

\* "Move current keys to grace period", before anything is read.
GraceOf ==
  IF loader.keys = NoKeys THEN [keys |-> loader.grace, end |-> loader.end]
  ELSE [keys |-> loader.keys, end |-> clock + Grace]

\* KeyLoader.refresh; a store that cannot be read is empty. What the failure
\* noted is forgotten as soon as the environment has a key.
Refresh(answers) ==
  LET found == Over(env, IF answers THEN ssm ELSE NoKeys)
  IN  /\ clock - loader.at >= Interval
      /\ loader' = IF found = NoKeys
                   THEN [loader EXCEPT !.grace = GraceOf.keys, !.end = GraceOf.end, !.degraded = TRUE]
                   ELSE [keys |-> found, at |-> clock, grace |-> GraceOf.keys, end |-> GraceOf.end, degraded |-> FALSE]
      /\ dropped' = IF found = NoKeys THEN dropped
                    ELSE [k \in Ids |-> IF found[k] # None THEN None
                                       ELSE IF loader.keys[k] # None THEN clock ELSE dropped[k]]
      /\ UNCHANGED <<env, ssm, clock, kms>>

\* KeyLoader.get_key
Given(k) == IF loader.keys[k] # None THEN loader.keys[k]
            ELSE IF clock < loader.end THEN loader.grace[k] ELSE None

\* KMSLoader.load_key. What it keeps of the former version is never given.
LoadKey(k) ==
  /\ kms' = [kms EXCEPT !.active = Over([j \in Ids |-> IF j = k THEN Over(env, ssm)[k] ELSE None], @)]
  /\ UNCHANGED <<env, ssm, clock, loader, dropped>>

\* KMSLoader.load_all_keys and refresh; a key that is not found stays what it was.
LoadAll ==
  LET found == Over(env, ssm)
  IN  /\ kms' = [active |-> Over(found, kms.active), degraded |-> Degraded(found)]
      /\ UNCHANGED <<env, ssm, clock, loader, dropped>>

\* KMSLoader.get_key. An active key stays one: the grace of a former version never counts.
KmsGiven(k) == kms.active[k]

Next ==
  \/ \E k \in Ids : \E v \in Secrets \cup {None} : EditSsm(k, v)
  \/ Tick
  \/ \E answers \in BOOLEAN : Refresh(answers)
  \/ \E k \in Ids : LoadKey(k)
  \/ LoadAll

-----------------------------------------------------------------------------
\* A key that a round dropped is given for the time of grace, and not a moment longer,
\* though rounds that find nothing renew the grace (keyloader_refresh.py:90-147).
GraceIsExact == \A k \in Ids : dropped[k] # None => (Given(k) # None <=> clock < dropped[k] + Grace)

\* A loader that calls itself ready has every key, whatever it loaded one by one since
\* (kms_loader.py:198-234).
ReadyMeansComplete == ~kms.degraded => \A k \in Ids : KmsGiven(k) # None
=============================================================================
