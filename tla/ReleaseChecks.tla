--------------------------- MODULE ReleaseChecks ---------------------------
(***************************************************************************)
(* The checks a release has to pass, as functions of what they read:       *)
(* readiness (apps/judge/readyz.py), error budgets (apps/ops/              *)
(* metrics_burn.py, jobs/burn_alert_gate.py, apps/sre), keys, evidence,    *)
(* recovery, canary windows and the cards that sum them up.                *)
(* A number that is not there is None. Ratios are compared crosswise.      *)
(***************************************************************************)
EXTENDS Integers, FiniteSets, FiniteSetsExt, Sequences, SequencesExt

None == -1
OrZero(v) == IF v = None THEN 0 ELSE v

Lesser(i, j) == IF i < j THEN i ELSE j
Greater(i, j) == IF i > j THEN i ELSE j

-----------------------------------------------------------------------------
\* Readiness: four checks, each of which a variable of the environment can force.
Forced == {"", "ok", "fail"}
MaybeOverride(forced, ok) == IF forced = "" THEN ok ELSE forced = "ok"

\* _key_check. An age of zero seconds counts as no age.
KeysReady(loader, count, active, age, grace) ==
  loader /\ count > 0 /\ active > 0 /\ OrZero(age) <= grace

\* _replay_check: "silent" is a store that offers neither of the two probes.
Stores == {"none", "answers", "raises", "unhealthy", "silent"}
ReplayReady(store) == store \in {"answers", "silent"}

\* _clock_check
ClockReady(reference, maxSkew, skew) == reference /\ maxSkew > 0 => skew <= maxSkew

\* ReadyzChecks.run
Readyz(checks) == IF FALSE \in checks THEN "degraded" ELSE "ready"

\* What the routes answer: the judge's awaits a counter that cannot be awaited, and
\* fails whatever the checks found; the copy in apps/ops/freeze.py does not.
JudgeReadyzCode == 500
FreezeReadyzCode(status, failClosed) == IF status = "degraded" /\ failClosed THEN 503 ELSE 200

\* What 'curl -f' and urllib make of an answer: an error of HTTP is no answer.
Fetched(status, code) == IF code = 200 THEN status ELSE "error"

\* check_readyz_blocking.sh: only "ok" will do, or "degraded" if it fails open.
ReadyzGateOk(status, failClosed) ==
  IF failClosed THEN status = "ok" ELSE status \in {"ok", "degraded", "warning"}

-----------------------------------------------------------------------------
\* Error budgets. A sample of traffic: when, requests, errors and a latency.
Sample == [ts : Nat, requests : Nat, errors : Nat, latency : Nat \cup {None}]
\* A window of the burn policy and its two thresholds; 'slow' is the graver one.
BurnWindow == [duration : Nat, fast : Nat, slow : Nat]

BurnStates == {"ok", "warn", "critical", "unknown"}
Rank(state) == CASE state = "critical" -> 3 [] state = "warn" -> 2 [] OTHER -> 0

RequestsOf(samples) == FoldLeft(LAMBDA n, s : n + s.requests, 0, samples)
ErrorsOf(samples)   == FoldLeft(LAMBDA n, s : n + s.errors, 0, samples)

\* The worst latency of a bucket; none at all counts as 0.
LatencyOf(samples) == Max({0} \cup {s.latency : s \in {x \in ToSet(samples) : x.latency # None}})

\* A burn rate of at least 'threshold': errors per request, in units of the budget
\* of one error per 'budget' requests, or the latency in units of the objective.
Burns(bucket, budget, objective, threshold) ==
  \/ /\ budget # None
     /\ RequestsOf(bucket) > 0
     /\ ErrorsOf(bucket) * budget >= threshold * RequestsOf(bucket)
  \/ objective \notin {None, 0} /\ LatencyOf(bucket) >= threshold * objective

\* compute_burn_report: one window. A window without a sample is in order.
WindowState(samples, now, window, budget, objective) ==
  LET bucket == SelectSeq(samples, LAMBDA s : s.ts >= now - window.duration)
  IN  IF bucket = <<>> THEN "ok"
      ELSE IF Burns(bucket, budget, objective, window.slow) THEN "critical"
      ELSE IF Burns(bucket, budget, objective, window.fast) THEN "warn" ELSE "ok"

\* The worst state of the windows, the first of them that is.
Worst(states) ==
  FoldLeft(LAMBDA worst, s : IF Rank(s) > Rank(worst) THEN s ELSE worst, "ok", states)

\* The report; it ends with the last sample, not with the present.
BurnReport(samples, windows, budget, objective) ==
  IF samples = <<>> THEN "unknown"
  ELSE LET now == Max({s.ts : s \in ToSet(samples)})
       IN  Worst([i \in DOMAIN windows |-> WindowState(samples, now, windows[i], budget, objective)])

\* burn_alert_gate.main: what refuses also raises the freeze flag.
BurnGateOk(report, dryRun) == dryRun \/ report \in {"ok", "unknown"}

\* apps/sre/burnrate.py and burnrate_gate.main: a warning passes, and so does a
\* file that is not there. 'budget' as above.
SreLevel(total, errors, budget, warn, critical) ==
  LET reaches(t) == IF total <= 0 \/ budget <= 0 THEN t <= 0 ELSE errors * budget >= t * total
  IN  IF reaches(critical) THEN "critical" ELSE IF reaches(warn) THEN "warn" ELSE "ok"

SreGateOk(found, total, errors, budget, warn, critical) ==
  SreLevel(IF found THEN total ELSE 0, IF found THEN errors ELSE 0, budget, warn, critical) # "critical"

-----------------------------------------------------------------------------
\* Keys: state, and whole days until it expires or its grace ends, 0 if that is past
\* (None: never).
Key == [state : {"active", "grace", "retired"}, days : Nat \cup {None}]

\* check_key_rotation_countdown.py. No keys at all is success.
KeyLevel(key, warn, critical) ==
  IF key.state = "retired" \/ key.days = None THEN "ok"
  ELSE IF key.days <= critical \/ <<key.state, key.days>> = <<"grace", 0>> THEN "critical"
  ELSE IF key.days <= warn THEN "warning" ELSE "ok"

CountdownOk(keys, warn, critical) == \A k \in keys : KeyLevel(k, warn, critical) = "ok"

\* key_rotation.py: check_key_expiry looks at every key, check_clock_skew either way.
\* No keys at all is a failure.
ExpiryOk(keys, warn) == keys # {} /\ \A k \in keys : k.days = None \/ k.days >= warn
SkewOk(keys, skew, maxSkew) == keys # {} /\ skew \in (-maxSkew)..maxSkew

\* A key with the day its time begins (None: not given), for key_rotation_alert.py and
\* key_rotation_bot.py.
DatedKey == [state : {"active", "grace", "retired"}, from : Int \cup {None}, days : Int \cup {None}]
InUse(keys) == SelectSeq(keys, LAMBDA k : k.state \in {"active", "grace"})

\* Days that two keys have in common; none if a bound is missing.
OverlapDays(a, b) ==
  IF None \in {a.from, a.days, b.from, b.days} THEN 0
  ELSE Greater(0, Lesser(a.days, b.days) - Greater(a.from, b.from))

\* analyze: no key in use ends soon, each two of them overlap long enough.
AlertOk(keys, soon, minOverlap) ==
  LET used == InUse(keys)
  IN  /\ \A i \in DOMAIN used : used[i].days = None \/ used[i].days > soon
      /\ \A i, j \in DOMAIN used : i < j => OverlapDays(used[i], used[j]) >= minOverlap

\* The labels of the notice that the bot opens; no label, no notice.
NoticeLabels(keys, soon) ==
  {IF k.days <= 3 THEN "soon-3" ELSE IF k.days <= 7 THEN "soon-7" ELSE "soon-14" :
     k \in {x \in ToSet(InUse(keys)) : x.days # None /\ x.days <= soon}}

-----------------------------------------------------------------------------
\* Evidence: an entry of the index and what the file beside it looks like.
Entry == [there : BOOLEAN, complete : BOOLEAN, sum : {"matches", "differs", "unknown"}]
\* The index. A flag "no" and no flag come to the same, for jq and for the card
\* differently: the script takes both for sound, the card takes none for "yes".
Index == [there : BOOLEAN, tampered : {"yes", "no", "absent"}, entries : Seq(Entry)]

\* validate_evidence_integrity.sh
EntrySound(e) == e.there /\ e.complete /\ e.sum # "differs"

EvidenceGateOk(index, strict) ==
  /\ index.there /\ index.tampered # "yes"
  /\ strict => index.entries # <<>>
  /\ \A i \in DOMAIN index.entries : EntrySound(index.entries[i])

\* measure_recovery_time.sh: 'nested' files lie in directories below, which are
\* counted and not uploaded; the marker is uploaded and not counted, unless it is
\* among the files since an earlier measurement. 'lost' ones did not come back.
Recovery == [configured : BOOLEAN, files : Nat, nested : Nat, marked : BOOLEAN,
             unsent : Nat, lost : Nat, altered : Nat, seconds : Nat]

RecoveryOk(r, maxRto, maxRpo) ==
  LET counted  == r.files + r.nested
      uploaded == IF r.marked THEN r.files ELSE r.files + 1
  IN  /\ r.configured
      /\ counted > 0 =>
           /\ r.unsent = 0 /\ r.lost = 0 /\ r.altered = 0
           /\ r.seconds <= maxRto
           /\ counted - (uploaded - r.lost) <= maxRpo

-----------------------------------------------------------------------------
\* A build's attestation; root "" is that of no registry.
Attestation == [parses : BOOLEAN, version : Nat, kind : BOOLEAN, root : STRING,
                tests : {"passed", "failed", "unknown", "error"}]

\* collect_test_results: the last of the results, by the time of its file.
AttestedTests(results) ==
  IF results = <<>> THEN "unknown" ELSE IF Last(results).parses THEN Last(results).status ELSE "error"

\* find_attestation_by_commit: by the whole name, the short one, then whichever name
\* begins like it.
FindAttestation(files) ==
  IF files["full"].there THEN files["full"] ELSE IF files["short"].there THEN files["short"] ELSE files["longer"]

\* verify_attestation; a requirement is one of the command line and of the environment.
AttestationOk(found, root, requireTests, requirePolicy) ==
  /\ found.there /\ found.attestation.parses
  /\ found.attestation.version = 1 /\ found.attestation.kind
  /\ requirePolicy => found.attestation.root = root
  /\ requireTests => found.attestation.tests = "passed"

\* validate_artifacts.py: the fields a report has to have, whether it is asked for and
\* the fields it has ({}: no file, or not JSON).
ReportFields == [index  |-> {"list", "path", "sha256"},
                 gc     |-> {"totals", "scanned"},
                 upload |-> {"counts", "uploaded", "skipped", "failed"},
                 dr     |-> {"counts", "restored"}]
Report == [asked : BOOLEAN, fields : SUBSET UNION {ReportFields[r] : r \in DOMAIN ReportFields}]

\* validate_artifacts: what is not asked for is not looked at.
ReportsOk(reports) == \A r \in DOMAIN ReportFields : reports[r].asked => ReportFields[r] \subseteq reports[r].fields

\* assert_object_lock
LockOk(upload, applied, mode) ==
  upload.asked /\ ReportFields.upload \subseteq upload.fields /\ applied /\ mode = "COMPLIANCE"

\* verify_signed_policy, of the files that a pattern matches. Without keys, nothing.
PoliciesSigned(signatures, keys) ==
  keys # {} => signatures # {} /\ \A s \in signatures : s.key \in keys /\ s.right

\* cli
ArtifactsOk(reports, enforceLock, applied, mode, requirePii, prod, pii, checkSigned, signatures, keys) ==
  /\ ReportsOk(reports)
  /\ enforceLock => LockOk(reports.upload, applied, mode)
  /\ requirePii /\ prod => pii
  /\ checkSigned => PoliciesSigned(signatures, keys)

-----------------------------------------------------------------------------
\* A canary window: its verdict, burst (in halves), samples and time (0: no time).
CanaryWindow == [pass : BOOLEAN, burst : Nat, samples : Nat, ts : Nat]

Recent(windows, n) == LET len == Len(windows) IN SubSeq(windows, Greater(1, len - n + 1), len)
Green(windows) == Cardinality({i \in DOMAIN windows : windows[i].pass})
Bursts(windows, limit) == \E i \in DOMAIN windows : windows[i].burst > limit
BurstLimit == 3

\* Variant of Decide: all windows are counted, in a row or not.
DecideAnyGreen(windows, required, allowed, observation) ==
  LET recent == Recent(windows, required)
      span   == recent[required].ts - recent[1].ts
  IN  IF Len(windows) < required THEN "hold"
      ELSE IF Bursts(recent, allowed) THEN "abort"
      ELSE IF 0 \notin {recent[1].ts, recent[required].ts} /\ span < observation THEN "hold"
      ELSE IF Green(windows) >= required THEN "promote" ELSE "hold"

\* canary_auto_promote.decide: the last windows in a row.
Decide(windows, required, allowed, observation) ==
  LET recent == Recent(windows, required)
      span   == recent[required].ts - recent[1].ts
  IN  IF Len(windows) < required THEN "hold"
      ELSE IF Bursts(recent, allowed) THEN "abort"
      ELSE IF 0 \notin {recent[1].ts, recent[required].ts} /\ span < observation THEN "hold"
      ELSE IF Green(recent) = required THEN "promote" ELSE "hold"

\* cutover_rehearsal.sh: green windows anywhere, burst and samples of the last. No
\* evidence, no check.
RehearsalHealthy(found, windows, required, minSamples) ==
  found => /\ Green(windows) >= required
           /\ windows # <<>> => Last(windows).burst <= BurstLimit
           /\ minSamples <= IF windows = <<>> THEN 0 ELSE Last(windows).samples

\* run_preflight_checks.sh: green windows anywhere, bursts of the last three.
PreflightCanaryOk(found, windows) ==
  found /\ Green(windows) >= 3 /\ ~Bursts(Recent(windows, 3), BurstLimit)

-----------------------------------------------------------------------------
\* The card of readiness checks (apps/ops/cards/readyz_window.py): when one was, and how.
Check == [ts : Nat, ok : BOOLEAN]

\* record: failures in a row, however long ago.
Burst(checks) == Len(checks) - Max({0} \cup {i \in DOMAIN checks : checks[i].ok})

\* _trim_window, of a list that keeps the last 'most'
InWindow(checks, now, window, most) == SelectSeq(Recent(checks, most), LAMBDA c : c.ts >= now - window)

\* get_readyz_window_card: one in ten may fail.
WindowHealth(checks, now, window, most) ==
  LET seen == InWindow(checks, now, window, most)
      failed == Len(SelectSeq(seen, LAMBDA c : ~c.ok))
  IN  IF seen = <<>> THEN "unknown"
      ELSE IF Burst(checks) >= 5 THEN "critical" ELSE IF Burst(checks) >= 3 THEN "warning"
      ELSE IF failed * 10 > Len(seen) THEN "degraded" ELSE "healthy"

-----------------------------------------------------------------------------
\* The cutover card: what each part is found to be.
Health == {"healthy", "degraded", "unhealthy", "unknown"}

ReadyzHealth(status) ==
  CASE status = "ok" -> "healthy" [] status = "degraded" -> "degraded" [] OTHER -> "unhealthy"

EvidenceHealth(index) == IF index.there /\ index.tampered = "no" THEN "healthy" ELSE "unhealthy"

\* It looks at the keys of a loader that has not loaded any yet.
KeysHealth == "unhealthy"

BreakerHealth(breaker) == IF breaker = "enabled" THEN "healthy" ELSE "degraded"

CanaryHealth(found, windows) ==
  LET recent == Recent(windows, 3)
  IN  IF ~found \/ windows = <<>> THEN "unknown"
      ELSE IF Green(recent) < Len(recent) THEN "unhealthy"
      ELSE IF Bursts(recent, BurstLimit) THEN "degraded" ELSE "healthy"

\* By the environment first; the marker file tells healthy from degraded.
PromotionHealth(auto, marker) ==
  IF auto THEN "unhealthy" ELSE IF marker = "manual" THEN "healthy" ELSE "degraded"

\* get_cutover_readiness_card
GoNoGo(parts) ==
  IF "unhealthy" \in parts THEN "NO-GO" ELSE IF parts \cap {"degraded", "unknown"} # {} THEN "PENDING" ELSE "GO"

\* configure_manual_promotion.sh --status: by the environment alone
ManualByStatus(auto) == ~auto
=============================================================================
