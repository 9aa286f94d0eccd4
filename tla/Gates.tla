------------------------------- MODULE Gates -------------------------------
(***************************************************************************)
(* The decisions a release has to get past, each a function of facts that  *)
(* people, jobs and time change: a pull request is approved or changed,    *)
(* keys age, samples of traffic arrive, scopes are given and taken. One    *)
(* gate is looked at, and its facts change one at a time. (The names of    *)
(* the specification leave those of Rollout, which stands beside it, free.)*)
(***************************************************************************)
EXTENDS Access, Approvals, ReleaseChecks

CONSTANTS GateNames,  \* the gates looked at
          Domain,     \* Domain[g][x]: values of fact x of gate g
          Baseline,   \* Baseline[g]: facts of gate g to begin with
          MaxChanges  \* bound: facts that differ from the baseline at a time

VARIABLES gate, facts
gateVars == <<gate, facts>>

Slo == INSTANCE SloJudge

\* The windows a decision about a canary sees: those there are, in order.
NoWindow == [pass |-> FALSE, burst |-> 0, samples |-> None, ts |-> 0]
Shown(w) == IF w = NoWindow THEN <<>> ELSE <<w>>
WindowsOf(f) == Shown(f.w1) \o Shown(f.w2) \o Shown(f.w3) \o Shown(f.w4)

ReadyzOf(f) ==
  Readyz({MaybeOverride(f.keysForced, KeysReady(f.loader, f.count, f.active, f.age, f.grace)),
          MaybeOverride(f.replayForced, ReplayReady(f.store)),
          MaybeOverride(f.clockForced, ClockReady(f.reference, f.maxSkew, f.skew)),
          MaybeOverride(f.storageForced, f.writable)})

\* The copy of the four checks in apps/ops/freeze.py: nothing forces them.
FreezeReadyzOf(f) ==
  Readyz({KeysReady(f.loader, f.count, f.active, f.age, f.grace), ReplayReady(f.store),
          ClockReady(f.reference, f.maxSkew, f.skew), f.writable})

\* The attestation found for a commit: the build writes it under the short name.
Built(f) ==
  FindAttestation([full |-> f.full, longer |-> f.longer, short |-> [there |-> f.built, attestation |->
    [parses |-> TRUE, version |-> 1, kind |-> TRUE, root |-> f.rootThen, tests |-> AttestedTests(f.results)]]])

\* The readiness checks of the card: many that were ok, then five.
ChecksOf(f) ==
  LET last == <<f.c1, f.c2, f.c3, f.c4, f.c5>>
  IN  [i \in 1..(f.before + 5) |-> IF i <= f.before THEN [ts |-> 1, ok |-> TRUE]
                                   ELSE [ts |-> i - f.before + 1, ok |-> last[i - f.before]]]

\* What a client of a server's /readyz gets to see.
ServedStatus(f) ==
  IF f.server = "judge" THEN Fetched(ReadyzOf(f), JudgeReadyzCode)
  ELSE Fetched(FreezeReadyzOf(f), FreezeReadyzCode(FreezeReadyzOf(f), f.servedClosed))
IndexOf(f) == [there |-> f.there, tampered |-> f.tampered, entries |-> <<f.e1, f.e2>>]

\* The cutover card and its verdict, which is the exit status of the dashboard.
Card(f) == GoNoGo({ReadyzHealth(ServedStatus(f)), EvidenceHealth(IndexOf(f)), KeysHealth, BreakerHealth(f.breaker),
                   CanaryHealth(f.found, WindowsOf(f)), PromotionHealth(f.auto, f.marker)})

\* run_preflight_checks.sh: the first check that fails ends it. The breaker's monitor
\* always succeeds; a pipe fails with its first command, so PENDING does not do.
Preflight(f) ==
  /\ ReadyzGateOk(ServedStatus(f), f.failClosed)
  /\ EvidenceGateOk(IndexOf(f), f.strict)
  /\ f.skipRecovery \/ RecoveryOk(f.recovery, f.maxRto, f.maxRpo)
  /\ CountdownOk({f.k1, f.k2}, f.warn, f.critical)
  /\ f.verified
  /\ ManualByStatus(f.auto)
  /\ PreflightCanaryOk(f.found, WindowsOf(f))
  /\ Card(f) = "GO"

\* Whether a gate lets pass, given its facts.
Agrees(g, f) ==
  CASE g = "slo"       -> Slo!Passes(f["slo"], f)
    [] g = "pdp"       -> Decision(<<<<f.r1, f.r2>>, <<f.r3>>>>, "act") = "allow"
    [] g = "pep"       -> Enforce(f.grants, f.scope)
    [] g = "rbac"      -> Admits(f.routes, f.request, f.bypass, f.defaultDeny, f.all, f.prod, f.testMode)
    [] g = "scopes"    -> RequireScopes(f.required, f.request, f.all, f.prod, f.testMode)
    [] g = "tenant"    -> RequireTenant(<<f.file1, f.file2>>, <<f.header, f.query, f.variable>>) # Nobody
    [] g = "multisig"  -> MultisigOk(f.env, ApprovalRules(f.rulesFile), ChangedFiles(f.sinceFork, f.ofHeads), f.reviews, f.wordsOf)
    [] g = "diff"      -> DiffGuardOk(f.env, f.policies, ChangedFiles(f.sinceFork, f.ofHeads), f.byApproval, f.reviews, f.labels)
    [] g = "cab"       -> CabOk(PolicyLoads(f.signature, f.keys, f.allowlist, f.failOpen),
                                f.rules, f.service, f.boardOf, f.signers)
    [] g = "oncall"    -> OncallOk(PolicyLoads(f.signature, f.keys, f.allowlist, f.failOpen), f.oncall, f.acks)
    [] g = "verify"    -> VerifyExit({FileVerdict(s, f.keys, f.allowlist, f.strict, f.failOpen) :
                                        s \in {f.signature, f.other}}) = 0
    [] g = "readyz"    -> ReadyzOf(f) = "ready"
    [] g = "served"    -> Fetched(FreezeReadyzOf(f), FreezeReadyzCode(FreezeReadyzOf(f), TRUE)) = "ready"
    [] g = "burn"      -> BurnGateOk(BurnReport(<<f.s1, f.s2, f.s3>>, f.windows, f.budget, f.objective), f.dryRun)
    [] g = "sre"       -> SreGateOk(f.found, f.total, f.errors, f.budget, f.warn, f.critical)
    [] g = "countdown" -> CountdownOk({f.k1, f.k2}, f.warn, f.critical)
    [] g = "expiry"    -> ExpiryOk({f.k1, f.k2}, f.warn)
    [] g = "skew"      -> SkewOk({f.k1, f.k2}, f.skew, f.maxSkew)
    [] g = "alert"     -> AlertOk(<<f.k1, f.k2>>, f.soon, f.minOverlap)
    [] g = "notice"    -> NoticeLabels(<<f.k1, f.k2>>, f.soon) = {}
    [] g = "attested"  -> AttestationOk(Built(f), f.root, f.askTests \/ f.envTests, f.askPolicy /\ f.envPolicy)
    [] g = "artifacts" -> ArtifactsOk(f, f.enforceLock, f.applied, f.mode, f.requirePii, f.prod, f.pii,
                                      f.checkSigned, f.signatures, f.keys)
    [] g = "cutover"   -> Preflight(f)
    [] g = "evidence"  -> EvidenceGateOk(IndexOf(f), f.strict)
    [] g = "recovery"  -> RecoveryOk(f, f.maxRto, f.maxRpo)
    [] g = "promotion" -> Decide(WindowsOf(f), f.required, f.allowed, f.observation) = "promote"
    [] g = "rehearsal" -> RehearsalHealthy(f.found, WindowsOf(f), f.required, f.minSamples)
    [] g = "preflight" -> PreflightCanaryOk(f.found, WindowsOf(f))
    [] g = "window"    -> WindowHealth(ChecksOf(f), f.now, 10, f.most) = "healthy"

-----------------------------------------------------------------------------
\* What the facts of three gates are, for a theorem about all of them (Release_proofs).
FactNames(g) ==
  CASE g = "slo" -> Slo!Facts \cup {"slo"}
    [] g = "pdp" -> {"r1", "r2", "r3"}
    [] g = "promotion" -> {"w1", "w2", "w3", "w4", "found", "required", "allowed", "observation",
                            "minSamples"}

Kind(g, x) ==
  IF g = "slo" THEN IF x = "slo" THEN Slo!SLOSpec ELSE Slo!Reported(x)
  ELSE IF g = "pdp" THEN PolicyRule
  ELSE IF x \in {"w1", "w2", "w3", "w4"} THEN CanaryWindow \cup {NoWindow}
  ELSE IF x = "found" THEN BOOLEAN ELSE Nat

ASSUME FactsAssumption ==
  \A g \in GateNames \cap {"slo", "pdp", "promotion"} :
    /\ FactNames(g) \subseteq DOMAIN Baseline[g]
    /\ \A x \in DOMAIN Baseline[g] : Baseline[g][x] \in Kind(g, x)
    /\ \A x \in DOMAIN Domain[g] : Domain[g][x] \subseteq Kind(g, x)

-----------------------------------------------------------------------------
GateInit == gate \in GateNames /\ facts = Baseline[gate]

\* Something changes one fact.
ChangeFact(x, v) ==
  /\ facts' = [facts EXCEPT ![x] = v]
  /\ Cardinality({y \in DOMAIN facts : facts'[y] # Baseline[gate][y]}) <= MaxChanges
  /\ UNCHANGED gate

GateNext == \E x \in DOMAIN Domain[gate] : \E v \in Domain[gate][x] : ChangeFact(x, v)

GateSpec == GateInit /\ [][GateNext]_gateVars

-----------------------------------------------------------------------------
\* Which change of which fact is for the worse, for the thing the gate guards.
\* A fact that goes missing, or appears, is not among them: several gates take a
\* fact they cannot see for a good one, or for none at all; validate_artifacts.py does
\* so even when the last key goes.
Down(v, w) == None \notin {v, w} /\ w < v
Up(v, w)   == None \notin {v, w} /\ w > v
Off(v, w)  == v = TRUE /\ w = FALSE

\* A rule that no longer allows, newly denies, or denies what it allowed.
WorseRule(v, w) ==
  /\ [v EXCEPT !.effect = w.effect, !.when = w.when, !.unless = w.unless] = w
  /\ \/ v.effect = "allow" /\ w.effect = "allow" /\ Matched(v) /\ ~Matched(w)
     \/ v.effect = "deny" /\ w.effect = "deny" /\ ~Matched(v) /\ Matched(w)
     \/ v.effect = "allow" /\ w.effect = "deny" /\ Matched(v) = Matched(w)

WorseWindow(v, w) ==
  /\ NoWindow \notin {v, w}
  /\ \/ v.pass /\ w = [v EXCEPT !.pass = FALSE]
     \/ \E b \in 0..w.burst : b < w.burst /\ v = [w EXCEPT !.burst = b]

WorseSample(v, w) ==
  \/ v = [w EXCEPT !.errors = v.errors] /\ Up(v.errors, w.errors)
  \/ v = [w EXCEPT !.latency = v.latency] /\ Up(v.latency, w.latency)

WorseEntry(v, w) ==
  \/ w = [v EXCEPT !.there = FALSE] \/ w = [v EXCEPT !.complete = FALSE] \/ w = [v EXCEPT !.sum = "differs"]

WorseAttestation(v, w) ==
  \/ w = [v EXCEPT !.parses = FALSE] \/ w = [v EXCEPT !.kind = FALSE]
  \/ v.tests = "passed" /\ w = [v EXCEPT !.tests = w.tests]

\* A tenant who was active is so no longer.
WorseTenant(v, w) == /\ TenantValid(v) /\ v.status = "active"
                     /\ ~TenantValid(w) \/ w.status # "active"

\* A caller who loses scopes. "*" is left out for the dependency of single routes,
\* which does not know it.
WorseRequest(g, v, w) ==
  /\ v = [w EXCEPT !.session = v.session]
  /\ w.session \subseteq v.session
  /\ g = "scopes" => "*" \notin v.session

Worse(g, x, v, w) ==
  IF g = "slo" THEN x # "slo" /\ Slo!WorseFact(x, v, w) ELSE
  CASE x \in {"r1", "r2", "r3"} -> WorseRule(v, w)
    [] x = "request" -> WorseRequest(g, v, w)
    [] x \in {"w1", "w2", "w3", "w4"} -> WorseWindow(v, w)
    [] x \in {"s1", "s2", "s3"} -> WorseSample(v, w)
    [] x \in {"e1", "e2"} -> WorseEntry(v, w)
    [] x \in {"k1", "k2"} -> w = [v EXCEPT !.days = w.days] /\ Down(v.days, w.days)
    [] x \in DOMAIN ReportFields -> v.asked = w.asked /\ w.fields \subseteq v.fields
    [] x \in {"full", "longer"} -> v.there /\ WorseAttestation(v.attestation, w.attestation) /\ w.there
    [] x = "signatures" -> \E t \in v : w = (v \ {t}) \cup {[t EXCEPT !.right = FALSE]}
    [] x \in {"grants", "bypass", "reviews", "labels", "signers", "acks"} -> w \subseteq v
    [] x = "keys"      -> w \subseteq v /\ (g = "artifacts" => w # {})
    [] x \in {"sinceFork", "ofHeads"} -> v.found /\ w.found /\ v.files \subseteq w.files
    [] x \in {"file1", "file2"} -> v.id = w.id /\ WorseTenant(v, w)
    [] x = "allowlist" -> w \subseteq v /\ w # {}
    [] x \in {"signature", "other"} -> w = [v EXCEPT !.right = FALSE] /\ v # NoSignature
    [] x = "tampered"  -> w = "yes"
    [] x \in {"loader", "testMode", "writable", "there", "configured", "dryRun", "failOpen", "applied", "pii",
               "c1", "c2", "c3", "c4", "c5"} -> Off(v, w)
    [] x \in {"prod", "defaultDeny", "env", "strict", "askTests", "envTests", "askPolicy", "envPolicy", "enforceLock",
               "requirePii", "checkSigned"} -> Off(w, v)
    [] x \in {"keysForced", "replayForced", "clockForced", "storageForced"} -> w = "fail"
    [] x = "store"     -> w \in {"none", "raises", "unhealthy"}
    [] x \in {"age", "skew", "errors", "unsent", "lost", "altered", "seconds"} -> Up(v, w) /\ v >= 0
    [] x = "active"    -> Down(v, w)
    [] OTHER -> FALSE

\* A refusal stands when things get worse: no gate turns from refusing to agreeing
\* because one fact got worse. Early returns, skipped comparisons and first matches
\* are where it would (slo_judge.py:79, pdp.py:163, metrics_burn.py:108).
RefusalStands ==
  [][\A x \in DOMAIN facts :
       facts'[x] # facts[x] /\ Worse(gate, x, facts[x], facts'[x]) /\ Agrees(gate, facts')
         => Agrees(gate, facts)]_gateVars

\* "GO: /readyz ready, ..., the last canary windows all pass and burst=0, Evidence
\* tampered=false" (docs/work_orders/v0.5.11q-cutover-runbook.md:44): such a system, its
\* breaker on and its promotion manual, is declared GO by the card (cutover_readiness.py:289-337).
SoundSystemIsGo ==
  gate = "cutover" /\ ReadyzOf(facts) = "ready" /\ facts.there /\ facts.tampered = "no"
  /\ facts.breaker = "enabled" /\ ~facts.auto /\ facts.marker = "manual"
  /\ Decide(WindowsOf(facts), 3, 0, 0) = "promote" /\ facts.found
    => Card(facts) = "GO"

\* What SloJudge says a pass is worth (slo_judge.py:38-253).
PassIsEarned == gate = "slo" => Slo!PassIsEarned(facts["slo"], facts)

\* A permission outranks every denial: pdp allows only by a rule that matches and has
\* a higher priority than each matching rule that denies (pdp.py:45-174).
AllowOutranksDenials ==
  gate = "pdp" /\ Agrees(gate, facts) =>
    LET hits == {r \in {facts.r1, facts.r2, facts.r3} : Matched(r) /\ r.action \in {"act", "*"}}
    IN  \E a \in hits : /\ a.effect = "allow"
                        /\ \A d \in hits : d.effect = "deny" => d.priority < a.priority

\* What promotes a canary satisfies those who look at the same windows otherwise:
\* the preflight check and the cutover card (canary_auto_promote.py:17-41,
\* run_preflight_checks.sh:119-137, cutover_readiness.py:199-258), if it asks for three
\* windows and no more burst than theirs; and the rehearsal (cutover_rehearsal.sh:79-129)
\* if, besides, the last window has the samples the rehearsal asks for. The promotion
\* looks at no samples: without that condition it does not satisfy the rehearsal.
PromotionSatisfiesAll ==
  gate = "promotion" /\ facts.found /\ facts.required >= 3 /\ facts.allowed <= BurstLimit /\ Agrees(gate, facts) =>
    LET w == WindowsOf(facts)
    IN  /\ PreflightCanaryOk(TRUE, w) /\ CanaryHealth(TRUE, w) = "healthy"
        /\ Last(w).samples >= facts.minSamples =>
             RehearsalHealthy(TRUE, w, facts.required, facts.minSamples)
=============================================================================
