------------------------------ MODULE MCGates ------------------------------
(***************************************************************************)
(* Gates for TLC: for each gate a baseline that passes or nearly does, and *)
(* the values its facts may take.                                          *)
(***************************************************************************)
EXTENDS Gates, TLC

\* Every limit is 1, but for what an SLO leaves open.
Limit(open) == [x \in Slo!Limits |-> IF x \in open THEN None ELSE 1]
Full   == [parses |-> TRUE, sections |-> Slo!Sections, limit |-> Limit({}), demands |-> Slo!Demands, burst |-> 2]
Perf   == [Full EXCEPT !.sections = {}, !.limit = Limit({"latency", "spent"}), !.demands = {"csv"}]
Canary == [Full EXCEPT !.sections = {"canary"}, !.limit = Limit(Slo!PerfMeasures \cup Slo!PerfMinima \cup {"error_delta"})]
Broken == [Full EXCEPT !.parses = FALSE]

SloDomain == [x \in Slo!Facts \cup {"slo"} |->
  CASE x = "slo" -> {Full, Perf, Canary, Broken}
    [] x \in Slo!YesNo -> {0, 1}
    [] x \in Slo!InfraLatency -> {None, 1, 2, 3}
    [] OTHER -> {None, 0, 1, 2}]
SloBase == [x \in Slo!Facts \cup {"slo"} |-> IF x = "slo" THEN Full ELSE 1]

\* Three rules in two bundles.
Rule(effect, priority) ==
  [effect |-> effect, action |-> "act", priority |-> priority, when |-> "holds", unless |-> "absent"]
Rules == {r \in [effect : {"allow", "deny"}, action : {"act"}, priority : {0, 1},
                 when : Conditions, unless : {"absent", "holds", "raises"}] : TRUE}
PdpDomain == [r1 |-> Rules, r2 |-> Rules \cup {[Rule("deny", 1) EXCEPT !.action = "other"]}, r3 |-> Rules]
PdpBase == [r1 |-> Rule("allow", 0), r2 |-> Rule("deny", 0), r3 |-> Rule("allow", 1)]

PepDomain == [grants |-> SUBSET {<<"*", "*">>, <<"deploy", "*">>, <<"deploy", "abort">>, <<"ops", "read">>},
              scope |-> {<<"deploy", "abort">>, <<"ops", "read">>}]
PepBase == [grants |-> {<<"deploy", "*">>}, scope |-> <<"deploy", "abort">>]

Requests == [path : {"/ops/cards", "/ops", "/healthz", "/else"}, method : {"GET"},
             session : SUBSET {"read", "admin", "*"}, legacy : {{}, {"read"}}, test : {{}, {"admin"}}]
Routes == << [paths |-> {"/ops", "/ops/cards"}, length |-> 4, method |-> "*", scopes |-> {"read"}],
             [paths |-> {"/ops/cards"}, length |-> 10, method |-> "GET", scopes |-> {"read", "admin"}],
             [paths |-> {"/ops/cards"}, length |-> 10, method |-> "*", scopes |-> {}] >>
RbacDomain == [routes |-> {Routes}, request |-> Requests, bypass |-> {{}, {"/healthz"}}, defaultDeny |-> BOOLEAN,
               all |-> BOOLEAN, prod |-> BOOLEAN, testMode |-> BOOLEAN, required |-> {{"read", "admin"}}]
RbacBase == [routes |-> Routes, bypass |-> {"/healthz"}, defaultDeny |-> TRUE, all |-> TRUE, prod |-> TRUE,
             testMode |-> FALSE, required |-> {"read", "admin"},
             request |-> [path |-> "/ops/cards", method |-> "GET", session |-> {"read"}, legacy |-> {}, test |-> {}]]

Reviews == SUBSET {<<"ann", "APPROVED">>, <<"bob", "APPROVED">>, <<"bob", "CHANGES_REQUESTED">>, <<"eve", "COMMENTED">>}
Words == [u \in {"ann", "bob", "eve"} |-> IF u = "ann" THEN {"sec"} ELSE {"svc", "sec"}]
Diffs(kinds) == [found : BOOLEAN, files : SUBSET kinds]
DiffOf(files) == [found |-> TRUE, files |-> files]
ReviewRules == {[files |-> {"policy"}, approvers |-> 2, teams |-> {"security", "service"}, perTeam |-> 1],
                [files |-> {"policy", "code"}, approvers |-> 1, teams |-> {}, perTeam |-> 1]}
MultisigDomain == [env |-> BOOLEAN, rulesFile |-> [there : BOOLEAN, rules : {ReviewRules, {}}],
                   sinceFork |-> Diffs({"policy", "code", "canary"}), ofHeads |-> Diffs({"policy", "code", "canary"}),
                   reviews |-> Reviews, wordsOf |-> {Words, [Words EXCEPT !["bob"] = {"sec", "infra"}]}]
MultisigBase == [env |-> TRUE, rulesFile |-> [there |-> TRUE, rules |-> ReviewRules], sinceFork |-> DiffOf({"policy"}),
                 ofHeads |-> DiffOf({"policy"}), wordsOf |-> Words,
                 reviews |-> {<<"ann", "APPROVED">>, <<"bob", "APPROVED">>}]

DiffDomain == [env |-> BOOLEAN, policies |-> {{"policy"}}, sinceFork |-> Diffs({"policy", "code"}), ofHeads |-> Diffs({"policy"}),
               byApproval |-> BOOLEAN, reviews |-> Reviews, labels |-> {{}, {"review/2-approvers"}}]
DiffBase == [env |-> TRUE, policies |-> {"policy"}, sinceFork |-> DiffOf({"policy"}), ofHeads |-> DiffOf({}), byApproval |-> TRUE,
             reviews |-> MultisigBase.reviews, labels |-> {}]

Signed == [key |-> "k1", right |-> TRUE]
SignedDomain == [signature |-> {Signed, [Signed EXCEPT !.right = FALSE], NoSignature}, keys |-> SUBSET {"k1", "k2"},
                 allowlist |-> SUBSET {"k1", "k2"}, failOpen |-> BOOLEAN]
VerifyDomain == SignedDomain @@ [other |-> {Signed, [Signed EXCEPT !.key = "k2"], NoSignature}, strict |-> BOOLEAN]
SignedBase == [signature |-> Signed, keys |-> {"k1"}, allowlist |-> {"k1"}, failOpen |-> FALSE]

VerifyBase == SignedBase @@ [other |-> Signed, strict |-> FALSE]

Boards == [s \in {"pay", "ops"} |-> IF s = "pay" THEN {"ann", "bob"} ELSE {"eve"}]
BoardRules == << [services |-> {"pay"}, signatures |-> 2, signers |-> {"ann"}, fromBoard |-> 1],
                 [services |-> {"*"}, signatures |-> 1, signers |-> {}, fromBoard |-> 1] >>
CabDomain == SignedDomain @@ [rules |-> {BoardRules, <<BoardRules[2], BoardRules[1]>>, <<>>}, service |-> {"pay", "ops"},
                              boardOf |-> {Boards}, signers |-> SUBSET {"ann", "bob", "eve"}]
CabBase == SignedBase @@ [rules |-> BoardRules, service |-> "pay", boardOf |-> Boards, signers |-> {"ann", "eve"}]

OncallDomain == SignedDomain @@ [oncall |-> SUBSET {"ann", "bob"}, acks |-> SUBSET {"ann", "eve"}]
OncallBase == SignedBase @@ [oncall |-> {"ann"}, acks |-> {"ann"}]

ReadyzDomain == [keysForced |-> Forced, loader |-> BOOLEAN, count |-> 0..2, active |-> 0..1, age |-> {None, 0, 1, 2},
                 grace |-> {1}, replayForced |-> Forced, store |-> Stores, clockForced |-> Forced,
                 reference |-> BOOLEAN, maxSkew |-> 0..1, skew |-> 0..2, storageForced |-> Forced, writable |-> BOOLEAN]
ReadyzBase == [keysForced |-> "", loader |-> TRUE, count |-> 1, active |-> 1, age |-> 1, grace |-> 1,
               replayForced |-> "", store |-> "answers", clockForced |-> "", reference |-> TRUE, maxSkew |-> 1,
               skew |-> 1, storageForced |-> "", writable |-> TRUE]

\* Requests come in tens, the budget is one error in ten: a burn of 1 is one error.
SampleAt(t) == [ts |-> t, requests |-> 10, errors |-> 0, latency |-> 1]
Samples(t) == [ts : {t}, requests : {10}, errors : 0..4, latency : {None, 1, 4}]
BurnWindows == << [duration |-> 1, fast |-> 2, slow |-> 3], [duration |-> 9, fast |-> 1, slow |-> 2] >>
BurnDomain == [s1 |-> Samples(1), s2 |-> Samples(5), s3 |-> Samples(6), windows |-> {BurnWindows},
               budget |-> {10, None}, objective |-> {None, 0, 2}, dryRun |-> BOOLEAN]
BurnBase == [s1 |-> SampleAt(1), s2 |-> SampleAt(5), s3 |-> SampleAt(6), windows |-> BurnWindows,
             budget |-> 10, objective |-> 2, dryRun |-> FALSE]

SreDomain == [found |-> BOOLEAN, total |-> {0, 10}, errors |-> 0..3, budget |-> {0, 10}, warn |-> {1}, critical |-> {0, 2}]
SreBase == [found |-> TRUE, total |-> 10, errors |-> 1, budget |-> 10, warn |-> 1, critical |-> 2]

Keys == [state : {"active", "grace", "retired"}, days : {None, 0, 3, 4, 7, 8}]
CountdownDomain == [k1 |-> Keys, k2 |-> Keys, warn |-> {7}, critical |-> {3}]
CountdownBase == [k1 |-> [state |-> "active", days |-> 8], k2 |-> [state |-> "grace", days |-> 8], warn |-> 7, critical |-> 3]

Sound == [there |-> TRUE, complete |-> TRUE, sum |-> "matches"]
EvidenceDomain == [there |-> BOOLEAN, tampered |-> {"yes", "no", "absent"}, e1 |-> Entry, e2 |-> Entry, strict |-> BOOLEAN]
EvidenceBase == [there |-> TRUE, tampered |-> "no", e1 |-> Sound, e2 |-> Sound, strict |-> TRUE]

RecoveryDomain == [configured |-> BOOLEAN, files |-> 0..2, nested |-> 0..2, marked |-> BOOLEAN, unsent |-> 0..1,
                   lost |-> 0..1, altered |-> 0..1, seconds |-> 0..2, maxRto |-> {1}, maxRpo |-> {0, 1}]
RecoveryBase == [configured |-> TRUE, files |-> 1, nested |-> 1, marked |-> FALSE, unsent |-> 0, lost |-> 0,
                 altered |-> 0, seconds |-> 1, maxRto |-> 1, maxRpo |-> 1]

Window(t) == [pass |-> TRUE, burst |-> 0, samples |-> 1, ts |-> t]
Windows(t) == {NoWindow} \cup [pass : BOOLEAN, burst : {0, 3, 4}, samples : {0, 1}, ts : {0, t}]
CanaryDomain == [w1 |-> Windows(1), w2 |-> Windows(2), w3 |-> Windows(3), w4 |-> Windows(4), found |-> BOOLEAN,
                 required |-> {2, 3}, allowed |-> {0, 3}, observation |-> {2, 3}, minSamples |-> 0..2]
CanaryBase == [w1 |-> Window(1), w2 |-> Window(2), w3 |-> Window(3), w4 |-> Window(4), found |-> TRUE,
               required |-> 3, allowed |-> 0, observation |-> 2, minSamples |-> 1]

DatedKeys(from) == [state : {"active", "grace", "retired"}, from : {None, from}, days : {None, 3, 7, 8, 14, 15}]
DatedDomain == [k1 |-> DatedKeys(-9), k2 |-> DatedKeys(1), soon |-> {7, 14}, minOverlap |-> {0, 7}]
DatedBase == [k1 |-> [state |-> "active", from |-> -9, days |-> 15], k2 |-> [state |-> "grace", from |-> 1, days |-> 15],
              soon |-> 14, minOverlap |-> 7]
ExpiryDomain == CountdownDomain @@ [skew |-> -2..2, maxSkew |-> {1}]
ExpiryBase == CountdownBase @@ [skew |-> 0, maxSkew |-> 1]

Attested == [parses |-> TRUE, version |-> 1, kind |-> TRUE, root |-> "now", tests |-> "passed"]
Attestations == [there : BOOLEAN, attestation : [parses : BOOLEAN, version : {1, 2}, kind : BOOLEAN,
                                                 root : {"", "now", "old"}, tests : {"passed", "failed"}]]
Results == {<<>>} \cup {<<r>> : r \in [parses : BOOLEAN, status : {"passed", "failed"}]}
AttestedDomain == [full |-> Attestations, longer |-> Attestations, built |-> BOOLEAN, rootThen |-> {"", "now", "old"},
                   results |-> Results, root |-> {"", "now"}, askTests |-> BOOLEAN, envTests |-> BOOLEAN,
                   askPolicy |-> BOOLEAN, envPolicy |-> BOOLEAN]
AttestedBase == [full |-> [there |-> FALSE, attestation |-> Attested], longer |-> [there |-> TRUE, attestation |-> Attested],
                 built |-> FALSE, rootThen |-> "now", results |-> <<[parses |-> TRUE, status |-> "passed"]>>, root |-> "now",
                 askTests |-> TRUE, envTests |-> FALSE, askPolicy |-> TRUE, envPolicy |-> TRUE]

Reports(r) == [asked : BOOLEAN, fields : SUBSET ReportFields[r]]
Given(r) == [asked |-> TRUE, fields |-> ReportFields[r]]
ArtifactsDomain == [index |-> Reports("index"), gc |-> Reports("gc"), upload |-> Reports("upload"), dr |-> Reports("dr"),
                    enforceLock |-> BOOLEAN, applied |-> BOOLEAN, mode |-> {"COMPLIANCE", "GOVERNANCE"},
                    requirePii |-> BOOLEAN, prod |-> BOOLEAN, pii |-> BOOLEAN, checkSigned |-> BOOLEAN,
                    signatures |-> SUBSET {Signed, [Signed EXCEPT !.key = "k2"], [Signed EXCEPT !.right = FALSE]},
                    keys |-> SUBSET {"k1", "k2"}]
ArtifactsBase == [index |-> Given("index"), gc |-> Given("gc"), upload |-> Given("upload"), dr |-> Given("dr"),
                  enforceLock |-> TRUE, applied |-> TRUE, mode |-> "COMPLIANCE", requirePii |-> TRUE, prod |-> TRUE,
                  pii |-> TRUE, checkSigned |-> TRUE, signatures |-> {Signed}, keys |-> {"k1"}]

\* Two files, of one tenant or two.
Tenants == [id : {"t1", "t2"}, wellFormed : BOOLEAN, status : {"active", "suspended", "closed"}, limits : {{}, {0}, {1}}, skew : {-1, 0}]
Tenant  == [id |-> "t1", wellFormed |-> TRUE, status |-> "active", limits |-> {1}, skew |-> 0]
TenantDomain == [file1 |-> Tenants, file2 |-> Tenants, header |-> {"", "t1", "t2"}, query |-> {"", "t1", "t2"}, variable |-> {"", "t1", "t2"}]
TenantBase == [file1 |-> Tenant, file2 |-> [Tenant EXCEPT !.id = "t2"], header |-> "", query |-> "t2", variable |-> "t1"]

\* Twenty checks and five, the last two of which failed.
CheckDomain == [before |-> {0, 20}, c1 |-> BOOLEAN, c2 |-> BOOLEAN, c3 |-> BOOLEAN, c4 |-> BOOLEAN, c5 |-> BOOLEAN,
                now |-> {6, 12, 20}, most |-> {10, 30}]
CheckBase == [before |-> 20, c1 |-> TRUE, c2 |-> TRUE, c3 |-> TRUE, c4 |-> FALSE, c5 |-> FALSE, now |-> 6, most |-> 30]

\* The cutover: a system in order, by everyone's measure.
CutoverBase == ReadyzBase @@ EvidenceBase @@ CountdownBase @@ CanaryBase @@
  [server |-> "judge", servedClosed |-> TRUE, failClosed |-> TRUE, skipRecovery |-> FALSE, recovery |-> RecoveryBase, maxRto |-> 1, maxRpo |-> 1,
   verified |-> TRUE, auto |-> FALSE, marker |-> "manual", breaker |-> "enabled"]
CutoverDomain == ReadyzDomain @@ [server |-> {"judge", "other"}, servedClosed |-> BOOLEAN, failClosed |-> BOOLEAN, auto |-> BOOLEAN]

AllGates == {"slo", "pdp", "pep", "rbac", "scopes", "multisig", "diff", "cab", "oncall", "verify", "readyz", "served", "burn", "sre",
             "countdown", "expiry", "skew", "alert", "notice", "attested", "artifacts", "evidence", "recovery", "promotion",
             "rehearsal", "preflight", "cutover", "tenant", "window"}

MCDomain == [g \in AllGates |->
  CASE g = "slo" -> SloDomain [] g = "pdp" -> PdpDomain [] g = "pep" -> PepDomain
    [] g \in {"rbac", "scopes"} -> RbacDomain
    [] g = "multisig" -> MultisigDomain [] g = "diff" -> DiffDomain [] g = "cab" -> CabDomain [] g = "oncall" -> OncallDomain [] g = "verify" -> VerifyDomain
    [] g \in {"readyz", "served"} -> ReadyzDomain [] g = "burn" -> BurnDomain [] g = "sre" -> SreDomain
    [] g \in {"expiry", "skew"} -> ExpiryDomain [] g \in {"alert", "notice"} -> DatedDomain
    [] g = "attested" -> AttestedDomain [] g = "artifacts" -> ArtifactsDomain [] g = "cutover" -> CutoverDomain
    [] g = "tenant" -> TenantDomain [] g = "window" -> CheckDomain
    [] g = "countdown" -> CountdownDomain [] g = "evidence" -> EvidenceDomain [] g = "recovery" -> RecoveryDomain
    [] OTHER -> CanaryDomain]

MCBaseline == [g \in AllGates |->
  CASE g = "slo" -> SloBase [] g = "pdp" -> PdpBase [] g = "pep" -> PepBase
    [] g \in {"rbac", "scopes"} -> RbacBase
    [] g = "multisig" -> MultisigBase [] g = "diff" -> DiffBase [] g = "cab" -> CabBase [] g = "oncall" -> OncallBase [] g = "verify" -> VerifyBase
    [] g \in {"readyz", "served"} -> ReadyzBase [] g = "burn" -> BurnBase [] g = "sre" -> SreBase
    [] g \in {"expiry", "skew"} -> ExpiryBase [] g \in {"alert", "notice"} -> DatedBase
    [] g = "attested" -> AttestedBase [] g = "artifacts" -> ArtifactsBase [] g = "cutover" -> CutoverBase
    [] g = "tenant" -> TenantBase [] g = "window" -> CheckBase
    [] g = "countdown" -> CountdownBase [] g = "evidence" -> EvidenceBase [] g = "recovery" -> RecoveryBase
    [] OTHER -> CanaryBase]
=============================================================================
