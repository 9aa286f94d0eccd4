# Formal models of DecisionOS

TLA+ modules of DecisionOS: the judges with their replay check, circuit breaker,
quorum and signing keys; the rollout with its stage file, its controllers and
the change governance in front of them; payments; the decisions of the checks
that gate a release; and fifteen services that share a file, a store or a
server without a lock. TLC checks them on small instances, TLAPS proves every
invariant the runs check, and more, for every value of the constants.

    tlc -workers 2 -config JudgeQuorum.cfg MCJudgeQuorum.tla   # a run
    tlapm JudgeQuorum_proofs.tla                               # its proofs

`PROJECT.json` lists the runs, the mutants (one plausible bug per property, which
the property must catch), the map from definitions to source lines, the hazards,
the findings and the theorems. All paths below are relative to `src/`.

## 1. Inventory

DecisionOS is a Python system that gates releases and decisions: *judges* look
at evidence and vote on a release, a *rollout* stage is moved through a file,
*change governance* decides whether a change may happen now, and around these
are payments, metering, policy, security and operations services. Almost all of
it runs either as FastAPI processes (routes declared `def` run on a pool of
threads, routes declared `async def` on one event loop) or as one-shot jobs and
shell scripts that share files, SQLite or Redis with them.

| component | state it keeps | operations | what it interacts with | what is hard | what makes it correct |
|---|---|---|---|---|---|
| judge server, `apps/judge/server.py`, `replay_plugins.py` | nonce rows (SQLite or Redis) | `post_judge`, `seen_or_insert`, purge | signed requests of the providers, a shared store | redelivery, several workers, two clocks, purge and TTL, crash and store failure | a signed request is judged once; a nonce outlives its request; no false alarm from SQLite |
| circuit breaker, `apps/judge/backpressure.py` | state, counts, time of the last failure | `call`, `get_stats` | threads sharing one object | the lock is not held while the protected function runs | opens after a streak only, holds its timeout, never wedges, closes again |
| judge quorum, `apps/judge/pool.py`, `providers/http.py`, `local.py` | tasks of one decision, breakers that outlive it | `quorum_decide`, `evaluate` | HTTP to judge servers, breaker | retries, back-off, errors in any task, order of completion | a pass has K votes; fail-closed; every decision is made |
| judge keys, `apps/judge/crypto.py`, `keyloader_*.py`, `scripts/ops/key_rotation.py` | key file, cached key set of each process | rotate, retire, load, sign, verify | judges and providers, rollout, break glass | caches with TTL, rotation while requests are under way | requests signed with an active or grace key verify everywhere |
| other judges, `apps/judge/quorum.py`, `slo_judge.py`, `apps/expops` | none | evaluate | evidence, SLO | early returns, missing fields, thresholds | a pass is earned by every limit of the SLO |
| stage file, `apps/experiment/stage_file.py`, `jobs/risk_decide_and_stage.py` | token file and manifest | `write_stage_atomic`, `read_stage_with_guard`, writes in place | controller, jobs, pipeline, readers | two renames without a lock, readers that repair, key rotation, crashes | reads are authentic, the pair heals, repairs end |
| traffic controller, `apps/experiment/controller.py`, `jobs/canary_*.py` | percentage in memory and in a file, stage | `set_stage`, `route`, `promote`, `abort` | stage file, freeze, evidence | stale copies in other processes, three writes per change | an abort reaches every router |
| change governance, `apps/ops/freeze.py`, `scripts/change/` | freeze flag, windows, break-glass manifest | freeze tests, issue, verify, revoke | controller, pipeline scripts | test then act, tokens that end under way | nothing changes in a freeze without break glass |
| approvals, `scripts/ci/check_multisig.py`, `policy_diff_guard.py`, `scripts/change/require_*.py` | none | count reviews, signatures and acknowledgements | GitHub, signed policies | rules that overlap, missing facts | fewer approvals never suffice where more did not |
| payments, `apps/payments/`, `apps/gateway/routers/payments.py`, `apps/common/idempotency.py` | intents, charges, refunds, receipts, idempotency records | confirm, capture, refund, webhook | provider adapters, webhook senders | threads without locks, redelivered and reordered events, failure after the adapter acted | amounts bounded, table of transitions, one receipt, events applied once |
| PII circuit breaker, `apps/security/pii_circuit_breaker.py` | state file, copy of each process | check, enable, disable | monitor job | lost updates between copies | a manual change survives |
| policy registry, `scripts/policy/`, `rotate_key_zero_downtime.sh` | policies, signatures, chain of roots | sign, verify, update, rotate | files, keys in the environment | rewrite without a lock, steps left to a person | the chain verifies and tells every root; a prepared rotation leaves policies that verify |
| consent log, `apps/consent/store.py` | records of each person | grant, list, revoke | gateway | grants that expire and overlap | a revoked consent is gone |
| policy decisions, `apps/policy/` | rules, RBAC map of each worker | decide, hot reload | gateway, ops API | order of rules; reload while the file is edited | a denial is outranked by priority only; what needs no reload is current |
| metering, `apps/metering/`, `apps/rating/` | seen keys, watermark | ingest, mark, reconcile | billing | duplicates, several processes on one SQLite file | each event accepted once |
| rate limits and quotas, `apps/limits/`, `apps/common/rl.py`, `apps/ops/ratelimit.py`, `apps/alerts/ratelimit*.py` | counters, buckets, windows | allow, consume | everything | test and set, window edges | never above the limit |
| ETag stores, `apps/storage/etag_store.py`, `apps/ops/etag_store*.py` | value and tag | get, compare-and-set | ops API | race of two writers | one winner per tag |
| executor, `apps/executor/` | none kept | run plugin, HTTP with retries | external services | retry of a call already executed | only what may be repeated is |
| evidence, `apps/obs/evidence/`, `jobs/evidence_*.py`, `jobs/dr_restore.py`, `scripts/ops/evidence_lockdown.py` | evidence files, index, locked objects | snapshot, merge, index, upload, lock, collect, restore | judges, jobs, S3 | scan then act, torn files, overlapping collections | what is sealed was not changed by hand; a tenant keeps its minimum |
| ops API, cards, `apps/ops/api/`, `apps/ops/cache/` | card caches, tags | read, delta | evidence index | index written between body and tag | "not modified" is true; deltas are exact |
| optimizer, `apps/ops/optimizer/`, `jobs/autotune_*.py`, `canary_step_adjust.py` | thresholds, drift report, last good policy | tune, adjust, roll back | canary policy | bounds and slew after each other, torn files | thresholds stay guarded, a stopped canary stays stopped |
| gateway, tenants, configuration | look-ups | route, find the tenant | - | which of several names counts | an unknown or inactive tenant is refused |
| PII masking and tokenization | none | mask | - | regular expressions | - |
| alerts, metrics, SRE budgets | counters | emit | - | best effort | - |
| small domain services (kyc, catalog, taxes, ...) | in-memory look-ups | - | CLI | - | - |
| release pipeline, CI gates, `pipeline/release/*.sh`, `scripts/ci/`, `scripts/ops/` | stage file, freeze flag; GitHub comments, labels and notices | promote, abort, pause, resume, check, annotate | change governance, stage file, GitHub | order of gates and writes, overlapping runs, failing requests | a refusal stands when facts get worse; one comment; an expiry is told |
| infrastructure stand-ins, web | - | - | - | - | - |

How the modelled parts meet: a release decision calls `quorum_decide`, whose
HTTP judges go through a circuit breaker each and arrive at `post_judge` of
other processes, where the nonce store refuses repetitions. The decision leads
to a stage being written, which traffic controllers and jobs read. `JudgeQuorum`
takes from `CircuitBreaker` what a single event loop sees of it, and treats a
`JudgeReplay` server as one of the replies a post can come to (a replay is the
401 of that server). `KeyRing` is about the signature test in front of the replay
check. In front of the stage stands the freeze guard of `Rollout`, whose
controllers keep a percentage of their own. `Gates` holds the decisions of the
checks around a release, which read evidence, keys, windows and approvals as
facts; the evidence they read is written, sealed and collected by `Evidence` and
`EvidenceGc`, its cards are `Cards`. Payments and the parts of `Services` share
no state with these or with each other.

## 2. Modules

| module | what it is |
|---|---|
| `OnceOnly` | abstract: a nonce is claimed by one worker, which alone may judge it; a claim that comes to nothing is lost |
| `JudgeReplay` | `post_judge` with its store; implements `OnceOnly` |
| `CircuitBreaker` | the breaker with overlapping calls |
| `QuorumDecision` | abstract: ballots in any order, one decision from all of them |
| `JudgeQuorum` | `quorum_decide` with its tasks; implements `QuorumDecision` |
| `KeyRing` | the key file, its rotation tool, the loaders of those who sign and verify |
| `StageFile` | token and manifest with their writers, readers and bypassers |
| `Payments` | one intent, its charges, refunds and webhooks |
| `Rollout` | freeze guard, break glass, controllers and pipeline scripts with what they change |
| `SloJudge`, `Approvals`, `Access`, `ReleaseChecks` | the decisions of judges, reviewers, policies and checks, as functions of their facts |
| `Gates` | composes these four: one gate, whose facts change |
| `PiiBreaker`, `RbacReload`, `PolicyFiles`, `Tuning`, `Evidence`, `EvidenceGc`, `KeyCaches`, `Cards`, `CardsDelta`, `Limits`, `Metering`, `Annotate`, `RotationBot`, `Consent`, `Executor` | a service each |
| `Services` | their sum: one of the fifteen moves, the others rest |
| `MC...` | what TLC needs beside a configuration |
| `..._proofs` | theorems about the module of that name; `Release_proofs` about `Rollout` and `Gates`, `Services_proofs` about the parts of `Services` |

A definition whose comment begins "Variant of" is not part of a model: it is a
mutated form, kept next to the definition it stands in for, to show that a
property notices such a bug.

### JudgeReplay

`Receive` is the skew test of `server.py:96`, `ReadClock` the second clock read
and the window test at the head of `seen_or_insert`; insertion and purge of
SQLite are two actions because the code commits twice (`replay_plugins.py:55-69`),
`RedisSet` is one command. `Answer` is the verdict, or the 400 or 403 after the
nonce was used up. `SqliteError` (a locked database: 500) and `RedisError`
(caught and reported as a replay, with the command executed or not) are the
failures the code lets through: the caller of the second reads "replay detected"
for a nonce that may never have been stored, and `failed` keeps which those were.
`row` keeps a row's timestamp for SQLite and
its expiry time for Redis. `Send` is the environment: a provider draws a fresh
nonce, and its clock is off by at most `Drift`. Deliveries are any number of
`Receive` of the same nonce. The HMAC test in front is a pure function of the
request and is left out; so is the evaluation behind. Nonce and timestamp are
headers, and the signature is that of the body alone (`server.py:72-84`): the
model has them arrive as they were sent.

`OnceOnly` promises more than that nothing is judged twice: of all deliveries of a
request one is ever admitted, by one worker, and if that one dies, fails or refuses
the payload, no redelivery takes its place. `ReplayHasCause` is the other side: a
"replay detected" is of a nonce inserted before, or of a call to Redis that raised.

`RetentionAssumption` is the arithmetic the deployment rests on. The code has
Skew = 90 s and TTL = 600 s, so `2 * 90 + Stall < 600` allows a worker to stall
up to 419 s between the skew test and the store: SQLite measures a row's age
from the request's own timestamp, Redis from the insertion, which may come
almost a whole skew before the timestamp.

### CircuitBreaker

`Enter` is the first locked part of `call`, `Succeed` and `Fail` the second;
between them the thread is in `entered`, with the state it was let in under.
`GetStats` shares the open to half-open transition. `age` is the time since the
last recorded failure, all that the code ever uses of its clock. `healthy`
belongs to the environment and is used by liveness only.

### JudgeQuorum

A task per judge; `Await` is the loop that takes the tasks in the order of the
providers file and decides after the last. `StartEvaluate` runs up to the first
`await`; `Reply` is what a post comes to, together with everything up to the
next `await`: the breaker's call (`OnVerdict`, `OnTransient`, `OnRefusal`), and
the pause of the `finally` clause, which is taken even when the loop is about to
return or to raise; `WakeUp` ends it. One event loop interleaves tasks at awaits
only, so a breaker call is one step here. `failClosed` is an argument of
`quorum_decide` and is chosen anew for each round; providers, and with them
their breakers, outlive a round.

### KeyRing

`Load`, `Truncate` and `Fill` are a run of `key_rotation.py` with `--rotate` or
`--retire-grace` whose `--out` is the file the loaders read
(`DECISIONOS_JUDGE_KEYS_FILE`): the file is read, and later opened for writing,
which empties it, and filled. `Kill` may come between. `Look` is the head of
`_reload_if_needed` (modification time, clock, decision), together with the use
of the cached keys when nothing is read; `Read` reads the file and uses what it
finds. `Use` is `verify_with_multikey` for a server, `_build_headers` for a
provider, with its second look-up for an active key. There is no clock: each
thing has an age, counted up to where it stops mattering, so that no bound on
time is needed. Keys that a loader is about to replace are not used meanwhile;
`Look` leaves them out, which saves states. A `Fill` may keep the modification time of the `Truncate` just
before it. A `Truncate` keeps that of an earlier write only if it follows within
the same unit of time, and then the history variable `orderly` ends. A refusal
says whether the key is unknown ("missing") or "retired", as the code's error
does. A retransmitted request is treated like one that arrives
later, and the readiness probe, which refreshes the server's loader too, like
another request. `GraceAssumption` holds with a wide margin for the code's 5 s
and 7 days. An empty file is read as no keys: the single legacy key from the
environment and keys from variables or SSM are left out.

### StageFile

`WriteToken` and `WriteManifest` are the two renames, `ReadToken` and
`ReadManifest` the two reads of a guarded read, `Repair` what it does with a pair
it cannot verify: it turns into a writer of "stable". A manifest is abstracted to
the token it was made for and the key: hash and HMAC match for exactly these
(SHA-256 and HMAC are taken as injective). A process may have no key variable
(not in `Configured`), or one that does not parse (configured, no key; it raises
after it has replaced the token, `stage_file.py:98-101`). `Truncate` and `Fill`
are the writers that open the token file in place (`controller.py`,
`risk_decide_and_stage.py`), which tear it, and write into a file without a name
when a rename has come between.

### Payments

A call is split where it reads what another thread may change: `Capture` (the
adapter writes into the stored charge), `CheckCapture` (`transition_payment`
reads the intent and the charge), `WriteCapture` (intent and receipt); the same
for `Confirm`, and for the webhook route look-up, application and record. An
event about a charge that is not stored yet changes nothing and is recorded all the
same (`PassOver`, `routers/payments.py:144-146`); `applied` and `passed` tell the two
apart, so `DuplicateWasHandled` says of an event answered "duplicate" that it was applied
or passed over; and that, without an overlap, an applied one left the intent settled for
good (`SettledForGood`).
Intents share no state, one is modelled. `flow` becomes "raced" at the first
moment two calls are under way together: what the serial properties say holds up
to it, since the code has no lock and they fail after it (section 6). No property says
that a refused capture leaves the charge alone: it does not.

### Rollout

The guard of `freeze.py` is a process of steps: `Begin` reads the clock,
`CheckFlag` the flag file and the environment, `CheckGlass` or `VerifyToken` the
break-glass manifest, `CheckWindows` the windows at the time read first; then
the change follows. Between any two the flag, the manifest and the clock may
change (`World`). Controllers take the operations `promote`, `abort` and
`cutover`; scripts pass the guard of `verify_freeze_window.py`, which knows no
break glass but allow tags. An abort of a controller writes percentage, state
file and token one after the other (`SaveState`, `WriteStage`); `Restart` reads
the file again. The stage token is one value; `StageFile` has its two files. An abort
during which another controller writes, or whose process ends between file and token,
is `raced`, and `AbortPersists` says nothing of it. What a window means is
`ActiveInstant`, in the guard and in the properties; so these do not judge how the
code reads a window, a weekly one over midnight above all (section 6).

### Gates

A gate is an operator `Agrees(g, f)` over a record of facts: SLO and evidence for
`SloJudge`, reviews, teams, boards and signatures for `Approvals`, rules, grants,
requests and tenants for `Access`, readiness, samples, keys, windows and reports
for `ReleaseChecks`. `GateNext` changes one fact of one gate (`ChangeFact`); its
names differ from those of `Rollout`, which stands beside it in `Release_proofs`.
`Worse`
says, fact by fact, which change is one for the worse; a fact that disappears is
not among them, since several gates take what they cannot see for good (section
6). `RefusalStands` is then about every early return, first match and skipped
comparison at once.

Two properties name what the code does not look at. `PassIsEarned` is about the limits
and demands `slo_judge.py` reads (`Stated`, `ReadDemands`); those it never reads are
in the SLO all the same, as `UnreadLimits` and `UnreadDemands`: `witness.min_rows`,
`witness.require_signature`, `canary.guardband_minutes`, `saturation.fail_closed`.
`PromotionSatisfiesAll` holds for the rehearsal only if the last window has its
samples (`minSamples`, 100 unless configured,
`pipeline/release/cutover_rehearsal.sh:82`), as `canary_auto_promote.py` asks for none.

### Services

Each of the fifteen parts is a module of its own; `Services` is their sum, so that
one run covers them: the variable `part` says which moves, the others stay in
one initial state. What the parts have in common is that a file, store or server
is shared without a lock, and that a process may end at any step. Several of their
properties hold only because they exempt a race the code loses, or say less than one
would wish:

| property | exempt | what the code does then |
|---|---|---|
| `SoleOrderStands` | older copies, writes under way, torn files | another process restores its own state (`ManualDisableStands`, section 6) |
| `SealedIsGenuine` | `swapped`, files changed between scan and upload | what was changed is sealed (`evidence_objectlock.py:82`) |
| `MinimumIsKept` | overlapping collections, torn files in the scan | fewer than `keep_min` are left (`evidence_gc.py:51`) |
| `NotModifiedMeansCurrent` | `crossed`, answers with a write between body and tag | an old body has the new tag (`cards_delta.py:95`) |
| `LimitHolds` | in Redis, calls overtaken by one whose clock was read later | a refill counts twice (`rl.py:57-66`) |
| `AcceptedOnce` | it is at most once | an event marked by a process that died is refused ever after (`metering/store.py:42`) |
| `SingleComment` | `blind`, comments of a run that looked before another made its own | two comments (`annotate_release_gate.py:169`) |
| `ExpiryIsTold` | runs that are disabled, or without token or repository | they end with 0 and tell nobody (`key_rotation_bot.py:82-94`) |
| `RevokedIsGone` | it counts: a revocation spent on an expired record is one | a later grant stays in force (`consent/store.py:71-80`) |

| part | steps | what it leaves out |
|---|---|---|
| `PiiBreaker` | a process loads the state once; a check or an order truncates the file and writes it, a text may end in the rest of another's | the metrics, of which there are four kinds |
| `RbacReload` | editors replace the map; a worker hashes, reads and stores the hash | routes: a content is one value (matching is in `Access`) |
| `PolicyFiles` | edit, sign (open, write), registry update (load, compute, write), the rotation script over these, what is left to a person | hashes: a content stands for its own |
| `Tuning` | drift report, step adjustment, autotuning with its guard, rollback | the statistics: a drift is one of its levels, a proposal any value |
| `Evidence` | snapshot, change by hand, harvester that reads and signs again, scan, upload file by file, lock-down, loss, restore | what evidence says: genuine, altered, re-signed or unsigned |
| `EvidenceGc` | write, age, scan, unlink one by one, die | which of the old files go first |
| `KeyCaches` | rounds of the refreshing loader, single and full loads of the KMS loader, a store that changes and fails | secrets: a number |
| `Cards` | the index is written; body, stat, digest and answer of a request; threads of the trend cache | card contents: the index they are made of |
| `CardsDelta` | a list is edited; a delta is computed, sent and applied | fields beside id and body |
| `Limits` | a call reads the clock, and is decided later; memory (a list of stamps) or Redis (a sorted set), bucket or window; Redis fails or forgets; `admitted` is the history of what was let through | fractions of tokens and of time |
| `Metering` | batch, `seen`, `mark` with SQLite's lock and snapshot, locked database, return, end | values and times, which the key ignores |
| `Annotate` | list, write, labels one by one, people who comment and delete, failing requests | texts |
| `RotationBot` | the start of a run, whether it has anybody to tell, push, pull request, labels, and the issue in their place unless `ALLOW_ISSUE_FALLBACK` is 0; each request may fail | the document |
| `Consent` | grant, list, revoke, time, restart | the hash of a record, which follows from the list |
| `Executor` | attempts with every answer, lost or not, acted on or not | headers and bodies |

## 3. Runs

| run | instance | states | what it shows |
|---|---|---|---|
| `JudgeReplay` | both stores, 2 workers, 2 nonces, TTL 4, Skew 1, Stall 1, Drift 1, time up to 5 | 1.3 M | at most one verdict, every "replay detected" has its cause, implements `OnceOnly` |
| `CircuitBreaker` | 3 threads, threshold 2, timeout 2, 2 trials, 5 failures | 5 k | opens after a streak, never wedges, recovers |
| `JudgeQuorum` | 2 HTTP judges, 1 local, K = 2, 1 retry, 2 rounds | 56 k | fail-closed passes, implements `QuorumDecision`, decides |
| `KeyRing` | a server, a provider, one run of the tool at a time, 2 keys, TTL 1, Grace 1, Latency 1 | 1.6 M | a retired key stops working, the grace period suffices |
| `KeyRing_rotation_outage` | the same | - | violated: a rotation ends in refusals |
| `StageFile` | writer, 3 readers, bypassing reader, 2 keys, 2 writes, 1 crash | 203 k | authentic reads, healing, readers agree |
| `StageFile_lost_write` | writer, reader, one key | - | violated: a write is lost to a repair |
| `Payments` | 2 threads, stripe_stub, 3 events, 2 charges, 3 API calls, key TTL 1 | 505 k | amounts; duplicates were handled; without overlap, one receipt and a settlement that lasts |
| `Payments_failed_event` | 1 thread, generic_pg | - | violated: a failed payment is settled |
| `Rollout` | 2 controllers, a script, an absolute and a weekly window, token of 1 unit, time up to 3 | 1.6 M | freeze respected, refusals grounded, an abort persists |
| `Gates` | 29 gates, a baseline each, every value of up to 2 facts | 49 k | a refusal stands, passes are earned, priorities, one reading of the windows |
| `Services` | 15 parts, 2 or 3 processes each | 922 k | one property of each part, two of `PolicyFiles` |

The type invariants (`TypeOK` of the first seven modules) are not in these runs:
they are theorems (section 4). So are the properties `NonceRetained`,
`OpenHoldsWithoutTrials`, `QuorumSound`, `OnlyTransientRetried`, `FollowsTable`
and `NoReplay`, each of which also passes when its name is added to the
configuration of its module; so does `TokenSettles` of `StageFile`.

### Why the bounds are enough

- `JudgeReplay`: two workers are the smallest number that can hold one nonce at
  the same time, two nonces the smallest with which one request's purge meets
  another's row. TTL 4, Skew 1 and Stall 1 satisfy `2 * Skew + Stall < TTL` with
  one second to spare, and MaxTime 5 lets a row live its whole TTL and be
  purged or expire. The mutants that shorten the retention are found within it.
- `CircuitBreaker`: a late outcome needs a thread let in before the change,
  others that make it; three threads give a trial, a failing and a succeeding
  one. `MaxFailures` (5, threshold 2) only stops the count.
- `JudgeQuorum`: two votes of three judges is the instance of most tests of the code;
  one retry reaches back-off, exhaustion and success after failure; threshold
  2 lets a breaker open inside one evaluation or over two rounds, and the second
  round starts from any breaker the first left.
- `KeyRing`: the times satisfy `GraceAssumption` with equality: with Grace one unit
  less, and the assumption taken out, TLC finds `GraceSuffices` violated.
  The instance with TTL 2, Grace 2 and Latency 1 (4.4 M states), in which a cache
  outlives a unit of time, passes too. One server and one provider have separate caches, two keys
  are what a rotation exchanges. Two runs of the tool at a time are beyond TLC
  here; the proofs are for any number.
- `StageFile`: one reader of each kind (old key, new key, unparsable key, no
  key), a writer and a bypasser cover every pair of processes that can misread
  each other; writes are bounded because a system that never stops writing
  never settles.
- `Rollout`: one controller of each use (one promotes, aborts and cuts over, one
  only registers results) and a script; time 3 passes the start and the end of a
  window, the day that is off for all but hotfixes, and the life of a token.
- `Gates`: a refusal that turns into agreement needs one fact that refuses and
  one that got worse, and a state two changes from the baseline has both.
  Domains hold each threshold, a value at either side, and None where the code
  has a default. The gate "cutover" never agrees, since the code's never
  does (section 6), so `RefusalStands` says nothing of it. `minSamples` is 0 to 2.
- `Services`: two processes meet in every order; three in `PiiBreaker`, so that one
  that died has two others to disagree; two keys, contents, documents, tenants or
  nonces are what can be confused with another. Batches, writes, records and
  comments are bounded at the number a repetition, a loss and a recovery need.
- `Payments`: two threads, and three API calls (confirm and two captures, or
  confirm, capture, refund) beside any number of webhooks; two charges, so that
  a second confirmation would show.

Symmetry is used for workers and nonces of `JudgeReplay` and threads of `Payments`,
where no liveness is checked. Deadlock is checked except in `JudgeReplay` (the
clock stops at `MaxTime`), `JudgeQuorum` (the last round ends) and `Services` (a
call of the executor ends, and so do the bounded parts).

### Fairness

- `CircuitBreaker!FairSpec`: time passes, callers keep calling, and a protected
  function that does not fail any more returns (its HTTP timeout ends it). No
  fairness on failures or on `Recover`: `Recovers` speaks only of behaviours in
  which the judge does recover.
- `JudgeQuorum!FairSpec`: the event loop runs what is ready, and a post ends by
  its timeout at the latest (`timeout_ms`). httpx applies it to each read, so a peer
  that sends without end is outside the model. Which reply it is is not constrained.
- `StageFile!FairSpec`: a process that has begun a call goes on with it, and
  readers poll. Nobody has to start a write or to crash.

## 4. Proofs

Proved, for all values of the constants that the named assumptions allow: the
type invariants of seven modules, every invariant of the passing runs, all their
action properties but `RefusalStands`, and both refinements. What each rests on:

- `JudgeReplay_proofs`, from `TimeAssumption`, `RetentionAssumption`,
  `BackendAssumption`, `NoncesAssumption`. `JudgedAtMostOnce` alone is not
  inductive: a worker past the insertion is about to judge. The invariant adds
  `ServingInTime` (a worker at the store is within Stall of its skew test),
  `ClockRead`, `RowMeaning` (a row once inserted is still there as long as any
  admissible request needs it) and `OneHolder` (judged requests and workers past
  the insertion are, together, at most one per nonce, and only if inserted).
  `StoredWhenNeeded` turns the assumption on TTL, skew and stall into the fact
  that a second insertion fails. `Refinement` maps each verdict to `Judge`.
- `CircuitBreaker_proofs`: `TrialsCounted` and `ClosedCountsStreak` (the failure
  count never exceeds the streak while closed) are the strengthening.
  `SerialOpenHolds` proves for one thread what TLC refutes for two.
- `JudgeQuorum_proofs`: `Tasks` (where a task is and what it has come to agree),
  `Honest` (a vote "pass" or "fail" is the judge's last reply), `Tally` (count
  and degraded flag are those of the tasks awaited so far). The cardinality
  argument goes over the set of awaited judges, one added per `Await`.
- `KeyRing_proofs`, from `ProcsAssumption`, `TimesAssumption` and
  `GraceAssumption`. `RetiredStopsWorking` follows from `CacheTruthful`: what a
  loader may still use was good at most as long ago as its cache is old, unless
  it is between look and read. `GraceSuffices` needs to follow a key from the
  loader that saw it active, through the request and the server's look-up:
  `Lasts(k, b)` says of the file, and of every list a run is about to write, that
  k is active there or went to grace at most b ago, and `CacheLasts`,
  `RequestsLast` and `JobsLast` bound b by the ages so far; `PlanFollows` covers
  a run that read the file before the loader did; `CacheCurrent` says that a
  server which looked after the last write knows the file, and `CacheKnown`, with
  `FillMeansEmpty`, that one which has noticed no write since its last look knows
  the file or nothing. So "retired" is never said of a key the file still has
  good. A provider's view may be `Lag`, `TTL - 1 + ToolStall`, behind.
- `StageFile_proofs`: every manifest, and every manifest about to be written,
  was requested under its key (`ManifestRequested`, `WritesRequested`), so a
  verified pair is authentic; `AloneKnows` describes what a call without overlap
  has done so far, and gives `SoloCallHeals`.
- `Payments_proofs`: `Pending` for duplicates (an event about to be recorded was
  applied or passed over); and `Orderly`, that without an
  overlap a single thread is under way and intent, charges and receipts are at
  one of a few stages (`InStep`, `Stages`), for the serial properties,
  one of which is `SettledForGood`, the half of `DuplicateIsTrue` about the effect.

- `Release_proofs` on `Rollout`, for any windows, actors and times: `GuardKnows(p)`
  says, for each place of a guard, what the steps before it have established about
  p, in the history variables `freed` (there was a moment of this attempt at which
  nothing bound it) and `bound`. `OthersKnow` and `WorldKnows` show that neither
  other actors nor the world take that away, `GuardKnowsOwn` that each step adds
  its part; `FreezeHolds` and `RefusalsHold` follow. `AbortHolds` rests on
  `SavesNothing` (while the abort lasts, whoever is about to save saves 0).
- `Release_proofs` on `Gates`, from `FactsAssumption` (the facts of three gates are
  of their kinds), which `FactsStayTyped` carries through every change. The rest is
  about operators: `PriorityDecides`, that the decision is that of the rule first in
  the order of priority and of the list (`LexicographicOrder`), and so "allow" exactly
  if a rule that matches outranks all denials that do; `PassesAreEarned`, a
  pass of the SLO judge gone through limit by limit, whatever block, section or
  minimum ended the evaluation early; `RecentOnes` and `PromotedIsGreen`, on the
  last windows and the green ones among all. `ThreeRefusalsStand` is the part of
  `RefusalStands` about these gates: `JudgeIsMonotone`, `RulesAreMonotone` and
  `CanariesAreMonotone` say that what is worse in a fact is not let through where the
  better was refused, whichever limits, rules or windows there are.
- `Services_proofs`, a section for each part, each with its own inductive invariant:

| part | assumption | what the invariant adds to the property |
|---|---|---|
| `PiiBreaker` | - | `PiiInv`: while an order stands nobody holds, has read or is about to write anything else |
| `RbacReload` | `RbacAssumption` | `RbacInv`: hashes are of contents the file has had; between hash and read, routes are the file's or the hash differs |
| `PolicyFiles` | `PolicyAssumption` | `ChainInv`: one update at most is under way, and what it loaded tells the history; `RotationInv`: who is signing, with what, and what is left to sign |
| `Tuning` | `TuningAssumption` | `TuneInv`; `GuardHolds` on what a run writes, from `CapOfARun`, `StepStays` and `ClampBounds` on caps, slew and clamp |
| `Evidence` | - | `EviInv`: what is still to upload is as it was scanned, or known to have changed |
| `EvidenceGc` | `GcAssumption` | `GcInv`: of a tenant of which a run has something to remove, the minimum would stay if all that was done |
| `KeyCaches` | `KeysAssumption` | `CacheInv`, `InGrace`: since a key was dropped no round found one, and its grace runs from then. The assumption is that the grace is no longer than the interval, as in the code's defaults |
| `Cards` | `CardsAssumption` | `CardInv`: `Filed` (a tag in the cache is that of the body beside it), `Making`, `CardTags`, `TrendTags` (a tag a client holds names its body) |
| `Limits` | `LimitsAssumption` | `LimitInv`, see below |
| `Metering` | - | `MeterInv`: what is accepted, returned or not yet, is marked, and no two lists share an event |
| `Annotate` | `AnnotateAssumption` | `NoteInv`: the comment there is stands on the first page, and who is about to make one met none |
| `RotationBot` | - | `BotInv`: who sets labels has its pull request of the day; `FailureKeeps`: a request that fails ends the run, not well, or turns it to the issue |
| `CardsDelta` | - | `RoundTrip`: a delta applied to the list it was computed from gives the list it was computed for, for any two maps from names to bodies |
| `Consent` | - | `AgreeInv`: the counts are those of the records |
| `Executor` | - | `ExecInv` |

`LimitInv` has a part for each limiter. A bucket (`BucketInv`) has let through
and still has, together, at most its capacity and what it gained since its first call
(`Gained`), and is full again before Redis drops it, for `LimitsAssumption` says
`Refill * Ttl >= Cap`, as the code's defaults do (10 a second, 120 s, 120). The window
in memory (`OwnInv`) holds the end of the history, and what it dropped is over for
any call to come (`WhatIsLeft`), so a stretch with the new call in it has no call
that is not in the window. Of the window in Redis (`SharedInv`), whatever may still
count is in the sorted set for every instant that a call may bring which nobody
overtook (`Moments`); the calls of a stretch are counted by an injection into it.

Only model-checked: `Recovers`, `Decides`, `ReadersAgree` (liveness under fairness
is out of the prover's reach, as is `ENABLED`), and `RefusalStands` for the 26 gates
other than the SLO judge, the policy decision and the promotion: one of them (`burn`)
is about sums that a fold computes, which is induction over data, and the facts of the
others have no kinds in `FactsAssumption` yet. No module declares a RECURSIVE operator
and nothing is proved by induction over data.

## 5. Findings with a run

1. `providers/http.py:90`: a provider signs with its configured key, in state
   grace or retired too, as long as the file lists it; after the grace period
   every request of it is refused although an active key exists. `docs/plan.md:1259`
   requires rotation without interruption.
2. `stage_file.py:98`: a guarded read between the two renames of a write repairs
   the token to "stable", the writer then signs a token that is gone, and the
   next read repairs the rest; the write is lost although it returned.
3. `routers/payments.py:144`: a `payment_failed` event settles charge and intent.

## 6. Observed while modelling, without a run

Some of what the code's words promise is stated in a module and kept out of the
runs, because the code does not hold it. Adding the name to the configuration makes
TLC show how it fails (names of parts through `Services`):

| property | promise | what happens |
|---|---|---|
| `CircuitBreaker!OpenHoldsTimeout` | `backpressure.py:28`, an open breaker stays open for the timeout | a trial that succeeds late closes a breaker that another's failure has just opened (`:111`) |
| `JudgeQuorum!VerdictNotLost` | `docs/techspec.md:2431`, timeouts, 5xx and bad signatures are what fails | a verdict that was received is lost when the breaker opens in the same call (`http.py:146`) |
| `Gates!SoundSystemIsGo` | `docs/work_orders/v0.5.11q-cutover-runbook.md:44`, such a system is GO | never: the judge's GET /readyz awaits a method that is not asynchronous (`apps/judge/readyz.py:99`) and always ends in a 500, the card asks for a status "ok" no server sends, and for the keys of a loader that was never filled |
| `Rollout!ScriptsHonourGlass` | `docs/ops/RUNBOOK-CHANGE.md:9`, `:31` | scripts refuse under a freeze with a valid break-glass token |
| `Services!ManualDisableStands` | `pii_circuit_breaker.py:117` | a process with an older copy writes its own state over the order |
| `Services!RotationIsSafe` | `rotate_key_zero_downtime.sh:4` | the step that signs again is left to a person; without it nothing verifies after the old key is gone |
| `Services!SafeForProcesses` | `metering/store.py:27` | a second mark of an event keeps the write lock of its connection (`:42-48`) and others fail with "database is locked" |

Judges, keys and stage:

- `server.py:96` allows a skew of 90 s; `docs/techspec.md:2479` and
  `replay_plugins.py:14` (`SKEW_SEC`) say 120 s.
- `backpressure.py:99-100` limits the successes of a half-open breaker, not the
  requests under way: any number of trials runs at once.
- `key_rotation.py:244`: the key file is written in place. A loader that looks while
  it is empty refuses every key until its next look; a run killed there leaves
  the file empty, and every later run gives up (`:223`). Two overlapping runs
  undo each other.
- `key_rotation.py:184`: a grace key without `grace_until` is never retired.
- `keyloader_*.py`: a failed SSM read with keys in the environment clears the degraded
  flag and, after the grace, drops the SSM keys; the KMS loader serves a withdrawn
  key for ever.
- `slo_judge.py`: a report without `perf.count` skips the minimum of samples;
  missing fields count as 0; `saturation.fail_closed`, `canary.guardband_minutes`,
  `witness.min_rows` and `witness.require_signature` are never read, though
  `configs/slo/slo-billing-strict.json:15-19` sets the last two.
- `replay_plugins.py:97-98`: when Redis fails, a request never seen before is refused
  as "replay detected".

Payments:

- `payments/adapters/types.py:41`, `core.py:74`: the adapter changes the stored
  charge before the transition is checked; a refused capture leaves it captured
  without a receipt.
- `core.py:91`: refunds are compared neither with earlier refunds nor with the
  state of the charge, `docs/payments_policy_ko.md:32` defines a refund as all or
  part of the captured amount. `core.py:101-108` settles any charge.
- `routers/payments.py:144-146`: an event that comes before its charge is stored is
  recorded without any effect; its redelivery is a "duplicate", and it is lost.
- `routers/payments.py:136`: an event delivered concurrently, or again after the
  record's hour, is applied again; `docs/payments_policy_ko.md:291` promises that
  the same event is not processed twice.
- `core.py:74`: of two overlapping captures both issue a receipt, and a capture
  can overwrite a settlement, which `state_machine.py:32` does not allow.
- `stripe_stub` draws a random idempotency key, `manual_stub` makes events without
  an id, `WebhookProcessor._seen` is never used and `void` never called.

Rollout, governance and gates:

- `abort.sh` writes the token and not the percentage, and percentages other
  controllers have in memory stay; `set_stage` and `register_result` pass no
  guard; `blue_green_cutover.sh` asks for no freeze.
- `freeze.py:36-42`: a weekly window over midnight is active the whole listed day and,
  if that is not listed too, not at all on the day after.
- `controller.py:156-161`: an abort whose process dies after the state file, or during
  which another controller saves, leaves file and token apart.
- `canary_auto_promote.py:21-41` looks at no samples, and may promote what the rehearsal
  refuses for too few (`cutover_rehearsal.sh:117`).
- `scripts/ci/check_readyz_blocking.sh` accepts only "ok"; the server says
  "ready" or "degraded".
- The cutover rehearsal cannot pass (`cutover_rehearsal.sh:206`), and
  `run_preflight_checks.sh` ends at the first failure and leaves an older GO report.
- Facts that disappear may turn a refusal into agreement: burn metrics, the rules of
  `check_multisig.py`, the last key of a signed policy, the registry of an
  attestation. An APPROVED review counts although CHANGES_REQUESTED came later.
- `sign.py` writes `signature` and `sha256`, the policy loader reads `hmac_sha256`;
  an allow list that was emptied allows every key.
- `pdp.py` skips a rule whose condition raises: an erroring denial lets a later rule allow.

Shared files and services:

- `executor/plugins.py:66`: `retries: 0` means the default; `timeout_sec` is never
  used; a 5xx after the last retry is "exec.ok".
- `consent/store.py:71-80`: a revocation takes the first record that is not
  revoked, expired or not; a later grant may stay in force. The flag is outside the hash
  chain, and each process has its own memory.
- `annotate_release_gate.py`: only the first 30 comments are searched; reasons that
  are a list raise; `ci.yml:479`, `:490`, `:649` pass values to flags that take none.
- `key_rotation_bot.py`: run twice on a day, it opens an issue beside its pull request.
  Without token or repository it ends with 0 and has told nobody (`:92-94`).
- `rl.py:57-66`: of two calls, the one whose clock was read first lets the
  other's refill count again. `alerts/ratelimit_redis.py:37` counts events of one
  instant once, and lets everything through when Redis fails (`:99-102`).
- Metering keys ignore time and value, and accepted events are lost with their batch.
- The policy registry loses an entry of two concurrent updates; a torn registry
  starts a new history, which verifies.
- Evidence: merging signs again whatever was read; reports in the directory are
  indexed as tampered; overlapping collections leave fewer than `keep_min`;
  upload and lock-down work on a scan that may be old.
- `cards_delta.py` computes the body before the tag, so a change in between makes
  a stale body current; the tag leaves out weights and window; a missing index is
  a 500; cards read fields the indexer never writes.
- Tuning: slew is applied after bounds, so a value may stay outside them, though no
  further than its base was; what a rollback restores passes no guard, and it writes
  another file than the tuner reads; `last_good` is never updated.
- RBAC: at the start the map is read before it is hashed, and an edit between the
  two is never noticed; `RbacHotReloader` takes a torn file for an empty map.
- Files that do not run: `apps/ops/api_cards.py` imports what `etag_store.py` does
  not define, `apps/ops/api.py` is shadowed by the package of that name,
  `jobs/evidence_harvest_judgelog.py:83-84`, `apps/ext/__init__.py:1` and
  `scripts/ci/summary_postgate.py:25` do not parse.

## 7. Not modelled, and why

- PII masking and tokenization, the routes of the gateway, configuration,
  infrastructure stand-ins, web, and the small domain services other than consent:
  functions of their arguments and look-ups, without state that steps could
  disagree about. (Which tenant a request acts for is in `Access`.)
- Reports, dashboards, Slack notices, latency aggregation, log fields, metrics:
  output only. The token bucket of `backpressure.py` is one subtraction under a lock.
- Code that cannot run, or does not finish: `api_cards.py`, `api.py`, the part of the
  judge's /readyz behind the failing `await`, the responses of `api/cards.py` its
  response model refuses. `evidence_replication.py` only prints what it would do.
- The compare-and-set stores `storage/etag_store.py` and `ops/etag_store*.py` are
  used by tests only, as is `cache/etag_delta.py`, whose functions `CardsDelta` has.
- `cutover_rehearsal.sh` and `canary_step.sh` as processes: their tests and writes are
  those of `Rollout` and `Gates`, in a fixed order.
- Metering's reconciliation, watermark, partitions and rating, and the quota batch:
  arithmetic over one batch. `etl_highlights_incremental` (a crash between append
  and `state.json` repeats a line).
- The change list of `scripts/change/utils.py` (read, change, write without a lock), the
  `expops` judges, the overlays of tenants.
- Judge keys: the single legacy key of the environment. Liveness of `Rollout` and
  `Services`: jobs run when a person or a timer starts them, so nothing has to happen.

## 8. Plan

Modelled as planned at first: the judges, keys, stage and payments; then `Rollout`
with change governance, the breaker of PII, policy registry and consent, metering
and limits, cards and executor, and, beyond it, the gates, evidence, tuning, key
caches, annotation and the rotation bot. What is left, in order:

1. `RefusalStands` for more gates than the three: the monotone ones (reviews,
   signatures, keys, readiness, recovery) need their facts typed as `FactsAssumption`
   types three gates.
2. Of the properties kept out of the runs (section 6), the weaker statements that do hold,
   as `SerialOpenHolds` is one.
3. Reconciliation and quota of metering; the change list; the ETag stores as two
   implementations of one register, if anything comes to use them.
