---------------------------- MODULE JudgeQuorum -----------------------------
(* One k-of-n decision: quorum_decide (apps/judge/pool.py) starts a task per *)
(* judge and awaits the tasks in order, while HTTPJudgeProvider.evaluate     *)
(* (apps/judge/providers/http.py) posts, retries and backs off in each of    *)
(* them.  The tasks of one event loop interleave only at their awaits, so a  *)
(* call of the breaker is one step here; what threads do to it is the        *)
(* subject of CircuitBreaker.  A decision may be asked for again with the    *)
(* same provider objects, whose breakers then remember.                      *)
EXTENDS Naturals, Sequences, FiniteSets

CONSTANTS
  Http,               \* remote judges
  Local,              \* judges run in the process (LocalJudgeProvider)
  Order,              \* the judges, in the order of the providers file
  K,                  \* votes needed
  Retries,            \* retries after the first attempt
  Threshold,          \* breaker_max_failures
  HalfOpenRequests,   \* half_open_requests
  MaxRounds           \* bound on the decisions asked for

Providers == Http \cup Local
N == Len(Order)

ASSUME QuorumAssumption ==
  /\ Http \cap Local = {}
  /\ IsFiniteSet(Providers)
  /\ Order \in Seq(Providers)
  /\ \A p \in Providers : \E i \in 1 .. N : Order[i] = p
  /\ \A i, j \in 1 .. N : Order[i] = Order[j] => i = j
  /\ K \in 1 .. N
  /\ Retries \in Nat /\ Threshold \in Nat \ {0}
  /\ HalfOpenRequests \in Nat \ {0} /\ MaxRounds \in Nat

VARIABLES
  round,      \* decisions asked for so far
  pc,         \* the task of each judge: idle, created, post, backoff, done
  attempt,    \* attempt of each evaluate
  vote,       \* what each task has come to: none, pass, fail, error
  breaker,    \* the breaker of each provider object
  next,       \* index of the task awaited
  passCount,  \* pass_count
  degraded,   \* some awaited task raised
  final,      \* the decision of this round
  failClosed, \* fail_closed_on_degrade, an argument of quorum_decide
  said        \* history: the last reply of each judge in this round

tasks == <<pc, attempt, vote, breaker, said>>
tally == <<next, passCount, degraded, final, failClosed>>
vars  == <<round, tasks, tally>>

Verdicts == {"pass", "fail"}

\* What a post can come to.  A timeout and a refused connection are treated
\* alike; a 2xx that names no known decision counts as "fail"; "garbage" is a
\* 2xx whose body evaluate cannot read.  A missing signing key ends evaluate
\* as a 401 does.
Transient == {"timeout", "5xx"}
Replies == Verdicts \cup Transient \cup {"401", "4xx", "garbage"}

-----------------------------------------------------------------------------
\* CircuitBreaker, one call at a time.  Whether the timeout of an open breaker
\* has elapsed is left open.
Fresh == [state |-> "closed", failures |-> 0, successes |-> 0]

HalfOpened(b) ==
  [state |-> "half_open", failures |-> b.failures, successes |-> 0]

LookedAt(b) == {b} \cup (IF b.state = "open" THEN {HalfOpened(b)} ELSE {})

Refuses(b) ==
  \/ b.state = "open"
  \/ b.state = "half_open" /\ b.successes >= HalfOpenRequests

AfterSuccess(b) ==
  IF b.state = "closed" THEN [b EXCEPT !.failures = 0]
  ELSE IF b.successes + 1 >= HalfOpenRequests
    THEN [state |-> "closed", failures |-> 0, successes |-> b.successes + 1]
    ELSE [b EXCEPT !.successes = @ + 1]

\* Failures are counted up to Threshold: the code only compares with it.
OneMore(b) == IF b.failures < Threshold THEN b.failures + 1 ELSE Threshold

\* _record_failure: a breaker that refuses the call records nothing.
AfterFailure(b) ==
  IF Refuses(b) THEN b
  ELSE [state |-> IF OneMore(b) >= Threshold THEN "open" ELSE b.state,
        failures |-> OneMore(b),
        successes |-> b.successes]

-----------------------------------------------------------------------------
Init ==
  /\ round = 0
  /\ pc = [p \in Providers |-> "idle"]
  /\ attempt = [p \in Providers |-> 0]
  /\ vote = [p \in Providers |-> "none"]
  /\ breaker = [p \in Providers |-> Fresh]
  /\ said = [p \in Providers |-> "none"]
  /\ next = 1
  /\ passCount = 0
  /\ degraded = FALSE
  /\ final = "none"
  /\ failClosed \in BOOLEAN

\* quorum_decide creates all tasks before it awaits the first.
StartRound ==
  /\ round < MaxRounds
  /\ round = 0 \/ final # "none"
  /\ round' = round + 1
  /\ pc' = [p \in Providers |-> "created"]
  /\ attempt' = [p \in Providers |-> 0]
  /\ vote' = [p \in Providers |-> "none"]
  /\ said' = [p \in Providers |-> "none"]
  /\ next' = 1 /\ passCount' = 0 /\ degraded' = FALSE /\ final' = "none"
  /\ failClosed' \in BOOLEAN
  /\ UNCHANGED breaker

\* A local judge decides, or raises, in a thread it is awaited from.
RunLocal(p) ==
  /\ p \in Local
  /\ pc[p] = "created"
  /\ \E v \in Verdicts \cup {"error"} :
       /\ vote' = [vote EXCEPT ![p] = v]
       /\ said' = [said EXCEPT ![p] = IF v = "error" THEN "garbage" ELSE v]
  /\ pc' = [pc EXCEPT ![p] = "done"]
  /\ UNCHANGED <<round, attempt, breaker, tally>>

\* evaluate up to its first await: the rate limiter (429) and an open breaker
\* (503) raise at once; otherwise the first post goes out.
StartEvaluate(p) ==
  /\ p \in Http
  /\ pc[p] = "created"
  /\ \E b \in LookedAt(breaker[p]) :
       \/ /\ b.state # "open"
          /\ breaker' = [breaker EXCEPT ![p] = b]
          /\ pc' = [pc EXCEPT ![p] = "post"]
          /\ attempt' = [attempt EXCEPT ![p] = 1]
          /\ UNCHANGED vote
       \/ /\ b.state = "open"
          /\ vote' = [vote EXCEPT ![p] = "error"]
          /\ pc' = [pc EXCEPT ![p] = "done"]
          /\ UNCHANGED <<breaker, attempt>>
  /\ UNCHANGED <<round, said, tally>>

RateLimited(p) ==
  /\ p \in Http
  /\ pc[p] = "created"
  /\ vote' = [vote EXCEPT ![p] = "error"]
  /\ pc' = [pc EXCEPT ![p] = "done"]
  /\ UNCHANGED <<round, attempt, breaker, said, tally>>

\* The finally clause sleeps after every attempt but the last, even when the
\* loop is about to return or to raise.
Pause(p, v) ==
  /\ vote' = [vote EXCEPT ![p] = v]
  /\ pc' = [pc EXCEPT ![p] = IF attempt[p] <= Retries THEN "backoff" ELSE "done"]

\* A 2xx verdict is passed through the breaker, which may have opened since
\* evaluate looked: the exception it then raises replaces the verdict.
OnVerdict(p, v) ==
  \E b \in LookedAt(breaker[p]) :
    \/ /\ ~Refuses(b)
       /\ breaker' = [breaker EXCEPT ![p] = AfterSuccess(b)]
       /\ Pause(p, v)
    \/ /\ Refuses(b)
       /\ breaker' = [breaker EXCEPT ![p] = b]
       /\ Pause(p, "error")

\* A timeout, a transport error or a 5xx is recorded and tried again; the last
\* one is raised.
OnTransient(p) ==
  /\ \E b \in LookedAt(breaker[p]) :
       breaker' = [breaker EXCEPT ![p] = AfterFailure(b)]
  /\ Pause(p, IF attempt[p] <= Retries THEN "none" ELSE "error")

\* 401 is recorded, any other 4xx and a useless body are not; none is retried.
OnRefusal(p, r) ==
  /\ IF r = "401"
       THEN \E b \in LookedAt(breaker[p]) :
              breaker' = [breaker EXCEPT ![p] = AfterFailure(b)]
       ELSE UNCHANGED breaker
  /\ Pause(p, "error")

Reply(p, r) ==
  /\ pc[p] = "post"
  /\ said' = [said EXCEPT ![p] = r]
  /\ \/ r \in Verdicts /\ OnVerdict(p, r)
     \/ r \in Transient /\ OnTransient(p)
     \/ r \notin Verdicts \cup Transient /\ OnRefusal(p, r)
  /\ UNCHANGED <<round, attempt, tally>>

\* Variant of WakeUp: the attempt is not counted.
WakeUpUncounted(p) ==
  /\ pc[p] = "backoff"
  /\ pc' = [pc EXCEPT ![p] = IF vote[p] # "none" THEN "done" ELSE "post"]
  /\ UNCHANGED <<round, attempt, vote, breaker, said, tally>>

\* The sleep is over: evaluate returns or raises what it has, or posts again.
WakeUp(p) ==
  /\ pc[p] = "backoff"
  /\ IF vote[p] # "none"
       THEN pc' = [pc EXCEPT ![p] = "done"] /\ UNCHANGED attempt
       ELSE /\ pc' = [pc EXCEPT ![p] = "post"]
            /\ attempt' = [attempt EXCEPT ![p] = @ + 1]
  /\ UNCHANGED <<round, vote, breaker, said, tally>>

\* Variant of Await: only the last task can degrade the decision.
AwaitForgetsErrors ==
  /\ final = "none"
  /\ next <= N
  /\ pc[Order[next]] = "done"
  /\ passCount' = IF vote[Order[next]] = "pass" THEN passCount + 1 ELSE passCount
  /\ degraded' = (vote[Order[next]] = "error")
  /\ next' = next + 1
  /\ final' = IF next < N THEN "none"
             ELSE IF passCount' >= K /\ ~(degraded' /\ failClosed)
               THEN "pass" ELSE "fail"
  /\ UNCHANGED <<round, tasks, failClosed>>

\* Variant of Await: the decision is made one task too early.
AwaitEarly ==
  /\ final = "none"
  /\ next <= N
  /\ pc[Order[next]] = "done"
  /\ LET v == vote[Order[next]] IN
       /\ passCount' = IF v = "pass" THEN passCount + 1 ELSE passCount
       /\ degraded' = (degraded \/ v = "error")
  /\ next' = next + 1
  /\ final' = IF next < N - 1 THEN "none"
             ELSE IF passCount' >= K /\ ~(degraded' /\ failClosed)
               THEN "pass" ELSE "fail"
  /\ UNCHANGED <<round, tasks, failClosed>>

\* The loop of quorum_decide awaits the next task; after the last one the
\* decision follows without another await.
Await ==
  /\ final = "none"
  /\ next <= N
  /\ pc[Order[next]] = "done"
  /\ LET v == vote[Order[next]] IN
       /\ passCount' = IF v = "pass" THEN passCount + 1 ELSE passCount
       /\ degraded' = (degraded \/ v = "error")
  /\ next' = next + 1
  /\ final' = IF next < N THEN "none"
             ELSE IF passCount' >= K /\ ~(degraded' /\ failClosed)
               THEN "pass" ELSE "fail"
  /\ UNCHANGED <<round, tasks, failClosed>>

Advance(p) ==
  \/ RunLocal(p)
  \/ StartEvaluate(p)
  \/ RateLimited(p)
  \/ \E r \in Replies : Reply(p, r)
  \/ WakeUp(p)

Next == StartRound \/ Await \/ \E p \in Providers : Advance(p)

Spec == Init /\ [][Next]_vars

\* The event loop runs what is ready; posts end, by their timeout at the latest.
FairSpec ==
  Spec /\ WF_vars(Await) /\ \A p \in Providers : WF_vars(Advance(p))
-----------------------------------------------------------------------------
BreakerStates == {"closed", "open", "half_open"}

\* Each variable stays in its range; a closed breaker has counted fewer
\* failures than would open it, any other at least as many, and one that is
\* half open has had too few trials succeed to close (backpressure.py:100-123
\* as evaluate drives it).
TypeOK ==
  /\ round \in 0 .. MaxRounds
  /\ pc \in [Providers -> {"idle", "created", "post", "backoff", "done"}]
  /\ attempt \in [Providers -> 0 .. Retries + 1]
  /\ vote \in [Providers -> Verdicts \cup {"none", "error"}]
  /\ said \in [Providers -> Replies \cup {"none"}]
  /\ breaker \in [Providers ->
       [state : BreakerStates, failures : 0 .. Threshold,
        successes : 0 .. HalfOpenRequests]]
  /\ \A p \in Providers :
       /\ breaker[p].state = "closed" <=> breaker[p].failures < Threshold
       /\ breaker[p].state = "half_open" => breaker[p].successes < HalfOpenRequests
  /\ next \in 1 .. N + 1
  /\ passCount \in 0 .. N
  /\ degraded \in BOOLEAN
  /\ final \in {"none", "pass", "fail"}
  /\ failClosed \in BOOLEAN

\* A decision is "pass" only when K judges answered "pass" in this very round,
\* whatever was retried, refused by a breaker or decided before (pool.py:25-72,
\* http.py:97-172).
QuorumSound ==
  final = "pass" => Cardinality({p \in Providers : said[p] = "pass"}) >= K

\* With fail_closed_on_degrade a "pass" also means that every judge gave a
\* verdict: none was skipped because it was limited, open, late or unreadable
\* (pool.py:49-72).
PassIsUnanimousAnswer ==
  final = "pass" /\ failClosed => \A p \in Providers : said[p] \in Verdicts

\* Once a judge has given a verdict, or refused the request, it is not asked
\* again in the same round (http.py:147, 152-161): only timeouts, transport
\* errors and 5xx are retried.
OnlyTransientRetried ==
  [][\A p \in Providers :
       round' = round /\ attempt'[p] > attempt[p] /\ attempt[p] > 0
         => said[p] \in Transient]_vars

\* Seen from outside the tasks, rounds are the abstract decision: ballots come
\* in any order and the outcome is made once, from all of them (pool.py:42-72).
Quorums == {Q \in SUBSET Providers : Cardinality(Q) >= K}
Decision == INSTANCE QuorumDecision WITH ballot <- vote
ImplementsDecision == Decision!Spec

\* A decision that was asked for is made, however the judges behave: retries
\* and their pauses end (http.py:110, 165-169).
Decides == round > 0 ~> final # "none"

\* docs/techspec.md:2431 counts timeouts, 5xx and bad signatures as "fail"
\* votes; a judge that answered with a verdict is none of these, and so is
\* never counted as an error (http.py:143-147 does otherwise).
VerdictNotLost ==
  \A p \in Providers : vote[p] = "error" => said[p] \notin Verdicts
=============================================================================
