--------------------------- MODULE CircuitBreaker ---------------------------
(* CircuitBreaker of apps/judge/backpressure.py, shared by threads.  call()  *)
(* looks at the state under its lock, runs the protected function without    *)
(* the lock, and records the outcome under the lock again: what it decided   *)
(* on may have changed in between.  Time counts only as the age of the last  *)
(* recorded failure.                                                         *)
EXTENDS Naturals

CONSTANTS
  Threads,
  Threshold,          \* failures that open the breaker
  Timeout,            \* how long it stays open
  HalfOpenRequests,   \* successes that close it again
  MaxFailures         \* bound: no failure is recorded beyond this count

ASSUME BreakerAssumption ==
  /\ Threshold \in Nat \ {0} /\ Timeout \in Nat \ {0}
  /\ HalfOpenRequests \in Nat \ {0} /\ MaxFailures \in Nat

VARIABLES
  state,        \* _state
  failures,     \* _failure_count
  successes,    \* _half_open_success_count
  age,          \* time since _last_failure_time, up to Timeout
  entered,      \* the state each thread saw when its call was let through
  healthy,      \* environment: the protected function does not fail any more
  streak        \* history: failures recorded since the last success

breaker == <<state, failures, successes, age>>
vars == <<state, failures, successes, age, entered, healthy, streak>>

Outside == "outside"    \* the thread is not in call()

\* _get_state: an open breaker turns half-open once the timeout has elapsed.
TimedOut == state = "open" /\ age >= Timeout

LookedAt == IF TimedOut THEN "half_open" ELSE state

\* Variant of Look: the successes of the last trial are not forgotten.
LookNoReset ==
  /\ state' = LookedAt
  /\ UNCHANGED successes

Look ==
  /\ state' = LookedAt
  /\ successes' = IF TimedOut THEN 0 ELSE successes

Init ==
  /\ state = "closed"
  /\ failures = 0
  /\ successes = 0
  /\ age = Timeout
  /\ entered = [t \in Threads |-> Outside]
  /\ healthy = FALSE
  /\ streak = 0

-----------------------------------------------------------------------------
\* A closed breaker lets a call through, a half-open one as long as it has not
\* seen enough successes; any other call is refused and changes nothing.
Admits ==
  \/ LookedAt = "closed"
  \/ TimedOut
  \/ state = "half_open" /\ successes < HalfOpenRequests

\* The head of call().
Enter(t) ==
  /\ entered[t] = Outside
  /\ Admits
  /\ Look
  /\ entered' = [entered EXCEPT ![t] = LookedAt]
  /\ UNCHANGED <<failures, age, healthy, streak>>

\* get_stats() makes the same transition as a call.
GetStats ==
  /\ TimedOut
  /\ Look
  /\ UNCHANGED <<failures, age, entered, healthy, streak>>

\* Variant of Succeed: only closing the breaker clears the failures.
SucceedNoReset(t) ==
  /\ entered[t] # Outside
  /\ entered' = [entered EXCEPT ![t] = Outside]
  /\ IF entered[t] = "half_open"
       THEN /\ successes' = successes + 1
            /\ IF successes + 1 >= HalfOpenRequests
                 THEN state' = "closed" /\ failures' = 0
                 ELSE UNCHANGED <<state, failures>>
       ELSE UNCHANGED <<failures, state, successes>>
  /\ streak' = 0
  /\ UNCHANGED <<age, healthy>>

\* Variant of Succeed: the successes of a trial are not counted.
SucceedUncounted(t) ==
  /\ entered[t] # Outside
  /\ entered' = [entered EXCEPT ![t] = Outside]
  /\ failures' = IF entered[t] = "half_open" THEN failures ELSE 0
  /\ streak' = 0
  /\ UNCHANGED <<state, successes, age, healthy>>

\* The function returned: its outcome counts for the state it was let in.
Succeed(t) ==
  /\ entered[t] # Outside
  /\ IF entered[t] = "half_open"
       THEN /\ successes' = successes + 1
            /\ IF successes + 1 >= HalfOpenRequests
                 THEN state' = "closed" /\ failures' = 0
                 ELSE UNCHANGED <<state, failures>>
       ELSE /\ failures' = 0
            /\ UNCHANGED <<state, successes>>
  /\ entered' = [entered EXCEPT ![t] = Outside]
  /\ streak' = 0
  /\ UNCHANGED <<age, healthy>>

\* The function raised: the failure counts whatever state it was let in.
Fail(t) ==
  /\ entered[t] # Outside
  /\ ~healthy
  /\ failures < MaxFailures
  /\ failures' = failures + 1
  /\ age' = 0
  /\ state' = IF failures + 1 >= Threshold THEN "open" ELSE state
  /\ entered' = [entered EXCEPT ![t] = Outside]
  /\ streak' = streak + 1
  /\ UNCHANGED <<successes, healthy>>

\* The judge behind the breaker recovers for good.
Recover ==
  /\ ~healthy
  /\ healthy' = TRUE
  /\ UNCHANGED <<breaker, entered, streak>>

Tick ==
  /\ age < Timeout
  /\ age' = age + 1
  /\ UNCHANGED <<state, failures, successes, entered, healthy, streak>>

Next ==
  \/ \E t \in Threads : Enter(t) \/ Succeed(t) \/ Fail(t)
  \/ GetStats
  \/ Recover
  \/ Tick

Spec == Init /\ [][Next]_vars

\* Time passes, callers keep calling, and a protected function that cannot fail
\* any more returns.
FairSpec ==
  /\ Spec
  /\ WF_vars(Tick)
  /\ \A t \in Threads : WF_vars(Enter(t)) /\ WF_vars(Succeed(t) /\ healthy)

-----------------------------------------------------------------------------
(* Properties *)

\* Each variable of the breaker (backpressure.py:76-143) stays in its range.
TypeOK ==
  /\ state \in {"closed", "open", "half_open"}
  /\ failures \in 0 .. MaxFailures
  /\ successes \in Nat
  /\ age \in 0 .. Timeout
  /\ entered \in [Threads -> {"closed", "half_open", Outside}]
  /\ healthy \in BOOLEAN
  /\ streak \in Nat

\* A half-open breaker always lets a call through: late successes of earlier
\* trials never fill its quota and leave it refusing for good.
NeverWedged == state = "half_open" => successes < HalfOpenRequests

\* "연속 실패 임계치": a closed breaker opens only after Threshold failures
\* with no success in between, in whatever order calls let in earlier return.
OpensAfterStreak ==
  [][state = "closed" /\ state' = "open" => streak' >= Threshold]_vars

\* Once the function behind it has recovered, the breaker closes for good.
Recovers == <>healthy => <>[](state = "closed")

\* "서킷 오픈 유지 시간": an open breaker stays open for the timeout after the
\* last recorded failure.
OpenHoldsTimeout ==
  [][state = "open" /\ state' # "open" => age >= Timeout]_vars

\* What is left of it when calls overlap: as long as no call let in as a trial
\* is still running, an open breaker does stay open for the timeout.
OpenHoldsWithoutTrials ==
  [][state = "open" /\ state' # "open"
       => age >= Timeout \/ \E t \in Threads : entered[t] = "half_open"]_vars
=============================================================================
