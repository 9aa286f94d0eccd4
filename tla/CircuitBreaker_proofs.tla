------------------------ MODULE CircuitBreaker_proofs -----------------------
(* Theorems about CircuitBreaker, for any number of threads and any          *)
(* parameters of the breaker; the last one for a caller that is alone.       *)
EXTENDS CircuitBreaker, TLAPS

\* Successes of a trial are all counted before the breaker closes, so a late
\* one finds the quota filled and cannot reopen the question.
TrialsCounted ==
  \A t \in Threads :
    entered[t] = "half_open" /\ state = "closed" => successes >= HalfOpenRequests

\* While the breaker is closed, its count is the length of the streak.
ClosedCountsStreak == state = "closed" => failures <= streak

\* The inductive invariant.
IInv == TypeOK /\ NeverWedged /\ TrialsCounted /\ ClosedCountsStreak

USE BreakerAssumption

-----------------------------------------------------------------------------
LEMMA InitInvariant == Init => IInv
<1> SUFFICES ASSUME Init PROVE IInv
  OBVIOUS
<1>1. TypeOK
  <2>1. healthy \in BOOLEAN
    BY Zenon DEF Init
  <2> QED
    BY <2>1 DEF Init, TypeOK, Outside
<1>2. NeverWedged /\ TrialsCounted /\ ClosedCountsStreak
  BY DEF Init, NeverWedged, TrialsCounted, ClosedCountsStreak, Outside
<1> QED
  BY <1>1, <1>2 DEF IInv

LEMMA StepInvariant == IInv /\ [Next]_vars => IInv'
<1> SUFFICES ASSUME IInv, [Next]_vars PROVE IInv'
  OBVIOUS
<1> USE DEF IInv, TypeOK, NeverWedged, TrialsCounted, ClosedCountsStreak,
            Outside
<1>1. ASSUME NEW t \in Threads, Enter(t)
      PROVE  IInv'
  BY <1>1 DEF Enter, Admits, Look, LookedAt, TimedOut
<1>2. ASSUME NEW t \in Threads, Succeed(t)
      PROVE  IInv'
  BY <1>2 DEF Succeed
<1>3. ASSUME NEW t \in Threads, Fail(t)
      PROVE  IInv'
  BY <1>3 DEF Fail
<1>4. CASE GetStats
  BY <1>4 DEF GetStats, Look, LookedAt, TimedOut
<1>5. CASE Recover
  BY <1>5 DEF Recover, breaker
<1>6. CASE Tick
  BY <1>6 DEF Tick
<1>7. CASE UNCHANGED vars
  BY <1>7 DEF vars
<1> QED
  BY <1>1, <1>2, <1>3, <1>4, <1>5, <1>6, <1>7 DEF Next

\* The inductive invariant holds in every reachable state.
THEOREM Invariance == Spec => []IInv
BY InitInvariant, StepInvariant, PTL DEF Spec

\* Every variable keeps its type.
THEOREM TypeCorrect == Spec => []TypeOK
<1>1. IInv => TypeOK
  BY DEF IInv
<1> QED
  BY <1>1, Invariance, PTL

\* However many threads call and in whatever order their calls return, a
\* half-open breaker never refuses every call for good.
THEOREM HalfOpenAdmits == Spec => []NeverWedged
<1>1. IInv => NeverWedged
  BY DEF IInv
<1> QED
  BY <1>1, Invariance, PTL

\* A closed breaker never opens before Threshold failures in a row.
THEOREM OpensOnlyAfterStreak == Spec => OpensAfterStreak
<1>1. IInv /\ [Next]_vars =>
        [state = "closed" /\ state' = "open" => streak' >= Threshold]_vars
  <2> SUFFICES ASSUME IInv, [Next]_vars, state = "closed", state' = "open"
               PROVE  streak' >= Threshold
    OBVIOUS
  <2>1. PICK t \in Threads : Fail(t)
    BY DEF Next, Enter, Look, LookedAt, TimedOut, Succeed, GetStats, Recover,
           Tick, breaker, vars
  <2> QED
    BY <2>1 DEF Fail, IInv, TypeOK, ClosedCountsStreak
<1> QED
  BY <1>1, Invariance, PTL DEF Spec, OpensAfterStreak

-----------------------------------------------------------------------------
\* With no trial running an open breaker stays open for its timeout; with any
\* number of threads, and outcomes of earlier calls coming in late.
THEOREM OpenHolds == Spec => OpenHoldsWithoutTrials
<1>1. IInv /\ [Next]_vars =>
        [state = "open" /\ state' # "open"
           => age >= Timeout \/ \E t \in Threads : entered[t] = "half_open"]_vars
  <2> SUFFICES ASSUME IInv, [Next]_vars, state = "open", state' # "open",
                      \A t \in Threads : entered[t] # "half_open"
               PROVE  age >= Timeout
    OBVIOUS
  <2>1. \A t \in Threads : ~Succeed(t)
    BY DEF Succeed
  <2> QED
    BY <2>1 DEF Next, Enter, Look, LookedAt, TimedOut, Fail, GetStats, Recover,
                Tick, breaker, vars
<1> QED
  BY <1>1, Invariance, PTL DEF Spec, OpenHoldsWithoutTrials

-----------------------------------------------------------------------------
\* One caller at a time: what holds of a call holds of every call.
Serial == \A s, t \in Threads : s = t

\* A single call always finds the state it was let in.
SerialInv ==
  \A t \in Threads : entered[t] # Outside => entered[t] = state

LEMMA SerialStep ==
  ASSUME Serial, IInv, SerialInv, [Next]_vars PROVE SerialInv'
<1> USE DEF Serial, IInv, TypeOK, SerialInv, Outside
<1>1. ASSUME NEW t \in Threads, Enter(t)
      PROVE  SerialInv'
  BY <1>1 DEF Enter, Admits, Look, LookedAt, TimedOut
<1>2. ASSUME NEW t \in Threads, Succeed(t) \/ Fail(t)
      PROVE  SerialInv'
  BY <1>2 DEF Succeed, Fail
<1>3. CASE GetStats
  BY <1>3 DEF GetStats, Look, LookedAt, TimedOut
<1>4. CASE Recover \/ Tick \/ UNCHANGED vars
  BY <1>4 DEF Recover, Tick, vars, breaker
<1> QED
  BY <1>1, <1>2, <1>3, <1>4 DEF Next

\* With one caller at a time an open breaker stays open for its timeout, which
\* concurrent callers can cut short.
THEOREM SerialOpenHolds ==
  ASSUME Serial PROVE Spec => OpenHoldsTimeout
<1>1. Init => SerialInv
  BY DEF Init, SerialInv
<1>2. IInv /\ SerialInv /\ [Next]_vars => SerialInv'
  BY SerialStep
<1>3. IInv /\ SerialInv /\ [Next]_vars =>
        [state = "open" /\ state' # "open" => age >= Timeout]_vars
  <2> SUFFICES ASSUME IInv, SerialInv, [Next]_vars,
                      state = "open", state' # "open"
               PROVE  age >= Timeout
    OBVIOUS
  <2>1. \A t \in Threads : ~Succeed(t)
    BY DEF SerialInv, Succeed, IInv, TypeOK, Outside
  <2> QED
    BY <2>1 DEF Next, Enter, Look, LookedAt, TimedOut, Fail, GetStats, Recover,
                Tick, breaker, vars
<1> QED
  BY <1>1, <1>2, <1>3, Invariance, PTL DEF Spec, OpenHoldsTimeout
=============================================================================
