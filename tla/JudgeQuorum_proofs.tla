------------------------ MODULE JudgeQuorum_proofs -------------------------
(* JudgeQuorum for every set of judges, every order of the providers file,   *)
(* every k, number of retries and breaker setting.  The tally is related to  *)
(* the votes by counting the judges already awaited (Tally); the votes are   *)
(* related to the replies by Honest; both need the progress of each task     *)
(* (Tasks).                                                                  *)
EXTENDS JudgeQuorum, FiniteSetTheorems, TLAPS

Awaited(k) == {p \in Providers : \E i \in 1 .. k - 1 : Order[i] = p}
PassedBefore(k) == {p \in Awaited(k) : vote[p] = "pass"}

Tasks ==
  \A p \in Providers :
    /\ pc[p] \in {"idle", "created", "post"} => vote[p] = "none"
    /\ pc[p] = "done" => vote[p] # "none"
    /\ pc[p] \in {"idle", "created"} => attempt[p] = 0 /\ said[p] = "none"
    /\ pc[p] = "post" => attempt[p] \in 1 .. Retries + 1
    /\ pc[p] = "backoff" => attempt[p] \in 1 .. Retries

Honest ==
  \A p \in Providers :
    /\ vote[p] \in Verdicts => said[p] = vote[p]
    /\ pc[p] = "backoff" /\ vote[p] = "none" => said[p] \in Transient

Tally ==
  /\ passCount <= next - 1
  /\ passCount = Cardinality(PassedBefore(next))
  /\ degraded <=> \E p \in Awaited(next) : vote[p] = "error"
  /\ \A p \in Awaited(next) : pc[p] = "done"
  /\ final = "none" <=> next <= N
  /\ final # "none" => final = Decision!Outcome
  /\ round = 0 => final = "none" /\ \A p \in Providers : pc[p] = "idle"

IInv == TypeOK /\ Tasks /\ Honest /\ Tally

-----------------------------------------------------------------------------
\* The sizes are numbers.
LEMMA Sizes ==
  /\ N \in Nat \ {0} /\ K \in Nat
  /\ Retries \in Nat /\ MaxRounds \in Nat
  /\ Threshold \in Nat \ {0} /\ HalfOpenRequests \in Nat \ {0}
<1>1. N \in Nat
  BY QuorumAssumption DEF N
<1>. QED  BY <1>1, QuorumAssumption

-----------------------------------------------------------------------------
(* Breakers.                                                                 *)
Sound(b) ==
  /\ b \in [state : BreakerStates, failures : 0 .. Threshold,
            successes : 0 .. HalfOpenRequests]
  /\ b.state = "closed" <=> b.failures < Threshold
  /\ b.state = "half_open" => b.successes < HalfOpenRequests

\* Looking at a breaker keeps it sound.
LEMMA LookSound ==
  ASSUME NEW b, Sound(b), NEW c \in LookedAt(b)
  PROVE  Sound(c)
<1>1. CASE c = b
  BY <1>1
<1>2. CASE c = HalfOpened(b) /\ b.state = "open"
  <2>1. ~(b.failures < Threshold)
    BY <1>2 DEF Sound
  <2>. QED  BY <1>2, <2>1, Sizes DEF HalfOpened, Sound, BreakerStates
<1>. QED  BY <1>1, <1>2 DEF LookedAt

\* A call that goes through, and one that fails, keep it sound.
LEMMA CallSound ==
  ASSUME NEW b, Sound(b)
  PROVE  /\ ~Refuses(b) => Sound(AfterSuccess(b))
         /\ Sound(AfterFailure(b))
<1>1. ~Refuses(b) => Sound(AfterSuccess(b))
  BY Sizes DEF Sound, Refuses, AfterSuccess, BreakerStates
<1>2. Sound(AfterFailure(b))
  <2>1. OneMore(b) \in 0 .. Threshold
    BY Sizes DEF Sound, OneMore
  <2>2. CASE Refuses(b)
    BY <2>2 DEF AfterFailure
  <2>3. CASE ~Refuses(b) /\ OneMore(b) >= Threshold
    BY <2>1, <2>3, Sizes DEF AfterFailure, Sound, BreakerStates
  <2>4. CASE ~Refuses(b) /\ ~(OneMore(b) >= Threshold)
    <3>1. b.state = "closed" /\ OneMore(b) < Threshold
      BY <2>1, <2>4, Sizes DEF Sound, OneMore
    <3>. QED  BY <2>1, <2>4, <3>1, Sizes DEF AfterFailure, Sound, BreakerStates
  <2>. QED  BY <2>2, <2>3, <2>4
<1>. QED  BY <1>1, <1>2

\* Every reply leaves the breaker of its judge sound.
LEMMA ReplySound ==
  ASSUME TypeOK, NEW p \in Providers, NEW r \in Replies, Reply(p, r)
  PROVE  \E b : Sound(b) /\ breaker' = [breaker EXCEPT ![p] = b]
<1>1. Sound(breaker[p])
  BY DEF TypeOK, Sound
<1>2. CASE r \in Verdicts
  BY <1>1, <1>2, LookSound, CallSound DEF Reply, OnVerdict, OnRefusal, Transient, Verdicts
<1>3. CASE r \in Transient
  BY <1>1, <1>3, LookSound, CallSound DEF Reply, OnTransient, Transient, Verdicts
<1>4. CASE r \notin Verdicts \cup Transient
  <2>1. OnRefusal(p, r)
    BY <1>4 DEF Reply
  <2>2. breaker = [breaker EXCEPT ![p] = breaker[p]]
    BY DEF TypeOK
  <2>. QED  BY <1>1, <2>1, <2>2, LookSound, CallSound DEF OnRefusal
<1>. QED  BY <1>2, <1>3, <1>4

\* What a reply makes of the vote and the task of its judge.
LEMMA ReplyOutcome ==
  ASSUME NEW p \in Providers, NEW r \in Replies, Reply(p, r)
  PROVE  \E v \in Verdicts \cup {"none", "error"} :
           /\ Pause(p, v)
           /\ v \in Verdicts => r = v
           /\ v = "none" => r \in Transient /\ attempt[p] <= Retries
<1>1. CASE r \in Verdicts
  BY <1>1 DEF Reply, OnVerdict, Transient, Verdicts
<1>2. CASE r \in Transient
  BY <1>2 DEF Reply, OnTransient, Transient, Verdicts
<1>3. CASE r \notin Verdicts \cup Transient
  BY <1>3 DEF Reply, OnRefusal, Verdicts
<1>. QED  BY <1>1, <1>2, <1>3

-----------------------------------------------------------------------------
(* Counting.                                                                 *)

\* The last decision was made over all judges.
LEMMA AllAwaited == Awaited(N + 1) = Providers
<1>1. N \in Nat
  BY Sizes
<1>. QED  BY <1>1, QuorumAssumption DEF Awaited

\* Before the first await nothing is counted.
LEMMA NoneAwaited == Awaited(1) = {}
BY SMT DEF Awaited

\* Awaiting one more task adds its judge, which was not there before.
LEMMA OneAwaited ==
  ASSUME NEW k \in 1 .. N
  PROVE  /\ Awaited(k + 1) = Awaited(k) \cup {Order[k]}
         /\ Order[k] \in Providers \ Awaited(k)
<1>1. N \in Nat
  BY Sizes
<1>2. Order[k] \in Providers
  BY QuorumAssumption DEF N
<1>3. Order[k] \notin Awaited(k)
  BY <1>1, QuorumAssumption DEF Awaited
<1>4. Awaited(k + 1) = Awaited(k) \cup {Order[k]}
  BY <1>1, <1>2 DEF Awaited
<1>. QED  BY <1>2, <1>3, <1>4

LEMMA FinitelyMany ==
  ASSUME NEW k
  PROVE  /\ IsFiniteSet(PassedBefore(k))
         /\ Cardinality(PassedBefore(k)) \in Nat
<1>1. PassedBefore(k) \in SUBSET Providers
  BY DEF PassedBefore, Awaited
<1>2. IsFiniteSet(Providers)
  BY QuorumAssumption
<1>3. IsFiniteSet(PassedBefore(k))
  BY <1>1, <1>2, FS_Subset
<1>. QED  BY <1>3, FS_CardinalityType

-----------------------------------------------------------------------------
(* The steps.                                                                *)
LEMMA Initially == Init => IInv
<1>. SUFFICES ASSUME Init PROVE IInv
  OBVIOUS
<1>1. PassedBefore(next) = {} /\ Awaited(next) = {}
  BY NoneAwaited DEF Init, PassedBefore
<1>2. TypeOK
  <2>1. Sound(Fresh)
    BY Sizes DEF Sound, Fresh, BreakerStates
  <2>2. \A p \in Providers : breaker[p] = Fresh
    BY DEF Init
  <2>3. breaker \in [Providers ->
          [state : BreakerStates, failures : 0 .. Threshold,
           successes : 0 .. HalfOpenRequests]]
    BY <2>1 DEF Init, Sound
  <2>4. 0 \in 0 .. MaxRounds /\ 0 \in 0 .. Retries + 1 /\ 1 \in 1 .. N + 1 /\ 0 \in 0 .. N
    BY Sizes
  <2>. QED  BY <2>1, <2>2, <2>3, <2>4 DEF Init, TypeOK, Sound
<1>3. Tasks /\ Honest
  BY DEF Init, Tasks, Honest, Verdicts
<1>4. Tally
  BY <1>1, FS_EmptySet, Sizes DEF Init, Tally
<1>. QED  BY <1>2, <1>3, <1>4 DEF IInv

LEMMA StartRoundKeeps == IInv /\ StartRound => IInv'
<1>. SUFFICES ASSUME IInv, StartRound PROVE IInv'
  OBVIOUS
<1>. USE DEF IInv
<1>1. (PassedBefore(next) = {} /\ Awaited(next) = {})'
  BY NoneAwaited DEF StartRound, PassedBefore, Awaited
<1>2. TypeOK'
  <2>1. round' \in 0 .. MaxRounds
    BY Sizes DEF StartRound, TypeOK
  <2>2. attempt' \in [Providers -> 0 .. Retries + 1] /\ 1 \in 1 .. N + 1 /\ 0 \in 0 .. N
    BY Sizes DEF StartRound
  <2>. QED  BY <2>1, <2>2 DEF StartRound, TypeOK
<1>3. Tasks' /\ Honest'
  BY DEF StartRound, Tasks, Honest, Verdicts
<1>4. Tally'
  <2>1. /\ next' = 1 /\ passCount' = 0 /\ degraded' = FALSE /\ final' = "none"
        /\ round' # 0
    BY Sizes DEF StartRound, TypeOK
  <2>2. \A p \in Awaited(next)' : pc'[p] = "done" /\ vote'[p] # "error"
    BY <1>1
  <2>3. degraded' <=> \E p \in Awaited(next)' : vote'[p] = "error"
    BY <2>1, <1>1
  <2>. QED  BY <1>1, <2>1, <2>2, <2>3, FS_EmptySet, Sizes DEF Tally
<1>. QED  BY <1>2, <1>3, <1>4

\* A step of one task leaves the tally alone: a task that has been awaited is
\* done and takes no more steps.
LEMMA TallyStands ==
  ASSUME IInv, NEW p \in Providers, pc[p] # "done", UNCHANGED <<round, tally>>,
         pc[p] # "idle",
         \A q \in Providers \ {p} : pc'[q] = pc[q] /\ vote'[q] = vote[q]
  PROVE  Tally'
<1>. USE DEF IInv, tally
<1>1. p \notin Awaited(next)
  BY DEF Tally
<1>2. Awaited(next)' = Awaited(next) /\ Awaited(next) \subseteq Providers
  BY DEF Awaited
<1>3. PassedBefore(next)' = PassedBefore(next)
  BY <1>1, <1>2 DEF PassedBefore
<1>4. final = "none"
  <2>. SUFFICES ASSUME final # "none" PROVE FALSE
    OBVIOUS
  <2>1. ~(next <= N) /\ next \in 1 .. N + 1
    BY DEF Tally, TypeOK
  <2>2. next = N + 1
    BY <2>1, Sizes
  <2>. QED  BY <2>2, <1>1, AllAwaited
<1>5. round # 0
  BY DEF Tally
<1>. QED  BY <1>1, <1>2, <1>3, <1>4, <1>5 DEF Tally

LEMMA RunLocalKeeps ==
  ASSUME IInv, NEW p \in Providers, RunLocal(p)
  PROVE  IInv'
<1>. USE DEF IInv
<1>1. TypeOK'
  BY DEF RunLocal, TypeOK, Verdicts, Replies, tally
<1>2. Tasks' /\ Honest'
  BY DEF RunLocal, Tasks, Honest, TypeOK, Verdicts
<1>3. Tally'
  BY TallyStands DEF RunLocal, TypeOK
<1>. QED  BY <1>1, <1>2, <1>3

LEMMA StartEvaluateKeeps ==
  ASSUME IInv, NEW p \in Providers, StartEvaluate(p)
  PROVE  IInv'
<1>. USE DEF IInv
<1>1. PICK b \in LookedAt(breaker[p]) :
        \/ /\ breaker' = [breaker EXCEPT ![p] = b]
           /\ pc' = [pc EXCEPT ![p] = "post"]
           /\ attempt' = [attempt EXCEPT ![p] = 1]
           /\ UNCHANGED vote
        \/ /\ vote' = [vote EXCEPT ![p] = "error"]
           /\ pc' = [pc EXCEPT ![p] = "done"]
           /\ UNCHANGED <<breaker, attempt>>
  BY DEF StartEvaluate
<1>2. Sound(b)
  BY LookSound DEF TypeOK, Sound
<1>3. pc[p] = "created" /\ UNCHANGED <<round, said, tally>>
  BY DEF StartEvaluate
<1>4. TypeOK'
  <2>1. breaker' = [breaker EXCEPT ![p] = b] \/ breaker' = breaker
    BY <1>1
  <2>2. attempt' \in [Providers -> 0 .. Retries + 1]
    BY <1>1, Sizes DEF TypeOK
  <2>3. breaker' \in [Providers ->
          [state : BreakerStates, failures : 0 .. Threshold,
           successes : 0 .. HalfOpenRequests]]
    BY <1>2, <2>1 DEF TypeOK, Sound
  <2>4. \A q \in Providers : breaker'[q] = b \/ breaker'[q] = breaker[q]
    BY <2>1 DEF TypeOK
  <2>5. \A q \in Providers : Sound(breaker'[q])
    BY <1>2, <2>4 DEF TypeOK, Sound
  <2>6. /\ pc' \in [Providers -> {"idle", "created", "post", "backoff", "done"}]
        /\ vote' \in [Providers -> Verdicts \cup {"none", "error"}]
    BY <1>1 DEF TypeOK
  <2>. QED  BY <1>3, <2>2, <2>3, <2>5, <2>6 DEF TypeOK, Sound, tally
<1>5. Tasks' /\ Honest'
  BY <1>1, <1>3, Sizes DEF Tasks, Honest, TypeOK, Verdicts
<1>6. Tally'
  BY <1>1, <1>3, TallyStands DEF TypeOK
<1>. QED  BY <1>4, <1>5, <1>6

LEMMA RateLimitedKeeps ==
  ASSUME IInv, NEW p \in Providers, RateLimited(p)
  PROVE  IInv'
<1>. USE DEF IInv
<1>1. TypeOK'
  BY DEF RateLimited, TypeOK, tally
<1>2. Tasks' /\ Honest'
  BY DEF RateLimited, Tasks, Honest, TypeOK, Verdicts
<1>3. Tally'
  BY TallyStands DEF RateLimited, TypeOK
<1>. QED  BY <1>1, <1>2, <1>3

LEMMA ReplyKeeps ==
  ASSUME IInv, NEW p \in Providers, NEW r \in Replies, Reply(p, r)
  PROVE  IInv'
<1>. USE DEF IInv
<1>1. PICK v \in Verdicts \cup {"none", "error"} :
        /\ Pause(p, v)
        /\ v \in Verdicts => r = v
        /\ v = "none" => r \in Transient /\ attempt[p] <= Retries
  BY ReplyOutcome
<1>2. PICK b : Sound(b) /\ breaker' = [breaker EXCEPT ![p] = b]
  BY ReplySound
<1>3. /\ pc[p] = "post" /\ said' = [said EXCEPT ![p] = r]
      /\ UNCHANGED <<round, attempt, tally>>
  BY DEF Reply
<1>4. TypeOK'
  BY <1>1, <1>2, <1>3 DEF TypeOK, Sound, Pause, tally
<1>5. Tasks'
  BY <1>1, <1>3, Sizes DEF Tasks, TypeOK, Pause
<1>6. Honest'
  BY <1>1, <1>3 DEF Honest, TypeOK, Pause, Verdicts
<1>7. Tally'
  BY <1>1, <1>3, TallyStands DEF TypeOK, Pause
<1>. QED  BY <1>4, <1>5, <1>6, <1>7

LEMMA WakeUpKeeps ==
  ASSUME IInv, NEW p \in Providers, WakeUp(p)
  PROVE  IInv'
<1>. USE DEF IInv
<1>1. TypeOK'
  BY Sizes DEF WakeUp, TypeOK, Tasks, tally
<1>2. Tasks'
  BY Sizes DEF WakeUp, TypeOK, Tasks
<1>3. Honest'
  BY DEF WakeUp, TypeOK, Honest
<1>4. Tally'
  BY TallyStands DEF WakeUp, TypeOK
<1>. QED  BY <1>1, <1>2, <1>3, <1>4

LEMMA AwaitKeeps == IInv /\ Await => IInv'
<1>. SUFFICES ASSUME IInv, Await PROVE IInv'
  OBVIOUS
<1>. USE DEF IInv
<1>. DEFINE q == Order[next]
            c == PassedBefore(next)
<1>0. N \in Nat /\ next \in 1 .. N /\ UNCHANGED <<round, tasks>> /\ next' = next + 1
  BY Sizes DEF Await, TypeOK
<1>1. /\ Awaited(next + 1) = Awaited(next) \cup {q}
      /\ q \in Providers \ Awaited(next)
  BY <1>0, OneAwaited
<1>2. Awaited(next)' = Awaited(next + 1)
  BY <1>0 DEF Awaited
<1>3. PassedBefore(next)' = IF vote[q] = "pass" THEN c \cup {q} ELSE c
  BY <1>0, <1>1, <1>2 DEF PassedBefore, tasks
<1>4. Cardinality(c \cup {q}) = Cardinality(c) + 1
  BY <1>1, FinitelyMany, FS_AddElement DEF PassedBefore
<1>5. passCount' = Cardinality(PassedBefore(next)') /\ passCount' <= next' - 1
  BY <1>0, <1>3, <1>4 DEF Await, Tally, TypeOK
<1>6. degraded' <=> \E p \in Awaited(next)' : vote'[p] = "error"
  <2>1. degraded' = (degraded \/ vote[q] = "error")
    BY DEF Await
  <2>2. degraded <=> \E p \in Awaited(next) : vote[p] = "error"
    BY DEF Tally
  <2>3. vote' = vote
    BY <1>0 DEF tasks
  <2>. QED  BY <1>1, <1>2, <2>1, <2>2, <2>3, Zenon
<1>7. \A p \in Awaited(next)' : pc'[p] = "done"
  BY <1>0, <1>1, <1>2 DEF Await, Tally, tasks
<1>8. final' = "none" <=> next' <= N
  BY <1>0 DEF Await
<1>9. final' # "none" => final' = Decision!Outcome'
  <2>. SUFFICES ASSUME final' # "none" PROVE final' = Decision!Outcome'
    OBVIOUS
  <2>1. next = N
    BY <1>0 DEF Await
  <2>2. Awaited(next)' = Providers
    BY <1>2, <2>1, AllAwaited
  <2>3. PassedBefore(next)' = Decision!With("pass")'
    BY <2>2 DEF PassedBefore, Decision!With
  <2>4. degraded' <=> Decision!With("error")' # {}
    BY <1>6, <2>2 DEF Decision!With
  <2>5. /\ final' = IF passCount' >= K /\ ~(degraded' /\ failClosed)
                    THEN "pass" ELSE "fail"
        /\ failClosed' = failClosed
    BY <2>1 DEF Await
  <2>6. ~(degraded' /\ failClosed) <=> (failClosed' => Decision!With("error")' = {})
    BY <2>4, <2>5, Zenon
  <2>7. passCount' = Cardinality(Decision!With("pass")')
    BY <1>5, <2>3
  <2>8. passCount' >= K <=> Decision!With("pass")' \in Quorums
    BY <2>7 DEF Quorums, Decision!With
  <2>. QED  BY <2>5, <2>6, <2>8, Zenon DEF Decision!Outcome
<1>10. round # 0
  BY <1>1 DEF Await, Tally
<1>11. Tally'
  BY <1>0, <1>5, <1>6, <1>7, <1>8, <1>9, <1>10 DEF Tally
<1>12. TypeOK'
  <2>1. /\ degraded' \in BOOLEAN /\ final' \in {"none", "pass", "fail"}
        /\ failClosed' \in BOOLEAN
    BY DEF Await, TypeOK
  <2>2. passCount' \in 0 .. N
    BY <1>0, <1>5 DEF Await, TypeOK
  <2>. QED  BY <1>0, <2>1, <2>2 DEF TypeOK, tasks
<1>13. Tasks' /\ Honest'
  BY <1>0 DEF Tasks, Honest, tasks
<1>. QED  BY <1>11, <1>12, <1>13

LEMMA Inductive == IInv /\ [Next]_vars => IInv'
<1>. SUFFICES ASSUME IInv, [Next]_vars PROVE IInv'
  OBVIOUS
<1>1. CASE StartRound
  BY <1>1, StartRoundKeeps
<1>2. CASE Await
  BY <1>2, AwaitKeeps
<1>3. ASSUME NEW p \in Providers, Advance(p) PROVE IInv'
  BY <1>3, RunLocalKeeps, StartEvaluateKeeps, RateLimitedKeeps, ReplyKeeps, WakeUpKeeps
  DEF Advance
<1>4. CASE UNCHANGED vars
  BY <1>4 DEF IInv, TypeOK, Tasks, Honest, Tally, Awaited, PassedBefore,
              Decision!Outcome, Decision!With, vars, tasks, tally
<1>. QED  BY <1>1, <1>2, <1>3, <1>4 DEF Next

-----------------------------------------------------------------------------
\* The invariant holds throughout.
THEOREM Invariance == Spec => []IInv
BY Initially, Inductive, PTL DEF Spec

\* Every variable keeps its range, and a breaker's state and counts agree.
THEOREM TypeCorrect == Spec => []TypeOK
BY Invariance, PTL DEF IInv

\* "pass" needs K judges that said "pass" in this round.
THEOREM PassNeedsQuorum == Spec => []QuorumSound
<1>1. IInv => QuorumSound
  <2>. SUFFICES ASSUME IInv, final = "pass"
                PROVE  Cardinality({p \in Providers : said[p] = "pass"}) >= K
    BY DEF QuorumSound
  <2>. DEFINE S == {p \in Providers : said[p] = "pass"}
              V == Decision!With("pass")
  <2>1. Cardinality(V) >= K
    <3>1. Decision!Outcome = "pass"
      BY DEF IInv, Tally
    <3>. QED  BY <3>1 DEF Decision!Outcome, Quorums
  <2>2. V \in SUBSET S
    BY DEF IInv, Honest, Verdicts, Decision!With
  <2>3. IsFiniteSet(S)
    BY QuorumAssumption, FS_Subset, S \in SUBSET Providers
  <2>4. Cardinality(V) <= Cardinality(S)
    BY <2>2, <2>3, FS_Subset
  <2>5. Cardinality(V) \in Nat /\ Cardinality(S) \in Nat /\ K \in Nat
    BY <2>2, <2>3, FS_Subset, FS_CardinalityType, Sizes
  <2>. QED  BY <2>1, <2>4, <2>5
<1>. QED  BY <1>1, Invariance, PTL

\* Under fail_closed_on_degrade it needs a verdict of every judge.
THEOREM PassNeedsEveryAnswer == Spec => []PassIsUnanimousAnswer
<1>1. IInv => PassIsUnanimousAnswer
  <2>. SUFFICES ASSUME IInv, final = "pass", failClosed, NEW p \in Providers
                PROVE  said[p] \in Verdicts
    BY DEF PassIsUnanimousAnswer
  <2>1. vote[p] # "error"
    BY DEF IInv, Tally, Decision!Outcome, Decision!With
  <2>2. next = N + 1
    BY Sizes DEF IInv, Tally, TypeOK
  <2>3. vote[p] # "none"
    BY <2>2, AllAwaited DEF IInv, Tally, Tasks
  <2>. QED  BY <2>1, <2>3 DEF IInv, TypeOK, Honest, Verdicts
<1>. QED  BY <1>1, Invariance, PTL

\* Nothing but a timeout, a transport error or a 5xx is tried again.
THEOREM RetriesAreForTransients == Spec => OnlyTransientRetried
<1>1. IInv /\ [Next]_vars =>
        [\A p \in Providers :
           round' = round /\ attempt'[p] > attempt[p] /\ attempt[p] > 0
             => said[p] \in Transient]_vars
  <2>. SUFFICES ASSUME IInv, Next, NEW p \in Providers, round' = round,
                       attempt'[p] > attempt[p], attempt[p] > 0
                PROVE  said[p] \in Transient
    BY DEF vars
  <2>1. ~StartRound
    BY DEF StartRound, IInv, TypeOK
  <2>2. ~Await
    BY DEF Await, IInv, TypeOK, tasks
  <2>3. PICK q \in Providers : Advance(q)
    BY <2>1, <2>2 DEF Next
  <2>4. attempt[p] \in Nat
    BY Sizes DEF IInv, TypeOK
  <2>5. WakeUp(q) \/ StartEvaluate(q)
    BY <2>3, <2>4 DEF Advance, RunLocal, RateLimited, Reply
  <2>6. CASE StartEvaluate(q)
    BY <2>4, <2>6 DEF StartEvaluate, IInv, Tasks, TypeOK
  <2>7. CASE WakeUp(q)
    BY <2>4, <2>7 DEF WakeUp, IInv, Honest, TypeOK
  <2>. QED  BY <2>5, <2>6, <2>7
<1>. QED  BY <1>1, Invariance, PTL DEF Spec, OnlyTransientRetried

\* The rounds implement the abstract decision.
THEOREM Refinement == Spec => ImplementsDecision
<1>1. Init => Decision!Init
  BY DEF Init, Decision!Init
<1>2. IInv /\ [Next]_vars => [Decision!Next]_Decision!vars
  <2>. SUFFICES ASSUME IInv, [Next]_vars PROVE [Decision!Next]_Decision!vars
    OBVIOUS
  <2>. USE DEF IInv
  <2>1. CASE StartRound
    <3>1. CASE round = 0
      <4>1. vote = [p \in Providers |-> "none"]
        BY <3>1 DEF Tally, Tasks, TypeOK
      <4>2. final = "none"
        BY <3>1 DEF Tally
      <4>3. Decision!With("none") = Providers
        BY <4>1 DEF Decision!With
      <4>. QED  BY <2>1, <4>3 DEF StartRound, Decision!Next, Decision!NewRound
    <3>2. CASE final # "none"
      BY <2>1, <3>2 DEF StartRound, Decision!Next, Decision!NewRound
    <3>. QED  BY <2>1, <3>1, <3>2 DEF StartRound
  <2>2. CASE Await
    <3>1. UNCHANGED <<vote, failClosed>> /\ final = "none"
      BY <2>2 DEF Await, tasks
    <3>2. CASE final' = "none"
      BY <3>1, <3>2 DEF Decision!vars
    <3>3. CASE final' # "none"
      <4>1. IInv'
        BY <2>2, AwaitKeeps
      <4>2. next' = N + 1
        BY <3>3, <4>1, Sizes DEF Tally, TypeOK
      <4>3. \A p \in Providers : vote'[p] # "none"
        BY <4>1, <4>2, AllAwaited DEF Tally, Tasks, Awaited
      <4>4. Decision!With("none") = {}
        BY <3>1, <4>3 DEF Decision!With
      <4>5. final' = Decision!Outcome
        BY <3>1, <3>3, <4>1 DEF Tally, Decision!Outcome, Decision!With
      <4>. QED  BY <3>1, <4>4, <4>5 DEF Decision!Next, Decision!Decide
    <3>. QED  BY <3>2, <3>3
  <2>3. ASSUME NEW p \in Providers, Advance(p)
        PROVE  [Decision!Next]_Decision!vars
    <3>1. UNCHANGED <<final, failClosed>>
      BY <2>3 DEF Advance, RunLocal, StartEvaluate, RateLimited, Reply, WakeUp, tally
    <3>2. \/ UNCHANGED vote
          \/ /\ pc[p] \in {"created", "post"}
             /\ \E v \in Verdicts \cup {"none", "error"} : vote' = [vote EXCEPT ![p] = v]
      <4>1. CASE \E r \in Replies : Reply(p, r)
        BY <4>1, ReplyOutcome DEF Reply, Pause
      <4>2. CASE RunLocal(p) \/ StartEvaluate(p) \/ RateLimited(p) \/ WakeUp(p)
        BY <4>2 DEF RunLocal, StartEvaluate, RateLimited, WakeUp
      <4>. QED  BY <2>3, <4>1, <4>2 DEF Advance
    <3>3. CASE UNCHANGED vote
      BY <3>1, <3>3 DEF Decision!vars
    <3>4. ASSUME NEW v \in Verdicts \cup {"none", "error"},
                 pc[p] \in {"created", "post"}, vote' = [vote EXCEPT ![p] = v]
          PROVE  [Decision!Next]_Decision!vars
      <4>1. vote[p] = "none"
        BY <3>4 DEF Tasks
      <4>2. CASE v = "none"
        BY <3>1, <3>4, <4>1, <4>2 DEF TypeOK, Decision!vars
      <4>3. CASE v # "none"
        <5>1. final = "none"
          <6>. SUFFICES ASSUME final # "none" PROVE FALSE
            OBVIOUS
          <6>1. next = N + 1
            BY Sizes DEF Tally, TypeOK
          <6>. QED  BY <3>4, <6>1, AllAwaited DEF Tally
        <5>. QED  BY <3>1, <3>4, <4>1, <4>3, <5>1
                  DEF Decision!Next, Decision!Cast, Decision!Ballots, Verdicts
      <4>. QED  BY <4>2, <4>3
    <3>. QED  BY <3>2, <3>3, <3>4
  <2>4. CASE UNCHANGED vars
    BY <2>4 DEF vars, tasks, tally, Decision!vars
  <2>. QED  BY <2>1, <2>2, <2>3, <2>4 DEF Next
<1>. QED  BY <1>1, <1>2, Invariance, PTL DEF Spec, ImplementsDecision, Decision!Spec
=============================================================================
