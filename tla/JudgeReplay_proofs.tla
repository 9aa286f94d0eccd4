------------------------- MODULE JudgeReplay_proofs -------------------------
(* Theorems about JudgeReplay, for every number of workers and nonces, both  *)
(* stores, and every choice of the time constants that RetentionAssumption   *)
(* admits.                                                                   *)
EXTENDS JudgeReplay, TLAPS

\* A worker that holds a request between the skew test and the store holds one
\* that was sent, and is still within the time in which it could pass.
ServingInTime ==
  \A w \in Workers :
    /\ pc[w] # "idle" => cur[w] \in Nonces /\ stamp[cur[w]] \in Nat
    /\ pc[w] \in AtStore =>
         /\ begun[w] <= now
         /\ now <= begun[w] + Stall
         /\ WithinSkew(begun[w], stamp[cur[w]])

\* The time used by a purge has been read before now.
ClockRead == \A w \in Workers : wnow[w] <= now

\* What a row keeps: its timestamp in SQLite; in Redis an expiry that lies
\* beyond the last moment at which the request could be inserted again.
RowMeaning ==
  \A n \in Nonces :
    /\ inserted[n] > 0 => stamp[n] \in Nat
    /\ row[n] # None =>
         /\ inserted[n] > 0
         /\ IF backend = "sqlite" THEN row[n] = stamp[n]
            ELSE row[n] > stamp[n] + Skew + Stall
    /\ inserted[n] > 0 /\ row[n] = None =>
         backend = "sqlite" /\ now > stamp[n] + Skew + Stall

\* Of one nonce there is one insertion, one worker that holds it at a time,
\* and no verdict as long as a worker holds it.
OneHolder ==
  /\ \A n \in Nonces : inserted[n] <= 1 /\ judged[n] <= inserted[n]
  /\ \A w \in Workers :
       Holding(w) => inserted[cur[w]] = 1 /\ judged[cur[w]] = 0
  /\ \A v, w \in Workers :
       Holding(v) /\ Holding(w) /\ cur[v] = cur[w] => v = w

\* The inductive invariant.
IInv == TypeOK /\ ServingInTime /\ ClockRead /\ RowMeaning /\ OneHolder

USE BackendAssumption, NoncesAssumption, TimeAssumption DEF None

-----------------------------------------------------------------------------
\* Whoever reaches the store with a nonce inserted before finds its row there.
LEMMA StoredWhenNeeded ==
  ASSUME IInv, NEW w \in Workers, pc[w] \in AtStore, inserted[cur[w]] > 0
  PROVE  Stored(cur[w])
<1>0. cur[w] \in Nonces /\ stamp[cur[w]] \in Nat
  BY DEF IInv, ServingInTime, AtStore
<1>1. PICK n \in Nonces : n = cur[w] /\ stamp[n] \in Nat
  BY <1>0
<1>2. now <= stamp[n] + Skew + Stall
  <2>1. begun[w] \in Int /\ now \in Int
    BY DEF IInv, TypeOK
  <2>2. now <= begun[w] + Stall /\ Distance(begun[w], stamp[n]) <= Skew
    BY <1>1 DEF IInv, ServingInTime, WithinSkew
  <2>3. begun[w] - stamp[n] <= Distance(begun[w], stamp[n])
        /\ Distance(begun[w], stamp[n]) \in Nat
    BY <1>1, <2>1 DEF Distance
  <2> QED
    BY <1>1, <2>1, <2>2, <2>3
<1>3. row[n] # None
  <2>1. now \in Int
    BY DEF IInv, TypeOK
  <2>2. ~(now > stamp[n] + Skew + Stall)
    BY <1>1, <1>2, <2>1
  <2> QED
    BY <1>1, <2>2 DEF IInv, RowMeaning
<1>4. CASE backend = "sqlite"
  BY <1>1, <1>3, <1>4 DEF Stored
<1>5. CASE backend = "redis"
  <2>1. row[n] > stamp[n] + Skew + Stall /\ now \in Int /\ row[n] \in Nat
    BY <1>1, <1>3, <1>5 DEF IInv, RowMeaning, TypeOK
  <2>2. now < row[n]
    BY <1>1, <1>2, <2>1
  <2> QED
    BY <1>1, <1>3, <2>2 DEF Stored
<1>6. backend \in {"sqlite", "redis"}
  BY DEF IInv, TypeOK
<1> QED
  BY <1>4, <1>5, <1>6

\* The inductive invariant gives the properties.
LEMMA InvariantImplies == IInv => JudgedAtMostOnce /\ NonceRetained
<1> SUFFICES ASSUME IInv PROVE JudgedAtMostOnce /\ NonceRetained
  OBVIOUS
<1>1. JudgedAtMostOnce
  BY DEF IInv, TypeOK, OneHolder, JudgedAtMostOnce
<1>2. NonceRetained
  <2> SUFFICES ASSUME NEW n \in Nonces, inserted[n] > 0,
                      now <= stamp[n] + Skew + Stall
               PROVE  Stored(n)
    BY DEF NonceRetained
  <2>1. stamp[n] \in Nat /\ now \in Int /\ row[n] \in Nat \cup {None}
    BY DEF IInv, RowMeaning, TypeOK
  <2>2. row[n] # None
    BY <2>1 DEF IInv, RowMeaning
  <2>3. backend = "redis" => row[n] > stamp[n] + Skew + Stall
    BY <2>2 DEF IInv, RowMeaning
  <2> QED
    BY <2>1, <2>2, <2>3 DEF Stored
<1> QED
  BY <1>1, <1>2

LEMMA InitInvariant == Init => IInv
<1> SUFFICES ASSUME Init PROVE IInv
  OBVIOUS
<1>1. TypeOK
  BY DEF Init, TypeOK, Steps
<1>2. ServingInTime /\ ClockRead /\ RowMeaning /\ OneHolder
  BY DEF Init, ServingInTime, ClockRead, RowMeaning, OneHolder, Holding,
         AtStore
<1> QED
  BY <1>1, <1>2 DEF IInv

-----------------------------------------------------------------------------
\* Type correctness is inductive by itself.
LEMMA TypeStep == TypeOK /\ [Next]_vars => TypeOK'
<1> SUFFICES ASSUME TypeOK, [Next]_vars PROVE TypeOK'
  OBVIOUS
<1> USE DEF TypeOK, Steps
<1>1. ASSUME NEW n \in Nonces, NEW ts \in 0 .. MaxTime + Drift, Send(n, ts)
      PROVE  TypeOK'
  BY <1>1 DEF Send, store, local
<1>2. ASSUME NEW w \in Workers, NEW n \in Nonces, Receive(w, n)
      PROVE  TypeOK'
  BY <1>2 DEF Receive, Refuse, Finish, store
<1>3. ASSUME NEW w \in Workers, ReadClock(w)
      PROVE  TypeOK'
  BY <1>3 DEF ReadClock, Refuse, Finish, store
<1>4. ASSUME NEW w \in Workers, SqliteInsert(w)
      PROVE  TypeOK'
  BY <1>4 DEF SqliteInsert, Insert, Refuse, Finish, store
<1>5. ASSUME NEW w \in Workers, SqlitePurge(w)
      PROVE  TypeOK'
  BY <1>5 DEF SqlitePurge
<1>6. ASSUME NEW w \in Workers, RedisSet(w)
      PROVE  TypeOK'
  BY <1>6 DEF RedisSet, Insert, Refuse, Finish, store
<1>7. ASSUME NEW w \in Workers, SqliteError(w) \/ Crash(w)
      PROVE  TypeOK'
  BY <1>7 DEF SqliteError, Crash, Finish, store
<1>8. ASSUME NEW w \in Workers, RedisError(w)
      PROVE  TypeOK'
  <2>1. row' \in [Nonces -> Nat \cup {None}] /\ inserted' \in [Nonces -> Nat]
    BY <1>8 DEF RedisError, Insert, store
  <2>2. refusals' \in [Nonces -> SUBSET {"skew", "replay"}]
        /\ failed' \subseteq Nonces
    BY <1>8 DEF RedisError, Refuse
  <2>3. /\ pc' \in [Workers -> Steps]
        /\ cur' \in [Workers -> Nonces \cup {None}]
        /\ begun' \in [Workers -> 0 .. MaxTime]
        /\ wnow' \in [Workers -> 0 .. MaxTime]
        /\ \A v \in Workers : pc'[v] = "idle" <=> cur'[v] = None
    BY <1>8 DEF RedisError, Refuse, Finish
  <2>4. backend' = backend
    BY <1>8 DEF RedisError, Insert, store
  <2> QED
    BY <1>8, <2>1, <2>2, <2>3, <2>4 DEF RedisError
<1>9. ASSUME NEW w \in Workers, Answer(w)
      PROVE  TypeOK'
  BY <1>9 DEF Answer, Finish, store
<1>10. CASE Tick
  BY <1>10 DEF Tick, store, local
<1>11. CASE UNCHANGED vars
  BY <1>11 DEF vars
<1> QED
  BY <1>1, <1>2, <1>3, <1>4, <1>5, <1>6, <1>7, <1>8, <1>9, <1>10, <1>11
     DEF Next, Serve

-----------------------------------------------------------------------------
\* A worker only forgets what it held when it finishes.
LEMMA ServingStep ==
  ASSUME IInv, [Next]_vars PROVE ServingInTime' /\ ClockRead'
<1> USE DEF IInv, TypeOK, Steps, ServingInTime, ClockRead, AtStore
<1>1. ASSUME NEW n \in Nonces, NEW ts \in 0 .. MaxTime + Drift, Send(n, ts)
      PROVE  ServingInTime' /\ ClockRead'
  BY <1>1 DEF Send, store, local, WithinSkew
<1>2. ASSUME NEW w \in Workers, NEW n \in Nonces, Receive(w, n)
      PROVE  ServingInTime' /\ ClockRead'
  BY <1>2 DEF Receive, Refuse, Finish, store, WithinSkew
<1>3. ASSUME NEW w \in Workers, ReadClock(w)
      PROVE  ServingInTime' /\ ClockRead'
  BY <1>3 DEF ReadClock, Refuse, Finish, store
<1>4. ASSUME NEW w \in Workers, SqliteInsert(w) \/ RedisSet(w)
      PROVE  ServingInTime' /\ ClockRead'
  BY <1>4 DEF SqliteInsert, RedisSet, Insert, Refuse, Finish, store
<1>5. ASSUME NEW w \in Workers, SqlitePurge(w)
      PROVE  ServingInTime' /\ ClockRead'
  BY <1>5 DEF SqlitePurge
<1>6. ASSUME NEW w \in Workers,
             SqliteError(w) \/ Crash(w) \/ RedisError(w) \/ Answer(w)
      PROVE  ServingInTime' /\ ClockRead'
  BY <1>6 DEF SqliteError, Crash, RedisError, Answer, Insert, Refuse, Finish,
              store
<1>7. CASE Tick
  BY <1>7 DEF Tick, store, local
<1>8. CASE UNCHANGED vars
  BY <1>8 DEF vars
<1> QED
  BY <1>1, <1>2, <1>3, <1>4, <1>5, <1>6, <1>7, <1>8 DEF Next, Serve

-----------------------------------------------------------------------------
\* Rows: what an insertion records, and that neither a purge nor an expiry
\* takes a row while its request could still come through.
LEMMA RowStep ==
  ASSUME IInv, [Next]_vars PROVE RowMeaning'
<1> USE DEF IInv, RowMeaning
<1>0. TypeOK' BY TypeStep
<1>1. ASSUME NEW n \in Nonces, NEW ts \in 0 .. MaxTime + Drift, Send(n, ts)
      PROVE  RowMeaning'
  BY <1>1 DEF Send, store, local, TypeOK
<1>2. ASSUME NEW w \in Workers, NEW n \in Nonces, Receive(w, n)
      PROVE  RowMeaning'
  BY <1>2 DEF Receive, store
<1>3. ASSUME NEW w \in Workers, ReadClock(w)
      PROVE  RowMeaning'
  BY <1>3 DEF ReadClock, store
<1>4. ASSUME NEW w \in Workers, SqliteInsert(w)
      PROVE  RowMeaning'
  <2>1. cur[w] \in Nonces /\ stamp[cur[w]] \in Nat
    BY <1>4 DEF SqliteInsert, ServingInTime
  <2> QED
    BY <1>4, <2>1 DEF SqliteInsert, Insert, store, TypeOK
<1>5. ASSUME NEW w \in Workers, SqlitePurge(w)
      PROVE  RowMeaning'
  <2> SUFFICES ASSUME NEW n \in Nonces, inserted[n] > 0, row'[n] = None
               PROVE  now > stamp[n] + Skew + Stall
    BY <1>5 DEF SqlitePurge, TypeOK, Expired
  <2>1. CASE row[n] = None
    BY <2>1
  <2>2. CASE row[n] # None
    <3>1. wnow[w] - stamp[n] > TTL
      BY <1>5, <2>2 DEF SqlitePurge, Expired
    <3>2. wnow[w] <= now /\ wnow[w] \in Int /\ now \in Int /\ stamp[n] \in Nat
      BY DEF ClockRead, TypeOK
    <3>3. Skew + Stall <= TTL
      BY <1>5, RetentionAssumption DEF SqlitePurge, TypeOK
    <3> QED
      BY <3>1, <3>2, <3>3
  <2> QED
    BY <2>1, <2>2
<1>6. ASSUME NEW w \in Workers, backend = "redis", pc[w] = "stamped"
      PROVE  now + TTL > stamp[cur[w]] + Skew + Stall
  <2>1. /\ stamp[cur[w]] \in Nat
        /\ begun[w] <= now /\ begun[w] \in Int /\ now \in Int
        /\ WithinSkew(begun[w], stamp[cur[w]])
    BY <1>6 DEF ServingInTime, AtStore, TypeOK
  <2>2. stamp[cur[w]] - begun[w] <= Skew
    BY <2>1 DEF WithinSkew, Distance
  <2>3. 2 * Skew + Stall < TTL
    BY <1>6, RetentionAssumption DEF TypeOK
  <2> QED
    BY <2>1, <2>2, <2>3
<1>7. ASSUME NEW w \in Workers, RedisSet(w)
      PROVE  RowMeaning'
  <2>1. cur[w] \in Nonces /\ stamp[cur[w]] \in Nat
    BY <1>7 DEF RedisSet, ServingInTime
  <2>2. now + TTL > stamp[cur[w]] + Skew + Stall
    BY <1>6, <1>7 DEF RedisSet
  <2> QED
    BY <1>7, <2>1, <2>2 DEF RedisSet, Insert, store, TypeOK
<1>8. ASSUME NEW w \in Workers, RedisError(w)
      PROVE  RowMeaning'
  <2>1. cur[w] \in Nonces /\ stamp[cur[w]] \in Nat
    BY <1>8 DEF RedisError, ServingInTime
  <2>2. now + TTL > stamp[cur[w]] + Skew + Stall
    BY <1>6, <1>8 DEF RedisError
  <2>3. CASE UNCHANGED store
    BY <1>8, <2>3 DEF RedisError, store
  <2>4. CASE Insert(w, now + TTL)
    BY <1>8, <2>1, <2>2, <2>4 DEF RedisError, Insert, TypeOK
  <2> QED
    BY <1>8, <2>3, <2>4 DEF RedisError
<1>9. ASSUME NEW w \in Workers, SqliteError(w) \/ Crash(w) \/ Answer(w)
      PROVE  RowMeaning'
  BY <1>9 DEF SqliteError, Crash, Answer, store
<1>10. CASE Tick
  BY <1>10 DEF Tick, store, local, TypeOK
<1>11. CASE UNCHANGED vars
  BY <1>11 DEF vars
<1> QED
  BY <1>1, <1>2, <1>3, <1>4, <1>5, <1>7, <1>8, <1>9, <1>10, <1>11
     DEF Next, Serve

-----------------------------------------------------------------------------
\* An insertion succeeds only for a nonce that was never inserted.
LEMMA InsertIsFirst ==
  ASSUME IInv, NEW w \in Workers, pc[w] = "stamped", ~Stored(cur[w])
  PROVE  inserted[cur[w]] = 0
<1>1. cur[w] \in Nonces
  BY DEF IInv, ServingInTime
<1>2. inserted[cur[w]] \in Nat
  BY <1>1 DEF IInv, TypeOK
<1>3. ~(inserted[cur[w]] > 0)
  BY StoredWhenNeeded DEF AtStore
<1> QED
  BY <1>2, <1>3

\* One insertion, one holder, one verdict.
LEMMA HolderStep ==
  ASSUME IInv, [Next]_vars PROVE OneHolder'
<1> USE DEF IInv, OneHolder, Holding, TypeOK
<1>1. ASSUME NEW n \in Nonces, NEW ts \in 0 .. MaxTime + Drift, Send(n, ts)
      PROVE  OneHolder'
  BY <1>1 DEF Send, store, local
<1>2. ASSUME NEW w \in Workers, NEW n \in Nonces, Receive(w, n)
      PROVE  OneHolder'
  BY <1>2 DEF Receive, Refuse, Finish, store
<1>3. ASSUME NEW w \in Workers, ReadClock(w)
      PROVE  OneHolder'
  BY <1>3 DEF ReadClock, Refuse, Finish, store
<1>4. ASSUME NEW w \in Workers, NEW value, pc[w] = "stamped", ~Stored(cur[w]),
             Insert(w, value), UNCHANGED <<judged, cur>>,
             \/ pc' = [pc EXCEPT ![w] = "inserted"]
             \/ pc' = [pc EXCEPT ![w] = "admitted"]
      PROVE  OneHolder'
  <2>1. cur[w] \in Nonces /\ inserted[cur[w]] = 0 /\ judged[cur[w]] = 0
    BY <1>4, InsertIsFirst DEF ServingInTime
  <2>2. \A v \in Workers : Holding(v) => cur[v] # cur[w]
    BY <2>1
  <2> QED
    BY <1>4, <2>1, <2>2 DEF Insert
<1>5. ASSUME NEW w \in Workers, Finish(w), UNCHANGED <<store, judged>>
      PROVE  OneHolder'
  BY <1>5 DEF Finish, store
<1>6. ASSUME NEW w \in Workers, SqliteInsert(w)
      PROVE  OneHolder'
  BY <1>4, <1>5, <1>6 DEF SqliteInsert, Refuse
<1>7. ASSUME NEW w \in Workers, SqlitePurge(w)
      PROVE  OneHolder'
  BY <1>7 DEF SqlitePurge
<1>8. ASSUME NEW w \in Workers, RedisSet(w)
      PROVE  OneHolder'
  BY <1>4, <1>5, <1>8 DEF RedisSet, Refuse
<1>9. ASSUME NEW w \in Workers, SqliteError(w) \/ Crash(w)
      PROVE  OneHolder'
  BY <1>5, <1>9 DEF SqliteError, Crash
<1>10. ASSUME NEW w \in Workers, RedisError(w)
       PROVE  OneHolder'
  <2>1. CASE UNCHANGED store
    BY <1>5, <1>10, <2>1 DEF RedisError, Refuse
  <2>2. CASE ~Stored(cur[w]) /\ Insert(w, now + TTL)
    <3>1. cur[w] \in Nonces /\ inserted[cur[w]] = 0 /\ judged[cur[w]] = 0
      BY <1>10, <2>2, InsertIsFirst DEF ServingInTime, RedisError
    <3>2. \A v \in Workers : Holding(v) => cur[v] # cur[w]
      BY <3>1
    <3> QED
      BY <1>10, <2>2, <3>1, <3>2 DEF Insert, RedisError, Refuse, Finish
  <2> QED
    BY <1>10, <2>1, <2>2 DEF RedisError
<1>11. ASSUME NEW w \in Workers, Answer(w)
       PROVE  OneHolder'
  BY <1>11 DEF Answer, Finish, store, ServingInTime
<1>12. CASE Tick
  BY <1>12 DEF Tick, store, local
<1>13. CASE UNCHANGED vars
  BY <1>13 DEF vars
<1> QED
  BY <1>1, <1>2, <1>3, <1>6, <1>7, <1>8, <1>9, <1>10, <1>11, <1>12, <1>13
     DEF Next, Serve

LEMMA StepInvariant == IInv /\ [Next]_vars => IInv'
BY TypeStep, ServingStep, RowStep, HolderStep DEF IInv

-----------------------------------------------------------------------------
\* Every variable keeps its type, for any number of workers and nonces.
THEOREM TypeCorrect == Spec => []TypeOK
<1>1. Init => TypeOK
  BY InitInvariant DEF IInv
<1> QED
  BY <1>1, TypeStep, PTL DEF Spec

\* The inductive invariant holds in every reachable state.
THEOREM Invariance == Spec => []IInv
BY InitInvariant, StepInvariant, PTL DEF Spec

\* No signed request is judged twice, whatever the store and however the
\* deliveries, purges, expiries, errors and crashes interleave.
THEOREM AtMostOneVerdict == Spec => []JudgedAtMostOnce
BY Invariance, InvariantImplies, PTL

\* The store holds a nonce as long as its request could still be admitted.
THEOREM Retention == Spec => []NonceRetained
BY Invariance, InvariantImplies, PTL

-----------------------------------------------------------------------------
\* The window of the store is never narrower than what post_judge let through.
LEMMA WindowIsWideEnough ==
  ASSUME IInv, NEW w \in Workers, pc[w] = "skewOk"
  PROVE  InStoreWindow(now, stamp[cur[w]])
<1>1. /\ stamp[cur[w]] \in Nat
      /\ begun[w] <= now /\ now <= begun[w] + Stall
      /\ begun[w] \in Int /\ now \in Int
      /\ WithinSkew(begun[w], stamp[cur[w]])
  BY DEF IInv, ServingInTime, AtStore, TypeOK
<1>2. Skew + Stall <= StoreSkew + TTL
  BY RetentionAssumption DEF IInv, TypeOK
<1> QED
  BY <1>1, <1>2 DEF InStoreWindow, WithinSkew, Distance

LEMMA RefusalStep ==
  ASSUME IInv, ReplayHasCause, [Next]_vars PROVE ReplayHasCause'
<1> USE DEF IInv, ReplayHasCause, TypeOK
<1>1. /\ \A n \in Nonces : inserted[n] > 0 => inserted'[n] > 0
      /\ failed \subseteq failed' /\ backend' = backend
  <2>1. ASSUME NEW w \in Workers, NEW value, Insert(w, value)
        PROVE  /\ \A n \in Nonces : inserted[n] > 0 => inserted'[n] > 0
               /\ backend' = backend
    BY <2>1 DEF Insert
  <2> QED
    BY <2>1 DEF Next, Serve, Send, Receive, ReadClock, SqliteInsert,
                SqlitePurge, RedisSet, SqliteError, RedisError, Answer, Crash,
                Tick, store, vars
<1>2. ASSUME NEW n \in Nonces, Stored(n)
      PROVE  inserted[n] > 0
  BY <1>2 DEF Stored, RowMeaning
<1>3. ASSUME NEW w \in Workers, NEW n \in Nonces, NEW reason,
             Refuse(w, n, reason),
             reason = "replay" =>
               inserted[n] > 0 \/ (backend = "redis" /\ n \in failed')
      PROVE  ReplayHasCause'
  BY <1>1, <1>3 DEF Refuse
<1>4. CASE UNCHANGED refusals
  BY <1>1, <1>4
<1>5. ASSUME NEW w \in Workers, NEW n \in Nonces, Receive(w, n)
      PROVE  ReplayHasCause'
  BY <1>3, <1>4, <1>5 DEF Receive
<1>6. ASSUME NEW w \in Workers, ReadClock(w)
      PROVE  ReplayHasCause'
  BY <1>4, <1>6, WindowIsWideEnough DEF ReadClock
<1>7. ASSUME NEW w \in Workers, SqliteInsert(w) \/ RedisSet(w)
      PROVE  ReplayHasCause'
  <2>1. cur[w] \in Nonces
    BY <1>7 DEF SqliteInsert, RedisSet, ServingInTime
  <2>2. CASE Stored(cur[w]) /\ Refuse(w, cur[w], "replay")
    BY <1>2, <1>3, <2>1, <2>2
  <2> QED
    BY <1>4, <1>7, <2>2 DEF SqliteInsert, RedisSet
<1>8. ASSUME NEW w \in Workers, RedisError(w)
      PROVE  ReplayHasCause'
  <2>1. cur[w] \in Nonces
    BY <1>8 DEF RedisError, ServingInTime
  <2>2. backend = "redis" /\ cur[w] \in failed' /\ Refuse(w, cur[w], "replay")
    BY <1>8 DEF RedisError
  <2> QED
    BY <1>3, <2>1, <2>2
<1> QED
  BY <1>4, <1>5, <1>6, <1>7, <1>8
     DEF Next, Serve, Send, SqlitePurge, SqliteError, Answer, Crash, Tick, vars

\* "replay detected" is answered only for a nonce that was inserted before, or
\* for one whose call to Redis raised; with SQLite it is always true.
THEOREM ReplayAnswerHasCause == Spec => []ReplayHasCause
<1>1. Init => ReplayHasCause
  BY DEF Init, ReplayHasCause
<1> QED
  BY <1>1, Invariance, RefusalStep, PTL DEF Spec

-----------------------------------------------------------------------------
(* The refinement of OnceOnly, one lemma per kind of step.                   *)

FreshBar == {n \in Nonces : inserted[n] = 0}

ClaimsBar == [n \in Nonces |-> {w \in Workers : Holding(w) /\ cur[w] = n}]

\* A step that leaves the holders, the insertions and the verdicts alone.
LEMMA StepStutters ==
  ASSUME UNCHANGED <<inserted, judged>>,
         \A w \in Workers : Holding(w)' = Holding(w),
         \A w \in Workers : Holding(w) => cur'[w] = cur[w]
  PROVE  UNCHANGED <<FreshBar, ClaimsBar, judged>>
BY DEF FreshBar, ClaimsBar

\* A successful insertion by a worker that goes on: a claim.
LEMMA InsertClaims ==
  ASSUME IInv, NEW w \in Workers, NEW value, pc[w] = "stamped",
         ~Stored(cur[w]), Insert(w, value), UNCHANGED <<judged, cur>>,
         \/ pc' = [pc EXCEPT ![w] = "inserted"]
         \/ pc' = [pc EXCEPT ![w] = "admitted"]
  PROVE  Promise!Claim(w, cur[w]) /\ cur[w] \in Nonces
<1>1. cur[w] \in Nonces /\ inserted[cur[w]] = 0
  BY InsertIsFirst DEF IInv, ServingInTime
<1>2. inserted' = [inserted EXCEPT ![cur[w]] = 1]
  BY <1>1 DEF Insert, IInv, TypeOK
<1>3. FreshBar' = FreshBar \ {cur[w]}
  BY <1>1, <1>2 DEF FreshBar, IInv, TypeOK
<1>4. \A v \in Workers : Holding(v)' <=> Holding(v) \/ v = w
  BY DEF Holding, IInv, TypeOK
<1>5. \A v \in Workers : Holding(v) => cur[v] # cur[w] /\ v # w
  BY <1>1 DEF IInv, OneHolder, Holding
<1>6. ClaimsBar' = [ClaimsBar EXCEPT ![cur[w]] = {w}]
  <2>1. \A n \in Nonces :
          {v \in Workers : Holding(v)' /\ cur'[v] = n}
            = IF n = cur[w] THEN {w} ELSE {v \in Workers : Holding(v) /\ cur[v] = n}
    BY <1>4, <1>5
  <2> QED
    BY <1>1, <2>1 DEF ClaimsBar
<1> QED
  BY <1>1, <1>3, <1>6 DEF Promise!Claim, FreshBar, ClaimsBar

\* The worker that holds a nonce finishes: its claim ends.
LEMMA FinishEndsClaim ==
  ASSUME IInv, NEW w \in Workers, Holding(w), Finish(w), UNCHANGED inserted
  PROVE  /\ cur[w] \in Nonces
         /\ w \in ClaimsBar[cur[w]]
         /\ ClaimsBar' = [ClaimsBar EXCEPT ![cur[w]] = {}]
         /\ FreshBar' = FreshBar
<1>1. cur[w] \in Nonces
  BY DEF IInv, ServingInTime, Holding
<1>2. \A v \in Workers : v # w =>
        Holding(v)' = Holding(v) /\ cur'[v] = cur[v]
  BY DEF Finish, Holding, IInv, TypeOK
<1>3. ~Holding(w)'
  BY DEF Finish, Holding, IInv, TypeOK
<1>4. \A v \in Workers : Holding(v) /\ cur[v] = cur[w] => v = w
  BY DEF IInv, OneHolder
<1> QED
  BY <1>1, <1>2, <1>3, <1>4 DEF ClaimsBar, FreshBar

\* A worker that holds nothing finishes without an insertion: nothing happens.
LEMMA FinishWithout ==
  ASSUME IInv, NEW w \in Workers, ~Holding(w), Finish(w),
         UNCHANGED <<inserted, judged>>
  PROVE  UNCHANGED <<FreshBar, ClaimsBar, judged>>
<1>1. \A v \in Workers : Holding(v)' = Holding(v)
  BY DEF Finish, Holding, IInv, TypeOK
<1>2. \A v \in Workers : Holding(v) => cur'[v] = cur[v]
  BY DEF Finish, IInv, TypeOK
<1> QED
  BY <1>1, <1>2, StepStutters

\* Every step of the server is a step of OnceOnly, or a stutter.
LEMMA StepRefines == IInv /\ [Next]_vars => [Promise!Next]_(Promise!vars)
<1> SUFFICES ASSUME IInv, [Next]_vars
             PROVE  Promise!Next \/ UNCHANGED <<FreshBar, ClaimsBar, judged>>
  BY DEF Promise!vars, FreshBar, ClaimsBar
<1> DEFINE Goal == Promise!Next \/ UNCHANGED <<FreshBar, ClaimsBar, judged>>
<1>1. ASSUME NEW n \in Nonces, NEW ts \in 0 .. MaxTime + Drift, Send(n, ts)
      PROVE  Goal
  BY <1>1, StepStutters DEF Send, store, local, Holding
<1>2. ASSUME NEW w \in Workers, ~Holding(w), Finish(w),
             UNCHANGED <<store, judged>>
      PROVE  Goal
  BY <1>2, FinishWithout DEF store
<1>3. ASSUME NEW w \in Workers, Holding(w), Finish(w),
             UNCHANGED <<store, judged>>
      PROVE  Goal
  <2>1. Promise!Drop(w, cur[w]) /\ cur[w] \in Nonces
    BY <1>3, FinishEndsClaim DEF store, Promise!Drop, ClaimsBar, FreshBar
  <2> QED
    BY <2>1 DEF Promise!Next, Promise!Drop
<1>4. ASSUME NEW w \in Workers, NEW value, pc[w] = "stamped",
             ~Stored(cur[w]), Insert(w, value), UNCHANGED <<judged, cur>>,
             \/ pc' = [pc EXCEPT ![w] = "inserted"]
             \/ pc' = [pc EXCEPT ![w] = "admitted"]
      PROVE  Goal
  BY <1>4, InsertClaims DEF Promise!Next, Promise!Claim
<1>5. ASSUME NEW w \in Workers, NEW n \in Nonces, Receive(w, n)
      PROVE  Goal
  <2>1. CASE /\ pc' = [pc EXCEPT ![w] = "skewOk"]
             /\ cur' = [cur EXCEPT ![w] = n]
    <3>1. \A v \in Workers : Holding(v)' = Holding(v)
      BY <1>5, <2>1 DEF Receive, Holding, IInv, TypeOK
    <3>2. \A v \in Workers : Holding(v) => cur'[v] = cur[v]
      BY <1>5, <2>1 DEF Receive, Holding, IInv, TypeOK
    <3> QED
      BY <1>5, <3>1, <3>2, StepStutters DEF Receive, store
  <2>2. CASE Refuse(w, n, "skew")
    BY <1>2, <1>5, <2>2 DEF Receive, Refuse, Holding
  <2> QED
    BY <1>5, <2>1, <2>2 DEF Receive
<1>6. ASSUME NEW w \in Workers, ReadClock(w)
      PROVE  Goal
  <2>1. CASE pc' = [pc EXCEPT ![w] = "stamped"] /\ UNCHANGED cur
    <3>1. \A v \in Workers : Holding(v)' = Holding(v)
      BY <1>6, <2>1 DEF ReadClock, Holding, IInv, TypeOK
    <3> QED
      BY <1>6, <2>1, <3>1, StepStutters DEF ReadClock, store
  <2>2. CASE Refuse(w, cur[w], "replay")
    BY <1>2, <1>6, <2>2 DEF ReadClock, Refuse, Holding
  <2> QED
    BY <1>6, <2>1, <2>2 DEF ReadClock
<1>7. ASSUME NEW w \in Workers, SqliteInsert(w) \/ RedisSet(w)
      PROVE  Goal
  <2>1. CASE Refuse(w, cur[w], "replay") /\ UNCHANGED store
    BY <1>2, <1>7, <2>1 DEF SqliteInsert, RedisSet, Refuse, Holding
  <2> QED
    BY <1>4, <1>7, <2>1 DEF SqliteInsert, RedisSet
<1>8. ASSUME NEW w \in Workers, SqlitePurge(w)
      PROVE  Goal
  <2>1. \A v \in Workers : Holding(v)' = Holding(v)
    BY <1>8 DEF SqlitePurge, Holding, IInv, TypeOK
  <2> QED
    BY <1>8, <2>1, StepStutters DEF SqlitePurge
<1>9. ASSUME NEW w \in Workers, SqliteError(w) \/ Crash(w)
      PROVE  Goal
  BY <1>2, <1>3, <1>9 DEF SqliteError, Crash
<1>10. ASSUME NEW w \in Workers, RedisError(w)
       PROVE  Goal
  <2>1. ~Holding(w) /\ Finish(w) /\ UNCHANGED judged
    BY <1>10 DEF RedisError, Refuse, Holding
  <2>2. CASE UNCHANGED store
    BY <1>2, <2>1, <2>2
  <2>3. CASE ~Stored(cur[w]) /\ Insert(w, now + TTL)
    <3>1. cur[w] \in Nonces /\ inserted[cur[w]] = 0
      BY <1>10, <2>3, InsertIsFirst DEF RedisError, IInv, ServingInTime
    <3>2. FreshBar' = FreshBar \ {cur[w]}
      BY <2>3, <3>1 DEF Insert, FreshBar, IInv, TypeOK
    <3>3. \A v \in Workers : Holding(v)' = Holding(v)
      BY <2>1 DEF Finish, Holding, IInv, TypeOK
    <3>4. \A v \in Workers : Holding(v) => cur'[v] = cur[v]
      BY <2>1 DEF Finish, IInv, TypeOK
    <3>5. ClaimsBar' = ClaimsBar
      BY <3>3, <3>4 DEF ClaimsBar
    <3>6. Promise!Waste(cur[w])
      BY <2>1, <3>1, <3>2, <3>5 DEF Promise!Waste, FreshBar, ClaimsBar
    <3> QED
      BY <3>1, <3>6 DEF Promise!Next, Promise!Waste
  <2> QED
    BY <1>10, <2>2, <2>3 DEF RedisError
<1>11. ASSUME NEW w \in Workers, Answer(w)
       PROVE  Goal
  <2>1. Holding(w) /\ Finish(w) /\ UNCHANGED <<store, inserted>>
    BY <1>11 DEF Answer, Holding, store
  <2>2. CASE UNCHANGED judged
    BY <1>3, <2>1, <2>2
  <2>3. CASE judged' = [judged EXCEPT ![cur[w]] = @ + 1]
    <3>1. cur[w] \in Nonces /\ judged[cur[w]] = 0
      BY <2>1 DEF IInv, OneHolder, ServingInTime, Holding
    <3>2. judged' = [judged EXCEPT ![cur[w]] = 1]
      BY <2>3, <3>1 DEF IInv, TypeOK
    <3>3. Promise!Judge(w, cur[w])
      BY <2>1, <3>2, FinishEndsClaim DEF Promise!Judge, FreshBar, ClaimsBar
    <3> QED
      BY <3>1, <3>3 DEF Promise!Next, Promise!Judge
  <2> QED
    BY <1>11, <2>2, <2>3 DEF Answer
<1>12. CASE Tick
  BY <1>12, StepStutters DEF Tick, store, local, Holding
<1>13. CASE UNCHANGED vars
  BY <1>13, StepStutters DEF vars, Holding
<1> QED
  BY <1>1, <1>5, <1>6, <1>7, <1>8, <1>9, <1>10, <1>11, <1>12, <1>13
     DEF Next, Serve

\* The server with its store and its faults implements OnceOnly.
THEOREM Refinement == Spec => ImplementsOnceOnly
<1>1. Init => Promise!Init
  BY DEF Init, Promise!Init, Holding
<1> QED
  BY <1>1, StepRefines, Invariance, PTL
     DEF Spec, Promise!Spec, ImplementsOnceOnly
=============================================================================
