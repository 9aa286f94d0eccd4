--------------------------- MODULE KeyRing_proofs ---------------------------
(* Theorems about KeyRing, for any processes, runs of the tool, keys and     *)
(* times.                                                                    *)
EXTENDS KeyRing, TLAPS

\* A key in the file is good now.
ListedIsGood == \A k \in KeyIds : file[k].state \in Good => sinceGood[k] = 0

Reading(p) == pc[p] \in {"read", "readAgain"}

\* What a loader may still use was good when it looked at the file, unless it
\* has looked and not read yet.
CacheTruthful ==
  \A p \in Procs, k \in KeyIds :
    /\ ~Reading(p) /\ cacheAge[p] < TTL /\ cache[p][k] \in Good
    => sinceGood[k] <= cacheAge[p]

\* The inductive invariant behind RetiredStopsWorking.
IInv == TypeOK /\ ListedIsGood /\ CacheTruthful

\* k is active in list f, or its grace began at most b ago.
Covered(f, k, b) ==
  \/ f[k].state = "active"
  \/ f[k].state = "grace" /\ (f[k].left = Never \/ f[k].left >= Grace - b)

\* k is covered in the file, unless it is being filled, and in every list that
\* is to become the file.
Lasts(k, b) ==
  /\ (\A t \in Tools : tool[t] # "fill") => Covered(file, k, b)
  /\ \A t \in Tools : tool[t] # "idle" => Covered(plan[t], k, b)

\* Without overlap one run at most is under way.
OneRun ==
  orderly => \A t, u \in Tools : tool[t] # "idle" /\ tool[u] # "idle" => t = u

\* The file is empty only shortly.
FillIsShort == \A t \in Tools : tool[t] = "fill" => sinceWrite <= toolAge[t]

\* The list a run is going to write covers what the file still has active.
PlanFollows ==
  orderly => \A t \in Tools, k \in KeyIds :
    tool[t] # "idle" /\ file[k].state = "active" => Covered(plan[t], k, toolAge[t])

\* A loader that has read since the last write knows the file.
CacheCurrent ==
  \A p \in Procs :
    ~Reading(p) /\ cacheAge[p] < sinceWrite /\ cacheAge[p] < TTL
      => cache[p] = Loaded(file)

\* What a loader that has not noticed a write knows: the file, or nothing.
CacheKnown ==
  orderly => \A p \in Procs :
    ~Reading(p) /\ fileMtime[p] # "other" /\ cacheAge[p] < TTL
      => cache[p] \in {Loaded(file), Loaded(Torn)}

NoneIsStale == \A p \in Procs : fileMtime[p] = "none" => cacheAge[p] = TTL

FillMeansEmpty == orderly => \A t \in Tools : tool[t] = "fill" => file = Torn

\* The time by which a provider's view of its key may be behind.
Lag == TTL - 1 + ToolStall

\* What a loader has as active lasts, and so does the key of a request that was
\* signed with an active key.
CacheLasts ==
  orderly => \A p \in Procs, k \in KeyIds :
    /\ ~Reading(p) /\ cacheAge[p] < TTL /\ cache[p][k] = "active"
    => Lasts(k, cacheAge[p] + ToolStall)

RequestsLast ==
  orderly => \A p \in Providers :
    request[p].active =>
      request[p].age <= Latency /\ Lasts(request[p].key, request[p].age + Lag)

JobsLast ==
  orderly => \A s \in Servers :
    job[s].active /\ job[s].age <= Latency =>
      Lasts(job[s].key, job[s].age + Lag)

\* The inductive invariant behind GraceSuffices.
GInv ==
  /\ OneRun /\ FillIsShort /\ PlanFollows
  /\ CacheCurrent /\ CacheKnown /\ NoneIsStale /\ FillMeansEmpty
  /\ CacheLasts /\ RequestsLast /\ JobsLast

USE ProcsAssumption, TimesAssumption, GraceAssumption
    DEF Procs, Over, Never, Lag

-----------------------------------------------------------------------------
LEMMA TornIsList == Torn \in Lists
BY DEF Torn, Lists, States, Known

LEMMA LoadedKnown ==
  ASSUME NEW f \in Lists
  PROVE  /\ Loaded(f) \in [KeyIds -> Known]
         /\ \A k \in KeyIds : Loaded(f)[k] \in Good => f[k].state \in Good
BY DEF Loaded, Lists, States, Known, Good

LEMMA RotatedIsList ==
  ASSUME NEW f \in Lists, NEW old \in KeyIds, NEW new \in KeyIds
  PROVE  Rotated(f, old, new) \in Lists
BY DEF Rotated, Lists, States, Known

LEMMA RetiredIsList ==
  ASSUME NEW f \in Lists
  PROVE  Retired(f) \in Lists
BY DEF Retired, Lists, States, Known

LEMMA AgedIsList ==
  ASSUME NEW f \in Lists
  PROVE  /\ AgedList(f) \in Lists
         /\ \A k \in KeyIds : AgedList(f)[k].state = f[k].state
BY DEF AgedList, Lists, States, Known

LEMMA AgedIsRequest ==
  ASSUME NEW r \in Requests
  PROVE  /\ AgedRequest(r) \in Requests
         /\ r # NoRequest =>
              /\ Aged(r) \in Requests /\ Aged(r) # NoRequest
              /\ Aged(r).key = r.key
<1>1. CASE r = NoRequest
  BY <1>1 DEF AgedRequest, Requests
<1>2. CASE r \in [key : KeyIds, age : 0 .. Latency + 1, active : BOOLEAN]
  <2>1. Aged(r) = [key |-> r.key, age |-> Older(r.age, Latency + 1),
                   active |-> r.active]
    BY <1>2 DEF Aged
  <2>2. Older(r.age, Latency + 1) \in 0 .. Latency + 1
    BY <1>2 DEF Older
  <2>3. r.key \in KeyIds /\ r.active \in BOOLEAN
    BY <1>2
  <2>4. Aged(r) \in Requests /\ Aged(r).key = r.key /\ Aged(r) # NoRequest
    BY <2>1, <2>2, <2>3 DEF Requests, NoRequest
  <2>5. r.age # Latency =>
          [r EXCEPT !.age = @ + 1] =
            [key |-> r.key, age |-> r.age + 1, active |-> r.active]
    BY <1>2
  <2>6. AgedRequest(r) \in Requests
    BY <1>2, <2>5, <2>3 DEF AgedRequest, Requests
  <2> QED
    BY <2>4, <2>6
<1> QED
  BY <1>1, <1>2 DEF Requests

\* The empty file holds no good key.
LEMMA TornNotGood == \A k \in KeyIds : Torn[k].state \notin Good
BY DEF Torn, Good

\* What a server or a provider does with the keys keeps the types.
LEMMA UseTyped ==
  ASSUME TypeOK, NEW p \in Procs, NEW keys \in [KeyIds -> Known],
         NEW again \in BOOLEAN, Use(p, keys, again), pc[p] # "idle"
  PROVE  /\ request' \in [Providers -> Requests]
         /\ job' \in [Servers -> Requests]
         /\ answer' \in [Servers -> {"none", "accepted", "missing", "retired"}]
         /\ pc' \in [Procs -> {"idle", "look", "read", "again", "readAgain"}]
         /\ \A q \in Procs : q # p => pc'[q] = pc[q]
         /\ pc'[p] \notin {"read", "readAgain"}
         /\ \A s \in Servers : pc'[s] = "idle" <=> job'[s] = NoRequest
<1> USE DEF TypeOK
<1>1. CASE Verify(p, keys)
  <2>1. p \in Servers /\ job[p] # NoRequest
    BY <1>1 DEF Verify
  <2>2. keys[job[p].key] \in Known
    BY <2>1 DEF Requests
  <2>3. answer' \in [Servers -> {"none", "accepted", "missing", "retired"}]
    BY <1>1, <2>2 DEF Verify, Known, Good
  <2> QED
    BY <1>1, <2>1, <2>3 DEF Verify, Requests
<1>2. CASE Sign(p, keys, again)
  <2> DEFINE Signs(k) == Send(p, k, keys)
  <2>1. p \in Providers /\ p \notin Servers /\ UNCHANGED <<job, answer>>
    BY <1>2 DEF Sign
  <2>2. ASSUME NEW k \in KeyIds, Signs(k)
        PROVE  /\ request' \in [Providers -> Requests]
               /\ pc' = [pc EXCEPT ![p] = "look"]
    <3>1. [key |-> k, age |-> 0, active |-> keys[k] = "active"] \in Requests
      BY DEF Requests
    <3> QED
      BY <2>1, <2>2, <3>1 DEF Send
  <2>3. /\ request' \in [Providers -> Requests]
        /\ pc' \in {[pc EXCEPT ![p] = "look"], [pc EXCEPT ![p] = "again"]}
    <3>1. CASE UNCHANGED request
      BY <1>2, <3>1, <2>2 DEF Sign
    <3>2. CASE \E k \in KeyIds : Signs(k)
      BY <3>2, <2>2
    <3> QED
      BY <1>2, <2>1, <3>1, <3>2 DEF Sign
  <2>4. p \in Procs /\ \A s \in Servers : s # p
    BY <2>1
  <2>5. /\ pc' \in [Procs -> {"idle", "look", "read", "again", "readAgain"}]
        /\ \A q \in Procs : q # p => pc'[q] = pc[q]
        /\ pc'[p] \notin {"read", "readAgain"}
    <3>1. CASE pc' = [pc EXCEPT ![p] = "look"]
      BY <3>1, <2>4
    <3>2. CASE pc' = [pc EXCEPT ![p] = "again"]
      BY <3>2, <2>4
    <3> QED
      BY <2>3, <3>1, <3>2
  <2> QED
    BY <2>1, <2>3, <2>4, <2>5
<1> QED
  BY <1>1, <1>2 DEF Use

-----------------------------------------------------------------------------
LEMMA InitInvariant == Init => IInv
<1> SUFFICES ASSUME Init PROVE IInv
  OBVIOUS
<1>1. file \in Lists
  BY DEF Init, Lists, States, Known
<1>2. Loaded(Torn) \in [KeyIds -> Known]
  BY TornIsList, LoadedKnown
<1>3. TypeOK
  BY <1>1, <1>2, TornIsList DEF Init, TypeOK, Requests
<1>4. ListedIsGood /\ CacheTruthful
  BY DEF Init, ListedIsGood, CacheTruthful
<1> QED
  BY <1>3, <1>4 DEF IInv

\* Writing the file keeps the types and the facts about what is good.
LEMMA WriteKeeps ==
  ASSUME TypeOK, ListedIsGood, NEW f \in Lists, Write(f)
  PROVE  /\ file' \in Lists /\ sinceWrite' \in 0 .. TTL
         /\ sinceGood' \in [KeyIds -> 0 .. TTL]
         /\ ListedIsGood'
         /\ \A k \in KeyIds : sinceGood'[k] <= sinceGood[k]
BY DEF Write, TypeOK, ListedIsGood

LEMMA TypeStep == IInv /\ [Next]_vars => TypeOK'
<1> SUFFICES ASSUME IInv, [Next]_vars PROVE TypeOK'
  OBVIOUS
<1>0. TypeOK /\ ListedIsGood
  BY DEF IInv
<1>1. Loaded(Torn) \in [KeyIds -> Known] /\ Loaded(file) \in [KeyIds -> Known]
  BY <1>0, TornIsList, LoadedKnown DEF TypeOK
<1> USE DEF TypeOK
<1>2. ASSUME NEW t \in Tools, Load(t) PROVE TypeOK'
  <2>1. \A old, new \in KeyIds : Rotated(file, old, new) \in Lists
    BY <1>0, RotatedIsList
  <2>2. Retired(file) \in Lists
    BY <1>0, RetiredIsList
  <2>3. plan' \in [Tools -> Lists]
    <3>1. ASSUME NEW f \in Lists, plan' = [plan EXCEPT ![t] = f]
          PROVE  plan' \in [Tools -> Lists]
      BY <1>0, <3>1
    <3> QED
      BY <1>2, <2>1, <2>2, <3>1 DEF Load
  <2> QED
    BY <1>0, <1>2, <2>3 DEF Load, written, loaders, traffic
<1>3. ASSUME NEW t \in Tools, Truncate(t) PROVE TypeOK'
  BY <1>0, <1>3, TornIsList, WriteKeeps DEF Truncate, Touch, loaders, traffic
<1>4. ASSUME NEW t \in Tools, Fill(t) PROVE TypeOK'
  <2>1. plan[t] \in Lists
    BY <1>0
  <2> QED
    BY <1>0, <1>4, <2>1, TornIsList, WriteKeeps DEF Fill, Touch, FinishRun, traffic
<1>5. ASSUME NEW t \in Tools, Kill(t) PROVE TypeOK'
  <2>1. CASE tool[t] = "fill"
    <3>1. Write(Torn)
      BY <1>5, <2>1 DEF Kill
    <3>2. /\ file' \in Lists /\ sinceWrite' \in 0 .. TTL
          /\ sinceGood' \in [KeyIds -> 0 .. TTL]
      BY <1>0, <3>1, TornIsList, WriteKeeps
    <3>3. fileMtime' \in [Procs -> {"none", "same", "other"}]
      BY <1>0, <1>5, <2>1 DEF Kill, Touch
    <3>4. orderly' = FALSE /\ FinishRun(t)
          /\ UNCHANGED <<pc, cache, cacheAge, traffic>>
      BY <1>5, <2>1 DEF Kill
    <3>5. /\ tool' \in [Tools -> {"idle", "write", "fill"}]
          /\ plan' \in [Tools -> Lists]
          /\ toolAge' \in [Tools -> 0 .. ToolStall]
      BY <1>0, <3>4, TornIsList DEF FinishRun
    <3> QED
      BY <1>0, <3>2, <3>3, <3>4, <3>5 DEF traffic
  <2>2. CASE tool[t] # "fill"
    BY <1>0, <1>5, <2>2, TornIsList DEF Kill, FinishRun, written, traffic
  <2> QED
    BY <2>1, <2>2
<1>6. ASSUME NEW s \in Servers, NEW p \in Providers, Receive(s, p)
      PROVE  TypeOK'
  <2>1. NoRequest \in Requests
    BY DEF Requests
  <2> QED
    BY <1>0, <1>6, <2>1 DEF Receive, written, tools, loaders
<1>7. ASSUME NEW p \in Procs, Look(p) PROVE TypeOK'
  <2>1. /\ fileMtime' \in [Procs -> {"none", "same", "other"}]
        /\ UNCHANGED <<written, tools>>
    BY <1>0, <1>7 DEF Look
  <2>2. CASE /\ cacheAge' = [cacheAge EXCEPT ![p] = 0]
             /\ pc' = [pc EXCEPT ![p] =
                          IF pc[p] = "look" THEN "read" ELSE "readAgain"]
             /\ cache' = [cache EXCEPT ![p] = Loaded(Torn)]
             /\ UNCHANGED traffic
    <3>1. pc[p] # "idle"
      BY <1>7 DEF Look
    <3>2. cache' \in [Procs -> [KeyIds -> Known]]
      BY <1>0, <2>2, TornIsList, LoadedKnown
    <3> QED
      BY <1>0, <2>1, <2>2, <3>1, <3>2 DEF written, tools, traffic
  <2>3. CASE Use(p, cache[p], pc[p] = "again") /\ UNCHANGED <<cache, cacheAge>>
    <3>1. cache[p] \in [KeyIds -> Known] /\ (pc[p] = "again") \in BOOLEAN
          /\ pc[p] # "idle"
      BY <1>0, <1>7 DEF Look
    <3> QED
      BY <1>0, <2>1, <2>3, <3>1, UseTyped DEF written, tools
  <2> QED
    BY <1>7, <2>2, <2>3 DEF Look
<1>8. ASSUME NEW p \in Procs, Read(p) PROVE TypeOK'
  BY <1>0, <1>1, <1>8, UseTyped DEF Read, written, tools
<1>9. ASSUME NEW p \in Procs, Restart(p) PROVE TypeOK'
  <2>1. job' \in [Servers -> Requests]
    BY <1>0, <1>9 DEF Restart, Requests
  <2>2. \A s \in Servers : pc'[s] = "idle" <=> job'[s] = NoRequest
    BY <1>0, <1>9 DEF Restart
  <2> QED
    BY <1>0, <1>1, <1>9, <2>1, <2>2 DEF Restart, written, tools
<1>10. ASSUME Tick PROVE TypeOK'
  <2>1. file' \in Lists /\ plan' \in [Tools -> Lists]
    BY <1>0, <1>10, AgedIsList DEF Tick
  <2>2. toolAge' \in [Tools -> 0 .. ToolStall]
    BY <1>0, <1>10 DEF Tick
  <2>3. /\ cacheAge' \in [Procs -> 0 .. TTL]
        /\ cache' \in [Procs -> [KeyIds -> Known]]
    BY <1>0, <1>1, <1>10 DEF Tick, Older
  <2>4. request' \in [Providers -> Requests]
    BY <1>0, <1>10, AgedIsRequest DEF Tick
  <2>5. /\ job' \in [Servers -> Requests]
        /\ \A s \in Servers : job'[s] = NoRequest <=> job[s] = NoRequest
    <3>1. job' = [s \in Servers |->
                    IF job[s] = NoRequest THEN NoRequest ELSE Aged(job[s])]
      BY <1>10 DEF Tick
    <3>2. NoRequest \in Requests
      BY DEF Requests
    <3> QED
      BY <1>0, <3>1, <3>2, AgedIsRequest
  <2>6. sinceWrite' \in 0 .. TTL /\ sinceGood' \in [KeyIds -> 0 .. TTL]
    BY <1>0, <1>10 DEF Tick, Older
  <2> QED
    BY <1>0, <1>10, <2>1, <2>2, <2>3, <2>4, <2>5, <2>6 DEF Tick
<1>11. CASE UNCHANGED vars
  BY <1>0, <1>11 DEF vars, written, tools, loaders, traffic
<1> QED
  BY <1>2, <1>3, <1>4, <1>5, <1>6, <1>7, <1>8, <1>9, <1>10, <1>11 DEF Next

\* Whatever does not write the file leaves both facts about it alone.
LEMMA ListedIsGoodStep == IInv /\ [Next]_vars => ListedIsGood'
<1> SUFFICES ASSUME IInv, [Next]_vars PROVE ListedIsGood'
  OBVIOUS
<1>0. TypeOK /\ ListedIsGood
  BY DEF IInv
<1>1. ASSUME NEW f \in Lists, Write(f) PROVE ListedIsGood'
  BY <1>0, <1>1, WriteKeeps
<1>2. CASE UNCHANGED written
  BY <1>0, <1>2 DEF ListedIsGood, written
<1>3. ASSUME NEW t \in Tools, Load(t) \/ Truncate(t) \/ Fill(t) \/ Kill(t)
      PROVE  ListedIsGood'
  <2>1. plan[t] \in Lists
    BY <1>0 DEF TypeOK
  <2>2. UNCHANGED written \/ Write(Torn) \/ Write(plan[t])
    BY <1>3 DEF Load, Truncate, Fill, Kill, written
  <2> QED
    BY <1>1, <1>2, <2>1, <2>2, TornIsList
<1>4. CASE Tick
  BY <1>0, <1>4, AgedIsList DEF Tick, ListedIsGood, TypeOK
<1>5. ASSUME NEW s \in Servers, NEW p \in Providers, Receive(s, p)
      PROVE  ListedIsGood'
  BY <1>2, <1>5 DEF Receive
<1>6. ASSUME NEW p \in Procs, Look(p) \/ Read(p) \/ Restart(p)
      PROVE  ListedIsGood'
  BY <1>2, <1>6 DEF Look, Read, Restart
<1>7. CASE UNCHANGED vars
  BY <1>2, <1>7 DEF vars
<1> QED
  BY <1>3, <1>4, <1>5, <1>6, <1>7 DEF Next

LEMMA CacheTruthfulStep == IInv /\ [Next]_vars => CacheTruthful'
<1> SUFFICES ASSUME IInv, [Next]_vars PROVE CacheTruthful'
  OBVIOUS
<1>0. TypeOK /\ ListedIsGood /\ CacheTruthful
  BY DEF IInv
<1>1. /\ cacheAge \in [Procs -> 0 .. TTL]
      /\ sinceGood \in [KeyIds -> 0 .. TTL]
  BY <1>0 DEF TypeOK
\* Nothing the loaders keep changes, and no key has been good longer ago.
<1>2. ASSUME UNCHANGED <<pc, cache, cacheAge>>,
             \A k \in KeyIds : sinceGood'[k] \in Int /\ sinceGood'[k] <= sinceGood[k]
      PROVE  CacheTruthful'
  BY <1>0, <1>1, <1>2 DEF CacheTruthful, Reading
<1>3. ASSUME NEW t \in Tools, Load(t) \/ Truncate(t) \/ Fill(t) \/ Kill(t)
      PROVE  CacheTruthful'
  <2>1. UNCHANGED <<pc, cache, cacheAge>>
    BY <1>3 DEF Load, Truncate, Fill, Kill, loaders
  <2>2. UNCHANGED sinceGood \/ Write(Torn) \/ Write(plan[t])
    BY <1>3 DEF Load, Truncate, Fill, Kill, written
  <2>3. \A k \in KeyIds : sinceGood'[k] \in Int /\ sinceGood'[k] <= sinceGood[k]
    BY <1>1, <2>2 DEF Write
  <2> QED
    BY <1>2, <2>1, <2>3
<1>4. ASSUME NEW s \in Servers, NEW p \in Providers, Receive(s, p)
      PROVE  CacheTruthful'
  <2>1. \A q \in Procs : Reading(q)' => Reading(q)
    BY <1>0, <1>4 DEF Receive, Reading, TypeOK
  <2>2. \A q \in Procs : Reading(q) => Reading(q)'
    BY <1>0, <1>4 DEF Receive, Reading, TypeOK
  <2> QED
    BY <1>0, <1>4, <2>1, <2>2 DEF Receive, CacheTruthful, loaders, written
<1>5. ASSUME NEW p \in Procs, Look(p) PROVE CacheTruthful'
  <2>1. CASE /\ pc' = [pc EXCEPT ![p] =
                          IF pc[p] = "look" THEN "read" ELSE "readAgain"]
             /\ cacheAge' = [cacheAge EXCEPT ![p] = 0]
             /\ cache' = [cache EXCEPT ![p] = Loaded(Torn)]
    <3>1. Reading(p)'
      BY <1>0, <2>1 DEF Reading, TypeOK
    <3>2. \A q \in Procs : q # p =>
            /\ Reading(q)' <=> Reading(q)
            /\ cacheAge'[q] = cacheAge[q] /\ cache'[q] = cache[q]
      BY <1>0, <2>1 DEF Reading, TypeOK
    <3> QED
      BY <1>0, <1>5, <2>1, <3>1, <3>2 DEF Look, CacheTruthful, written
  <2>2. CASE Use(p, cache[p], pc[p] = "again") /\ UNCHANGED <<cache, cacheAge>>
    <3>1. cache[p] \in [KeyIds -> Known] /\ (pc[p] = "again") \in BOOLEAN
          /\ pc[p] # "idle"
      BY <1>0, <1>5 DEF Look, TypeOK
    <3>2. \A q \in Procs : q # p => pc'[q] = pc[q]
      BY <1>0, <2>2, <3>1, UseTyped
    <3>3. ~Reading(p)
      BY <1>5 DEF Look, Reading
    <3> QED
      BY <1>0, <1>5, <2>2, <3>2, <3>3 DEF Look, CacheTruthful, Reading, written
  <2> QED
    BY <1>5, <2>1, <2>2 DEF Look
<1>6. ASSUME NEW p \in Procs, Read(p) PROVE CacheTruthful'
  <2>1. /\ Loaded(file) \in [KeyIds -> Known]
        /\ \A k \in KeyIds : Loaded(file)[k] \in Good => sinceGood[k] = 0
    BY <1>0, LoadedKnown DEF ListedIsGood, TypeOK
  <2>2. \A q \in Procs : q # p => pc'[q] = pc[q]
    BY <1>0, <1>6, <2>1, UseTyped DEF Read
  <2>3. /\ \A q \in Procs : q # p => cache'[q] = cache[q]
        /\ cache'[p] = Loaded(file)
        /\ UNCHANGED <<cacheAge, sinceGood>>
    BY <1>0, <1>6 DEF Read, written, TypeOK
  <2> QED
    BY <1>0, <1>1, <2>1, <2>2, <2>3 DEF CacheTruthful, Reading
<1>7. ASSUME NEW p \in Procs, Restart(p) PROVE CacheTruthful'
  <2>1. \A q \in Procs : q # p =>
          pc'[q] = pc[q] /\ cache'[q] = cache[q] /\ cacheAge'[q] = cacheAge[q]
    BY <1>0, <1>7 DEF Restart, TypeOK
  <2>2. cacheAge'[p] = TTL /\ UNCHANGED sinceGood
    BY <1>0, <1>7 DEF Restart, written, TypeOK
  <2> QED
    BY <1>0, <2>1, <2>2 DEF CacheTruthful, Reading
<1>8. CASE Tick
  <2> SUFFICES ASSUME NEW p \in Procs, NEW k \in KeyIds,
                      ~Reading(p)', cacheAge'[p] < TTL, cache'[p][k] \in Good
               PROVE  sinceGood'[k] <= cacheAge'[p]
    BY DEF CacheTruthful
  <2>1. ~Reading(p)
    BY <1>8 DEF Tick, Reading
  <2>2. cacheAge[p] + 1 < TTL /\ cacheAge'[p] = cacheAge[p] + 1
    BY <1>1, <1>8 DEF Tick, Older
  <2>3. sinceGood[k] <= cacheAge[p]
    <3>1. cache'[p] = cache[p]
      BY <1>8, <2>2 DEF Tick
    <3>2. cacheAge[p] < TTL
      BY <1>1, <2>2
    <3> QED
      BY <1>0, <2>1, <3>1, <3>2 DEF CacheTruthful
  <2>4. sinceGood'[k] \in {0, Older(sinceGood[k], TTL)}
    BY <1>8 DEF Tick
  <2>5. Older(sinceGood[k], TTL) <= sinceGood[k] + 1
    BY <1>1 DEF Older
  <2>6. sinceGood[k] \in Nat /\ cacheAge[p] \in Nat
    BY <1>1
  <2> QED
    BY <2>2, <2>3, <2>4, <2>5, <2>6 DEF Older
<1>9. CASE UNCHANGED vars
  BY <1>1, <1>2, <1>9 DEF vars, written, loaders
<1> QED
  BY <1>3, <1>4, <1>5, <1>6, <1>7, <1>8, <1>9 DEF Next

LEMMA Inductive == IInv /\ [Next]_vars => IInv'
BY TypeStep, ListedIsGoodStep, CacheTruthfulStep DEF IInv

LEMMA Invariance == Spec => []IInv
<1>1. Init => IInv
  BY InitInvariant
<1>2. IInv /\ [Next]_vars => IInv'
  BY Inductive
<1> QED
  BY <1>1, <1>2, PTL DEF Spec

\* Every variable keeps its type; no loader knows of other states than its own.
THEOREM TypeCorrect == Spec => []TypeOK
<1>1. IInv => TypeOK
  BY DEF IInv
<1> QED
  BY <1>1, Invariance, PTL

-----------------------------------------------------------------------------
\* A step that answers is a look-up of that server, with keys that were good
\* less than TTL ago.
LEMMA AcceptedWasGood ==
  ASSUME IInv, Next, NEW s \in Servers, Answers(s, "accepted")
  PROVE  sinceGood[job[s].key] < TTL
<1>0. TypeOK /\ ListedIsGood /\ CacheTruthful
  BY DEF IInv
<1>1. job[s].key \in KeyIds
  BY <1>0 DEF TypeOK, Answers, Requests
<1>2. sinceGood \in [KeyIds -> 0 .. TTL] /\ cacheAge \in [Procs -> 0 .. TTL]
  BY <1>0 DEF TypeOK
\* The answer of an accepting look-up.
<1>3. ASSUME NEW p \in Procs, NEW keys \in [KeyIds -> Known], NEW again,
             Use(p, keys, again)
      PROVE  p = s /\ keys[job[s].key] \in Good
  <2>1. ~Sign(p, keys, again)
    BY <1>0 DEF Sign, Answers, TypeOK
  <2>2. Verify(p, keys)
    BY <1>3, <2>1 DEF Use
  <2>3. p = s
    BY <1>0, <2>2 DEF Verify, Answers, TypeOK
  <2>4. keys[job[s].key] # "accepted"
    BY <1>1 DEF Known
  <2> QED
    BY <1>0, <2>2, <2>3, <2>4 DEF Verify, Answers, TypeOK
<1>4. ASSUME NEW p \in Procs, Look(p) PROVE sinceGood[job[s].key] < TTL
  <2>1. ~Stale(p) /\ Use(p, cache[p], pc[p] = "again")
    BY <1>0, <1>4 DEF Look, Answers, traffic, TypeOK
  <2>2. p = s /\ cache[s][job[s].key] \in Good
    <3>1. cache[p] \in [KeyIds -> Known]
      BY <1>0 DEF TypeOK
    <3> QED
      BY <1>3, <2>1, <3>1
  <2>3. cacheAge[s] < TTL /\ ~Reading(s)
    BY <1>2, <1>4, <2>1, <2>2 DEF Stale, Look, Reading
  <2> QED
    BY <1>0, <1>1, <1>2, <2>2, <2>3 DEF CacheTruthful
<1>5. ASSUME NEW p \in Procs, Read(p) PROVE sinceGood[job[s].key] < TTL
  <2>1. Loaded(file)[job[s].key] \in Good
    <3>1. Loaded(file) \in [KeyIds -> Known]
      BY <1>0, LoadedKnown DEF TypeOK
    <3> QED
      BY <1>3, <1>5, <3>1 DEF Read
  <2> QED
    BY <1>0, <1>1, <2>1, LoadedKnown DEF ListedIsGood, TypeOK
<1>6. ASSUME NEW p \in Procs, Restart(p) PROVE FALSE
  BY <1>0, <1>6 DEF Restart, Answers, TypeOK
<1>7. ASSUME NEW t \in Tools, Load(t) \/ Truncate(t) \/ Fill(t) \/ Kill(t)
      PROVE  FALSE
  BY <1>0, <1>7 DEF Load, Truncate, Fill, Kill, Answers, traffic, TypeOK
<1>8. ASSUME NEW q \in Servers, NEW p \in Providers, Receive(q, p) PROVE FALSE
  BY <1>0, <1>8 DEF Receive, Answers, TypeOK
<1>9. CASE Tick
  BY <1>0, <1>9 DEF Tick, Answers, TypeOK
<1> QED
  BY <1>4, <1>5, <1>6, <1>7, <1>8, <1>9 DEF Next

\* A retired key stops working, for any number of processes and of runs of the
\* tool that overlap or die, and for every TTL.
THEOREM RetirementHolds == Spec => RetiredStopsWorking
<1>1. IInv /\ [Next]_vars =>
        [\A s \in Servers : Answers(s, "accepted") =>
           sinceGood[job[s].key] < TTL]_vars
  BY AcceptedWasGood
<1> QED
  BY <1>1, Invariance, PTL DEF Spec, RetiredStopsWorking

-----------------------------------------------------------------------------
(* The grace period is long enough.                                          *)

LastsNext(k, b) ==
  /\ (\A t \in Tools : tool'[t] # "fill") => Covered(file', k, b)
  /\ \A t \in Tools : tool'[t] # "idle" => Covered(plan'[t], k, b)

LEMMA CoveredMore ==
  ASSUME NEW f \in Lists, NEW k \in KeyIds, NEW b \in Nat, NEW c \in Nat,
         b <= c, Covered(f, k, b)
  PROVE  Covered(f, k, c)
BY DEF Covered, Lists

LEMMA CoveredRotated ==
  ASSUME NEW f \in Lists, NEW old \in KeyIds, NEW new \in KeyIds,
         NEW k \in KeyIds, NEW b \in Nat, Covered(f, k, b)
  PROVE  Covered(Rotated(f, old, new), k, b)
BY DEF Covered, Rotated, Lists

\* A grace period that began at most Grace ago is not over.
LEMMA CoveredRetired ==
  ASSUME NEW f \in Lists, NEW k \in KeyIds, NEW b \in 0 .. Grace, Covered(f, k, b)
  PROVE  Covered(Retired(f), k, b)
BY DEF Covered, Retired, Lists

LEMMA CoveredAged ==
  ASSUME NEW f \in Lists, NEW k \in KeyIds, NEW b \in Nat, Covered(f, k, b)
  PROVE  Covered(AgedList(f), k, b + 1)
<1>1. AgedList(f)[k].state = f[k].state
  BY DEF AgedList, Lists
<1>2. AgedList(f)[k].left =
        IF f[k].left \in 0 .. Grace THEN f[k].left - 1 ELSE f[k].left
  BY DEF AgedList, Lists
<1>3. f[k].left \in Over .. Never
  BY DEF Lists
<1> QED
  BY <1>1, <1>2, <1>3 DEF Covered

LEMMA LastsMore ==
  ASSUME TypeOK, NEW k \in KeyIds, NEW b \in Nat, NEW c \in Nat, b <= c, Lasts(k, b)
  PROVE  Lasts(k, c)
BY CoveredMore DEF Lasts, TypeOK

\* A key that is active in the file now will last.
LEMMA ActiveLasts ==
  ASSUME TypeOK, PlanFollows, orderly, NEW k \in KeyIds, file[k].state = "active",
         NEW b \in Nat, ToolStall <= b
  PROVE  Lasts(k, b)
<1>1. Covered(file, k, b)
  BY DEF Covered
<1>2. ASSUME NEW t \in Tools, tool[t] # "idle" PROVE Covered(plan[t], k, b)
  <2>1. toolAge[t] \in 0 .. ToolStall /\ plan[t] \in Lists
    BY DEF TypeOK
  <2>2. Covered(plan[t], k, toolAge[t])
    BY <1>2 DEF PlanFollows
  <2> QED
    BY <2>1, <2>2, CoveredMore
<1> QED
  BY <1>1, <1>2 DEF Lasts

\* A key that lasts goes on lasting through every step of the tool.
LEMMA LastsThroughTools ==
  ASSUME TypeOK, OneRun, NEW t \in Tools,
         Load(t) \/ Truncate(t) \/ Fill(t) \/ Kill(t), orderly',
         NEW k \in KeyIds, NEW b \in 0 .. Grace, Lasts(k, b)
  PROVE  orderly /\ LastsNext(k, b)
<1> USE DEF TypeOK
<1>1. CASE Load(t)
  <2>1. orderly /\ \A u \in Tools : tool[u] = "idle"
    BY <1>1 DEF Load
  <2>2. file' = file /\ Covered(file, k, b)
    BY <1>1, <2>1 DEF Load, Lasts, written
  <2>3. Covered(plan'[t], k, b)
    <3>1. CASE plan' = [plan EXCEPT ![t] = Retired(file)]
      BY <2>2, <3>1, CoveredRetired
    <3>2. ASSUME NEW old \in KeyIds, NEW new \in KeyIds,
                 plan' = [plan EXCEPT ![t] = Rotated(file, old, new)]
          PROVE  Covered(plan'[t], k, b)
      BY <2>2, <3>2, CoveredRotated
    <3> QED
      BY <1>1, <3>1, <3>2 DEF Load
  <2>4. \A u \in Tools : tool'[u] # "idle" => u = t
    BY <1>1, <2>1 DEF Load
  <2> QED
    BY <2>1, <2>2, <2>3, <2>4 DEF LastsNext
<1>2. CASE Truncate(t)
  <2>1. tool'[t] = "fill" /\ UNCHANGED <<plan, orderly>>
    BY <1>2 DEF Truncate
  <2>2. \A u \in Tools : tool'[u] # "idle" => tool[u] # "idle"
    BY <1>2 DEF Truncate
  <2> QED
    BY <2>1, <2>2 DEF Lasts, LastsNext
<1>3. CASE Fill(t)
  <2>1. file' = plan[t] /\ tool[t] = "fill" /\ UNCHANGED orderly
    BY <1>3 DEF Fill, Write
  <2>2. \A u \in Tools :
          tool'[u] # "idle" => tool[u] # "idle" /\ plan'[u] = plan[u]
    BY <1>3 DEF Fill, FinishRun
  <2> QED
    BY <2>1, <2>2 DEF Lasts, LastsNext
<1>4. CASE Kill(t)
  <2>1. tool[t] # "fill" /\ file' = file /\ UNCHANGED orderly
    BY <1>4 DEF Kill, written
  <2>2. \A u \in Tools :
          /\ tool'[u] # "idle" => tool[u] # "idle" /\ plan'[u] = plan[u]
          /\ tool[u] = "fill" => tool'[u] = "fill"
    BY <1>4, <2>1 DEF Kill, FinishRun
  <2> QED
    BY <2>1, <2>2 DEF Lasts, LastsNext
<1> QED
  BY <1>1, <1>2, <1>3, <1>4

LEMMA LastsThroughTick ==
  ASSUME TypeOK, Tick, NEW k \in KeyIds, NEW b \in Nat, Lasts(k, b)
  PROVE  LastsNext(k, b + 1)
<1>1. /\ file' = AgedList(file) /\ tool' = tool
      /\ \A t \in Tools : plan'[t] = AgedList(plan[t])
  BY DEF Tick
<1> QED
  BY <1>1, CoveredAged DEF Lasts, LastsNext, TypeOK

\* Only the tool overlaps or dies over the file.
LEMMA OrderlyBefore == ASSUME TypeOK, [Next]_vars, orderly' PROVE orderly
BY DEF Next, Load, Truncate, Fill, Kill, Receive, Look, Read, Restart, Tick,
       tools, vars, TypeOK

-----------------------------------------------------------------------------
LEMMA GInit == Init => GInv
<1> SUFFICES ASSUME Init PROVE GInv
  OBVIOUS
<1>1. \A t \in Tools : tool[t] = "idle"
  BY DEF Init
<1>2. \A p \in Procs : cacheAge[p] = TTL
  BY DEF Init
<1>3. /\ \A p \in Providers : request[p].active = FALSE
      /\ \A s \in Servers : job[s].active = FALSE
  BY DEF Init, NoRequest
<1> QED
  BY <1>1, <1>2, <1>3 DEF GInv, OneRun, FillIsShort, PlanFollows, CacheCurrent,
     CacheKnown, NoneIsStale, FillMeansEmpty, CacheLasts, RequestsLast, JobsLast

LEMMA OneRunStep == TypeOK /\ OneRun /\ [Next]_vars => OneRun'
<1> SUFFICES ASSUME TypeOK, OneRun, [Next]_vars PROVE OneRun'
  OBVIOUS
<1> USE DEF OneRun, TypeOK
<1>1. ASSUME NEW t \in Tools, Load(t) PROVE OneRun'
  BY <1>1 DEF Load
<1>2. ASSUME NEW t \in Tools, Truncate(t) PROVE OneRun'
  BY <1>2 DEF Truncate
<1>3. ASSUME NEW t \in Tools, Fill(t) PROVE OneRun'
  BY <1>3 DEF Fill, FinishRun
<1>4. ASSUME NEW t \in Tools, Kill(t) PROVE OneRun'
  <2>1. CASE tool[t] = "fill"
    BY <1>4, <2>1 DEF Kill
  <2>2. CASE tool[t] # "fill"
    BY <1>4, <2>2 DEF Kill, FinishRun
  <2> QED
    BY <2>1, <2>2
<1>5. CASE UNCHANGED <<tool, orderly>>
  BY <1>5
<1> QED
  BY <1>1, <1>2, <1>3, <1>4, <1>5
     DEF Next, Receive, Look, Read, Restart, Tick, tools, vars

LEMMA FillIsShortStep == TypeOK /\ FillIsShort /\ [Next]_vars => FillIsShort'
<1> SUFFICES ASSUME TypeOK, FillIsShort, [Next]_vars PROVE FillIsShort'
  OBVIOUS
<1>0. toolAge \in [Tools -> 0 .. ToolStall] /\ sinceWrite \in 0 .. TTL
  BY DEF TypeOK
<1> USE DEF FillIsShort
<1>1. ASSUME NEW t \in Tools, Load(t) PROVE FillIsShort'
  BY <1>0, <1>1 DEF Load, written, TypeOK
<1>2. ASSUME NEW t \in Tools, Truncate(t) PROVE FillIsShort'
  BY <1>0, <1>2 DEF Truncate, Write, TypeOK
<1>3. ASSUME NEW t \in Tools, Fill(t) PROVE FillIsShort'
  BY <1>0, <1>3 DEF Fill, FinishRun, Write, TypeOK
<1>4. ASSUME NEW t \in Tools, Kill(t) PROVE FillIsShort'
  <2>1. \A u \in Tools : tool'[u] = "fill" => tool[u] = "fill" /\ toolAge'[u] = toolAge[u]
    BY <1>0, <1>4 DEF Kill, FinishRun, TypeOK
  <2>2. sinceWrite' = sinceWrite \/ sinceWrite' = 0
    BY <1>4 DEF Kill, Write, written
  <2> QED
    BY <1>0, <2>1, <2>2
<1>5. CASE Tick
  <2>1. sinceWrite' <= sinceWrite + 1
    BY <1>0, <1>5 DEF Tick, Older
  <2>2. \A u \in Tools : tool'[u] = "fill" => toolAge'[u] = toolAge[u] + 1
    BY <1>5 DEF Tick
  <2>3. sinceWrite' \in Int /\ tool' = tool
    BY <1>0, <1>5 DEF Tick, Older
  <2> QED
    BY <1>0, <2>1, <2>2, <2>3
<1>6. CASE UNCHANGED <<tool, toolAge, sinceWrite>>
  BY <1>6
<1> QED
  BY <1>1, <1>2, <1>3, <1>4, <1>5, <1>6
     DEF Next, Receive, Look, Read, Restart, tools, written, vars

LEMMA PlanFollowsStep ==
  TypeOK /\ OneRun /\ PlanFollows /\ [Next]_vars => PlanFollows'
<1> SUFFICES ASSUME TypeOK, OneRun, PlanFollows, [Next]_vars, orderly',
                    NEW t \in Tools, NEW k \in KeyIds,
                    tool'[t] # "idle", file'[k].state = "active"
             PROVE  Covered(plan'[t], k, toolAge'[t])
  BY DEF PlanFollows
<1>0. /\ orderly
      /\ toolAge[t] \in 0 .. ToolStall /\ file \in Lists /\ plan[t] \in Lists
  BY OrderlyBefore DEF TypeOK
<1>1. ASSUME NEW u \in Tools, Load(u) PROVE Covered(plan'[t], k, toolAge'[t])
  <2>1. u = t /\ file' = file /\ toolAge' = toolAge
    BY <1>1 DEF Load, written, TypeOK
  <2>2. Covered(file, k, 0)
    BY <2>1 DEF Covered
  <2>3. Covered(plan'[t], k, 0) /\ plan'[t] \in Lists
    <3>1. CASE plan' = [plan EXCEPT ![t] = Retired(file)]
      BY <1>0, <2>2, <3>1, CoveredRetired, RetiredIsList DEF TypeOK
    <3>2. ASSUME NEW old \in KeyIds, NEW new \in KeyIds,
                 plan' = [plan EXCEPT ![t] = Rotated(file, old, new)]
          PROVE  Covered(plan'[t], k, 0) /\ plan'[t] \in Lists
      BY <1>0, <2>2, <3>2, CoveredRotated, RotatedIsList DEF TypeOK
    <3> QED
      BY <1>1, <2>1, <3>1, <3>2 DEF Load
  <2> QED
    BY <1>0, <2>1, <2>3, CoveredMore
<1>2. ASSUME NEW u \in Tools, Truncate(u) PROVE FALSE
  BY <1>2 DEF Truncate, Write, Torn
<1>3. ASSUME NEW u \in Tools, Fill(u) \/ Kill(u) PROVE FALSE
  <2>1. tool[u] # "idle" /\ tool' = [tool EXCEPT ![u] = "idle"]
    BY <1>3 DEF Fill, Kill, FinishRun
  <2>2. t # u /\ tool[t] # "idle"
    BY <2>1 DEF TypeOK
  <2> QED
    BY <1>0, <2>1, <2>2 DEF OneRun
<1>4. CASE Tick
  <2>1. plan'[t] = AgedList(plan[t]) /\ toolAge'[t] = toolAge[t] + 1
    BY <1>4 DEF Tick
  <2>2. tool[t] # "idle" /\ file[k].state = "active"
    BY <1>0, <1>4, AgedIsList DEF Tick
  <2> QED
    BY <1>0, <2>1, <2>2, CoveredAged DEF PlanFollows
<1>5. CASE UNCHANGED <<tool, plan, toolAge, file>>
  BY <1>0, <1>5 DEF PlanFollows
<1> QED
  BY <1>1, <1>2, <1>3, <1>4, <1>5
     DEF Next, Receive, Look, Read, Restart, tools, written, vars

LEMMA CacheCurrentStep == TypeOK /\ CacheCurrent /\ [Next]_vars => CacheCurrent'
<1> SUFFICES ASSUME TypeOK, CacheCurrent, [Next]_vars, NEW p \in Procs,
                    ~Reading(p)', cacheAge'[p] < sinceWrite', cacheAge'[p] < TTL
             PROVE  cache'[p] = Loaded(file')
  BY DEF CacheCurrent
<1>0. /\ cacheAge \in [Procs -> 0 .. TTL] /\ sinceWrite \in 0 .. TTL
      /\ file \in Lists
  BY DEF TypeOK
<1>1. CASE UNCHANGED <<file, sinceWrite, pc, cache, cacheAge>>
  BY <1>1 DEF CacheCurrent, Reading
<1>2. ASSUME NEW t \in Tools, Load(t) \/ Truncate(t) \/ Fill(t) \/ Kill(t)
      PROVE  cache'[p] = Loaded(file')
  <2>1. UNCHANGED <<pc, cache, cacheAge>>
    BY <1>2 DEF Load, Truncate, Fill, Kill, loaders
  <2>2. CASE sinceWrite' = 0
    BY <1>0, <2>1, <2>2
  <2>3. CASE UNCHANGED written
    BY <1>1, <2>1, <2>3 DEF written
  <2> QED
    BY <1>2, <2>2, <2>3 DEF Load, Truncate, Fill, Kill, Write, written
<1>3. ASSUME NEW s \in Servers, NEW q \in Providers, Receive(s, q)
      PROVE  cache'[p] = Loaded(file')
  <2>1. ~Reading(p)
    BY <1>3 DEF Receive, Reading, TypeOK
  <2> QED
    BY <1>3, <2>1 DEF Receive, CacheCurrent, written, loaders
<1>4. ASSUME NEW q \in Procs, Look(q) PROVE cache'[p] = Loaded(file')
  <2>1. CASE /\ pc' = [pc EXCEPT ![q] =
                          IF pc[q] = "look" THEN "read" ELSE "readAgain"]
             /\ cacheAge' = [cacheAge EXCEPT ![q] = 0]
             /\ cache' = [cache EXCEPT ![q] = Loaded(Torn)]
    <3>1. /\ p # q /\ ~Reading(p)
          /\ cacheAge'[p] = cacheAge[p] /\ cache'[p] = cache[p]
      BY <2>1 DEF Reading, TypeOK
    <3> QED
      BY <1>4, <2>1, <3>1 DEF Look, CacheCurrent, written
  <2>2. CASE Use(q, cache[q], pc[q] = "again") /\ UNCHANGED <<cache, cacheAge>>
    <3>1. cache[q] \in [KeyIds -> Known] /\ (pc[q] = "again") \in BOOLEAN
          /\ pc[q] # "idle"
      BY <1>4 DEF Look, TypeOK
    <3>2. \A r \in Procs : r # q => pc'[r] = pc[r]
      BY <2>2, <3>1, UseTyped
    <3>3. ~Reading(p)
      BY <1>4, <3>2 DEF Look, Reading
    <3> QED
      BY <1>4, <2>2, <3>3 DEF Look, CacheCurrent, written
  <2> QED
    BY <1>4, <2>1, <2>2 DEF Look
<1>5. ASSUME NEW q \in Procs, Read(q) PROVE cache'[p] = Loaded(file')
  <2>1. file' = file /\ cache'[q] = Loaded(file) /\ cacheAge' = cacheAge
        /\ sinceWrite' = sinceWrite
    BY <1>5 DEF Read, written, TypeOK
  <2>2. CASE p # q
    <3>1. Loaded(file) \in [KeyIds -> Known]
      BY <1>0, LoadedKnown
    <3>2. pc'[p] = pc[p]
      BY <1>5, <2>2, <3>1, UseTyped DEF Read
    <3> QED
      BY <1>5, <2>1, <2>2, <3>2 DEF Read, CacheCurrent, Reading
  <2> QED
    BY <2>1, <2>2
<1>6. ASSUME NEW q \in Procs, Restart(q) PROVE cache'[p] = Loaded(file')
  <2>1. p # q
    BY <1>0, <1>6 DEF Restart
  <2>2. pc'[p] = pc[p] /\ cache'[p] = cache[p] /\ cacheAge'[p] = cacheAge[p]
    BY <1>6, <2>1 DEF Restart
  <2> QED
    BY <1>6, <2>2 DEF Restart, CacheCurrent, Reading, written
<1>7. CASE Tick
  <2>1. Loaded(file') = Loaded(file)
    BY <1>0, <1>7, AgedIsList DEF Tick, Loaded
  <2>2. cacheAge[p] + 1 < TTL /\ cacheAge'[p] = cacheAge[p] + 1
    BY <1>0, <1>7 DEF Tick, Older
  <2>3. cache'[p] = cache[p] /\ ~Reading(p)
    BY <1>7, <2>2 DEF Tick, Reading
  <2>4. cacheAge[p] < sinceWrite
    BY <1>0, <1>7, <2>2 DEF Tick, Older
  <2> QED
    BY <1>0, <2>1, <2>2, <2>3, <2>4 DEF CacheCurrent
<1>8. CASE UNCHANGED vars
  BY <1>1, <1>8 DEF vars, written, loaders
<1> QED
  BY <1>2, <1>3, <1>4, <1>5, <1>6, <1>7, <1>8 DEF Next

LEMMA NoneIsStaleStep == TypeOK /\ NoneIsStale /\ [Next]_vars => NoneIsStale'
<1> SUFFICES ASSUME TypeOK, NoneIsStale, [Next]_vars, NEW p \in Procs,
                    fileMtime'[p] = "none"
             PROVE  cacheAge'[p] = TTL
  BY DEF NoneIsStale
<1>1. CASE UNCHANGED <<fileMtime, cacheAge>>
  BY <1>1 DEF NoneIsStale
<1>2. CASE Touch /\ UNCHANGED cacheAge
  BY <1>2 DEF Touch, NoneIsStale
<1>3. ASSUME NEW t \in Tools, Load(t) \/ Truncate(t) \/ Fill(t) \/ Kill(t)
      PROVE  cacheAge'[p] = TTL
  BY <1>1, <1>2, <1>3 DEF Load, Truncate, Fill, Kill, loaders
<1>4. ASSUME NEW s \in Servers, NEW q \in Providers, Receive(s, q)
      PROVE  cacheAge'[p] = TTL
  BY <1>1, <1>4 DEF Receive, loaders
<1>5. ASSUME NEW q \in Procs, Look(q) PROVE cacheAge'[p] = TTL
  <2>1. p # q /\ fileMtime'[p] = fileMtime[p]
    BY <1>5 DEF Look, TypeOK
  <2>2. cacheAge'[p] = cacheAge[p]
    BY <1>5, <2>1 DEF Look, TypeOK
  <2> QED
    BY <2>1, <2>2 DEF NoneIsStale
<1>6. ASSUME NEW q \in Procs, Read(q) PROVE cacheAge'[p] = TTL
  BY <1>1, <1>6 DEF Read
<1>7. ASSUME NEW q \in Procs, Restart(q) PROVE cacheAge'[p] = TTL
  BY <1>7 DEF Restart, NoneIsStale, TypeOK
<1>8. CASE Tick
  BY <1>8 DEF Tick, Older, NoneIsStale, TypeOK
<1>9. CASE UNCHANGED vars
  BY <1>1, <1>9 DEF vars, loaders
<1> QED
  BY <1>3, <1>4, <1>5, <1>6, <1>7, <1>8, <1>9 DEF Next

LEMMA FillMeansEmptyStep ==
  TypeOK /\ OneRun /\ FillMeansEmpty /\ [Next]_vars => FillMeansEmpty'
<1> SUFFICES ASSUME TypeOK, OneRun, FillMeansEmpty, [Next]_vars, orderly',
                    NEW t \in Tools, tool'[t] = "fill"
             PROVE  file' = Torn
  BY DEF FillMeansEmpty
<1>0. orderly
  BY OrderlyBefore
<1>1. CASE UNCHANGED <<file, tool>>
  BY <1>0, <1>1 DEF FillMeansEmpty
<1>2. ASSUME NEW u \in Tools, Load(u) PROVE file' = Torn
  <2>1. tool[t] = "fill"
    BY <1>2 DEF Load, TypeOK
  <2> QED
    BY <1>0, <1>2, <2>1 DEF Load, FillMeansEmpty, written
<1>3. ASSUME NEW u \in Tools, Truncate(u) PROVE file' = Torn
  BY <1>3 DEF Truncate, Write
<1>4. ASSUME NEW u \in Tools, Fill(u) \/ Kill(u) PROVE FALSE
  <2>1. tool[u] # "idle" /\ tool' = [tool EXCEPT ![u] = "idle"]
    BY <1>4 DEF Fill, Kill, FinishRun
  <2>2. t # u /\ tool[t] # "idle"
    BY <2>1 DEF TypeOK
  <2> QED
    BY <1>0, <2>1, <2>2 DEF OneRun
<1>5. CASE Tick
  <2>1. file = Torn
    BY <1>0, <1>5 DEF Tick, FillMeansEmpty
  <2>2. AgedList(Torn) = Torn
    BY DEF AgedList, Torn
  <2> QED
    BY <1>5, <2>1, <2>2 DEF Tick
<1> QED
  BY <1>1, <1>2, <1>3, <1>4, <1>5
     DEF Next, Receive, Look, Read, Restart, tools, written, vars

LEMMA CacheKnownStep == TypeOK /\ GInv /\ [Next]_vars => CacheKnown'
<1> SUFFICES ASSUME TypeOK, GInv, [Next]_vars, orderly', NEW p \in Procs,
                    ~Reading(p)', fileMtime'[p] # "other", cacheAge'[p] < TTL
             PROVE  cache'[p] \in {Loaded(file'), Loaded(Torn)}
  BY DEF CacheKnown
<1>0. /\ orderly /\ CacheKnown /\ NoneIsStale /\ FillMeansEmpty
      /\ cacheAge \in [Procs -> 0 .. TTL] /\ file \in Lists
  BY OrderlyBefore DEF GInv, TypeOK
<1>1. ASSUME UNCHANGED file, ~Reading(p), cache'[p] = cache[p],
             fileMtime'[p] = fileMtime[p], cacheAge'[p] = cacheAge[p]
      PROVE  cache'[p] \in {Loaded(file'), Loaded(Torn)}
  BY <1>0, <1>1 DEF CacheKnown
\* After a new modification time only a loader without one does not see a write.
<1>2. CASE Touch /\ UNCHANGED cacheAge
  BY <1>0, <1>2 DEF Touch, NoneIsStale
<1>3. ASSUME NEW t \in Tools, Load(t)
      PROVE  cache'[p] \in {Loaded(file'), Loaded(Torn)}
  BY <1>1, <1>3 DEF Load, Reading, loaders, written
<1>4. ASSUME NEW t \in Tools, Truncate(t)
      PROVE  cache'[p] \in {Loaded(file'), Loaded(Torn)}
  BY <1>2, <1>4 DEF Truncate
<1>5. ASSUME NEW t \in Tools, Fill(t)
      PROVE  cache'[p] \in {Loaded(file'), Loaded(Torn)}
  <2>1. CASE UNCHANGED fileMtime
    <3>1. file = Torn
      BY <1>0, <1>5 DEF Fill, FillMeansEmpty
    <3>2. UNCHANGED <<pc, cache, cacheAge>>
      BY <1>5 DEF Fill
    <3> QED
      BY <1>0, <2>1, <3>1, <3>2 DEF CacheKnown, Reading
  <2> QED
    BY <1>2, <1>5, <2>1 DEF Fill
<1>6. ASSUME NEW t \in Tools, Kill(t)
      PROVE  cache'[p] \in {Loaded(file'), Loaded(Torn)}
  <2>1. tool[t] # "fill"
    BY <1>6 DEF Kill
  <2> QED
    BY <1>1, <1>6, <2>1 DEF Kill, Reading, written
<1>7. ASSUME NEW s \in Servers, NEW q \in Providers, Receive(s, q)
      PROVE  cache'[p] \in {Loaded(file'), Loaded(Torn)}
  <2>1. ~Reading(p)
    BY <1>7 DEF Receive, Reading, TypeOK
  <2> QED
    BY <1>1, <1>7, <2>1 DEF Receive, written, loaders
<1>8. ASSUME NEW q \in Procs, Look(q)
      PROVE  cache'[p] \in {Loaded(file'), Loaded(Torn)}
  <2>1. file' = file
    BY <1>8 DEF Look, written
  <2>2. CASE /\ pc' = [pc EXCEPT ![q] =
                          IF pc[q] = "look" THEN "read" ELSE "readAgain"]
             /\ cacheAge' = [cacheAge EXCEPT ![q] = 0]
             /\ cache' = [cache EXCEPT ![q] = Loaded(Torn)]
    <3>1. /\ p # q /\ ~Reading(p)
          /\ cacheAge'[p] = cacheAge[p] /\ cache'[p] = cache[p]
      BY <2>2 DEF Reading, TypeOK
    <3>2. fileMtime'[p] = fileMtime[p]
      BY <1>8, <3>1 DEF Look, TypeOK
    <3> QED
      BY <1>1, <2>1, <2>2, <3>1, <3>2
  <2>3. CASE ~Stale(q) /\ Use(q, cache[q], pc[q] = "again")
             /\ UNCHANGED <<cache, cacheAge>>
    <3>1. cache[q] \in [KeyIds -> Known] /\ (pc[q] = "again") \in BOOLEAN
          /\ pc[q] # "idle"
      BY <1>8 DEF Look, TypeOK
    <3>2. \A r \in Procs : r # q => pc'[r] = pc[r]
      BY <2>3, <3>1, UseTyped
    <3>3. ~Reading(p)
      BY <1>8, <3>2 DEF Look, Reading
    <3>4. fileMtime[p] # "other"
      BY <1>8, <2>3 DEF Look, Stale, TypeOK
    <3> QED
      BY <1>0, <2>1, <2>3, <3>3, <3>4 DEF CacheKnown
  <2> QED
    BY <1>8, <2>2, <2>3 DEF Look
<1>9. ASSUME NEW q \in Procs, Read(q)
      PROVE  cache'[p] \in {Loaded(file'), Loaded(Torn)}
  <2>1. /\ UNCHANGED <<file, cacheAge, fileMtime>>
        /\ cache'[q] = Loaded(file)
    BY <1>9 DEF Read, written, TypeOK
  <2>2. CASE p # q
    <3>1. Loaded(file) \in [KeyIds -> Known]
      BY <1>0, LoadedKnown
    <3>2. pc[q] # "idle" /\ (pc[q] = "readAgain") \in BOOLEAN
      BY <1>9 DEF Read
    <3>3. pc'[p] = pc[p]
      BY <1>9, <2>2, <3>1, <3>2, UseTyped DEF Read
    <3>4. cache'[p] = cache[p]
      BY <1>9, <2>2 DEF Read, TypeOK
    <3> QED
      BY <1>1, <2>1, <3>3, <3>4 DEF Reading
  <2> QED
    BY <2>1, <2>2
<1>10. ASSUME NEW q \in Procs, Restart(q)
      PROVE  cache'[p] \in {Loaded(file'), Loaded(Torn)}
  <2>1. p # q
    BY <1>0, <1>10 DEF Restart
  <2>2. /\ pc'[p] = pc[p] /\ cache'[p] = cache[p] /\ cacheAge'[p] = cacheAge[p]
        /\ fileMtime'[p] = fileMtime[p]
    BY <1>10, <2>1 DEF Restart
  <2> QED
    BY <1>1, <1>10, <2>2 DEF Restart, Reading, written
<1>11. CASE Tick
  <2>1. Loaded(file') = Loaded(file)
    BY <1>0, <1>11, AgedIsList DEF Tick, Loaded
  <2>2. cacheAge[p] < TTL
    BY <1>0, <1>11 DEF Tick, Older
  <2>3. cache'[p] = cache[p] /\ ~Reading(p) /\ fileMtime[p] # "other"
    BY <1>11 DEF Tick, Reading
  <2> QED
    BY <1>0, <2>1, <2>2, <2>3 DEF CacheKnown
<1>12. CASE UNCHANGED vars
  BY <1>1, <1>12 DEF vars, written, loaders, Reading
<1> QED
  BY <1>3, <1>4, <1>5, <1>6, <1>7, <1>8, <1>9, <1>10, <1>11, <1>12 DEF Next

\* Steps of the processes leave the tool and the file alone.
LEMMA LastsUntouched ==
  ASSUME UNCHANGED <<file, tool, plan>>, NEW k \in KeyIds, NEW b \in Nat, Lasts(k, b)
  PROVE  LastsNext(k, b)
BY DEF Lasts, LastsNext

LEMMA CacheLastsStep ==
  TypeOK /\ GInv /\ [Next]_vars => CacheLasts'
<1> SUFFICES ASSUME TypeOK, GInv, [Next]_vars, orderly',
                    NEW p \in Procs, NEW k \in KeyIds,
                    ~Reading(p)', cacheAge'[p] < TTL, cache'[p][k] = "active"
             PROVE  LastsNext(k, cacheAge'[p] + ToolStall)
  BY DEF CacheLasts, Lasts, LastsNext
<1>0. /\ orderly /\ OneRun /\ PlanFollows /\ CacheLasts
      /\ cacheAge \in [Procs -> 0 .. TTL] /\ file \in Lists
  BY OrderlyBefore DEF GInv, TypeOK
\* Nothing has changed for p.
<1>1. ASSUME ~Reading(p), cacheAge[p] < TTL, cache[p][k] = "active"
      PROVE  /\ Lasts(k, cacheAge[p] + ToolStall)
             /\ cacheAge[p] + ToolStall \in Nat /\ cacheAge[p] + ToolStall \in 0 .. Grace
  BY <1>0, <1>1 DEF CacheLasts
<1>2. ASSUME NEW t \in Tools, Load(t) \/ Truncate(t) \/ Fill(t) \/ Kill(t)
      PROVE  LastsNext(k, cacheAge'[p] + ToolStall)
  <2>1. UNCHANGED <<pc, cache, cacheAge>>
    BY <1>2 DEF Load, Truncate, Fill, Kill, loaders
  <2>2. ~Reading(p) /\ cacheAge[p] < TTL /\ cache[p][k] = "active"
    BY <2>1 DEF Reading
  <2> QED
    BY <1>0, <1>1, <1>2, <2>1, <2>2, LastsThroughTools
<1>3. ASSUME UNCHANGED <<file, tool, plan>>,
             ~Reading(p), cache'[p] = cache[p], cacheAge'[p] = cacheAge[p]
      PROVE  LastsNext(k, cacheAge'[p] + ToolStall)
  BY <1>1, <1>3, LastsUntouched
<1>4. ASSUME NEW s \in Servers, NEW q \in Providers, Receive(s, q)
      PROVE  LastsNext(k, cacheAge'[p] + ToolStall)
  <2>1. ~Reading(p)
    BY <1>4 DEF Receive, Reading, TypeOK
  <2> QED
    BY <1>3, <1>4, <2>1 DEF Receive, written, tools, loaders
<1>5. ASSUME NEW q \in Procs, Look(q)
      PROVE  LastsNext(k, cacheAge'[p] + ToolStall)
  <2>1. CASE /\ pc' = [pc EXCEPT ![q] =
                          IF pc[q] = "look" THEN "read" ELSE "readAgain"]
             /\ cacheAge' = [cacheAge EXCEPT ![q] = 0]
             /\ cache' = [cache EXCEPT ![q] = Loaded(Torn)]
    <3>1. /\ p # q /\ ~Reading(p)
          /\ cacheAge'[p] = cacheAge[p] /\ cache'[p] = cache[p]
      BY <2>1 DEF Reading, TypeOK
    <3> QED
      BY <1>3, <1>5, <2>1, <3>1 DEF Look, written, tools
  <2>2. CASE Use(q, cache[q], pc[q] = "again") /\ UNCHANGED <<cache, cacheAge>>
    <3>1. cache[q] \in [KeyIds -> Known] /\ (pc[q] = "again") \in BOOLEAN
          /\ pc[q] # "idle"
      BY <1>5 DEF Look, TypeOK
    <3>2. \A r \in Procs : r # q => pc'[r] = pc[r]
      BY <2>2, <3>1, UseTyped
    <3>3. ~Reading(p)
      BY <1>5, <3>2 DEF Look, Reading
    <3> QED
      BY <1>3, <1>5, <2>2, <3>3 DEF Look, written, tools
  <2> QED
    BY <1>5, <2>1, <2>2 DEF Look
<1>6. ASSUME NEW q \in Procs, Read(q)
      PROVE  LastsNext(k, cacheAge'[p] + ToolStall)
  <2>1. UNCHANGED <<file, tool, plan, cacheAge>> /\ cache'[q] = Loaded(file)
    BY <1>6 DEF Read, written, tools, TypeOK
  <2>2. CASE p # q
    <3>1. Loaded(file) \in [KeyIds -> Known]
      BY <1>0, LoadedKnown
    <3>2. pc'[p] = pc[p]
      BY <1>6, <2>2, <3>1, UseTyped DEF Read
    <3>3. cache'[p] = cache[p]
      BY <1>6, <2>2 DEF Read, TypeOK
    <3> QED
      BY <1>3, <2>1, <3>2, <3>3 DEF Reading
  <2>3. CASE p = q
    <3>1. file[k].state = "active"
      <4>1. Loaded(file)[k] = "active"
        BY <2>1, <2>3
      <4>2. Loaded(file)[k] =
              IF file[k].state = "pending" THEN "retired" ELSE file[k].state
        BY DEF Loaded
      <4> QED
        BY <4>1, <4>2
    <3>2. cacheAge[p] + ToolStall \in Nat /\ ToolStall <= cacheAge[p] + ToolStall
      BY <1>0
    <3>3. Lasts(k, cacheAge[p] + ToolStall)
      BY <1>0, <3>1, <3>2, ActiveLasts
    <3> QED
      BY <2>1, <3>2, <3>3, LastsUntouched
  <2> QED
    BY <2>2, <2>3
<1>7. ASSUME NEW q \in Procs, Restart(q)
      PROVE  LastsNext(k, cacheAge'[p] + ToolStall)
  <2>1. p # q
    BY <1>0, <1>7 DEF Restart
  <2>2. pc'[p] = pc[p] /\ cache'[p] = cache[p] /\ cacheAge'[p] = cacheAge[p]
    BY <1>7, <2>1 DEF Restart
  <2> QED
    BY <1>3, <1>7, <2>2 DEF Restart, Reading, written, tools
<1>8. CASE Tick
  <2>1. cacheAge[p] + 1 < TTL /\ cacheAge'[p] = cacheAge[p] + 1
    BY <1>0, <1>8 DEF Tick, Older
  <2>2. cache'[p] = cache[p] /\ ~Reading(p)
    BY <1>8, <2>1 DEF Tick, Reading
  <2>3. cacheAge[p] < TTL /\ cache[p][k] = "active"
    BY <1>0, <2>1, <2>2
  <2>4. /\ cacheAge'[p] + ToolStall = (cacheAge[p] + ToolStall) + 1
        /\ Lasts(k, cacheAge[p] + ToolStall) /\ cacheAge[p] + ToolStall \in Nat
    BY <1>0, <1>1, <2>1, <2>2, <2>3
  <2>5. LastsNext(k, (cacheAge[p] + ToolStall) + 1)
    BY <1>8, <2>4, LastsThroughTick
  <2> QED
    BY <2>4, <2>5
<1>9. CASE UNCHANGED vars
  BY <1>3, <1>9 DEF vars, written, tools, loaders, Reading
<1> QED
  BY <1>2, <1>4, <1>5, <1>6, <1>7, <1>8, <1>9 DEF Next

\* What a request that has just been signed with an active key rests on.
LEMMA SignedLasts ==
  ASSUME TypeOK, NEW p \in Procs, NEW keys \in [KeyIds -> Known], NEW again \in BOOLEAN,
         Use(p, keys, again), NEW q \in Providers, request'[q].active,
         request'[q] # request[q]
  PROVE  /\ request'[q].age = 0 /\ request'[q].key \in KeyIds
         /\ keys[request'[q].key] = "active"
<1>1. Sign(p, keys, again) /\ p \in Providers
  BY DEF Use, Verify, Sign, TypeOK
<1>2. PICK k \in KeyIds : Send(p, k, keys)
  BY <1>1 DEF Sign
<1>3. q = p /\ request'[q] = [key |-> k, age |-> 0, active |-> keys[k] = "active"]
  BY <1>2 DEF Send, TypeOK
<1>4. request'[q].age = 0 /\ request'[q].key = k
  BY <1>3
<1>5. ASSUME keys[k] # "active" PROVE FALSE
  <2>1. (keys[k] = "active") = FALSE
    BY <1>5, Zenon
  <2>2. request'[q] = [key |-> k, age |-> 0, active |-> FALSE]
    BY <1>3, <2>1, Zenon
  <2> QED
    BY <2>2
<1> QED
  BY <1>4, <1>5

\* A look-up either signs nothing new, or signs with a key that lasts.
LEMMA LookUpLasts ==
  ASSUME TypeOK, GInv, orderly, NEW p \in Procs, Look(p) \/ Read(p),
         NEW q \in Providers, request'[q].active, request'[q] # request[q]
  PROVE  /\ request'[q].age = 0 /\ request'[q].key \in KeyIds
         /\ Lasts(request'[q].key, Lag)
<1>0. PlanFollows /\ CacheLasts
  BY DEF GInv
<1>1. CASE Look(p)
  <2>1. ~Stale(p) /\ Use(p, cache[p], pc[p] = "again")
    BY <1>1 DEF Look, traffic
  <2>2. cache[p] \in [KeyIds -> Known] /\ (pc[p] = "again") \in BOOLEAN
    BY DEF TypeOK
  <2>3. /\ request'[q].age = 0 /\ request'[q].key \in KeyIds
        /\ cache[p][request'[q].key] = "active"
    BY <2>1, <2>2, SignedLasts
  <2>4. ~Reading(p) /\ cacheAge[p] \in 0 .. TTL /\ cacheAge[p] < TTL
    <3>1. cacheAge[p] # TTL
      BY <2>1 DEF Stale
    <3>2. ~Reading(p)
      BY <1>1 DEF Look, Reading
    <3>3. cacheAge \in [Procs -> 0 .. TTL]
      BY DEF TypeOK
    <3> QED
      BY <3>1, <3>2, <3>3
  <2>5. Lasts(request'[q].key, cacheAge[p] + ToolStall)
    BY <1>0, <2>3, <2>4 DEF CacheLasts
  <2>6. /\ cacheAge[p] + ToolStall \in Nat /\ Lag \in Nat
        /\ cacheAge[p] + ToolStall <= Lag
    BY <2>4
  <2> QED
    BY <2>3, <2>5, <2>6, LastsMore
<1>2. CASE Read(p)
  <2>1. Use(p, Loaded(file), pc[p] = "readAgain") /\ file \in Lists
    BY <1>2 DEF Read, TypeOK
  <2>2. Loaded(file) \in [KeyIds -> Known] /\ (pc[p] = "readAgain") \in BOOLEAN
    BY <2>1, LoadedKnown
  <2>3. /\ request'[q].age = 0 /\ request'[q].key \in KeyIds
        /\ Loaded(file)[request'[q].key] = "active"
    BY <2>1, <2>2, SignedLasts
  <2>4. file[request'[q].key].state = "active"
    <3>1. \A k \in KeyIds : Loaded(file)[k] =
            IF file[k].state = "pending" THEN "retired" ELSE file[k].state
      BY DEF Loaded
    <3> QED
      BY <2>3, <3>1
  <2>5. Lag \in Nat /\ ToolStall <= Lag
    OBVIOUS
  <2> QED
    BY <1>0, <2>3, <2>4, <2>5, ActiveLasts
<1> QED
  BY <1>1, <1>2

LEMMA RequestsLastStep == TypeOK /\ GInv /\ [Next]_vars => RequestsLast'
<1> SUFFICES ASSUME TypeOK, GInv, [Next]_vars, orderly',
                    NEW p \in Providers, request'[p].active
             PROVE  /\ request'[p].age <= Latency
                    /\ LastsNext(request'[p].key, request'[p].age + Lag)
  BY DEF RequestsLast, Lasts, LastsNext
<1>0. orderly /\ OneRun /\ RequestsLast /\ request[p] \in Requests
  BY OrderlyBefore DEF GInv, TypeOK
<1> DEFINE b == request[p].age + Lag
<1>1. ASSUME request[p].active
      PROVE  /\ request[p].key \in KeyIds /\ request[p].age \in 0 .. Latency
             /\ b \in 0 .. Grace /\ b \in Nat
             /\ Lasts(request[p].key, b)
  <2>1. request[p].key \in KeyIds /\ request[p].age \in 0 .. Latency + 1
    BY <1>0, <1>1 DEF Requests, NoRequest
  <2>2. request[p].age <= Latency /\ Lasts(request[p].key, b)
    BY <1>0, <1>1 DEF RequestsLast
  <2> QED
    BY <2>1, <2>2
<1> HIDE DEF b
<1>2. ASSUME NEW t \in Tools, Load(t) \/ Truncate(t) \/ Fill(t) \/ Kill(t)
      PROVE  /\ request'[p].age <= Latency
             /\ LastsNext(request'[p].key, request'[p].age + Lag)
  <2>1. request' = request
    BY <1>2 DEF Load, Truncate, Fill, Kill, traffic
  <2>2. LastsNext(request[p].key, b)
    BY <1>0, <1>1, <1>2, <2>1, LastsThroughTools
  <2> QED
    BY <1>1, <2>1, <2>2 DEF b
<1>3. ASSUME UNCHANGED <<file, tool, plan>>, request'[p] = request[p]
      PROVE  /\ request'[p].age <= Latency
             /\ LastsNext(request'[p].key, request'[p].age + Lag)
  <2>1. LastsNext(request[p].key, b)
    BY <1>1, <1>3, LastsUntouched
  <2> QED
    BY <1>1, <1>3, <2>1 DEF b
<1>4. ASSUME NEW q \in Procs, Look(q) \/ Read(q)
      PROVE  /\ request'[p].age <= Latency
             /\ LastsNext(request'[p].key, request'[p].age + Lag)
  <2>1. UNCHANGED <<file, tool, plan>>
    BY <1>4 DEF Look, Read, written, tools
  <2>2. CASE request'[p] # request[p]
    <3>1. /\ request'[p].age = 0 /\ request'[p].key \in KeyIds
          /\ Lasts(request'[p].key, Lag)
      BY <1>0, <1>4, <2>2, LookUpLasts
    <3>2. LastsNext(request'[p].key, Lag)
      BY <2>1, <3>1, LastsUntouched
    <3>3. request'[p].age + Lag = Lag
      BY <3>1
    <3> QED
      BY <3>1, <3>2, <3>3
  <2> QED
    BY <1>3, <2>1, <2>2
<1>5. CASE Tick
  <2>1. request'[p] = AgedRequest(request[p])
    BY <1>5 DEF Tick
  <2>2. /\ request[p] # NoRequest /\ ~(request[p].age >= Latency)
        /\ request'[p] = [request[p] EXCEPT !.age = @ + 1]
    BY <2>1 DEF AgedRequest, NoRequest
  <2>3. request[p] \in [key : KeyIds, age : 0 .. Latency + 1, active : BOOLEAN]
    BY <1>0, <2>2 DEF Requests
  <2>4. /\ request[p].active /\ request'[p].key = request[p].key
        /\ request'[p].age = request[p].age + 1
    BY <2>2, <2>3
  <2>5. LastsNext(request[p].key, b + 1)
    BY <1>1, <1>5, <2>4, LastsThroughTick
  <2>6. request'[p].age + Lag = b + 1 /\ request'[p].age <= Latency
    BY <2>2, <2>3, <2>4 DEF b
  <2> QED
    BY <2>4, <2>5, <2>6
<1>6. ASSUME NEW s \in Servers, NEW q \in Providers, Receive(s, q)
      PROVE  /\ request'[p].age <= Latency
             /\ LastsNext(request'[p].key, request'[p].age + Lag)
  <2>1. UNCHANGED <<file, tool, plan>>
    BY <1>6 DEF Receive, written, tools
  <2>2. p # q
    BY <1>6 DEF Receive, NoRequest, TypeOK
  <2>3. request'[p] = request[p]
    BY <1>6, <2>2 DEF Receive, TypeOK
  <2> QED
    BY <1>3, <2>1, <2>3
<1> QED
  BY <1>2, <1>3, <1>4, <1>5, <1>6
     DEF Next, Restart, written, tools, traffic, vars

LEMMA JobsLastStep == TypeOK /\ GInv /\ [Next]_vars => JobsLast'
<1> SUFFICES ASSUME TypeOK, GInv, [Next]_vars, orderly',
                    NEW s \in Servers, job'[s].active, job'[s].age <= Latency
             PROVE  LastsNext(job'[s].key, job'[s].age + Lag)
  BY DEF JobsLast, Lasts, LastsNext
<1>0. /\ orderly /\ OneRun /\ JobsLast /\ RequestsLast
      /\ job \in [Servers -> Requests]
  BY OrderlyBefore DEF GInv, TypeOK
\* A request that has been lasting so far.
<1>1. ASSUME NEW r \in Requests, r.active, r.age <= Latency
      PROVE  /\ r.key \in KeyIds /\ r.age \in 0 .. Latency
             /\ r.age + Lag \in 0 .. Grace
             /\ r.age + Lag \in Nat
  <2>1. r \in [key : KeyIds, age : 0 .. Latency + 1, active : BOOLEAN]
    BY <1>1 DEF Requests, NoRequest
  <2> QED
    BY <1>1, <2>1
<1>2. ASSUME NEW t \in Tools, Load(t) \/ Truncate(t) \/ Fill(t) \/ Kill(t)
      PROVE  LastsNext(job'[s].key, job'[s].age + Lag)
  <2>1. job' = job
    BY <1>2 DEF Load, Truncate, Fill, Kill, traffic
  <2>2. Lasts(job[s].key, job[s].age + Lag)
    BY <1>0, <2>1 DEF JobsLast
  <2> QED
    BY <1>0, <1>1, <1>2, <2>1, <2>2, LastsThroughTools
<1>3. ASSUME UNCHANGED <<file, tool, plan>>, job'[s] = job[s]
      PROVE  LastsNext(job'[s].key, job'[s].age + Lag)
  <2>1. Lasts(job[s].key, job[s].age + Lag)
    BY <1>0, <1>3 DEF JobsLast
  <2> QED
    BY <1>0, <1>1, <1>3, <2>1, LastsUntouched
<1>4. ASSUME NEW q \in Servers, NEW p \in Providers, Receive(q, p)
      PROVE  LastsNext(job'[s].key, job'[s].age + Lag)
  <2>1. UNCHANGED <<file, tool, plan>>
    BY <1>4 DEF Receive, written, tools
  <2>2. CASE q = s
    <3>1. job'[s] = request[p] /\ request[p] \in Requests
      BY <1>0, <1>4, <2>2 DEF Receive, TypeOK
    <3>2. Lasts(request[p].key, request[p].age + Lag)
      BY <1>0, <3>1 DEF RequestsLast
    <3> QED
      BY <1>1, <2>1, <3>1, <3>2, LastsUntouched
  <2>3. CASE q # s
    BY <1>0, <1>3, <1>4, <2>1, <2>3 DEF Receive
  <2> QED
    BY <2>2, <2>3
<1>5. ASSUME NEW q \in Procs, Look(q) \/ Read(q) \/ Restart(q)
      PROVE  LastsNext(job'[s].key, job'[s].age + Lag)
  <2>1. UNCHANGED <<file, tool, plan>>
    BY <1>5 DEF Look, Read, Restart, written, tools
  <2>2. job'[s] = job[s] \/ job'[s] = NoRequest
    BY <1>0, <1>5 DEF Look, Read, Restart, Use, Verify, Sign, traffic
  <2> QED
    BY <1>3, <2>1, <2>2 DEF NoRequest
<1>6. CASE Tick
  <2>1. job[s] # NoRequest /\ job'[s] = Aged(job[s])
    BY <1>0, <1>6 DEF Tick, NoRequest
  <2>2. job[s] \in [key : KeyIds, age : 0 .. Latency + 1, active : BOOLEAN]
    BY <1>0, <2>1 DEF Requests
  <2>3. /\ job'[s].key = job[s].key /\ job'[s].active = job[s].active
        /\ job'[s].age = Older(job[s].age, Latency + 1)
    BY <2>1, <2>2 DEF Aged
  <2>4. job'[s].age = job[s].age + 1 /\ job[s].age <= Latency
    BY <2>2, <2>3 DEF Older
  <2>5. Lasts(job[s].key, job[s].age + Lag)
    BY <1>0, <2>3, <2>4 DEF JobsLast
  <2>6. /\ job[s].key \in KeyIds /\ job[s].age + Lag \in Nat
        /\ job'[s].age + Lag = (job[s].age + Lag) + 1
    BY <2>2, <2>4
  <2>7. LastsNext(job[s].key, (job[s].age + Lag) + 1)
    BY <1>6, <2>5, <2>6, LastsThroughTick
  <2> QED
    BY <2>3, <2>6, <2>7
<1>7. CASE UNCHANGED vars
  BY <1>3, <1>7 DEF vars, written, tools, traffic
<1> QED
  BY <1>2, <1>4, <1>5, <1>6, <1>7 DEF Next

LEMMA GInvariance == Spec => [](IInv /\ GInv)
<1>1. Init => GInv
  BY GInit
<1>2. TypeOK /\ GInv /\ [Next]_vars => GInv'
  BY OneRunStep, FillIsShortStep, PlanFollowsStep, CacheCurrentStep,
     CacheKnownStep, NoneIsStaleStep, FillMeansEmptyStep, CacheLastsStep, RequestsLastStep, JobsLastStep DEF GInv
<1>3. IInv => TypeOK
  BY DEF IInv
<1> QED
  BY <1>1, <1>2, <1>3, Invariance, PTL DEF Spec

\* What a server may see of a key that lasts: that it is good, or, when the file
\* was empty, nothing.
LEMMA RefusalExcused ==
  ASSUME TypeOK, GInv, Next, NEW s \in Servers, pc[s] # "idle",
         answer'[s] \in {"missing", "retired"}, answer[s] = "none",
         orderly, job[s].active, job[s].age <= Latency
  PROVE  answer'[s] = "missing" /\ sinceWrite < TTL
<1>0. /\ JobsLast /\ CacheCurrent /\ CacheKnown /\ FillIsShort /\ FillMeansEmpty
      /\ NoneIsStale /\ file \in Lists /\ job[s] \in Requests
      /\ sinceWrite \in 0 .. TTL
  BY DEF GInv, TypeOK
<1>1. job[s].key \in KeyIds /\ job[s].age \in 0 .. Latency
  BY <1>0 DEF Requests, NoRequest
<1> DEFINE k == job[s].key
<1>2. \/ Loaded(file)[k] \in Good
      \/ Loaded(file)[k] = "missing" /\ sinceWrite < TTL
  <2>1. CASE \A t \in Tools : tool[t] # "fill"
    <3>1. Covered(file, k, job[s].age + Lag)
      BY <1>0, <2>1 DEF JobsLast, Lasts
    <3> QED
      BY <1>1, <3>1 DEF Covered, Loaded, Good
  <2>2. CASE \E t \in Tools : tool[t] = "fill"
    <3>1. file = Torn
      BY <1>0, <2>2 DEF FillMeansEmpty
    <3>2. sinceWrite < TTL
      BY <1>0, <2>2 DEF FillIsShort, TypeOK
    <3> QED
      BY <1>1, <3>1, <3>2 DEF Torn, Loaded
  <2> QED
    BY <2>1, <2>2
<1>3. Loaded(Torn)[k] = "missing"
  BY <1>1 DEF Torn, Loaded
\* The answer of a refusing look-up.
<1>4. ASSUME NEW p \in Procs, NEW keys, NEW again, Use(p, keys, again)
      PROVE  p = s /\ keys[k] \notin Good /\ answer'[s] = keys[k]
  <2>1. Verify(p, keys)
    BY <1>4 DEF Use, Sign, TypeOK
  <2>2. p = s
    BY <2>1 DEF Verify, TypeOK
  <2> QED
    BY <2>1, <2>2 DEF Verify, TypeOK
<1>5. ASSUME NEW p \in Procs, Look(p)
      PROVE  answer'[s] = "missing" /\ sinceWrite < TTL
  <2>1. ~Stale(p) /\ Use(p, cache[p], pc[p] = "again")
    BY <1>5 DEF Look, traffic
  <2>2. p = s /\ cache[s][k] \notin Good /\ answer'[s] = cache[s][k]
    BY <1>4, <2>1
  <2>3. cacheAge[s] < TTL /\ ~Reading(s) /\ fileMtime[s] # "other"
    <3>1. cacheAge[s] # TTL /\ fileMtime[s] # "other"
      BY <2>1, <2>2 DEF Stale
    <3>2. ~Reading(s)
      BY <1>5, <2>2 DEF Look, Reading
    <3>3. cacheAge \in [Procs -> 0 .. TTL]
      BY DEF TypeOK
    <3> QED
      BY <3>1, <3>2, <3>3
  <2>4. cache[s] = Loaded(file) \/ cache[s] = Loaded(Torn)
    BY <1>0, <2>3 DEF CacheKnown
  <2>5. cache[s] # Loaded(file) => sinceWrite < TTL
    BY <1>0, <2>3 DEF CacheCurrent
  <2> QED
    BY <1>2, <1>3, <2>2, <2>4, <2>5
<1>6. ASSUME NEW p \in Procs, Read(p)
      PROVE  answer'[s] = "missing" /\ sinceWrite < TTL
  <2>1. Loaded(file)[k] \notin Good /\ answer'[s] = Loaded(file)[k]
    BY <1>4, <1>6 DEF Read
  <2> QED
    BY <1>2, <2>1
<1>7. ASSUME NEW p \in Procs, Restart(p) PROVE FALSE
  BY <1>7 DEF Restart
<1>8. ASSUME NEW t \in Tools, Load(t) \/ Truncate(t) \/ Fill(t) \/ Kill(t)
      PROVE  FALSE
  BY <1>8 DEF Load, Truncate, Fill, Kill, traffic
<1>9. ASSUME NEW q \in Servers, NEW p \in Providers, Receive(q, p) PROVE FALSE
  BY <1>9 DEF Receive, TypeOK
<1>10. CASE Tick
  BY <1>10 DEF Tick
<1> QED
  BY <1>5, <1>6, <1>7, <1>8, <1>9, <1>10 DEF Next

\* The grace period is long enough, for any number of processes, tools and keys
\* and for all times that GraceAssumption allows.
THEOREM GraceHolds == Spec => GraceSuffices
<1>1. IInv /\ GInv /\ [Next]_vars =>
        [\A s \in Servers :
           /\ orderly /\ job[s].active /\ job[s].age <= Latency
           => /\ ~Answers(s, "retired")
              /\ Answers(s, "missing") => sinceWrite < TTL]_vars
  <2> SUFFICES ASSUME IInv, GInv, Next, NEW s \in Servers,
                      orderly, job[s].active, job[s].age <= Latency
               PROVE  /\ ~Answers(s, "retired")
                      /\ Answers(s, "missing") => sinceWrite < TTL
    OBVIOUS
  <2>1. TypeOK
    BY DEF IInv
  <2> QED
    BY <2>1, RefusalExcused DEF Answers
<1> QED
  BY <1>1, GInvariance, PTL DEF Spec, GraceSuffices
=============================================================================
