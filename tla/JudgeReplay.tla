---------------------------- MODULE JudgeReplay -----------------------------
(* POST /judge (apps/judge/server.py) from the clock-skew test to the        *)
(* verdict, with the nonce store it consults (apps/judge/replay_plugins.py). *)
(* Several worker processes share one store; the network may deliver a       *)
(* signed request late and any number of times; a worker may crash, and the  *)
(* store may fail, between any two steps.  Time is counted in whole seconds. *)
EXTENDS Integers

CONSTANTS
  Workers,     \* processes serving POST /judge
  Nonces,      \* nonces; HTTPJudgeProvider draws a fresh one per attempt
  Backends,    \* stores the deployment may run with: "sqlite", "redis"
  TTL,         \* TTL_SEC, how long a nonce is kept
  StoreSkew,   \* SKEW_SEC, the skew the store allows on top of TTL
  Skew,        \* the skew post_judge allows
  Stall,       \* longest time from the skew test to the store's answer
  Drift,       \* how far the clock of a provider may be off
  MaxTime      \* bound: the clock stops here

ASSUME BackendAssumption == Backends \subseteq {"sqlite", "redis"}

ASSUME NoncesAssumption == -1 \notin Nonces

ASSUME TimeAssumption ==
  /\ TTL \in Nat /\ StoreSkew \in Nat /\ Skew \in Nat
  /\ Stall \in Nat /\ Drift \in Nat /\ MaxTime \in Nat

\* A stored nonce must outlive every moment at which its request could still
\* pass the skew test and reach the store.  SQLite counts the TTL from the
\* request's timestamp, Redis from the insertion, which may be Skew earlier.
ASSUME RetentionAssumption ==
  /\ "sqlite" \in Backends => Skew + Stall <= TTL
  /\ "redis" \in Backends => 2 * Skew + Stall < TTL

VARIABLES
  backend,    \* the store of this deployment (DECISIONOS_REPLAY_BACKEND)
  now,        \* the clock of the server
  stamp,      \* stamp[n]: timestamp of the signed request with nonce n
  row,        \* row[n]: its row; SQLite keeps its ts, Redis the expiry time
  pc,         \* where each worker is in post_judge
  cur,        \* the nonce each worker is serving
  begun,      \* when each worker made its skew test
  wnow,       \* the time each worker read inside seen_or_insert
  inserted,   \* history: how often a row was inserted for n
  judged,     \* history: how often the request n got a verdict
  refusals,   \* history: the 401 answers n got
  failed      \* history: the nonces whose call to Redis raised

store == <<backend, row, inserted>>
local == <<pc, cur, begun, wnow>>
vars  == <<backend, now, stamp, row, pc, cur, begun, wnow, inserted, judged,
           refusals, failed>>

None == -1

Steps == {"idle", "skewOk", "stamped", "inserted", "admitted"}

AtStore == {"skewOk", "stamped"}

Distance(a, b) == IF a >= b THEN a - b ELSE b - a

WithinSkew(t, ts) == Distance(t, ts) <= Skew

\* Variant of InStoreWindow: the store repeats the test of post_judge.
InStoreWindowNarrow(t, ts) == Distance(t, ts) <= Skew

InStoreWindow(t, ts) == Distance(t, ts) <= StoreSkew + TTL

\* A Redis key is gone once its time to live has elapsed; a SQLite row stays
\* until a purge deletes it.
Stored(n) ==
  /\ row[n] # None
  /\ backend = "redis" => now < row[n]

\* Variant of Expired: the skew in place of the TTL.
ExpiredBySkew(t, n) == row[n] # None /\ t - row[n] > StoreSkew

Expired(t, n) == row[n] # None /\ t - row[n] > TTL

Init ==
  /\ backend \in Backends
  /\ now = 0
  /\ stamp = [n \in Nonces |-> None]
  /\ row = [n \in Nonces |-> None]
  /\ pc = [w \in Workers |-> "idle"]
  /\ cur = [w \in Workers |-> None]
  /\ begun = [w \in Workers |-> 0]
  /\ wnow = [w \in Workers |-> 0]
  /\ inserted = [n \in Nonces |-> 0]
  /\ judged = [n \in Nonces |-> 0]
  /\ refusals = [n \in Nonces |-> {}]
  /\ failed = {}

-----------------------------------------------------------------------------
\* A provider signs a request with a fresh nonce and the time of its own clock.
Send(n, ts) ==
  /\ stamp[n] = None
  /\ Distance(now, ts) <= Drift
  /\ stamp' = [stamp EXCEPT ![n] = ts]
  /\ UNCHANGED <<now, store, local, judged, refusals, failed>>

\* The worker goes back to its event loop with nothing left of the request.
Finish(w) ==
  /\ pc' = [pc EXCEPT ![w] = "idle"]
  /\ begun' = [begun EXCEPT ![w] = 0]
  /\ wnow' = [wnow EXCEPT ![w] = 0]
  /\ cur' = [cur EXCEPT ![w] = None]

Refuse(w, n, reason) ==
  /\ refusals' = [refusals EXCEPT ![n] = @ \cup {reason}]
  /\ Finish(w)

\* A delivery, the first or a repeated one, reaches the skew test.
Receive(w, n) ==
  /\ pc[w] = "idle"
  /\ stamp[n] # None
  /\ \/ /\ WithinSkew(now, stamp[n])
        /\ pc' = [pc EXCEPT ![w] = "skewOk"]
        /\ cur' = [cur EXCEPT ![w] = n]
        /\ begun' = [begun EXCEPT ![w] = now]
        /\ UNCHANGED <<wnow, refusals>>
     \/ ~WithinSkew(now, stamp[n]) /\ Refuse(w, n, "skew")
  /\ UNCHANGED <<now, stamp, store, judged, failed>>

\* seen_or_insert reads the clock again and tests its own, wider window.
ReadClock(w) ==
  /\ pc[w] = "skewOk"
  /\ \/ /\ InStoreWindow(now, stamp[cur[w]])
        /\ pc' = [pc EXCEPT ![w] = "stamped"]
        /\ wnow' = [wnow EXCEPT ![w] = now]
        /\ UNCHANGED <<cur, begun, refusals>>
     \/ ~InStoreWindow(now, stamp[cur[w]]) /\ Refuse(w, cur[w], "replay")
  /\ UNCHANGED <<now, stamp, store, judged, failed>>

Insert(w, value) ==
  /\ row' = [row EXCEPT ![cur[w]] = value]
  /\ inserted' = [inserted EXCEPT ![cur[w]] = @ + 1]
  /\ UNCHANGED backend

\* INSERT and commit; the primary key refuses a nonce that is there.
SqliteInsert(w) ==
  /\ backend = "sqlite"
  /\ pc[w] = "stamped"
  /\ \/ /\ ~Stored(cur[w])
        /\ Insert(w, stamp[cur[w]])
        /\ pc' = [pc EXCEPT ![w] = "inserted"]
        /\ UNCHANGED <<cur, begun, wnow, refusals>>
     \/ /\ Stored(cur[w])
        /\ Refuse(w, cur[w], "replay")
        /\ UNCHANGED store
  /\ UNCHANGED <<now, stamp, judged, failed>>

\* DELETE and commit, with the time read before the insertion.
SqlitePurge(w) ==
  /\ backend = "sqlite"
  /\ pc[w] = "inserted"
  /\ row' = [n \in Nonces |-> IF Expired(wnow[w], n) THEN None ELSE row[n]]
  /\ pc' = [pc EXCEPT ![w] = "admitted"]
  /\ UNCHANGED <<backend, now, stamp, cur, begun, wnow, inserted, judged,
                 refusals, failed>>

\* SET key ts NX EX TTL_SEC: one command, counted from the server's time.
RedisSet(w) ==
  /\ backend = "redis"
  /\ pc[w] = "stamped"
  /\ \/ /\ ~Stored(cur[w])
        /\ Insert(w, now + TTL)
        /\ pc' = [pc EXCEPT ![w] = "admitted"]
        /\ UNCHANGED <<cur, begun, wnow, refusals>>
     \/ /\ Stored(cur[w])
        /\ Refuse(w, cur[w], "replay")
        /\ UNCHANGED store
  /\ UNCHANGED <<now, stamp, judged, failed>>

\* Variant of SqliteError: the row is taken back, for the request to be sent
\* again.
SqliteErrorUndone(w) ==
  /\ backend = "sqlite"
  /\ pc[w] \in {"stamped", "inserted"}
  /\ row' = [row EXCEPT ![cur[w]] = IF pc[w] = "inserted" THEN None ELSE @]
  /\ Finish(w)
  /\ UNCHANGED <<backend, now, stamp, inserted, judged, refusals, failed>>

\* An exception of the SQLite driver (the database stayed locked) leaves
\* seen_or_insert: HTTP 500, and a row inserted before it stays.
SqliteError(w) ==
  /\ backend = "sqlite"
  /\ pc[w] \in {"stamped", "inserted"}
  /\ Finish(w)
  /\ UNCHANGED <<now, stamp, store, judged, refusals, failed>>

\* An exception of the Redis client is answered "replay detected", too; the
\* command may or may not have been executed before the connection failed.
RedisError(w) ==
  /\ backend = "redis"
  /\ pc[w] = "stamped"
  /\ \/ UNCHANGED store
     \/ ~Stored(cur[w]) /\ Insert(w, now + TTL)
  /\ failed' = failed \cup {cur[w]}
  /\ Refuse(w, cur[w], "replay")
  /\ UNCHANGED <<now, stamp, judged>>

\* The request was admitted: it is judged, or its payload (400) or its scope
\* (403) is refused, which uses up the nonce all the same.
Answer(w) ==
  /\ pc[w] = "admitted"
  /\ \/ judged' = [judged EXCEPT ![cur[w]] = @ + 1]
     \/ UNCHANGED judged
  /\ Finish(w)
  /\ UNCHANGED <<now, stamp, store, refusals, failed>>

Crash(w) ==
  /\ pc[w] # "idle"
  /\ Finish(w)
  /\ UNCHANGED <<now, stamp, store, judged, refusals, failed>>

\* Time passes, but not beyond the longest stall of a worker at the store.
Tick ==
  /\ now < MaxTime
  /\ \A w \in Workers : pc[w] \in AtStore => now < begun[w] + Stall
  /\ now' = now + 1
  /\ UNCHANGED <<stamp, store, local, judged, refusals, failed>>

Serve(w) ==
  \/ \E n \in Nonces : Receive(w, n)
  \/ ReadClock(w)
  \/ SqliteInsert(w)
  \/ SqlitePurge(w)
  \/ RedisSet(w)
  \/ SqliteError(w)
  \/ RedisError(w)
  \/ Answer(w)
  \/ Crash(w)

Next ==
  \/ \E n \in Nonces, ts \in 0 .. MaxTime + Drift : Send(n, ts)
  \/ \E w \in Workers : Serve(w)
  \/ Tick

Spec == Init /\ [][Next]_vars

-----------------------------------------------------------------------------
(* Properties *)

\* Every variable has its type; a worker has a request exactly while it is in
\* post_judge.
TypeOK ==
  /\ backend \in Backends
  /\ now \in 0 .. MaxTime
  /\ stamp \in [Nonces -> Nat \cup {None}]
  /\ row \in [Nonces -> Nat \cup {None}]
  /\ pc \in [Workers -> Steps]
  /\ cur \in [Workers -> Nonces \cup {None}]
  /\ \A w \in Workers : pc[w] = "idle" <=> cur[w] = None
  /\ begun \in [Workers -> 0 .. MaxTime]
  /\ wnow \in [Workers -> 0 .. MaxTime]
  /\ inserted \in [Nonces -> Nat]
  /\ judged \in [Nonces -> Nat]
  /\ refusals \in [Nonces -> SUBSET {"skew", "replay"}]
  /\ failed \subseteq Nonces

\* However often a signed request is delivered, to however many workers, with
\* purges and expiries in between, post_judge gives it at most one verdict.
JudgedAtMostOnce == \A n \in Nonces : judged[n] <= 1

\* While a request can still get past the skew test and reach the store in
\* time, the store still holds the nonce it once inserted for it.
NonceRetained ==
  \A n \in Nonces :
    inserted[n] > 0 /\ now <= stamp[n] + Skew + Stall => Stored(n)

\* "replay detected" has two causes only: the nonce was inserted before, or a
\* call to Redis for it raised (RedisReplayStore answers such a failure with
\* the same words, for a nonce it may never have stored).  It never comes from
\* the window of the store being narrower than the skew post_judge has just
\* accepted, and from SQLite it is never a false alarm.
ReplayHasCause ==
  \A n \in Nonces :
    "replay" \in refusals[n] =>
      inserted[n] > 0 \/ (backend = "redis" /\ n \in failed)

-----------------------------------------------------------------------------
\* A worker whose insertion succeeded, until it has answered.
Holding(w) == pc[w] \in {"inserted", "admitted"}

\* The promise, read off the history: a nonce is fresh until it is inserted,
\* and claimed by the workers that hold it.
Promise ==
  INSTANCE OnceOnly WITH
    fresh  <- {n \in Nonces : inserted[n] = 0},
    claims <- [n \in Nonces |-> {w \in Workers : Holding(w) /\ cur[w] = n}]

\* Every step of the server keeps the promise: of all deliveries of a request
\* only one is ever admitted, it alone is judged, and one that was admitted
\* and came to nothing (a crash, an error of the store, a refused payload or
\* scope) is not admitted again.
ImplementsOnceOnly == Promise!Spec

=============================================================================
