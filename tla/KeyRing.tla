------------------------------ MODULE KeyRing -------------------------------
(* The signing keys of the judges.  scripts/ops/key_rotation.py rewrites the *)
(* key file: a key goes from active to grace to retired.  Every process that *)
(* signs (HTTPJudgeProvider) or verifies (post_judge) reads the file through *)
(* a MultiKeyLoader of its own (apps/judge/crypto.py), which keeps what it   *)
(* read for a while.  The tool writes the file in place, so that a loader    *)
(* may find it empty.  Time is counted in whole units, as the age of what    *)
(* happened, up to the age from which on it makes no difference.             *)
EXTENDS Integers

CONSTANTS
  Servers,     \* processes that verify requests
  Providers,   \* processes that sign requests
  Tools,       \* runs of the rotation tool that may be under way at a time
  KeyIds,
  KeyOf,       \* KeyOf[p]: the key_id provider p is configured with
  FirstKey,    \* the key that is active at first
  TTL,         \* _ttl of the loaders
  Grace,       \* grace_days
  ToolStall,   \* longest time a run of the tool takes
  Latency      \* longest time from signing a request to verifying it

Procs == Servers \cup Providers

ASSUME ProcsAssumption ==
  /\ Servers \cap Providers = {}
  /\ KeyOf \in [Providers -> KeyIds] /\ FirstKey \in KeyIds
  /\ "none" \notin KeyIds

ASSUME TimesAssumption ==
  /\ TTL \in Nat \ {0} /\ Grace \in Nat
  /\ ToolStall \in Nat /\ Latency \in Nat

\* The code has 5 s and 7 days; a run of the tool takes far less than 5 s.
ASSUME GraceAssumption ==
  ToolStall < TTL /\ Latency + TTL + ToolStall <= Grace + 1

VARIABLES
  file,       \* the key file: state of each key and time left of its grace
  tool,       \* where each run of the tool is: idle, write, fill
  plan,       \* what it is going to write
  toolAge,    \* time since it read the file
  pc,         \* where each process is in its use of the loader
  cache,      \* _keys of each loader: the state of each key
  cacheAge,   \* time since _cache_ts
  fileMtime,  \* _file_mtime: none yet, that of the file now, or another
  request,    \* the request of each provider that is under way
  job,        \* the request each server is verifying
  answer,     \* what each server answered last
  sinceWrite, \* history: time since the file was written
  sinceGood,  \* history: time since the file listed a key as active or grace
  orderly     \* history: no run has been killed over the file, overlapped with
              \* another, or written within the resolution of fileMtime

written == <<file, sinceWrite, sinceGood>>
tools   == <<tool, plan, toolAge, orderly>>
loaders == <<cache, cacheAge, fileMtime>>
traffic == <<request, job, answer>>
vars    == <<written, tools, pc, loaders, traffic>>

Over  == -1            \* grace_until lies in the past
Never == Grace + 1     \* no grace_until

Good == {"active", "grace"}

\* An empty or half written file: the loader finds no key in it.
Torn == [k \in KeyIds |-> [state |-> "missing", left |-> Never]]

NoRequest == [key |-> "none", age |-> 0, active |-> FALSE]

\* What _reload_if_needed makes of the file: a state it does not know, like
\* "pending", counts as retired.
Loaded(f) ==
  [k \in KeyIds |-> IF f[k].state = "pending" THEN "retired" ELSE f[k].state]

Init ==
  /\ \E s \in {"pending", "grace"} :
       file = [k \in KeyIds |->
                 [state |-> IF k = FirstKey THEN "active" ELSE s, left |-> Never]]
  /\ tool = [t \in Tools |-> "idle"]
  /\ plan = [t \in Tools |-> Torn]
  /\ toolAge = [t \in Tools |-> 0]
  /\ pc = [p \in Procs |-> IF p \in Servers THEN "idle" ELSE "look"]
  /\ cache = [p \in Procs |-> Loaded(Torn)]
  /\ cacheAge = [p \in Procs |-> TTL]
  /\ fileMtime = [p \in Procs |-> "none"]
  /\ request = [p \in Providers |-> NoRequest]
  /\ job = [s \in Servers |-> NoRequest]
  /\ answer = [s \in Servers |-> "none"]
  /\ sinceWrite = TTL
  /\ sinceGood = [k \in KeyIds |-> IF file[k].state \in Good THEN 0 ELSE TTL]
  /\ orderly = TRUE

-----------------------------------------------------------------------------
(* The tool: it reads the file, works out the new list and writes it.        *)

\* rotate_key: the old key if it is active, the new one if it can become so.
Rotated(f, old, new) ==
  [k \in KeyIds |->
     IF k = old /\ f[k].state = "active"
       THEN [state |-> "grace", left |-> Grace]
     ELSE IF k = new /\ k # old /\ f[k].state \in {"grace", "pending"}
       THEN [state |-> "active", left |-> Never]
     ELSE f[k]]

\* Variant of Retired: the end of the grace period is not looked at.
RetiredAtOnce(f) ==
  [k \in KeyIds |->
     IF f[k].state = "grace" /\ f[k].left # Never
       THEN [state |-> "retired", left |-> Never]
     ELSE f[k]]

\* retire_grace_keys: grace keys whose time is over.
Retired(f) ==
  [k \in KeyIds |->
     IF f[k].state = "grace" /\ f[k].left = Over
       THEN [state |-> "retired", left |-> Never]
     ELSE f[k]]

\* Without keys in the file the tool gives up.
Load(t) ==
  /\ tool[t] = "idle"
  /\ file # Torn
  /\ \/ \E old, new \in KeyIds :
          plan' = [plan EXCEPT ![t] = Rotated(file, old, new)]
     \/ plan' = [plan EXCEPT ![t] = Retired(file)]
  /\ tool' = [tool EXCEPT ![t] = "write"]
  /\ orderly' = (orderly /\ \A u \in Tools : tool[u] = "idle")
  /\ UNCHANGED <<written, toolAge, pc, loaders, traffic>>

Write(f) ==
  /\ file' = f
  /\ sinceWrite' = 0
  /\ sinceGood' =
       [k \in KeyIds |-> IF f[k].state \in Good THEN 0 ELSE sinceGood[k]]

\* The file gets a modification time that no loader has seen.
Touch ==
  fileMtime' = [p \in Procs |-> IF fileMtime[p] = "none" THEN "none" ELSE "other"]

\* write_text opens the file, which empties it ...
Truncate(t) ==
  /\ tool[t] = "write"
  /\ Write(Torn)
  /\ \/ Touch /\ UNCHANGED orderly
     \/ sinceWrite = 0 /\ orderly' = FALSE /\ UNCHANGED fileMtime
  /\ tool' = [tool EXCEPT ![t] = "fill"]
  /\ UNCHANGED <<plan, toolAge, pc, cache, cacheAge, traffic>>

FinishRun(t) ==
  /\ tool' = [tool EXCEPT ![t] = "idle"]
  /\ plan' = [plan EXCEPT ![t] = Torn]
  /\ toolAge' = [toolAge EXCEPT ![t] = 0]

\* ... and fills it, maybe so soon that the modification time stays.
Fill(t) ==
  /\ tool[t] = "fill"
  /\ Write(plan[t])
  /\ Touch \/ UNCHANGED fileMtime
  /\ FinishRun(t)
  /\ UNCHANGED <<orderly, pc, cache, cacheAge, traffic>>

\* A run is killed.  One that is killed over the file, or that writes into what
\* another run is writing, leaves what is not JSON.
Kill(t) ==
  /\ tool[t] # "idle"
  /\ FinishRun(t)
  /\ IF tool[t] = "fill"
       THEN /\ Write(Torn)
            /\ Touch \/ UNCHANGED fileMtime
            /\ orderly' = FALSE
       ELSE UNCHANGED <<written, fileMtime, orderly>>
  /\ UNCHANGED <<pc, cache, cacheAge, traffic>>

-----------------------------------------------------------------------------
(* The processes that sign and verify.                                       *)

\* A request reaches a server: verify_with_multikey is about to look up its key.
\* One that is sent again is here like one that comes later.
Receive(s, p) ==
  /\ pc[s] = "idle"
  /\ request[p] # NoRequest
  /\ request' = [request EXCEPT ![p] = NoRequest]
  /\ job' = [job EXCEPT ![s] = request[p]]
  /\ answer' = [answer EXCEPT ![s] = "none"]
  /\ pc' = [pc EXCEPT ![s] = "look"]
  /\ UNCHANGED <<written, tools, loaders>>

\* A key is accepted in state active or grace, and otherwise refused as missing
\* or retired.
Verify(s, keys) ==
  /\ s \in Servers
  /\ answer' = [answer EXCEPT ![s] =
       IF keys[job[s].key] \in Good THEN "accepted" ELSE keys[job[s].key]]
  /\ job' = [job EXCEPT ![s] = NoRequest]
  /\ pc' = [pc EXCEPT ![s] = "idle"]
  /\ UNCHANGED request

Send(p, k, keys) ==
  /\ request' = [request EXCEPT ![p] =
                   [key |-> k, age |-> 0, active |-> keys[k] = "active"]]
  /\ pc' = [pc EXCEPT ![p] = "look"]

\* _build_headers signs with the key it is configured with, whatever its
\* state; only when there is none such it asks for an active one, which is a
\* second look-up, and gives up without.
Sign(p, keys, again) ==
  /\ p \in Providers
  /\ \/ /\ ~again /\ keys[KeyOf[p]] # "missing"
        /\ Send(p, KeyOf[p], keys)
     \/ /\ ~again /\ keys[KeyOf[p]] = "missing"
        /\ pc' = [pc EXCEPT ![p] = "again"]
        /\ UNCHANGED request
     \/ /\ again
        /\ \E k \in KeyIds : keys[k] = "active" /\ Send(p, k, keys)
     \/ /\ again
        /\ \A k \in KeyIds : keys[k] # "active"
        /\ pc' = [pc EXCEPT ![p] = "look"]
        /\ UNCHANGED request
  /\ UNCHANGED <<job, answer>>

Use(p, keys, again) == Verify(p, keys) \/ Sign(p, keys, again)

\* Variant of Stale: only a new modification time makes the loader read.
StaleByMtime(p) ==
  fileMtime[p] # "same"

\* _reload_if_needed reads the file when its modification time is another than
\* the last one seen, or when the cache is TTL old.
Stale(p) ==
  \/ fileMtime[p] = "other"
  \/ cacheAge[p] = TTL

\* get or choose_active: the modification time and the clock are read first.
\* Keys that are about to be replaced are not used meanwhile, and are left out.
\* A provider waits for its last request; calls that overlap are like others'.
Look(p) ==
  /\ pc[p] \in {"look", "again"}
  /\ p \in Providers => request[p] = NoRequest
  /\ fileMtime' = [fileMtime EXCEPT ![p] = "same"]
  /\ \/ /\ Stale(p)
        /\ cacheAge' = [cacheAge EXCEPT ![p] = 0]
        /\ pc' = [pc EXCEPT ![p] = IF pc[p] = "look" THEN "read" ELSE "readAgain"]
        /\ cache' = [cache EXCEPT ![p] = Loaded(Torn)]
        /\ UNCHANGED traffic
     \/ /\ ~Stale(p)
        /\ Use(p, cache[p], pc[p] = "again")
        /\ UNCHANGED <<cache, cacheAge>>
  /\ UNCHANGED <<written, tools>>

Read(p) ==
  /\ pc[p] \in {"read", "readAgain"}
  /\ cache' = [cache EXCEPT ![p] = Loaded(file)]
  /\ Use(p, Loaded(file), pc[p] = "readAgain")
  /\ UNCHANGED <<written, tools, cacheAge, fileMtime>>

\* A process is started anew, with a loader that has read nothing.
Restart(p) ==
  /\ cache' = [cache EXCEPT ![p] = Loaded(Torn)]
  /\ cacheAge' = [cacheAge EXCEPT ![p] = TTL]
  /\ fileMtime' = [fileMtime EXCEPT ![p] = "none"]
  /\ pc' = [pc EXCEPT ![p] = IF p \in Servers THEN "idle" ELSE "look"]
  /\ job' = IF p \in Servers THEN [job EXCEPT ![p] = NoRequest] ELSE job
  /\ UNCHANGED <<written, tools, request, answer>>

Older(age, limit) == IF age < limit THEN age + 1 ELSE age

AgedList(f) ==
  [k \in KeyIds |->
     [f[k] EXCEPT !.left = IF @ \in 0 .. Grace THEN @ - 1 ELSE @]]

Aged(r) == [r EXCEPT !.age = Older(@, Latency + 1)]

\* A request nobody has verified within Latency is given up.
AgedRequest(r) ==
  IF r = NoRequest \/ r.age >= Latency THEN NoRequest ELSE [r EXCEPT !.age = @ + 1]

\* Time passes, but not beyond the longest run of the tool.
Tick ==
  /\ \A t \in Tools : tool[t] # "idle" => toolAge[t] < ToolStall
  /\ file' = AgedList(file)
  /\ plan' = [t \in Tools |-> AgedList(plan[t])]
  /\ toolAge' = [t \in Tools |-> IF tool[t] = "idle" THEN 0 ELSE toolAge[t] + 1]
  /\ cacheAge' = [p \in Procs |-> Older(cacheAge[p], TTL)]
  /\ request' = [p \in Providers |-> AgedRequest(request[p])]
  /\ job' = [s \in Servers |->
               IF job[s] = NoRequest THEN NoRequest ELSE Aged(job[s])]
  /\ sinceWrite' = Older(sinceWrite, TTL)
  /\ sinceGood' = [k \in KeyIds |->
       IF file[k].state \in Good THEN 0 ELSE Older(sinceGood[k], TTL)]
  /\ UNCHANGED <<tool, orderly, pc, cache, fileMtime, answer>>

Next ==
  \/ \E t \in Tools : Load(t) \/ Truncate(t) \/ Fill(t) \/ Kill(t)
  \/ \E s \in Servers, p \in Providers : Receive(s, p)
  \/ \E p \in Procs : Look(p) \/ Read(p) \/ Restart(p)
  \/ Tick

Spec == Init /\ [][Next]_vars

-----------------------------------------------------------------------------
(* Properties *)

Known == {"missing", "active", "grace", "retired"}
States == Known \cup {"pending"}
Lists == [KeyIds -> [state : States, left : Over .. Never]]
Requests ==
  {NoRequest} \cup [key : KeyIds, age : 0 .. Latency + 1, active : BOOLEAN]

\* Each variable has its type: no loader knows of other states than its own
\* (crypto.py:110-113), and a server looks up keys for a request only.
TypeOK ==
  /\ file \in Lists
  /\ tool \in [Tools -> {"idle", "write", "fill"}]
  /\ plan \in [Tools -> Lists]
  /\ toolAge \in [Tools -> 0 .. ToolStall]
  /\ pc \in [Procs -> {"idle", "look", "read", "again", "readAgain"}]
  /\ cache \in [Procs -> [KeyIds -> Known]]
  /\ cacheAge \in [Procs -> 0 .. TTL]
  /\ fileMtime \in [Procs -> {"none", "same", "other"}]
  /\ request \in [Providers -> Requests]
  /\ job \in [Servers -> Requests]
  /\ answer \in [Servers -> {"none", "accepted", "missing", "retired"}]
  /\ sinceWrite \in 0 .. TTL
  /\ sinceGood \in [KeyIds -> 0 .. TTL]
  /\ orderly \in BOOLEAN
  /\ \A s \in Servers : pc[s] = "idle" <=> job[s] = NoRequest

Answers(s, a) == pc[s] # "idle" /\ answer[s] = "none" /\ answer'[s] = a

\* A retired key stops working: whatever the loaders keep, and however the file
\* is rewritten meanwhile, a server accepts a request only if its key has been
\* listed as active or grace less than TTL ago (crypto.py:95-138, 207-219).
RetiredStopsWorking ==
  [][\A s \in Servers : Answers(s, "accepted") =>
       sinceGood[job[s].key] < TTL]_vars

\* The grace period is long enough: a request signed with a key its provider
\* saw active, and verified within Latency, is never refused because the key is
\* retired, and as missing only by a server that may have seen the file empty
\* less than TTL ago (key_rotation.py:129-200, crypto.py:208-211).
GraceSuffices ==
  [][\A s \in Servers :
       /\ orderly /\ job[s].active /\ job[s].age <= Latency
       => /\ ~Answers(s, "retired")
          /\ Answers(s, "missing") => sinceWrite < TTL]_vars

\* "키 로테이션 무중단" (docs/plan.md:1259), keys are rotated without interruption:
\* as long as there is an active key, no request is refused because its key is
\* retired.
RotationIsSeamless ==
  [][\A s \in Servers :
       /\ orderly /\ job[s].age <= Latency
       /\ \E k \in KeyIds : file[k].state = "active"
       => ~Answers(s, "retired")]_vars
=============================================================================
