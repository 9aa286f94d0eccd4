------------------------------- MODULE Limits -------------------------------
(***************************************************************************)
(* The rate limiters: token buckets (apps/common/rl.py before the judge,   *)
(* apps/ops/ratelimit.py) and sliding windows (apps/alerts/ratelimit.py,   *)
(* ratelimit_redis.py), each in the memory of a process or in a Redis that *)
(* processes share. A caller reads the clock first and has the limiter     *)
(* afterwards, so a call may overtake another that read an earlier time.   *)
(***************************************************************************)
EXTENDS Integers, Sequences, FiniteSets, SequencesExt

CONSTANTS Callers,             \* threads or processes of equal clocks
          Cap, Refill,         \* tokens of a bucket; tokens it gains per unit of time
          Window, MaxEvents,   \* a window, and how many it admits
          Ttl,                 \* when Redis drops a key: more than Window, and Refill * Ttl >= Cap
          EndOfTime            \* bound

VARIABLES limiter,     \* where it is and of which form
          time, call,  \* caller -> [now, crossed]: the time it read, and whether it was overtaken since
          tokens, ts,  \* the bucket; None before its first call
          events,      \* the window in memory: stamps as they came
          stamps,      \* the window in Redis: a sorted set
          used,        \* time of the last call that set the key's expiry
          admitted,    \* history: stamps of the calls let through (Redis' window has a stamp once)
          first, latest, overtaken   \* history: stamps of calls; whether an overtaken call counted
vars == <<limiter, time, call, tokens, ts, events, stamps, used, admitted, first, latest, overtaken>>

None == -1
OwnWindow    == [at |-> "memory", form |-> "window"]
SharedWindow == [at |-> "redis", form |-> "window"]
Idle == [now |-> None, crossed |-> FALSE]
Least(a, b) == IF a < b THEN a ELSE b

Init ==
  /\ limiter \in [at : {"memory", "redis"}, form : {"bucket", "window"}]
  /\ time = 0 /\ call = [c \in Callers |-> Idle]
  /\ tokens = None /\ ts = None /\ events = <<>> /\ stamps = {} /\ used = 0
  /\ admitted = <<>> /\ first = None /\ latest = None /\ overtaken = FALSE

Tick == time < EndOfTime /\ time' = time + 1
        /\ UNCHANGED <<limiter, call, tokens, ts, events, stamps, used, admitted, first, latest, overtaken>>

\* now = time.time(). The window in memory has no lock: its caller is alone.
Call(c) ==
  /\ call[c] = Idle
  /\ limiter = OwnWindow => \A d \in Callers : call[d] = Idle
  /\ call' = [call EXCEPT ![c].now = time]
  /\ UNCHANGED <<limiter, time, tokens, ts, events, stamps, used, admitted, first, latest, overtaken>>

\* The calls under way, but c, were overtaken.
Done(c) == [d \in Callers |-> IF d = c \/ call[d] = Idle THEN Idle ELSE [call[d] EXCEPT !.crossed = TRUE]]

\* Variant of Elapsed: the bucket in memory takes no notice of earlier times either.
ElapsedNever(now) == IF now < ts THEN 0 ELSE now - ts

\* What a bucket gains for: the script takes max(0, now - ts), the bucket in
\* memory gives back what it had gained too much.
Elapsed(now) == IF limiter.at = "redis" /\ now < ts THEN 0 ELSE now - ts

Filled(now) == IF ts = None THEN Cap ELSE Least(Cap, tokens + Elapsed(now) * Refill)

\* The memory drops from the left what is before the window.
Unexpired(now) ==
  LET young == {i \in DOMAIN events : events[i] >= now - Window}
  IN  IF young = {} THEN <<>> ELSE SubSeq(events, CHOOSE i \in young : \A j \in young : i <= j, Len(events))

\* Redis drops what is before the window or at its edge.
Current(now) == {s \in stamps : s > now - Window}

\* Whether a call that read 'now' is let through.
Allowed(now) ==
  \/ limiter.form = "bucket" /\ Filled(now) >= 1
  \/ limiter = OwnWindow /\ Len(Unexpired(now)) < MaxEvents
  \/ limiter = SharedWindow /\ Cardinality(Current(now)) < MaxEvents

\* The limiter's turn, under its lock or as a script; an answer may be lost on its way
\* back from Redis. Without its script Redis refuses, has it loaded and is asked again.
\* The script of the window sets the expiry only if it lets the call through.
Allow(c, answered) ==
  /\ call[c] # Idle /\ (limiter.at = "memory" => answered)
  /\ overtaken' = (overtaken \/ call[c].crossed)
  /\ LET now == call[c].now
     IN  /\ IF limiter.form = "bucket"
            THEN tokens' = (IF Allowed(now) THEN Filled(now) - 1 ELSE Filled(now)) /\ ts' = now
            ELSE UNCHANGED <<tokens, ts>>
         /\ events' = IF limiter # OwnWindow THEN events
                      ELSE IF Allowed(now) THEN Append(Unexpired(now), now) ELSE Unexpired(now)
         /\ stamps' = IF limiter # SharedWindow THEN stamps
                      ELSE IF Allowed(now) THEN Current(now) \cup {now} ELSE Current(now)
         /\ used' = IF limiter.form = "bucket" \/ Allowed(now) THEN time ELSE used
         /\ admitted' = IF limiter.at = "redis" /\ overtaken' THEN <<>>
                        ELSE IF Allowed(now) /\ answered /\ (limiter = SharedWindow => ~Contains(admitted, now))
                        THEN Append(admitted, now) ELSE admitted
         /\ first' = IF first = None \/ now < first THEN now ELSE first
         /\ latest' = IF now > latest THEN now ELSE latest
  /\ call' = Done(c)
  /\ UNCHANGED <<limiter, time>>

\* Redis does not answer: a window lets the call through uncounted, a bucket raises.
Fail(c) ==
  /\ limiter.at = "redis" /\ call[c] # Idle
  /\ call' = [call EXCEPT ![c] = Idle]
  /\ UNCHANGED <<limiter, time, tokens, ts, events, stamps, used, admitted, first, latest, overtaken>>

\* EXPIRE
Expire ==
  /\ limiter.at = "redis" /\ time >= used + Ttl /\ (ts # None \/ stamps # {})
  /\ tokens' = None /\ ts' = None /\ stamps' = {}
  /\ call' = [c \in Callers |-> IF call[c] = Idle THEN Idle ELSE [call[c] EXCEPT !.crossed = TRUE]]
  /\ UNCHANGED <<limiter, time, events, used, admitted, first, latest, overtaken>>

Next ==
  \/ Tick \/ Expire
  \/ \E c \in Callers : Call(c) \/ Fail(c) \/ \E answered \in BOOLEAN : Allow(c, answered)

-----------------------------------------------------------------------------
Admitted(low, high) == Cardinality({i \in DOMAIN admitted : admitted[i] \in low..high})

\* No more is let through than the limit says: of a bucket its capacity and what it
\* gained since its first call, of a window MaxEvents in any stretch as long as it
\* (rl.py:38-47,51-69, alerts/ratelimit.py:11-21, ratelimit_redis.py:19-43). In Redis
\* this is so as long as no call that was overtaken is counted, and of calls at one
\* instant the window counts one only.
LimitHolds ==
  latest # None /\ (limiter.at = "memory" \/ ~overtaken) =>
    IF limiter.form = "bucket" THEN Len(admitted) <= Cap + Refill * (latest - first)
    ELSE \A s \in 0..EndOfTime :
           Admitted(s, s + Window - (IF limiter.at = "memory" THEN 0 ELSE 1)) <= MaxEvents
=============================================================================
