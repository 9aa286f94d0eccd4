------------------------------- MODULE Cards --------------------------------
(***************************************************************************)
(* The cards of the ops API, made of the evidence index and answered with  *)
(* an ETag: /ops/cards/reason-trends (apps/ops/api/cards_delta.py), whose  *)
(* tag is a digest of the file, cached by the file's stamp, and            *)
(* /ops/reason-trend and its cards (apps/ops/api/server.py), cached by the *)
(* digest of the index they are made of. Jobs write the index meanwhile.   *)
(***************************************************************************)
EXTENDS Integers, Functions

CONSTANTS CardClients, TrendClients,  \* whom the two routes serve
          Indexes,                    \* what the index may say; its digest is itself
          MaxWrites                   \* bound: writes of the index

VARIABLES index,     \* the file: what it says and its stamp (time and size)
          etags,     \* etag_calc: stamp -> digest of the file
          trends,    \* InMemoryCache: digest of the index -> [etag, made, crossed]
          made,      \* number of trends made: each has a time, and so an ETag, of its own
          asked,     \* client -> request under way
          held       \* client -> last full answer: its ETag and body
vars == <<index, etags, trends, made, asked, held>>

Clients == CardClients \cup TrendClients
Nobody == 0
Idle == [pc |-> "idle", body |-> Nobody, key |-> 0, crossed |-> FALSE]
Nothing == [etag |-> 0, body |-> Nobody, crossed |-> FALSE]

Init ==
  /\ index = [says |-> Nobody, stamp |-> 0]
  /\ etags = <<>> /\ trends = <<>> /\ made = 0
  /\ asked = [c \in Clients |-> Idle] /\ held = [c \in Clients |-> Nothing]

\* A job writes the index, whatever anybody has read of it.
Write(i) ==
  /\ index.stamp < MaxWrites
  /\ index' = [says |-> i, stamp |-> index.stamp + 1]
  /\ asked' = [c \in Clients |-> IF asked[c].pc = "idle" THEN Idle ELSE [asked[c] EXCEPT !.crossed = TRUE]]
  /\ UNCHANGED <<etags, trends, made, held>>

\* Entries expire, or are displaced.
Forget ==
  /\ \/ \E s \in DOMAIN etags : etags' = Restrict(etags, DOMAIN etags \ {s}) /\ UNCHANGED trends
     \/ \E s \in DOMAIN trends : trends' = Restrict(trends, DOMAIN trends \ {s}) /\ UNCHANGED etags
  /\ UNCHANGED <<index, made, asked, held>>

-----------------------------------------------------------------------------
\* cards_delta.reason_trends: nothing awaits, so one at a time; first the body.
Compute(c) ==
  /\ \A d \in CardClients : asked[d].pc = "idle"
  /\ asked' = [asked EXCEPT ![c] = [pc |-> "stat", body |-> index.says, key |-> 0, crossed |-> FALSE]]
  /\ UNCHANGED <<index, etags, trends, made, held>>

\* Variant of Stamp: by size alone, and the indexes are of one size.
StampBySize == 0

\* _fast_fingerprint
Stamp == index.stamp

\* The client has this ETag (304), or gets the body. Beside it goes what changed since
\* anyone was last sent one; a client that reads the body can do without.
Answer(c, etag) ==
  /\ asked' = [asked EXCEPT ![c] = Idle]
  /\ held' = IF held[c].etag = etag THEN held
             ELSE [held EXCEPT ![c] = [etag |-> etag, body |-> asked[c].body, crossed |-> asked[c].crossed]]

\* compute_strong_etag: by the stamp, if that is known. Without a file it fails.
Stat(c) ==
  /\ asked[c].pc = "stat"
  /\ IF index.says = Nobody THEN asked' = [asked EXCEPT ![c] = Idle] /\ UNCHANGED held
     ELSE IF Stamp \in DOMAIN etags THEN Answer(c, etags[Stamp])
     ELSE asked' = [asked EXCEPT ![c].pc = "read", ![c].key = Stamp] /\ UNCHANGED held
  /\ UNCHANGED <<index, etags, trends, made>>

\* It reads the file again and files the digest under the stamp of before.
Digest(c) ==
  /\ asked[c].pc = "read"
  /\ etags' = [s \in DOMAIN etags \cup {asked[c].key} |-> IF s = asked[c].key THEN index.says ELSE etags[s]]
  /\ Answer(c, index.says)
  /\ UNCHANGED <<index, trends, made>>

-----------------------------------------------------------------------------
\* server.reason_trend and the two cards: threads, each with its own entries. A hit is
\* answered at once; the ETag of the entry is the client's, or becomes it.
Peek(c) ==
  /\ asked[c].pc = "idle"
  /\ IF index.says \in DOMAIN trends
     THEN LET entry == trends[index.says]
          IN  held' = [held EXCEPT ![c] = [etag |-> entry.etag, body |-> entry.made, crossed |-> entry.crossed]] /\ UNCHANGED asked
     ELSE asked' = [asked EXCEPT ![c] = [pc |-> "aggregate", body |-> index.says, key |-> 0, crossed |-> FALSE]]
          /\ UNCHANGED held
  /\ UNCHANGED <<index, etags, trends, made>>

\* aggregate_reason_trend, from the index of now, filed under the digest of then.
Aggregate(c) ==
  /\ asked[c].pc = "aggregate"
  /\ made <= MaxWrites /\ made' = made + 1
  /\ LET entry == [etag |-> made', made |-> index.says, crossed |-> asked[c].crossed]
     IN  /\ trends' = [s \in DOMAIN trends \cup {asked[c].body} |-> IF s = asked[c].body THEN entry ELSE trends[s]]
         /\ held' = [held EXCEPT ![c] = [etag |-> made', body |-> index.says, crossed |-> asked[c].crossed]]
  /\ asked' = [asked EXCEPT ![c] = Idle]
  /\ UNCHANGED <<index, etags>>

Next ==
  \/ \E i \in Indexes : Write(i)
  \/ Forget
  \/ \E c \in CardClients : Compute(c) \/ Stat(c) \/ Digest(c)
  \/ \E c \in TrendClients : Peek(c) \/ Aggregate(c)

-----------------------------------------------------------------------------
\* What the server would answer a client that has an ETag.
NotModified(c) ==
  IF c \in CardClients
  THEN index.says # Nobody /\ held[c].etag = IF Stamp \in DOMAIN etags THEN etags[Stamp] ELSE index.says
  ELSE index.says \in DOMAIN trends /\ held[c].etag = trends[index.says].etag

\* "Not modified" is said to a client whose body is made of the index as it is, unless the
\* index was written while that body was made: ETag and body are read one after the
\* other (cards_delta.py:90-95, etag_calc.py:62-85, server.py:94-106).
NotModifiedMeansCurrent ==
  \A c \in Clients : held[c].etag # 0 /\ NotModified(c) /\ ~held[c].crossed => held[c].body = index.says
=============================================================================
