------------------------------ MODULE Metering ------------------------------
(***************************************************************************)
(* Ingestion of metering events (apps/metering/ingest.py) by processes     *)
(* that share the SQLite store of keys (store.py).                         *)
(* Events are delivered at least once, so processes meet the same keys.    *)
(***************************************************************************)
EXTENDS Integers, Sequences

CONSTANTS Ingesters,
          EventKeys,       \* tenant, metric and corr_id: what idempotency_key hashes
          MaxBatches       \* bound: batches an ingester takes

VARIABLES marked,     \* idempo_keys
          conn,       \* ingester -> its connection: transaction and what that sees
          ingest,     \* ingester -> its batch: what is left of it and what was accepted
          taken,      \* ingester -> number of batches
          returned,   \* history: what filter_idempotent_with returned, batch after batch
          failed      \* history: ingesters that met a locked database
vars == <<marked, conn, ingest, taken, returned, failed>>

Batches == {<<k>> : k \in EventKeys} \cup (EventKeys \X EventKeys)

\* No transaction; one that reads what it read first; one that has the write lock.
NoTransaction == [state |-> "none", sees |-> {}]
Resting == [pc |-> "rest", rest |-> <<>>, accepted |-> <<>>]

Init ==
  /\ marked = {} /\ conn = [p \in Ingesters |-> NoTransaction]
  /\ ingest = [p \in Ingesters |-> Resting] /\ taken = [p \in Ingesters |-> 0]
  /\ returned = <<>> /\ failed = {}

Take(p, batch) ==
  /\ ingest[p].pc = "rest" /\ taken[p] < MaxBatches
  /\ ingest' = [ingest EXCEPT ![p] = [pc |-> "seen", rest |-> batch, accepted |-> <<>>]]
  /\ taken' = [taken EXCEPT ![p] = @ + 1]
  /\ UNCHANGED <<marked, conn, returned, failed>>

-----------------------------------------------------------------------------
Writers == {p \in Ingesters : conn[p].state = "writes"}

\* What a SELECT sees; in a transaction that reads, what its first SELECT saw.
Visible(p) == IF conn[p].state = "reads" THEN conn[p].sees ELSE marked

\* The event's turn is over.
Over(p, accepted) ==
  ingest' = [ingest EXCEPT ![p] = [pc |-> IF Len(ingest[p].rest) = 1 THEN "done" ELSE "seen",
                                   rest |-> Tail(ingest[p].rest),
                                   accepted |-> ingest[p].accepted \o accepted]]

\* store.seen
Seen(p) ==
  /\ ingest[p].pc = "seen"
  /\ conn' = [conn EXCEPT ![p] = IF @.state = "open" THEN [state |-> "reads", sees |-> marked] ELSE @]
  /\ IF Head(ingest[p].rest) \in Visible(p) THEN Over(p, <<>>)
     ELSE ingest' = [ingest EXCEPT ![p].pc = "mark"]
  /\ UNCHANGED <<marked, taken, returned, failed>>

\* INSERT opens a transaction and needs the write lock, and that what it reads is current.
LockedFor(p) == Writers \ {p} # {} \/ (conn[p].state = "reads" /\ conn[p].sees # marked)

\* Variant of Inserted: INSERT OR IGNORE.
InsertedOrIgnored(key) == TRUE

\* The key is UNIQUE.
Inserted(key) == key \notin marked

\* store.mark: a key that is there already is IntegrityError, and leaves the
\* transaction open with its lock: only an INSERT that succeeds commits.
Mark(p) ==
  LET key == Head(ingest[p].rest)
  IN  /\ ingest[p].pc = "mark" /\ ~LockedFor(p)
      /\ IF Inserted(key)
         THEN /\ marked' = marked \cup {key}
              /\ conn' = [conn EXCEPT ![p] = NoTransaction] /\ Over(p, <<key>>)
         ELSE /\ conn' = [conn EXCEPT ![p] = [state |-> "writes", sees |-> {}]]
              /\ Over(p, <<>>) /\ UNCHANGED marked
      /\ UNCHANGED <<taken, returned, failed>>

\* "database is locked", after 30 s or at once: the batch ends, what it had accepted is
\* lost, and the transaction stays.
GiveUp(p) ==
  /\ ingest[p].pc = "mark" /\ LockedFor(p)
  /\ ingest' = [ingest EXCEPT ![p] = Resting]
  /\ conn' = [conn EXCEPT ![p] = IF @.state = "none" THEN [state |-> "open", sees |-> {}] ELSE @]
  /\ failed' = failed \cup {p}
  /\ UNCHANGED <<marked, taken, returned>>

Return(p) ==
  /\ ingest[p].pc = "done"
  /\ returned' = Append(returned, ingest[p].accepted)
  /\ ingest' = [ingest EXCEPT ![p] = Resting]
  /\ UNCHANGED <<marked, conn, taken, failed>>

\* The process ends, or close: SQLite rolls back.
End(p) ==
  /\ ingest[p] # Resting \/ conn[p] # NoTransaction
  /\ ingest' = [ingest EXCEPT ![p] = Resting] /\ conn' = [conn EXCEPT ![p] = NoTransaction]
  /\ UNCHANGED <<marked, taken, returned, failed>>

Next ==
  \E p \in Ingesters : \/ Seen(p) \/ Mark(p) \/ GiveUp(p) \/ Return(p) \/ End(p)
                       \/ \E batch \in Batches : Take(p, batch)

-----------------------------------------------------------------------------
\* An event is accepted once, by whichever process and batch it came with, however
\* many processes stopped or failed meanwhile, and only if it is marked
\* (ingest.py:6-19, store.py:24-48).
AcceptedOnce ==
  LET Places(k) == {at \in (DOMAIN returned) \X (1..2) :
                      at[2] <= Len(returned[at[1]]) /\ returned[at[1]][at[2]] = k}
  IN  \A k \in EventKeys : /\ \A x, y \in Places(k) : x = y
                           /\ Places(k) # {} => k \in marked

\* "Safe with several processes" (store.py:27, in Korean): none is refused by the
\* lock of another that has nothing to write.
SafeForProcesses == failed = {}
=============================================================================
