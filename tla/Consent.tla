------------------------------ MODULE Consent -------------------------------
(***************************************************************************)
(* Consents of one person (apps/consent/store.py, apps/gateway/routers/    *)
(* consent.py): a list of records in the memory of a service. No operation *)
(* lets another in while it holds the lock. The hash that chains a record  *)
(* to the one before follows from the list and is left out.                *)
(***************************************************************************)
EXTENDS Naturals, Sequences

CONSTANTS Docs,        \* documents a person may consent to
          Terms,       \* times a consent may last
          MaxRecords,  \* bound: records since the service began
          LastDay      \* bound on the clock

VARIABLES today,
          records,     \* the person's records, in the order of their grants
          granted,     \* history: granted[d]: grants since the service began
          revoked      \* history: revoked[d]: revocations it has confirmed
vars == <<today, records, granted, revoked>>

\* ConsentRecord
Record(doc, term) == [doc |-> doc, at |-> today, term |-> term, revoked |-> FALSE]

\* list: neither revoked nor over
Expired(record) == record.at + record.term < today
Listed == {i \in DOMAIN records : ~records[i].revoked /\ ~Expired(records[i])}

\* Variant of ToRevoke: a record that was revoked is revoked again.
ToRevokeAny(doc) == {i \in DOMAIN records : records[i].doc = doc}

\* The records of a document that revoke takes the first of, be it over or not.
ToRevoke(doc) == {i \in DOMAIN records : records[i].doc = doc /\ ~records[i].revoked}

-----------------------------------------------------------------------------
Init == /\ today = 0 /\ records = <<>>
        /\ granted = [d \in Docs |-> 0] /\ revoked = granted

Pass == today < LastDay /\ today' = today + 1 /\ UNCHANGED <<records, granted, revoked>>

\* POST /grant
Grant(doc, term) ==
  /\ Len(records) < MaxRecords
  /\ records' = Append(records, Record(doc, term))
  /\ granted' = [granted EXCEPT ![doc] = @ + 1]
  /\ UNCHANGED <<today, revoked>>

\* POST /revoke: 404 if there is none
Revoke(doc) ==
  /\ revoked[doc] < MaxRecords
  /\ \E i \in ToRevoke(doc) : /\ \A j \in ToRevoke(doc) : i <= j
                              /\ records' = [records EXCEPT ![i].revoked = TRUE]
  /\ revoked' = [revoked EXCEPT ![doc] = @ + 1]
  /\ UNCHANGED <<today, granted>>

\* The service is started again; it keeps nothing.
Restart == /\ records' = <<>> /\ granted' = [d \in Docs |-> 0] /\ revoked' = granted'
           /\ UNCHANGED today

Next == \/ Pass \/ Restart
        \/ \E d \in Docs : Revoke(d) \/ \E t \in Terms : Grant(d, t)

Spec == Init /\ [][Next]_vars

-----------------------------------------------------------------------------
\* Who has revoked a document as often as granted it is not listed as consenting to it:
\* no revocation that the service confirms is spent on one that was made before.
\* (One that is over takes a revocation too, so fewer do not suffice; store.py:71-80.)
RevokedIsGone ==
  \A i \in Listed : revoked[records[i].doc] < granted[records[i].doc]
=============================================================================
