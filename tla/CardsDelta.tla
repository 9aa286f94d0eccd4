----------------------------- MODULE CardsDelta -----------------------------
(***************************************************************************)
(* Deltas of card lists (apps/ops/cache/etag_delta.py), and a client that  *)
(* keeps its copy of the cards by them. A list counts by the ids of its    *)
(* cards: the last card of an id, and no card without one.                 *)
(***************************************************************************)
EXTENDS Naturals, Sequences, Functions

CONSTANTS CardIds, Bodies,
          NoId,      \* the id of a card that has none
          MaxCards   \* bound: cards of the list

VARIABLES cards,    \* the list of the payload
          whole,    \* whether the payload has one
          copy,     \* what the client has of it, by id
          delta,    \* the delta under way to the client, or NoDelta
          sent      \* history: the cards by id when it was computed
vars == <<cards, whole, copy, delta, sent>>

Card    == [id : CardIds \cup {NoId}, body : Bodies]
NoDelta == [removed |-> {"no delta"}]
NoCards == [k \in {} |-> k]

\* _index
IdsOf(list) == {list[i].id : i \in DOMAIN list} \ {NoId}
Index(list) ==
  [k \in IdsOf(list) |->
     LET last == CHOOSE i \in DOMAIN list : /\ list[i].id = k
                                            /\ \A j \in DOMAIN list : list[j].id = k => j <= i
     IN  list[last].body]

\* Variant of Delta: what is gone is not told.
DeltaWithoutRemoved(base, now) ==
  [added   |-> Restrict(now, DOMAIN now \ DOMAIN base),
   removed |-> {},
   updated |-> Restrict(now, {k \in DOMAIN now \cap DOMAIN base : now[k] # base[k]})]

\* compute_cards_delta
Delta(base, now) ==
  [added   |-> Restrict(now, DOMAIN now \ DOMAIN base),
   removed |-> DOMAIN base \ DOMAIN now,
   updated |-> Restrict(now, {k \in DOMAIN now \cap DOMAIN base : now[k] # base[k]})]

\* apply_cards_delta
Apply(base, d) ==
  [k \in (DOMAIN base \ d.removed) \cup DOMAIN d.added \cup DOMAIN d.updated |->
     IF k \in DOMAIN d.added THEN d.added[k]
     ELSE IF k \in DOMAIN d.updated THEN d.updated[k] ELSE base[k]]

\* is_delta_applicable
Applicable(d) == DOMAIN d.added \cup d.removed \cup DOMAIN d.updated # {}

-----------------------------------------------------------------------------
Init == cards = <<>> /\ whole = TRUE /\ copy = NoCards /\ delta = NoDelta /\ sent = NoCards

\* The list changes, in whatever way.
Edit(list) == whole /\ cards' = list /\ UNCHANGED <<whole, copy, delta, sent>>

Add(card) == Len(cards) < MaxCards /\ Edit(Append(cards, card))
Drop      == cards # <<>> /\ Edit(Tail(cards))
Break     == whole' = ~whole /\ UNCHANGED <<cards, copy, delta, sent>>

\* A delta from what the client has, if that tells anything. There is none of what is no list.
Send ==
  /\ delta = NoDelta /\ whole
  /\ LET d == Delta(copy, Index(cards)) IN Applicable(d) /\ delta' = d
  /\ sent' = Index(cards)
  /\ UNCHANGED <<cards, whole, copy>>

Receive ==
  /\ delta # NoDelta
  /\ copy' = Apply(copy, delta) /\ delta' = NoDelta
  /\ UNCHANGED <<cards, whole, sent>>

Next == \/ \E card \in Card : Add(card)
        \/ Drop \/ Break \/ Send \/ Receive

Spec == Init /\ [][Next]_vars

-----------------------------------------------------------------------------
\* A client that keeps its copy by deltas has the cards of the last one, none of them
\* older and none that was removed (etag_delta.py:11-108).
CopyIsExact == delta = NoDelta => copy = sent
=============================================================================
