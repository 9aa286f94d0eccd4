------------------------------ MODULE Payments ------------------------------
(* One payment intent and what becomes of it: PaymentsService                *)
(* (apps/payments/core.py) with its state machine and adapters, and the      *)
(* webhook route of apps/gateway/routers/payments.py with its idempotency    *)
(* store.  The routes are plain functions, which the gateway runs on a pool  *)
(* of threads: a call is split where it reads what another may change.       *)
(* Intents do not share state, so one is enough.                             *)
EXTENDS Naturals, Sequences

CONSTANTS
  Threads,
  Adapter,        \* "stripe_stub", "generic_pg" or "manual_stub"
  IntentAmount,   \* amount of the intent
  Amounts,        \* amounts that callers ask for
  Charges,        \* charge ids; bounds the charges ever stored
  Events,         \* webhook event ids
  Type,           \* type of each event
  About,          \* the charge each event names
  KeyTTL,         \* 3600 s
  MaxCalls        \* bound on the calls of the API

States == {"created", "requires_action", "authorized", "captured", "settled",
           "canceled", "charge_failed"}

EventTypes == {"payment_succeeded", "payment_failed", "refund_succeeded",
               "refund_failed", "unknown"}

ASSUME PaymentsAssumption ==
  /\ Adapter \in {"stripe_stub", "generic_pg", "manual_stub"}
  /\ IntentAmount \in Nat \ {0}
  /\ Amounts \subseteq Nat \ {0}
  /\ Type \in [Events -> EventTypes]
  /\ About \in [Events -> Charges]
  /\ KeyTTL \in Nat /\ MaxCalls \in Nat

VARIABLES
  intent,     \* state of the intent
  charge,     \* stored charges: state (or "none") and amount
  receipts,   \* totals of the receipts issued for each charge
  refunded,   \* sum of the refunds of each charge
  pc,         \* where each thread is
  job,        \* the charge or the event a thread works on
  target,     \* the state transition_payment has let through
  keyAge,     \* age of each event's idempotency record; NoKey if none is left
  applied,    \* history: times each event settled its charge, counted up to 2
  passed,     \* history: events that were handled without any effect
  calls,      \* API calls begun
  flow        \* history: "raced" once two calls have been under way at a time

money == <<intent, charge, receipts, refunded>>
local == <<pc, job, target>>
history == <<applied, passed>>
vars  == <<money, local, keyAge, history, calls, flow>>

NoKey == KeyTTL + 1
Fresh(e) == keyAge[e] <= KeyTTL
Stored == {c \in Charges : charge[c].state # "none"}

\* transition_payment
Allowed(s) ==
  CASE s = "created" -> {"authorized", "requires_action", "canceled", "charge_failed"}
    [] s = "requires_action" -> {"authorized", "canceled", "charge_failed"}
    [] s = "authorized" -> {"captured", "canceled", "charge_failed"}
    [] s = "captured" -> {"settled"}
    [] OTHER -> {}

\* What authorize of the adapter may answer.
Answers ==
  {"authorized"} \cup
    (IF Adapter = "stripe_stub" THEN {"requires_action", "charge_failed"} ELSE {})

\* Variant of MayCapture: nothing is checked.
MayCaptureAny(a) == TRUE

\* Only stripe_stub looks at the amounts.
MayCapture(a) == Adapter = "stripe_stub" => a <= IntentAmount
MayRefund(c, a) == Adapter = "stripe_stub" => a <= charge[c].amount

-----------------------------------------------------------------------------
Init ==
  /\ intent = "created"
  /\ charge = [c \in Charges |-> [state |-> "none", amount |-> 0]]
  /\ receipts = [c \in Charges |-> <<>>]
  /\ refunded = [c \in Charges |-> 0]
  /\ pc = [t \in Threads |-> "idle"]
  /\ job = [t \in Threads |-> "none"]
  /\ target = [t \in Threads |-> "none"]
  /\ keyAge = [e \in Events |-> NoKey]
  /\ applied = [e \in Events |-> 0]
  /\ passed = {}
  /\ calls = 0
  /\ flow = "serial"

Begin(t) ==
  /\ pc[t] = "idle"
  /\ calls < MaxCalls
  /\ calls' = calls + 1

Goto(t, l, j, s) ==
  /\ pc' = [pc EXCEPT ![t] = l]
  /\ job' = [job EXCEPT ![t] = j]
  /\ target' = [target EXCEPT ![t] = s]

Done(t) == Goto(t, "idle", "none", "none")

\* confirm_intent: the adapter answers and the transition is checked; a call
\* that is refused here has no effect.
Confirm(t) ==
  /\ Begin(t)
  /\ \E s \in Answers :
       /\ s \in Allowed(intent)
       /\ Goto(t, "confirm", "none", s)
  /\ UNCHANGED <<money, keyAge, history>>

\* The new state is written, and the charge stored.
WriteConfirm(t) ==
  /\ pc[t] = "confirm"
  /\ intent' = target[t]
  /\ IF target[t] = "authorized"
       THEN \E c \in Charges \ Stored :
              charge' = [charge EXCEPT ![c] =
                           [state |-> "authorized", amount |-> IntentAmount]]
       ELSE UNCHANGED charge
  /\ Done(t)
  /\ UNCHANGED <<receipts, refunded, keyAge, history, calls>>

\* capture_charge: the adapter writes into the stored charge itself, before the
\* transition is checked (captured_charge).  Without an amount it takes what
\* the charge holds.
Capture(t) ==
  /\ Begin(t)
  /\ \E c \in Stored : \E a \in Amounts \cup {charge[c].amount} :
       /\ MayCapture(a)
       /\ charge' = [charge EXCEPT ![c] = [state |-> "captured", amount |-> a]]
       /\ Goto(t, "capture", c, "none")
  /\ UNCHANGED <<intent, receipts, refunded, keyAge, history>>

\* Variant of CheckCapture: the transition is not checked.
CheckCaptureNever(t) ==
  /\ pc[t] = "capture"
  /\ Goto(t, "write", job[t], charge[job[t]].state)
  /\ UNCHANGED <<money, keyAge, history, calls>>

\* transition_payment reads the state of the intent and that of the charge; an
\* invalid transition is answered 400, with the charge left as it is.
CheckCapture(t) ==
  /\ pc[t] = "capture"
  /\ LET s == charge[job[t]].state IN
       IF s \in Allowed(intent) THEN Goto(t, "write", job[t], s) ELSE Done(t)
  /\ UNCHANGED <<money, keyAge, history, calls>>

\* The state is written; a receipt is issued if the charge is still captured.
WriteCapture(t) ==
  /\ pc[t] = "write"
  /\ intent' = target[t]
  /\ LET c == job[t] IN
       receipts' = IF charge[c].state = "captured"
                     THEN [receipts EXCEPT ![c] = Append(@, charge[c].amount)]
                     ELSE receipts
  /\ Done(t)
  /\ UNCHANGED <<charge, refunded, keyAge, history, calls>>

\* refund_charge looks at neither the state of the charge nor earlier refunds.
\* Every adapter returns the refund as already REFUNDED.
Refund(t) ==
  /\ Begin(t)
  /\ \E c \in Stored, a \in Amounts :
       /\ MayRefund(c, a)
       /\ refunded' = [refunded EXCEPT ![c] = @ + a]
  /\ UNCHANGED <<intent, charge, receipts, local, keyAge, history>>

-----------------------------------------------------------------------------
(* Webhooks.  A provider delivers an event as often as it likes.             *)

\* Variant of Receive: the event is recorded when it comes in.
ReceiveRecording(t, e) ==
  /\ pc[t] = "idle"
  /\ ~Fresh(e)
  /\ keyAge' = [keyAge EXCEPT ![e] = 0]
  /\ Goto(t, "event", e, "none")
  /\ UNCHANGED <<money, history, calls>>

\* A fresh record makes the event a duplicate, which has no effect.
Receive(t, e) ==
  /\ pc[t] = "idle"
  /\ ~Fresh(e)
  /\ Goto(t, "event", e, "none")
  /\ UNCHANGED <<money, keyAge, history, calls>>

CountApplied(e) ==
  /\ applied' = [applied EXCEPT ![e] = IF @ < 2 THEN @ + 1 ELSE @]
  /\ UNCHANGED passed

\* The KeyError of a charge or a refund that is not stored is swallowed, and
\* an event that is mapped to nothing has nothing to do: the event goes on to
\* be recorded all the same.
PassOver(e) ==
  /\ passed' = passed \cup {e}
  /\ UNCHANGED applied

\* Any event about a payment settles its charge and the intent, whatever
\* map_event_to_state says; a charge that is not stored is passed over.
ApplyPayment(t) ==
  /\ pc[t] = "event"
  /\ LET e == job[t] IN
       /\ Type[e] \in {"payment_succeeded", "payment_failed"}
       /\ IF About[e] \in Stored
            THEN /\ charge' = [charge EXCEPT ![About[e]].state = "settled"]
                 /\ intent' = "settled"
                 /\ CountApplied(e)
            ELSE PassOver(e) /\ UNCHANGED <<charge, intent>>
       /\ Goto(t, "handled", e, "none")
  /\ UNCHANGED <<receipts, refunded, keyAge, calls>>

\* transition_refund refuses an existing refund, which is REFUNDED already; the
\* exception is not caught and the event not recorded (500).
ApplyRefund(t) ==
  /\ pc[t] = "event"
  /\ LET e == job[t] IN
       /\ Type[e] \in {"refund_succeeded", "refund_failed"}
       /\ IF refunded[About[e]] > 0
            THEN Done(t) /\ UNCHANGED history
            ELSE Goto(t, "handled", e, "none") /\ PassOver(e)
  /\ UNCHANGED <<money, keyAge, calls>>

ApplyUnknown(t) ==
  /\ pc[t] = "event"
  /\ Type[job[t]] = "unknown"
  /\ PassOver(job[t])
  /\ Goto(t, "handled", job[t], "none")
  /\ UNCHANGED <<money, keyAge, calls>>

Record(t) ==
  /\ pc[t] = "handled"
  /\ keyAge' = [keyAge EXCEPT ![job[t]] = 0]
  /\ Done(t)
  /\ UNCHANGED <<money, history, calls>>

\* Time passes; a record older than the TTL is dropped when it is looked up.
Tick ==
  /\ keyAge' = [e \in Events |-> IF Fresh(e) THEN keyAge[e] + 1 ELSE keyAge[e]]
  /\ UNCHANGED <<money, local, history, calls>>

Service(t) ==
  \/ Confirm(t) \/ WriteConfirm(t)
  \/ Capture(t) \/ CheckCapture(t) \/ WriteCapture(t)
  \/ Refund(t)

Webhook(t) ==
  \/ \E e \in Events : Receive(t, e)
  \/ ApplyPayment(t) \/ ApplyRefund(t) \/ ApplyUnknown(t)
  \/ Record(t)

Step == Tick \/ \E t \in Threads : Service(t) \/ Webhook(t)

Overlap == \E t, u \in Threads : t # u /\ pc[t] # "idle" /\ pc[u] # "idle"

Next == Step /\ flow' = IF Overlap' THEN "raced" ELSE flow

Spec == Init /\ [][Next]_vars

-----------------------------------------------------------------------------
\* Each variable stays in its range, and a charge is stored as long as a thread
\* captures it.
TypeOK ==
  /\ intent \in States
  /\ charge \in [Charges -> [state : States \cup {"none"}, amount : Nat]]
  /\ receipts \in [Charges -> Seq(Nat)]
  /\ refunded \in [Charges -> Nat]
  /\ pc \in [Threads -> {"idle", "confirm", "capture", "write", "event", "handled"}]
  /\ job \in [Threads -> Charges \cup Events \cup {"none"}]
  /\ target \in [Threads -> States \cup {"none"}]
  /\ keyAge \in [Events -> 0 .. NoKey]
  /\ applied \in [Events -> 0 .. 2]
  /\ passed \subseteq Events
  /\ calls \in 0 .. MaxCalls
  /\ flow \in {"serial", "raced"}
  /\ \A t \in Threads :
       /\ pc[t] \in {"confirm", "write"} <=> target[t] # "none"
       /\ pc[t] \in {"capture", "write"} => job[t] \in Stored
       /\ pc[t] \in {"event", "handled"} => job[t] \in Events

\* However captures race, stripe_stub never issues a receipt for more than the
\* intent, and no charge ever holds more (stripe_stub.py:28-32, core.py:71-84).
WithinIntent ==
  Adapter = "stripe_stub" =>
    \A c \in Charges :
      /\ charge[c].amount <= IntentAmount
      /\ \A i \in DOMAIN receipts[c] : receipts[c][i] <= IntentAmount

\* An event whose record is fresh has run to the end of handle_webhook before:
\* it was applied, or it had no effect because its charge or refund was not
\* stored at the time (the KeyError is swallowed) or it asks for nothing.
Handled == \A e \in Events : Fresh(e) => applied[e] > 0 \/ e \in passed

\* As long as no two calls have overlapped, an event that was applied has left
\* the intent settled for good: no later confirmation or capture undoes it.
SettledForGood ==
  flow = "serial" => \A e \in Events : applied[e] > 0 => intent = "settled"

\* A webhook is answered "duplicate" only if an earlier delivery was handled to
\* its end, never because one merely began or failed; unless that delivery was
\* passed over, its effect is still there as long as no two calls have
\* overlapped (gateway/routers/payments.py:135-155, core.py:101-108).
DuplicateWasHandled == Handled /\ SettledForGood

\* As long as no two calls have overlapped, the intent moves along the table of
\* the state machine, or is settled by a webhook (state_machine.py:26-38,
\* core.py:101-108).
FollowsTable ==
  [][flow' = "serial" => intent' \in Allowed(intent) \cup {"settled"}]_intent

\* As long as no two calls have overlapped, a charge is captured once at most:
\* one receipt, and one charge, for the intent (core.py:53-85).
OneReceipt ==
  flow = "serial" =>
    /\ \A c, d \in Stored : c = d
    /\ \A c \in Charges : Len(receipts[c]) <= 1

\* As long as no two calls have overlapped, no event settles its charge again
\* while its record is fresh (gateway/routers/payments.py:135-155).
NoReplay ==
  [][flow' = "serial" => \A e \in Events : applied'[e] # applied[e] => ~Fresh(e)]_vars

\* webhooks.py:39 maps "payment_failed" to FAILED: such an event settles nothing.
FailedNotSettled ==
  [][\A t \in Threads :
       pc[t] = "event" /\ pc'[t] = "handled" /\ Type[job[t]] = "payment_failed"
         => (intent' = "settled" => intent = "settled")]_vars
=============================================================================
