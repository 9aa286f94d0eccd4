-------------------------- MODULE Payments_proofs ---------------------------
(* Payments for every number of threads, charges and events: types, amounts  *)
(* and the answer "duplicate".  What holds as long as no two calls have      *)
(* overlapped is proved from the invariant Orderly.                          *)
EXTENDS Payments, SequenceTheorems, TLAPS

\* A thread that is about to record an event has applied it or passed it over.
Pending ==
  \A t \in Threads :
    pc[t] = "handled" => applied[job[t]] > 0 \/ job[t] \in passed

IInv == TypeOK /\ WithinIntent /\ Handled /\ Pending

Fields == [state : States \cup {"none"}, amount : Nat]

USE DEF vars, money, local, history

-----------------------------------------------------------------------------
LEMMA Initially == Init => IInv
<1>. SUFFICES ASSUME Init PROVE IInv
  OBVIOUS
<1>1. TypeOK
  BY PaymentsAssumption DEF Init, TypeOK, States, NoKey
<1>2. WithinIntent /\ Handled
  BY PaymentsAssumption DEF Init, WithinIntent, Handled, Fresh, NoKey
<1>3. Pending
  BY DEF Init, Pending
<1>. QED  BY <1>1, <1>2, <1>3 DEF IInv

LEMMA ConfirmKeeps ==
  ASSUME IInv, NEW t \in Threads, Confirm(t) \/ WriteConfirm(t), flow' \in {"serial", "raced"}
  PROVE  IInv'
<1>. USE DEF IInv
<1>1. CASE Confirm(t)
  <2>1. PICK s \in Answers : Goto(t, "confirm", "none", s)
    BY <1>1 DEF Confirm
  <2>2. s \in States /\ s # "none"
    BY DEF Answers, States
  <2>3. UNCHANGED <<money, keyAge, history>> /\ calls' \in 0 .. MaxCalls /\ pc[t] = "idle"
    BY <1>1, PaymentsAssumption DEF Confirm, Begin, TypeOK
  <2>4. TypeOK'
    BY <2>1, <2>2, <2>3 DEF Goto, TypeOK, Stored
  <2>. QED  BY <2>1, <2>3, <2>4
            DEF Goto, WithinIntent, Handled, Fresh, Pending
<1>2. CASE WriteConfirm(t)
  <2>1. /\ Done(t) /\ UNCHANGED <<receipts, refunded, keyAge, history, calls>>
        /\ pc[t] = "confirm" /\ intent' = target[t]
    BY <1>2 DEF WriteConfirm
  <2>2. intent' \in States
    BY <2>1 DEF TypeOK
  <2>3. \/ UNCHANGED charge
        \/ \E c \in Charges \ Stored :
             charge' = [charge EXCEPT ![c] =
                          [state |-> "authorized", amount |-> IntentAmount]]
    BY <1>2 DEF WriteConfirm
  <2>4. /\ charge' \in [Charges -> Fields] /\ Stored \subseteq Stored'
        /\ Adapter = "stripe_stub" => \A c \in Charges : charge'[c].amount <= IntentAmount
    <3>1. CASE UNCHANGED charge
      BY <3>1 DEF TypeOK, Fields, Stored, WithinIntent
    <3>2. ASSUME NEW c \in Charges \ Stored,
                 charge' = [charge EXCEPT ![c] =
                              [state |-> "authorized", amount |-> IntentAmount]]
          PROVE  <2>4
      <4>1. [state |-> "authorized", amount |-> IntentAmount] \in Fields
        BY PaymentsAssumption DEF Fields, States
      <4>2. charge' \in [Charges -> Fields]
        BY <3>2, <4>1 DEF TypeOK, Fields
      <4>3. \A d \in Charges :
              \/ charge'[d] = charge[d]
              \/ charge'[d].state = "authorized" /\ charge'[d].amount = IntentAmount
        <5>1. charge \in [Charges -> Fields]
          BY DEF TypeOK, Fields
        <5>2. \A d \in Charges \ {c} : charge'[d] = charge[d]
          BY <3>2, <5>1
        <5>3. charge'[c] = [state |-> "authorized", amount |-> IntentAmount]
          BY <3>2, <5>1
        <5>4. charge'[c].state = "authorized" /\ charge'[c].amount = IntentAmount
          BY <5>3
        <5>. QED  BY <5>2, <5>4
      <4>. QED  BY <4>2, <4>3, PaymentsAssumption DEF Stored, WithinIntent
    <3>. QED  BY <2>3, <3>1, <3>2
  <2>5. TypeOK'
    BY <2>1, <2>2, <2>4 DEF Done, Goto, TypeOK, Fields
  <2>6. WithinIntent'
    BY <2>1, <2>4 DEF WithinIntent
  <2>. QED  BY <2>1, <2>5, <2>6
            DEF Done, Goto, Handled, Fresh, Pending
<1>. QED  BY <1>1, <1>2

LEMMA CaptureKeeps ==
  ASSUME IInv, NEW t \in Threads, Capture(t), flow' \in {"serial", "raced"}
  PROVE  IInv'
<1>. USE DEF IInv
<1>1. PICK c \in Stored, a \in Nat :
        /\ MayCapture(a)
        /\ charge' = [charge EXCEPT ![c] = [state |-> "captured", amount |-> a]]
        /\ Goto(t, "capture", c, "none")
  BY PaymentsAssumption DEF Capture, TypeOK, Stored
<1>2. /\ pc[t] = "idle" /\ calls' \in 0 .. MaxCalls
      /\ UNCHANGED <<intent, receipts, refunded, keyAge, history>>
  BY PaymentsAssumption DEF Capture, Begin, TypeOK
<1>3. charge' \in [Charges -> Fields] /\ Stored \subseteq Stored' /\ c \in Charges
  BY <1>1 DEF TypeOK, Fields, Stored, States
<1>4. TypeOK'
  BY <1>1, <1>2, <1>3 DEF Goto, TypeOK, Fields
<1>5. WithinIntent'
  BY <1>1, <1>2 DEF WithinIntent, MayCapture, TypeOK, Stored
<1>. QED  BY <1>1, <1>2, <1>4, <1>5
          DEF Goto, Handled, Fresh, Pending

LEMMA CheckCaptureKeeps ==
  ASSUME IInv, NEW t \in Threads, CheckCapture(t), flow' \in {"serial", "raced"}
  PROVE  IInv'
<1>. USE DEF IInv
<1>1. pc[t] = "capture" /\ job[t] \in Stored /\ UNCHANGED <<money, keyAge, history, calls>>
  BY DEF CheckCapture, TypeOK
<1>2. \/ Goto(t, "write", job[t], charge[job[t]].state)
      \/ Done(t)
  BY DEF CheckCapture
<1>3. charge[job[t]].state \in States \ {"none"}
  BY <1>1 DEF Stored, TypeOK, States
<1>4. TypeOK'
  <2>1. CASE Goto(t, "write", job[t], charge[job[t]].state)
    BY <1>1, <1>3, <2>1 DEF Goto, TypeOK, Stored
  <2>2. CASE Done(t)
    BY <1>1, <2>2 DEF Goto, Done, TypeOK, Stored
  <2>. QED  BY <1>2, <2>1, <2>2
<1>5. WithinIntent' /\ Handled'
  BY <1>1 DEF WithinIntent, Handled, Fresh
<1>6. Pending'
  BY <1>1, <1>2 DEF Goto, Done, TypeOK, Pending
<1>. QED  BY <1>4, <1>5, <1>6

LEMMA WriteCaptureKeeps ==
  ASSUME IInv, NEW t \in Threads, WriteCapture(t), flow' \in {"serial", "raced"}
  PROVE  IInv'
<1>. USE DEF IInv
<1>. DEFINE c == job[t]
<1>1. /\ pc[t] = "write" /\ c \in Charges /\ intent' = target[t] /\ Done(t)
      /\ UNCHANGED <<charge, refunded, keyAge, history, calls>>
  BY DEF WriteCapture, TypeOK, Stored
<1>2. charge[c].amount \in Nat
  BY <1>1 DEF TypeOK
<1>3. \/ receipts' = [receipts EXCEPT ![c] = Append(@, charge[c].amount)]
      \/ receipts' = receipts
  BY DEF WriteCapture
<1>4. receipts' \in [Charges -> Seq(Nat)]
  <2>1. Append(receipts[c], charge[c].amount) \in Seq(Nat)
    BY <1>1, <1>2, AppendProperties DEF TypeOK
  <2>. QED  BY <1>1, <1>3, <2>1 DEF TypeOK
<1>5. TypeOK'
  BY <1>1, <1>4 DEF Done, Goto, TypeOK, Stored
<1>6. WithinIntent'
  <2>. SUFFICES ASSUME Adapter = "stripe_stub", NEW d \in Charges, NEW i \in DOMAIN receipts'[d]
                PROVE  receipts'[d][i] <= IntentAmount
    BY <1>1 DEF WithinIntent
  <2>1. CASE receipts'[d] = receipts[d]
    BY <2>1 DEF WithinIntent
  <2>2. CASE receipts'[d] = Append(receipts[d], charge[d].amount)
    <3>1. receipts[d] \in Seq(Nat)
      BY DEF TypeOK
    <3>2. charge[d].amount \in Nat
      BY DEF TypeOK
    <3>3. /\ receipts'[d] \in Seq(Nat) /\ Len(receipts'[d]) = Len(receipts[d]) + 1
          /\ \A j \in 1 .. Len(receipts[d]) : receipts'[d][j] = receipts[d][j]
          /\ receipts'[d][Len(receipts[d]) + 1] = charge[d].amount
      BY <2>2, <3>1, <3>2, AppendProperties
    <3>4. DOMAIN receipts'[d] = 1 .. Len(receipts[d]) + 1
      BY <3>3, LenProperties
    <3>5. DOMAIN receipts[d] = 1 .. Len(receipts[d]) /\ Len(receipts[d]) \in Nat
      BY <3>1, LenProperties
    <3>6. CASE i = Len(receipts[d]) + 1
      BY <3>3, <3>6 DEF WithinIntent
    <3>7. CASE i \in 1 .. Len(receipts[d])
      BY <3>3, <3>5, <3>7 DEF WithinIntent
    <3>. QED  BY <3>4, <3>5, <3>6, <3>7
  <2>. QED  BY <1>1, <1>3, <2>1, <2>2 DEF TypeOK
<1>. QED  BY <1>1, <1>5, <1>6
          DEF Done, Goto, Handled, Fresh, Pending

LEMMA RefundKeeps ==
  ASSUME IInv, NEW t \in Threads, Refund(t), flow' \in {"serial", "raced"}
  PROVE  IInv'
<1>. USE DEF IInv
<1>1. PICK c \in Charges, a \in Nat : refunded' = [refunded EXCEPT ![c] = @ + a]
  BY PaymentsAssumption DEF Refund, Stored
<1>2. /\ calls' \in 0 .. MaxCalls
      /\ UNCHANGED <<intent, charge, receipts, local, keyAge, history>>
  BY PaymentsAssumption DEF Refund, Begin, TypeOK
<1>. QED  BY <1>1, <1>2
          DEF TypeOK, Stored, WithinIntent, Handled, Fresh, Pending

LEMMA WebhookKeeps ==
  ASSUME IInv, NEW t \in Threads, Webhook(t), flow' \in {"serial", "raced"}
  PROVE  IInv'
<1>. USE DEF IInv
<1>1. CASE \E e \in Events : Receive(t, e)
  <2>1. PICK e \in Events : Receive(t, e)
    BY <1>1
  <2>2. TypeOK'
    BY <2>1 DEF Receive, Goto, TypeOK, Stored
  <2>. QED  BY <2>1, <2>2
            DEF Receive, Goto, WithinIntent, Handled, Fresh, Pending
<1>2. CASE Record(t)
  <2>1. /\ pc[t] = "handled" /\ job[t] \in Events
        /\ applied[job[t]] > 0 \/ job[t] \in passed
        /\ keyAge' = [keyAge EXCEPT ![job[t]] = 0]
        /\ Done(t) /\ UNCHANGED <<money, history, calls>>
    BY <1>2 DEF Record, TypeOK, Pending
  <2>2. TypeOK'
    BY <2>1, PaymentsAssumption DEF Done, Goto, TypeOK, Stored, NoKey
  <2>3. Handled'
    BY <2>1 DEF Handled, Fresh, TypeOK
  <2>4. Pending'
    BY <2>1 DEF Done, Goto, TypeOK, Pending
  <2>5. WithinIntent'
    BY <2>1 DEF WithinIntent
  <2>. QED  BY <2>2, <2>3, <2>4, <2>5
<1>3. ASSUME pc[t] = "event", UNCHANGED <<receipts, refunded, keyAge, calls>>,
             intent' \in {intent, "settled"},
             \/ charge' = charge
             \/ \E c \in Stored : charge' = [charge EXCEPT ![c].state = "settled"],
             \/ Done(t) /\ UNCHANGED history
             \/ /\ Goto(t, "handled", job[t], "none")
                /\ CountApplied(job[t]) \/ PassOver(job[t])
      PROVE  IInv'
  <2>1. job[t] \in Events
    BY <1>3 DEF TypeOK
  <2>2. /\ charge' \in [Charges -> Fields] /\ Stored \subseteq Stored'
        /\ \A c \in Charges : charge'[c].amount = charge[c].amount
    <3>1. CASE charge' = charge
      BY <3>1 DEF TypeOK, Fields, Stored
    <3>2. ASSUME NEW c \in Stored, charge' = [charge EXCEPT ![c].state = "settled"]
          PROVE  <2>2
      <4>1. charge' \in [Charges -> Fields]
        BY <3>2 DEF TypeOK, Fields, States
      <4>2. \A d \in Charges : /\ charge'[d].amount = charge[d].amount
                               /\ charge'[d].state \in {charge[d].state, "settled"}
        BY <3>2 DEF TypeOK
      <4>. QED  BY <4>1, <4>2 DEF Stored
    <3>. QED  BY <1>3, <3>1, <3>2
  <2>3. /\ applied' \in [Events -> 0 .. 2] /\ passed' \subseteq Events
        /\ passed \subseteq passed'
        /\ \A e \in Events : applied[e] > 0 => applied'[e] > 0
        /\ CountApplied(job[t]) \/ PassOver(job[t])
             => applied'[job[t]] > 0 \/ job[t] \in passed'
    <3>1. CASE UNCHANGED history /\ ~CountApplied(job[t]) /\ ~PassOver(job[t])
      BY <3>1 DEF TypeOK
    <3>2. CASE CountApplied(job[t])
      BY <2>1, <3>2 DEF CountApplied, PassOver, TypeOK
    <3>3. CASE PassOver(job[t])
      BY <2>1, <3>3 DEF CountApplied, PassOver, TypeOK
    <3>4. UNCHANGED history \/ CountApplied(job[t]) \/ PassOver(job[t])
      BY <1>3
    <3>. QED  BY <3>1, <3>2, <3>3, <3>4
  <2>4. TypeOK'
    <3>1. intent' \in States
      BY <1>3 DEF TypeOK, States
    <3>2. /\ pc' \in [Threads -> {"idle", "confirm", "capture", "write", "event", "handled"}]
          /\ job' \in [Threads -> Charges \cup Events \cup {"none"}]
          /\ target' \in [Threads -> States \cup {"none"}]
          /\ \A u \in Threads :
               /\ pc'[u] \in {"confirm", "write"} <=> target'[u] # "none"
               /\ pc'[u] \in {"capture", "write"} => job'[u] \in Stored
               /\ pc'[u] \in {"event", "handled"} => job'[u] \in Events
      <4>1. CASE Done(t)
        BY <2>1, <4>1 DEF Done, Goto, TypeOK
      <4>2. CASE Goto(t, "handled", job[t], "none")
        BY <2>1, <4>2 DEF Goto, TypeOK
      <4>. QED  BY <1>3, <4>1, <4>2
    <3>. QED  BY <1>3, <2>2, <2>3, <3>1, <3>2 DEF TypeOK, Fields
  <2>5. WithinIntent'
    BY <1>3, <2>2 DEF WithinIntent
  <2>6. Handled' /\ Pending'
    BY <1>3, <2>3 DEF Handled, Pending, Fresh, Done, Goto, TypeOK
  <2>. QED  BY <2>4, <2>5, <2>6
<1>4. CASE ApplyPayment(t)
  BY <1>3, <1>4 DEF ApplyPayment
<1>5. CASE ApplyRefund(t)
  BY <1>3, <1>5 DEF ApplyRefund
<1>6. CASE ApplyUnknown(t)
  BY <1>3, <1>6 DEF ApplyUnknown
<1>. QED  BY <1>1, <1>2, <1>4, <1>5, <1>6 DEF Webhook

\* A step keeps the invariant, whatever the history variable notes.
LEMMA StepKeeps == IInv /\ Step /\ flow' \in {"serial", "raced"} => IInv'
<1>. SUFFICES ASSUME IInv, Step, flow' \in {"serial", "raced"} PROVE IInv'
  OBVIOUS
<1>1. CASE Tick
  <2>1. keyAge' \in [Events -> 0 .. NoKey] /\ \A e \in Events : Fresh(e)' => Fresh(e)
    BY <1>1, PaymentsAssumption DEF Tick, IInv, TypeOK, Fresh, NoKey
  <2>. QED  BY <1>1, <2>1
            DEF Tick, IInv, TypeOK, Stored, WithinIntent, Handled, Pending
<1>2. ASSUME NEW t \in Threads, Service(t) PROVE IInv'
  BY <1>2, ConfirmKeeps, CaptureKeeps, CheckCaptureKeeps, WriteCaptureKeeps, RefundKeeps
  DEF Service
<1>3. ASSUME NEW t \in Threads, Webhook(t) PROVE IInv'
  BY <1>3, WebhookKeeps
<1>. QED  BY <1>1, <1>2, <1>3 DEF Step

LEMMA Inductive == IInv /\ [Next]_vars => IInv'
<1>. SUFFICES ASSUME IInv, [Next]_vars PROVE IInv'
  OBVIOUS
<1>1. CASE Next
  <2>1. flow' \in {"serial", "raced"}
    BY <1>1 DEF Next, IInv, TypeOK
  <2>. QED  BY <1>1, <2>1, StepKeeps DEF Next
<1>2. CASE UNCHANGED vars
  BY <1>2 DEF IInv, TypeOK, Stored, WithinIntent, Handled, Fresh, Pending
<1>. QED  BY <1>1, <1>2

\* The invariant holds throughout.
THEOREM Invariance == Spec => []IInv
BY Initially, Inductive, PTL DEF Spec

\* Every variable stays in its range, and a charge being captured is stored.
THEOREM TypeCorrect == Spec => []TypeOK
BY Invariance, PTL DEF IInv

\* stripe_stub keeps charges and receipts within the intent, under any race.
THEOREM AmountsWithinIntent == Spec => []WithinIntent
BY Invariance, PTL DEF IInv

-----------------------------------------------------------------------------
(* As long as no two calls have overlapped.                                  *)

\* What a call under way has found out stays true until it acts on it, and the
\* state of the intent tells which charges and receipts there can be.
InStep ==
  \A t \in Threads :
    /\ pc[t] \in {"confirm", "write"} => target[t] \in Allowed(intent)
    /\ pc[t] \in {"capture", "write"} => charge[job[t]].state = "captured"
    /\ pc[t] = "write" => target[t] = "captured"
    /\ pc[t] = "event" => ~Fresh(job[t])

Stages ==
  /\ intent \in {"created", "requires_action"} => Stored = {}
  /\ intent \in {"created", "requires_action", "authorized"} =>
       \A c \in Charges : receipts[c] = <<>>

Kept == \A e \in Events : applied[e] > 0 => intent = "settled"

InOrder == InStep /\ Stages /\ OneReceipt /\ Kept /\ ~Overlap

Orderly == IInv /\ (flow = "serial" => InOrder)

\* The transition table, read backwards.
LEMMA Table ==
  ASSUME NEW s \in States, NEW r \in Allowed(s)
  PROVE  /\ r = "captured" => s = "authorized"
         /\ r = "authorized" => s \in {"created", "requires_action"}
         /\ r = "requires_action" => s = "created"
         /\ r # "created"
BY DEF Allowed, States

LEMMA OrderlyInit == Init => Orderly
<1>. SUFFICES ASSUME Init PROVE Orderly
  OBVIOUS
<1>1. InStep /\ Stored = {}
  BY DEF Init, InStep, Stored
<1>4. Kept
  BY DEF Init, Kept
<1>2. \A c \in Charges : receipts[c] = <<>> /\ Len(receipts[c]) = 0
  BY DEF Init
<1>3. ~Overlap
  BY DEF Init, Overlap
<1>. QED  BY <1>1, <1>2, <1>3, <1>4, Initially DEF Orderly, InOrder, Stages, OneReceipt, Kept

\* A thread that is under way before or after its step is then the only one.
LEMMA BusyAlone ==
  ASSUME IInv, InOrder, ~Overlap', NEW t \in Threads, NEW l, NEW j, NEW s,
         Goto(t, l, j, s), pc[t] # "idle" \/ l # "idle"
  PROVE  \A u \in Threads \ {t} : pc'[u] = "idle"
BY DEF IInv, TypeOK, InOrder, Overlap, Goto

\* A step that changes only what one thread is about, and no money.
LEMMA OrderlyMove ==
  ASSUME IInv, InOrder, NEW t \in Threads, UNCHANGED money, Kept', flow = "serial", flow' = "serial",
         ~Overlap', \A u \in Threads \ {t} : pc'[u] = "idle",
         /\ pc'[t] \in {"confirm", "write"} => target'[t] \in Allowed(intent)
         /\ pc'[t] \in {"capture", "write"} => charge[job'[t]].state = "captured"
         /\ pc'[t] = "write" => target'[t] = "captured"
         /\ pc'[t] = "event" => ~Fresh(job[t])'
  PROVE  InOrder'
<1>2. InStep'
  <2>. SUFFICES ASSUME NEW u \in Threads
                PROVE  /\ pc'[u] \in {"confirm", "write"} => target'[u] \in Allowed(intent)
                       /\ pc'[u] \in {"capture", "write"} => charge[job'[u]].state = "captured"
                       /\ pc'[u] = "write" => target'[u] = "captured"
                       /\ pc'[u] = "event" => ~Fresh(job[u])'
    BY DEF InStep
  <2>. QED  OBVIOUS
<1>. QED  BY <1>2 DEF InOrder, Stages, OneReceipt, Stored

LEMMA OrderlyService ==
  ASSUME IInv, InOrder, NEW t \in Threads, Service(t), flow = "serial", flow' = "serial", ~Overlap'
  PROVE  InOrder' /\ intent' \in Allowed(intent) \cup {intent}
<1>. USE DEF InOrder, IInv
<1>0. UNCHANGED applied /\ intent' \in Allowed(intent) \cup {intent} /\ Kept'
  <2>1. UNCHANGED applied
    BY DEF Service, Confirm, WriteConfirm, Capture, CheckCapture, WriteCapture,
           Refund
  <2>2. intent' \in Allowed(intent) \cup {intent}
    BY DEF Service, Confirm, WriteConfirm, Capture, CheckCapture, WriteCapture,
           Refund, InStep
  <2>3. Allowed("settled") = {}
    BY DEF Allowed
  <2>. QED  BY <2>1, <2>2, <2>3 DEF Kept
<1>1. CASE Confirm(t)
  <2>0. \A u \in Threads \ {t} : pc'[u] = "idle"
    BY <1>1, BusyAlone DEF Confirm, Begin
  <2>1. PICK s \in Answers : s \in Allowed(intent) /\ Goto(t, "confirm", "none", s)
    BY <1>1 DEF Confirm
  <2>2. /\ pc'[t] = "confirm" /\ target'[t] = s /\ UNCHANGED money
    BY <1>1, <2>1 DEF Confirm, Goto, TypeOK
  <2>. QED  BY <2>1, <2>2, <2>0, OrderlyMove, <1>0
<1>2. CASE WriteConfirm(t)
  <2>0. \A u \in Threads \ {t} : pc'[u] = "idle"
    BY <1>2, BusyAlone DEF WriteConfirm, Done
  <2>1. /\ target[t] \in Allowed(intent) /\ intent' = target[t] /\ intent \in States
        /\ UNCHANGED receipts /\ pc'[t] = "idle"
    BY <1>2 DEF WriteConfirm, InStep, Done, Goto, TypeOK
  <2>2. InStep'
    BY <2>0, <2>1 DEF InStep
  <2>3. CASE target[t] = "authorized"
    <3>1. intent \in {"created", "requires_action"} /\ Stored = {}
      BY <2>1, <2>3, Table DEF Stages
    <3>2. PICK c \in Charges :
            charge' = [charge EXCEPT ![c] =
                         [state |-> "authorized", amount |-> IntentAmount]]
      BY <1>2, <2>3 DEF WriteConfirm
    <3>3. \A d \in Charges \ {c} : charge'[d] = charge[d] /\ charge[d].state = "none"
      BY <3>1, <3>2 DEF TypeOK, Stored
    <3>4. Stored' \subseteq {c}
      BY <3>3 DEF Stored
    <3>. QED  BY <1>0, <2>1, <2>2, <2>3, <3>1, <3>4 DEF Stages, OneReceipt
  <2>4. CASE target[t] # "authorized"
    <3>1. UNCHANGED charge
      BY <1>2, <2>4 DEF WriteConfirm
    <3>2. /\ intent' = "requires_action" => intent = "created"
          /\ intent' \notin {"created", "authorized"}
      BY <2>1, <2>4, Table
    <3>. QED  BY <1>0, <2>1, <2>2, <3>1, <3>2 DEF Stages, OneReceipt, Stored
  <2>. QED  BY <2>3, <2>4
<1>3. CASE Capture(t)
  <2>0. \A u \in Threads \ {t} : pc'[u] = "idle"
    BY <1>3, BusyAlone DEF Capture, Begin
  <2>1. PICK c \in Stored : \E a \in Amounts \cup {charge[c].amount} :
          /\ charge' = [charge EXCEPT ![c] = [state |-> "captured", amount |-> a]]
          /\ Goto(t, "capture", c, "none")
    BY <1>3 DEF Capture
  <2>2. c \in Charges /\ charge'[c].state = "captured" /\ UNCHANGED <<intent, receipts>>
    BY <1>3, <2>1 DEF Capture, TypeOK, Stored
  <2>3. Stored' = Stored
    BY <2>1, <2>2 DEF Stored, TypeOK
  <2>4. InStep'
    BY <2>0, <2>1, <2>2 DEF InStep, Goto, TypeOK
  <2>. QED  BY <1>0, <2>2, <2>3, <2>4 DEF Stages, OneReceipt
<1>4. CASE CheckCapture(t)
  <2>0. \A u \in Threads \ {t} : pc'[u] = "idle"
    BY <1>4, BusyAlone DEF CheckCapture, Done
  <2>1. charge[job[t]].state = "captured" /\ UNCHANGED money
    BY <1>4 DEF CheckCapture, InStep
  <2>2. CASE charge[job[t]].state \in Allowed(intent)
    <3>1. pc'[t] = "write" /\ job'[t] = job[t] /\ target'[t] = "captured"
      BY <1>4, <2>1, <2>2 DEF CheckCapture, Goto, TypeOK
    <3>. QED  BY <2>1, <2>2, <3>1, <2>0, OrderlyMove, <1>0
  <2>3. CASE charge[job[t]].state \notin Allowed(intent)
    <3>1. pc'[t] = "idle"
      BY <1>4, <2>3 DEF CheckCapture, Done, Goto, TypeOK
    <3>. QED  BY <2>1, <3>1, <2>0, OrderlyMove, <1>0
  <2>. QED  BY <2>2, <2>3
<1>5. CASE WriteCapture(t)
  <2>0. \A u \in Threads \ {t} : pc'[u] = "idle"
    BY <1>5, BusyAlone DEF WriteCapture, Done
  <2>1. /\ target[t] = "captured" /\ target[t] \in Allowed(intent) /\ intent \in States
        /\ intent' = "captured" /\ UNCHANGED charge /\ pc'[t] = "idle" /\ job[t] \in Charges
    BY <1>5 DEF WriteCapture, InStep, Done, Goto, TypeOK, Stored
  <2>2. \A c \in Charges : receipts[c] = <<>>
    BY <2>1, Table DEF Stages
  <2>3. \/ receipts' = [receipts EXCEPT ![job[t]] = Append(@, charge[job[t]].amount)]
        \/ receipts' = receipts
    BY <1>5 DEF WriteCapture
  <2>4. \A c \in Charges : receipts'[c] = <<>> \/ receipts'[c] = Append(<<>>, charge[c].amount)
    BY <2>1, <2>2, <2>3 DEF TypeOK
  <2>5. \A c \in Charges : Len(receipts'[c]) <= 1
    <3>1. \A c \in Charges : Len(Append(<<>>, charge[c].amount)) = 1
      <4>. SUFFICES ASSUME NEW c \in Charges PROVE Len(Append(<<>>, charge[c].amount)) = 1
        OBVIOUS
      <4>1. charge[c].amount \in Nat /\ <<>> \in Seq(Nat) /\ Len(<<>>) = 0
        BY DEF TypeOK
      <4>. QED  BY <4>1, AppendProperties
    <3>2. Len(<<>>) = 0
      OBVIOUS
    <3>. SUFFICES ASSUME NEW c \in Charges PROVE Len(receipts'[c]) <= 1
      OBVIOUS
    <3>3. CASE receipts'[c] = <<>>
      BY <3>2, <3>3
    <3>4. CASE receipts'[c] = Append(<<>>, charge[c].amount)
      <4>1. Len(receipts'[c]) = 1
        BY <3>1, <3>4
      <4>. QED  BY <4>1
    <3>. QED  BY <2>4, <3>3, <3>4
  <2>6. InStep'
    BY <2>0, <2>1 DEF InStep
  <2>. QED  BY <1>0, <2>1, <2>5, <2>6 DEF Stages, OneReceipt, Stored
<1>6. CASE Refund(t)
  <2>1. UNCHANGED <<intent, charge, receipts, local, keyAge>>
    BY <1>6 DEF Refund
  <2>. QED  BY <1>0, <2>1 DEF InStep, Stages, OneReceipt, Stored, Fresh
<1>. QED  BY <1>1, <1>2, <1>3, <1>4, <1>5, <1>6 DEF Service

LEMMA OrderlyWebhook ==
  ASSUME IInv, InOrder, NEW t \in Threads, Webhook(t), flow = "serial", flow' = "serial", ~Overlap'
  PROVE  /\ InOrder' /\ intent' \in {intent, "settled"}
         /\ \A e \in Events : applied'[e] # applied[e] => ~Fresh(e)
<1>. USE DEF InOrder, IInv
<1>0. ASSUME UNCHANGED <<applied, intent>> PROVE Kept'
  BY <1>0 DEF Kept
<1>1. CASE \E e \in Events : Receive(t, e)
  <2>1. PICK e \in Events : Receive(t, e)
    BY <1>1
  <2>0. \A u \in Threads \ {t} : pc'[u] = "idle"
    BY <2>1, BusyAlone DEF Receive
  <2>2. pc'[t] = "event" /\ job'[t] = e /\ UNCHANGED <<money, keyAge, history>> /\ ~Fresh(e)
    BY <2>1 DEF Receive, Goto, TypeOK
  <2>. QED  BY <1>0, <2>2, <2>0, OrderlyMove DEF Fresh
<1>2. CASE Record(t)
  <2>0. \A u \in Threads \ {t} : pc'[u] = "idle"
    BY <1>2, BusyAlone DEF Record, Done
  <2>1. pc'[t] = "idle" /\ UNCHANGED <<money, history>>
    BY <1>2 DEF Record, Done, Goto, TypeOK
  <2>. QED  BY <1>0, <2>1, <2>0, OrderlyMove
<1>3. CASE ApplyPayment(t)
  <2>0. \A u \in Threads \ {t} : pc'[u] = "idle"
    BY <1>3, BusyAlone DEF ApplyPayment
  <2>1. /\ pc'[t] = "handled" /\ UNCHANGED receipts
        /\ ~Fresh(job[t]) /\ job[t] \in Events
    BY <1>3 DEF ApplyPayment, Goto, TypeOK, InStep
  <2>2. CountApplied(job[t]) \/ PassOver(job[t])
    BY <1>3 DEF ApplyPayment
  <2>3. \A e \in Events : applied'[e] # applied[e] => ~Fresh(e)
    BY <2>1, <2>2 DEF CountApplied, PassOver, TypeOK
  <2>4. InStep'
    BY <2>0, <2>1 DEF InStep
  <2>5. CASE UNCHANGED <<charge, intent>> /\ PassOver(job[t])
    <3>1. Kept'
      BY <1>0, <2>5 DEF PassOver
    <3>. QED  BY <2>1, <2>3, <2>4, <2>5, <3>1 DEF Stages, OneReceipt, Stored
  <2>6. ASSUME NEW c \in Stored, charge' = [charge EXCEPT ![c].state = "settled"],
               intent' = "settled"
        PROVE  InOrder' /\ intent' \in {intent, "settled"}
    <3>1. Stored' \subseteq Stored
      BY <2>6 DEF Stored, TypeOK
    <3>2. Kept'
      BY <2>6 DEF Kept
    <3>. QED  BY <2>1, <2>4, <2>6, <3>1, <3>2 DEF Stages, OneReceipt
  <2>. QED  BY <1>3, <2>3, <2>5, <2>6 DEF ApplyPayment
<1>4. CASE ApplyRefund(t) \/ ApplyUnknown(t)
  <2>0. \A u \in Threads \ {t} : pc'[u] = "idle"
    BY <1>4, BusyAlone DEF ApplyRefund, ApplyUnknown, Done
  <2>1. pc'[t] \in {"idle", "handled"} /\ UNCHANGED money
    BY <1>4 DEF ApplyRefund, ApplyUnknown, Done, Goto, TypeOK
  <2>2. UNCHANGED applied
    BY <1>4 DEF ApplyRefund, ApplyUnknown, PassOver
  <2>3. InOrder'
    BY <1>0, <2>0, <2>1, <2>2, OrderlyMove
  <2>. QED  BY <2>1, <2>2, <2>3
<1>. QED  BY <1>1, <1>2, <1>3, <1>4 DEF Webhook

\* A step of the whole system, none overlapping so far.
LEMMA OrderlyStep ==
  ASSUME Orderly, [Next]_vars, flow' = "serial"
  PROVE  /\ InOrder'
         /\ intent' \in Allowed(intent) \cup {intent, "settled"}
         /\ \A e \in Events : applied'[e] # applied[e] => ~Fresh(e)
<1>1. CASE UNCHANGED vars
  BY <1>1 DEF Orderly, InOrder, InStep, Stages, OneReceipt, Kept, Stored, Fresh, Overlap
<1>2. CASE Next
  <2>0. IInv /\ flow = "serial" /\ InOrder /\ ~Overlap'
    BY <1>2 DEF Next, Orderly
  <2>1. CASE Tick
    <3>1. \A e \in Events : Fresh(e)' => Fresh(e)
      BY <2>0, <2>1, PaymentsAssumption DEF Tick, IInv, TypeOK, Fresh, NoKey
    <3>2. InStep'
      BY <2>0, <2>1, <3>1 DEF Tick, InOrder, IInv, TypeOK, InStep
    <3>. QED  BY <2>0, <2>1, <3>2 DEF Tick, InOrder, Stages, OneReceipt, Kept, Stored
  <2>2. ASSUME NEW t \in Threads, Service(t)
        PROVE  /\ InOrder' /\ intent' \in Allowed(intent) \cup {intent}
               /\ UNCHANGED applied
    <3>1. UNCHANGED applied
      BY <2>2 DEF Service, Confirm, WriteConfirm, Capture, CheckCapture,
                  WriteCapture, Refund
    <3>. QED  BY <2>0, <2>2, <3>1, OrderlyService
  <2>3. ASSUME NEW t \in Threads, Webhook(t)
        PROVE  /\ InOrder' /\ intent' \in {intent, "settled"}
               /\ \A e \in Events : applied'[e] # applied[e] => ~Fresh(e)
    BY <2>0, <2>3, OrderlyWebhook
  <2>. QED  BY <1>2, <2>1, <2>2, <2>3 DEF Next, Step, Tick
<1>. QED  BY <1>1, <1>2

LEMMA OrderlyInductive == Orderly /\ [Next]_vars => Orderly'
BY Inductive, OrderlyStep DEF Orderly

\* No history of overlapping calls: one charge and one receipt at most, for any
\* number of threads, charges and events, and every adapter.
THEOREM SerialOneReceipt == Spec => []OneReceipt
<1>1. Orderly => OneReceipt
  BY DEF Orderly, InOrder, OneReceipt
<1>. QED  BY <1>1, OrderlyInit, OrderlyInductive, PTL DEF Spec

\* No history of overlapping calls: the intent moves along the table or is
\* settled.
THEOREM SerialFollowsTable == Spec => FollowsTable
<1>1. Orderly /\ [Next]_vars =>
        [flow' = "serial" => intent' \in Allowed(intent) \cup {"settled"}]_intent
  BY OrderlyStep
<1>. QED  BY <1>1, OrderlyInit, OrderlyInductive, PTL DEF Spec, FollowsTable

\* An event answered "duplicate" was handled to its end before, applied or
\* passed over; with no history of overlapping calls the intent of one that was
\* applied is settled, for any threads, charges, events and adapter.
THEOREM DuplicateIsTrue == Spec => []DuplicateWasHandled
<1>1. Orderly => DuplicateWasHandled
  BY DEF Orderly, IInv, InOrder, Kept, DuplicateWasHandled, SettledForGood
<1>. QED  BY <1>1, OrderlyInit, OrderlyInductive, PTL DEF Spec

\* No history of overlapping calls: no event settles its charge again while its
\* record is fresh.
THEOREM SerialNoReplay == Spec => NoReplay
<1>1. Orderly /\ [Next]_vars =>
        [flow' = "serial" => \A e \in Events : applied'[e] # applied[e] => ~Fresh(e)]_vars
  BY OrderlyStep
<1>. QED  BY <1>1, OrderlyInit, OrderlyInductive, PTL DEF Spec, NoReplay
=============================================================================
