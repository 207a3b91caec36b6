-------------------------- MODULE PaymentLedgerProofs --------------------------
(***************************************************************************)
(* Proofs, for every value of the constants, of the safety properties of   *)
(* PaymentLedger and of its refinement of PaymentLifecycle.                *)
(***************************************************************************)
EXTENDS PaymentLedger, TLAPS

-----------------------------------------------------------------------------
(* The inductive invariant.                                                *)

\* A row exists with the trace and the amount its fingerprint is made of.
RowsOK ==
    \A fp \in Fingerprints :
        /\ ops[fp].state = "absent" => ops[fp] = NoOp
        /\ ops[fp].state # "absent" =>
              ops[fp].trace \in Traces /\ fp = <<ops[fp].trace, ops[fp].amount>>
        /\ ops[fp].state = "paid" => ops[fp].order \in reconciled

\* No two operations share an order.
OrdersApart ==
    \A f1, f2 \in Fingerprints :
        ops[f1].order = ops[f2].order /\ ops[f1].order # NoOrder => f1 = f2

\* The handler that holds the loop works on a row that waits for its order; the
\* order it has been answered belongs to nobody yet.
CallOK ==
    \/ call = Idle
    \/ /\ call.stage # "idle"
       /\ call.fp \in Fingerprints
       /\ call.trace \in Traces
       /\ ops[call.fp].state # "absent"
       /\ ops[call.fp].trace = call.trace
       /\ ops[call.fp].amount = call.amount
       /\ call.stage \in {"calling", "answered"} => ops[call.fp].order = NoOrder
       /\ call.stage = "answered" =>
             /\ call.order \in Orders
             /\ orders[call.order] = [exists |-> TRUE, receipt |-> call.trace,
                                      amount |-> call.amount]
             /\ \A fp \in Fingerprints : ops[fp].order # call.order
       /\ call.stage = "replying" =>
             call.order \in Orders /\ ops[call.fp].order = call.order

\* Clients only hold orders that are committed.
HandedKnown == \A o \in handed : \E fp \in Fingerprints : ops[fp].order = o

ReconciledKnown == \A o \in reconciled : \E fp \in Fingerprints : ops[fp].order = o

ForeignOrders == {o \in Orders : orders[o].exists /\ orders[o].receipt = Foreign}

\* Payments are made on orders that clients hold, on foreign ones, or on none.
PaymentsPlaced ==
    \A p \in Payments :
        payments[p].status # "absent" => payments[p].order \in handed \cup ForeignOrders \cup {NoOrder}

\* What has been sent is still true at the provider.
SentTrue ==
    \A e \in sent :
        /\ e.type = "payment.authorized" => payments[e.payment].status \in {"authorized", "captured"}
        /\ e.type = "payment.captured" => payments[e.payment].status = "captured"
        /\ e.type = "payment.failed" => payments[e.payment].status = "failed"

QuarantineForeign == \A q \in quarantine : q[2] \in ForeignOrders

IInv ==
    /\ TypeOK
    /\ RowsOK
    /\ OrdersApart
    /\ CallOK
    /\ OrderMatchesOperation
    /\ HandedKnown
    /\ ReconciledKnown
    /\ PaymentsPlaced
    /\ SentTrue
    /\ QuarantineForeign
    /\ ProcessedIsApplied
    /\ PaymentEvidence

-----------------------------------------------------------------------------
(* The tables of the webhook handler.                                      *)

LEMMA LevelFacts ==
    /\ Level["absent"] = 0 /\ Level["paid"] = 0
    /\ Level["created"] = 1
    /\ Level["authorized"] = 2
    /\ Level["captured"] = 3 /\ Level["failed"] = 3
BY DEF Level, OpStates

LEMMA EventFacts ==
    /\ EVENT_STATE_MAP["payment.authorized"] = "authorized"
    /\ EVENT_STATE_MAP["payment.captured"] = "captured"
    /\ EVENT_STATE_MAP["payment.failed"] = "failed"
BY DEF EVENT_STATE_MAP, EventTypes

-----------------------------------------------------------------------------
LEMMA InitIInv == Init => IInv
<1> SUFFICES ASSUME Init PROVE IInv
    OBVIOUS
<1> USE LedgerAssumption DEF Init
<1>1. TypeOK
  BY DEF TypeOK, OpRow, NoOp, OpStates, Call, Idle, Stages, RemoteOrder, NoRemoteOrder,
         RemotePayment, NoRemotePayment, PaymentStatuses
<1>2. RowsOK /\ OrdersApart /\ OrderMatchesOperation /\ PaymentEvidence
  BY DEF RowsOK, OrdersApart, OrderMatchesOperation, PaymentEvidence, NoOp
<1>3. /\ CallOK /\ HandedKnown /\ ReconciledKnown /\ SentTrue /\ QuarantineForeign
      /\ ProcessedIsApplied
  BY DEF CallOK, HandedKnown, ReconciledKnown, SentTrue, QuarantineForeign, ProcessedIsApplied
<1>4. PaymentsPlaced
  BY DEF PaymentsPlaced, NoRemotePayment
<1> QED BY <1>1, <1>2, <1>3, <1>4 DEF IInv

LEMMA BeginIInv ==
    ASSUME IInv, NEW t \in Traces, OrderBegin(t)
    PROVE  IInv'
<1> USE LedgerAssumption DEF IInv, OrderBegin, NeedsOrder, db, remote
<1> DEFINE fp == Fingerprint(t, price[t])
<1>0. /\ fp \in Fingerprints /\ fp = <<t, price[t]>> /\ price[t] \in Amounts
      /\ call = Idle
  BY DEF TypeOK, Fingerprint, Fingerprints
<1>1. TypeOK'
  BY <1>0 DEF TypeOK, OpRow, NoOp, OpStates, Call, Stages
<1>2. RowsOK'
  BY <1>0 DEF TypeOK, RowsOK, NoOp, OpRow, Fingerprints
<1>3. \A f \in Fingerprints : ops'[f].order = ops[f].order
  BY <1>0 DEF TypeOK, NoOp, OpRow, RowsOK
<1>4. OrdersApart' /\ HandedKnown' /\ ReconciledKnown'
  BY <1>3 DEF OrdersApart, HandedKnown, ReconciledKnown
<1>5. CallOK'
  BY <1>0 DEF CallOK, TypeOK, RowsOK, NoOp, OpRow, Idle, Fingerprints
<1>6. OrderMatchesOperation'
  BY <1>0, <1>3 DEF OrderMatchesOperation, TypeOK, NoOp, OpRow
<1>7. PaymentsPlaced' /\ SentTrue' /\ QuarantineForeign'
  BY DEF PaymentsPlaced, SentTrue, QuarantineForeign, ForeignOrders
<1>8. ProcessedIsApplied'
  BY <1>0, <1>3 DEF ProcessedIsApplied, TypeOK, NoOp, OpRow, OpsOf
<1>9. PaymentEvidence'
  BY <1>0, <1>3 DEF PaymentEvidence, TypeOK, NoOp, OpRow, CapturedFor
<1> QED BY <1>1, <1>2, <1>4, <1>5, <1>6, <1>7, <1>8, <1>9

\* Actions that change at most `handed` and `call`: the order of a committed
\* operation is handed out, or the handler gives up.
LEMMA ReturnIInv ==
    ASSUME IInv, NEW t \in Traces, OrderReturn(t)
    PROVE  IInv'
<1> USE LedgerAssumption DEF IInv, OrderReturn, NeedsOrder, db, remote
<1> DEFINE fp == Fingerprint(t, price[t])
<1>0. fp \in Fingerprints /\ ops[fp].order \in Orders
  BY DEF TypeOK, Fingerprint, Fingerprints, OpRow
<1>1. TypeOK'
  BY <1>0 DEF TypeOK
<1>2. RowsOK' /\ OrdersApart' /\ CallOK' /\ ReconciledKnown' /\ OrderMatchesOperation'
  BY DEF RowsOK, OrdersApart, CallOK, ReconciledKnown, OrderMatchesOperation
<1>3. HandedKnown'
  BY <1>0 DEF HandedKnown
<1>4. PaymentsPlaced' /\ SentTrue' /\ QuarantineForeign'
  BY DEF PaymentsPlaced, SentTrue, QuarantineForeign, ForeignOrders
<1>5. ProcessedIsApplied' /\ PaymentEvidence'
  BY DEF ProcessedIsApplied, OpsOf, PaymentEvidence, CapturedFor
<1> QED BY <1>1, <1>2, <1>3, <1>4, <1>5

LEMMA GiveUpIInv ==
    ASSUME IInv, OrderRefused \/ Crash
    PROVE  IInv'
<1> USE LedgerAssumption DEF IInv, OrderRefused, Crash, db, remote
<1>1. TypeOK'
  BY DEF TypeOK, Call, Idle, Stages
<1>2. RowsOK' /\ OrdersApart' /\ CallOK' /\ ReconciledKnown' /\ OrderMatchesOperation'
  BY DEF RowsOK, OrdersApart, CallOK, ReconciledKnown, OrderMatchesOperation
<1>3. HandedKnown' /\ PaymentsPlaced' /\ SentTrue' /\ QuarantineForeign'
  BY DEF HandedKnown, PaymentsPlaced, SentTrue, QuarantineForeign, ForeignOrders
<1>4. ProcessedIsApplied' /\ PaymentEvidence'
  BY DEF ProcessedIsApplied, OpsOf, PaymentEvidence, CapturedFor
<1> QED BY <1>1, <1>2, <1>3, <1>4

\* A new order at the provider changes nothing that is already there.
LEMMA RemoteIInv ==
    ASSUME IInv, NEW o \in Orders, OrderRemote(o)
    PROVE  IInv'
<1> USE LedgerAssumption DEF IInv, OrderRemote, db
<1>1. TypeOK'
  BY DEF TypeOK, Call, Idle, Stages, RemoteOrder
<1>2. RowsOK' /\ OrdersApart' /\ ReconciledKnown' /\ HandedKnown'
  BY DEF RowsOK, OrdersApart, ReconciledKnown, HandedKnown
<1>3. \A x \in Orders : orders[x].exists => orders'[x] = orders[x]
  BY DEF TypeOK
<1>4. OrderMatchesOperation'
  BY <1>3 DEF OrderMatchesOperation, TypeOK, OpRow
<1>5. \A fp \in Fingerprints : ops[fp].order # o
  <2> SUFFICES ASSUME NEW fp \in Fingerprints, ops[fp].order = o PROVE FALSE
    OBVIOUS
  <2>1. orders[o] = [exists |-> TRUE, receipt |-> ops[fp].trace, amount |-> ops[fp].amount]
    BY DEF OrderMatchesOperation
  <2>2. orders[o].exists
    BY <2>1
  <2> QED BY <2>2
<1>6. CallOK'
  <2>1. CASE call' = Idle
    BY <2>1 DEF CallOK
  <2>2. CASE call' = [stage |-> "answered", fp |-> call.fp, trace |-> call.trace,
                      amount |-> call.amount, order |-> o]
    <3>1. /\ call.fp \in Fingerprints /\ call.trace \in Traces
          /\ ops[call.fp].state # "absent" /\ ops[call.fp].trace = call.trace
          /\ ops[call.fp].amount = call.amount /\ ops[call.fp].order = NoOrder
      BY DEF CallOK, Idle
    <3>2. orders'[o] = [exists |-> TRUE, receipt |-> call.trace, amount |-> call.amount]
      BY DEF TypeOK
    <3> QED BY <1>5, <2>2, <3>1, <3>2 DEF CallOK
  <2> QED BY <2>1, <2>2
<1>7. ForeignOrders \subseteq ForeignOrders'
  BY <1>3 DEF ForeignOrders
<1>8. PaymentsPlaced' /\ SentTrue' /\ QuarantineForeign'
  BY <1>7 DEF PaymentsPlaced, SentTrue, QuarantineForeign
<1>9. ProcessedIsApplied' /\ PaymentEvidence'
  BY DEF ProcessedIsApplied, OpsOf, PaymentEvidence, CapturedFor
<1> QED BY <1>1, <1>2, <1>4, <1>6, <1>8, <1>9

LEMMA ForeignIInv ==
    ASSUME IInv, NEW o \in Orders, NEW a \in Amounts, ForeignOrder(o, a)
    PROVE  IInv'
<1> USE LedgerAssumption DEF IInv, ForeignOrder, db
<1>1. TypeOK'
  BY DEF TypeOK, RemoteOrder
<1>2. RowsOK' /\ OrdersApart' /\ ReconciledKnown' /\ HandedKnown'
  BY DEF RowsOK, OrdersApart, ReconciledKnown, HandedKnown
<1>3. \A x \in Orders : orders[x].exists => orders'[x] = orders[x]
  BY DEF TypeOK
<1>4. OrderMatchesOperation'
  BY <1>3 DEF OrderMatchesOperation, TypeOK, OpRow
<1>5. CallOK'
  BY <1>3 DEF CallOK
<1>6. ForeignOrders \subseteq ForeignOrders'
  BY <1>3 DEF ForeignOrders
<1>7. PaymentsPlaced' /\ SentTrue' /\ QuarantineForeign'
  BY <1>6 DEF PaymentsPlaced, SentTrue, QuarantineForeign
<1>8. ProcessedIsApplied' /\ PaymentEvidence'
  BY DEF ProcessedIsApplied, OpsOf, PaymentEvidence, CapturedFor
<1> QED BY <1>1, <1>2, <1>4, <1>5, <1>7, <1>8

\* The order's id is committed to the operation that waited for it.
LEMMA RecordIInv ==
    ASSUME IInv, OrderRecord
    PROVE  IInv'
<1> USE LedgerAssumption DEF IInv, OrderRecord, remote
<1>0. /\ call.stage = "answered" /\ call.fp \in Fingerprints
      /\ call.order \in Orders
      /\ ops[call.fp].order = NoOrder
      /\ \A fp \in Fingerprints : ops[fp].order # call.order
      /\ orders[call.order] = [exists |-> TRUE, receipt |-> ops[call.fp].trace,
                               amount |-> ops[call.fp].amount]
  <2>1. call # Idle
    BY DEF Idle
  <2>2. /\ call.stage = "answered" /\ call.fp \in Fingerprints
        /\ ops[call.fp].trace = call.trace /\ ops[call.fp].amount = call.amount
        /\ ops[call.fp].order = NoOrder
    BY <2>1 DEF CallOK
  <2>3. /\ call.order \in Orders
        /\ \A fp \in Fingerprints : ops[fp].order # call.order
        /\ orders[call.order] = [exists |-> TRUE, receipt |-> call.trace,
                                 amount |-> call.amount]
    BY <2>1, <2>2 DEF CallOK
  <2> QED BY <2>2, <2>3
<1>1. TypeOK'
  BY <1>0 DEF TypeOK, OpRow, Call, Stages
<1>2. /\ \A fp \in Fingerprints : fp # call.fp => ops'[fp] = ops[fp]
      /\ ops'[call.fp] = [ops[call.fp] EXCEPT !.order = call.order]
  BY <1>0 DEF TypeOK
<1>3. /\ ops'[call.fp].order = call.order
      /\ ops'[call.fp].state = ops[call.fp].state
      /\ ops'[call.fp].trace = ops[call.fp].trace
      /\ ops'[call.fp].amount = ops[call.fp].amount
      /\ ops'[call.fp].payment = ops[call.fp].payment
  BY <1>0, <1>2 DEF TypeOK, OpRow
<1>4. ops[call.fp].state # "absent" /\ ops[call.fp].state \notin {"authorized", "captured", "failed", "paid"}
  BY <1>0, <1>1 DEF CallOK, Idle, PaymentEvidence, RowsOK, TypeOK
<1>5. RowsOK'
  BY <1>0, <1>2, <1>3, <1>4 DEF RowsOK
<1>6. OrdersApart'
  BY <1>0, <1>2, <1>3 DEF OrdersApart
<1>7. CallOK'
  BY <1>0, <1>3 DEF CallOK, TypeOK, Call, Idle
<1>8. OrderMatchesOperation'
  BY <1>0, <1>2, <1>3 DEF OrderMatchesOperation
<1>9. HandedKnown' /\ ReconciledKnown'
  BY <1>0, <1>2, <1>3 DEF HandedKnown, ReconciledKnown, TypeOK
<1>10. PaymentsPlaced' /\ SentTrue' /\ QuarantineForeign'
  BY DEF PaymentsPlaced, SentTrue, QuarantineForeign, ForeignOrders
<1>11. ProcessedIsApplied'
  BY <1>0, <1>2 DEF ProcessedIsApplied, OpsOf
<1>12. PaymentEvidence'
  BY <1>2, <1>3, <1>4 DEF PaymentEvidence, CapturedFor
<1> QED BY <1>1, <1>5, <1>6, <1>7, <1>8, <1>9, <1>10, <1>11, <1>12

LEMMA ReplyIInv ==
    ASSUME IInv, OrderReply
    PROVE  IInv'
<1> USE LedgerAssumption DEF IInv, OrderReply, db, remote
<1>0. call.fp \in Fingerprints /\ call.order \in Orders /\ ops[call.fp].order = call.order
  BY DEF CallOK, Idle
<1>1. TypeOK'
  BY <1>0 DEF TypeOK, Call, Idle, Stages
<1>2. RowsOK' /\ OrdersApart' /\ CallOK' /\ ReconciledKnown' /\ OrderMatchesOperation'
  BY DEF RowsOK, OrdersApart, CallOK, ReconciledKnown, OrderMatchesOperation
<1>3. HandedKnown'
  BY <1>0 DEF HandedKnown
<1>4. PaymentsPlaced' /\ SentTrue' /\ QuarantineForeign'
  BY DEF PaymentsPlaced, SentTrue, QuarantineForeign, ForeignOrders
<1>5. ProcessedIsApplied' /\ PaymentEvidence'
  BY DEF ProcessedIsApplied, OpsOf, PaymentEvidence, CapturedFor
<1> QED BY <1>1, <1>2, <1>3, <1>4, <1>5

LEMMA RepriceIInv ==
    ASSUME IInv, NEW t \in Traces, NEW a \in Amounts, Reprice(t, a)
    PROVE  IInv'
<1> USE LedgerAssumption DEF IInv, Reprice, db, remote
<1>1. TypeOK'
  BY DEF TypeOK
<1>2. RowsOK' /\ OrdersApart' /\ CallOK' /\ ReconciledKnown' /\ OrderMatchesOperation'
  BY DEF RowsOK, OrdersApart, CallOK, ReconciledKnown, OrderMatchesOperation
<1>3. HandedKnown' /\ PaymentsPlaced' /\ SentTrue' /\ QuarantineForeign'
  BY DEF HandedKnown, PaymentsPlaced, SentTrue, QuarantineForeign, ForeignOrders
<1>4. ProcessedIsApplied' /\ PaymentEvidence'
  BY DEF ProcessedIsApplied, OpsOf, PaymentEvidence, CapturedFor
<1> QED BY <1>1, <1>2, <1>3, <1>4

-----------------------------------------------------------------------------
(* The steps that move the state of an operation.                          *)

\* What moving an existing operation upwards (or reconciling it) leaves intact.
LEMMA MoveFrame ==
    ASSUME IInv, NEW f \in Fingerprints, NEW s \in OpStates \ {"absent"},
           NEW p \in Payments \cup {NoPayment},
           ops[f].state # "absent", ops[f].order # NoOrder, call = Idle,
           ops' = [ops EXCEPT ![f] = Moved(ops[f], s, p)],
           UNCHANGED <<price, call, remote, handed>>
    PROVE  /\ ops' \in [Fingerprints -> OpRow]
           /\ \A g \in Fingerprints : g # f => ops'[g] = ops[g]
           /\ ops'[f].state = s /\ ops'[f].payment = p
           /\ \A g \in Fingerprints : /\ ops'[g].order = ops[g].order
                                      /\ ops'[g].amount = ops[g].amount
                                      /\ ops'[g].trace = ops[g].trace
           /\ OrdersApart' /\ CallOK' /\ OrderMatchesOperation' /\ HandedKnown'
           /\ PaymentsPlaced' /\ SentTrue'
<1> USE LedgerAssumption DEF IInv, remote
<1>1. ops' \in [Fingerprints -> OpRow]
  BY DEF TypeOK, OpRow, Moved
<1>2. /\ \A g \in Fingerprints : g # f => ops'[g] = ops[g]
      /\ ops'[f] = Moved(ops[f], s, p)
  BY DEF TypeOK
<1>3. ops'[f].state = s /\ ops'[f].payment = p
  BY <1>2 DEF Moved
<1>4. \A g \in Fingerprints : /\ ops'[g].order = ops[g].order
                              /\ ops'[g].amount = ops[g].amount
                              /\ ops'[g].trace = ops[g].trace
  BY <1>2 DEF Moved
<1>5. OrdersApart' /\ CallOK' /\ OrderMatchesOperation' /\ HandedKnown'
  BY <1>4 DEF OrdersApart, CallOK, Idle, OrderMatchesOperation, HandedKnown
<1>6. PaymentsPlaced' /\ SentTrue'
  BY DEF PaymentsPlaced, SentTrue, ForeignOrders
<1> QED BY <1>1, <1>2, <1>3, <1>4, <1>5, <1>6

\* The row that a query by order id returns.
LEMMA Looked ==
    ASSUME IInv, NEW o, NEW f \in OpsOf(o)
    PROVE  /\ f \in Fingerprints /\ ops[f].order = o /\ o \in Orders /\ o # NoOrder
           /\ ops[f].state \in OpStates \ {"absent"}
           /\ ops[f].state = "paid" => o \in reconciled
           /\ \A g \in Fingerprints : ops[g].order = o => g = f
BY LedgerAssumption DEF IInv, TypeOK, OpsOf, OpRow, RowsOK, NoOp, OrdersApart

LEMMA AppliedFacts ==
    ASSUME IInv, NEW e \in sent, NEW f \in OpsOf(payments[e.payment].order)
    PROVE  LET target == EVENT_STATE_MAP[e.type] IN
           \/ /\ Applied(ops[f], e) = ops[f]
              /\ Level[ops[f].state] >= Level[target]
           \/ \E s \in {"authorized", "captured", "failed"} :
                 /\ Applied(ops[f], e) = Moved(ops[f], s, e.payment)
                 /\ Level[s] >= Level[target]
                 /\ Level[s] > Level[ops[f].state]
                 /\ payments[e.payment].status # "absent"
                 /\ s = "failed" => \/ payments[e.payment].status = "failed"
                                    \/ payments[e.payment].amount # ops[f].amount
                 /\ s # "failed" => /\ payments[e.payment].amount = ops[f].amount
                                    /\ payments[e.payment].status \in {"authorized", "captured"}
<1> DEFINE target == EVENT_STATE_MAP[e.type]
<1> USE LedgerAssumption
<1>1. /\ e \in Event /\ e.type \in EventTypes
      /\ target \in {"authorized", "captured", "failed"}
      /\ f \in Fingerprints /\ ops[f].state \in OpStates
  BY Looked, EventFacts DEF IInv, TypeOK, Event, EventTypes
<1>2. /\ payments[e.payment].status # "absent"
      /\ target = "failed" => payments[e.payment].status = "failed"
      /\ target # "failed" => payments[e.payment].status \in {"authorized", "captured"}
  BY <1>1, EventFacts DEF IInv, SentTrue, EventTypes
<1>3. Level[target] \in Int /\ Level[ops[f].state] \in Int /\ Level["failed"] >= Level[target]
  BY <1>1, LevelFacts DEF OpStates
<1>4. CASE ~(Level[target] > Level[ops[f].state])
  BY <1>3, <1>4 DEF Applied
<1>5. CASE Level[target] > Level[ops[f].state]
  <2>1. CASE payments[e.payment].amount = ops[f].amount
    <3>1. Applied(ops[f], e) = Moved(ops[f], target, e.payment)
      BY <1>5, <2>1 DEF Applied
    <3> QED BY <1>1, <1>2, <1>3, <1>5, <2>1, <3>1
  <2>2. CASE payments[e.payment].amount # ops[f].amount
    <3>1. Applied(ops[f], e) = Moved(ops[f], "failed", e.payment)
      BY <1>5, <2>2 DEF Applied
    <3>2. Level["failed"] > Level[ops[f].state] /\ Level["failed"] >= Level[target]
      BY <1>3, <1>5, LevelFacts
    <3> QED BY <1>2, <2>2, <3>1, <3>2
  <2> QED BY <2>1, <2>2
<1> QED BY <1>4, <1>5

\* Events that were processed before stay applied when an operation that is not
\* reconciled moves upwards.
LEMMA UpwardsKeepsApplied ==
    ASSUME IInv, NEW f \in Fingerprints, NEW s \in OpStates \ {"absent"},
           ops' \in [Fingerprints -> OpRow],
           \A g \in Fingerprints : g # f => ops'[g] = ops[g],
           ops'[f].order = ops[f].order,
           ops'[f].state = s, Level[s] > Level[ops[f].state],
           quarantine \subseteq quarantine', reconciled' = reconciled, payments' = payments,
           NEW e \in processed
    PROVE  LET o == payments[e.payment].order IN
           \/ o = NoOrder
           \/ o \in reconciled'
           \/ <<e, o>> \in quarantine'
           \/ \E fp \in Fingerprints :
                 /\ ops'[fp].order = o
                 /\ Level[ops'[fp].state] >= Level[EVENT_STATE_MAP[e.type]]
<1> DEFINE o == payments[e.payment].order
           target == EVENT_STATE_MAP[e.type]
<1>1. CASE o = NoOrder \/ o \in reconciled \/ <<e, o>> \in quarantine
  BY <1>1
<1>2. CASE \E fp \in OpsOf(o) : Level[ops[fp].state] >= Level[target]
  <2>1. PICK fp \in OpsOf(o) : Level[ops[fp].state] >= Level[target]
    BY <1>2
  <2>2. fp \in Fingerprints /\ ops'[fp].order = o
    BY <2>1 DEF OpsOf
  <2>3. Level[ops[fp].state] \in Int /\ Level[ops'[fp].state] \in Int /\ Level[target] \in Int
    <3>1. ops[fp].state \in OpStates /\ ops'[fp].state \in OpStates
      BY <2>2 DEF IInv, TypeOK, OpRow
    <3>2. target \in OpStates
      BY EventFacts DEF IInv, TypeOK, Event, EventTypes, OpStates
    <3> QED BY <3>1, <3>2, LevelFacts DEF OpStates
  <2>4. Level[ops'[fp].state] >= Level[ops[fp].state]
    BY <2>2, <2>3
  <2> QED BY <2>1, <2>2, <2>3, <2>4
<1> QED BY <1>1, <1>2 DEF IInv, ProcessedIsApplied

LEMMA WebhookIInv ==
    ASSUME IInv, NEW e \in Event, Webhook(e)
    PROVE  IInv'
<1> DEFINE p == e.payment
           o == payments[p].order
<1> USE LedgerAssumption
<1>0. /\ e \in sent /\ p \in Payments /\ processed' = processed \cup {e} /\ call = Idle
      /\ UNCHANGED <<price, call, orders, payments, sent, handed, reconciled>>
  BY DEF Webhook, Genuine, remote, IInv, TypeOK, Event
<1>1. CASE Known(o) /\ UNCHANGED quarantine
            /\ \E fp \in OpsOf(o) : ops' = [ops EXCEPT ![fp] = Applied(ops[fp], e)]
  <2>1. PICK f \in OpsOf(o) : ops' = [ops EXCEPT ![f] = Applied(ops[f], e)]
    BY <1>1
  <2>2. /\ f \in Fingerprints /\ ops[f].order = o /\ o \in Orders /\ o # NoOrder
        /\ ops[f].state \in OpStates \ {"absent"}
        /\ \A g \in Fingerprints : ops[g].order = o => g = f
    BY Looked
  <2>3. CASE Applied(ops[f], e) = ops[f] /\ Level[ops[f].state] >= Level[EVENT_STATE_MAP[e.type]]
    <3>1. UNCHANGED ops
      BY <2>1, <2>2, <2>3 DEF IInv, TypeOK
    <3>2. TypeOK'
      BY <1>0, <1>1, <3>1 DEF IInv, TypeOK
    <3>3. RowsOK' /\ OrdersApart' /\ CallOK' /\ ReconciledKnown' /\ OrderMatchesOperation'
      BY <1>0, <3>1 DEF IInv, RowsOK, OrdersApart, CallOK, ReconciledKnown, OrderMatchesOperation
    <3>4. HandedKnown' /\ PaymentsPlaced' /\ SentTrue' /\ QuarantineForeign'
      BY <1>0, <1>1, <3>1 DEF IInv, HandedKnown, PaymentsPlaced, SentTrue, QuarantineForeign, ForeignOrders
    <3>5. ProcessedIsApplied'
      BY <1>0, <1>1, <2>3, <3>1 DEF IInv, ProcessedIsApplied, OpsOf
    <3>6. PaymentEvidence'
      BY <1>0, <3>1 DEF IInv, PaymentEvidence, CapturedFor
    <3> QED BY <3>2, <3>3, <3>4, <3>5, <3>6 DEF IInv
  <2>4. CASE \E s \in {"authorized", "captured", "failed"} :
                 /\ Applied(ops[f], e) = Moved(ops[f], s, e.payment)
                 /\ Level[s] >= Level[EVENT_STATE_MAP[e.type]]
                 /\ Level[s] > Level[ops[f].state]
                 /\ payments[e.payment].status # "absent"
                 /\ s = "failed" => \/ payments[e.payment].status = "failed"
                                    \/ payments[e.payment].amount # ops[f].amount
                 /\ s # "failed" => /\ payments[e.payment].amount = ops[f].amount
                                    /\ payments[e.payment].status \in {"authorized", "captured"}
    <3>1. PICK s \in {"authorized", "captured", "failed"} :
                 /\ Applied(ops[f], e) = Moved(ops[f], s, p)
                 /\ Level[s] >= Level[EVENT_STATE_MAP[e.type]]
                 /\ Level[s] > Level[ops[f].state]
                 /\ payments[p].status # "absent"
                 /\ s = "failed" => \/ payments[p].status = "failed"
                                    \/ payments[p].amount # ops[f].amount
                 /\ s # "failed" => /\ payments[p].amount = ops[f].amount
                                    /\ payments[p].status \in {"authorized", "captured"}
      BY <2>4
    <3>2. s \in OpStates \ {"absent"}
      BY DEF OpStates
    <3>3. /\ ops' \in [Fingerprints -> OpRow]
          /\ \A g \in Fingerprints : g # f => ops'[g] = ops[g]
          /\ ops'[f].state = s /\ ops'[f].payment = p
          /\ \A g \in Fingerprints : /\ ops'[g].order = ops[g].order
                                     /\ ops'[g].amount = ops[g].amount
                                     /\ ops'[g].trace = ops[g].trace
          /\ OrdersApart' /\ CallOK' /\ OrderMatchesOperation' /\ HandedKnown'
          /\ PaymentsPlaced' /\ SentTrue'
      BY <1>0, <2>1, <2>2, <3>1, <3>2, MoveFrame DEF remote
    <3>4. TypeOK'
      BY <1>0, <1>1, <3>3 DEF IInv, TypeOK
    <3>5. RowsOK'
      BY <1>0, <2>2, <3>1, <3>3 DEF IInv, RowsOK
    <3>6. ReconciledKnown' /\ QuarantineForeign'
      BY <1>0, <1>1, <3>3 DEF IInv, ReconciledKnown, QuarantineForeign, ForeignOrders, TypeOK
    <3>7. ProcessedIsApplied'
      <4>1. \A d \in processed :
              LET od == payments[d.payment].order IN
              \/ od = NoOrder
              \/ od \in reconciled'
              \/ <<d, od>> \in quarantine'
              \/ \E fp \in Fingerprints :
                    /\ ops'[fp].order = od
                    /\ Level[ops'[fp].state] >= Level[EVENT_STATE_MAP[d.type]]
        BY <1>0, <1>1, <2>2, <3>1, <3>2, <3>3, UpwardsKeepsApplied
      <4>2. ops'[f].order = o /\ Level[ops'[f].state] >= Level[EVENT_STATE_MAP[e.type]]
        BY <2>2, <3>1, <3>3
      <4> QED BY <1>0, <2>2, <4>1, <4>2 DEF ProcessedIsApplied, OpsOf
    <3>8. PaymentEvidence'
      BY <1>0, <2>2, <3>1, <3>3 DEF IInv, PaymentEvidence, CapturedFor
    <3> QED BY <3>3, <3>4, <3>5, <3>6, <3>7, <3>8 DEF IInv
  <2> QED BY <1>0, <2>3, <2>4, AppliedFacts
<1>2. CASE o \in Orders /\ ~Known(o) /\ quarantine' = quarantine \cup {<<e, o>>} /\ UNCHANGED ops
  <2>1. payments[p].status # "absent"
    BY <1>0 DEF IInv, SentTrue, Event, EventTypes
  <2>2. o \notin handed
    BY <1>2 DEF IInv, HandedKnown, Known, OpsOf
  <2>3. o \in ForeignOrders
    BY <1>0, <1>2, <2>1, <2>2 DEF IInv, PaymentsPlaced
  <2>4. TypeOK'
    BY <1>0, <1>2 DEF IInv, TypeOK
  <2>5. RowsOK' /\ OrdersApart' /\ CallOK' /\ ReconciledKnown' /\ OrderMatchesOperation'
    BY <1>0, <1>2 DEF IInv, RowsOK, OrdersApart, CallOK, ReconciledKnown, OrderMatchesOperation
  <2>6. HandedKnown' /\ PaymentsPlaced' /\ SentTrue'
    BY <1>0, <1>2 DEF IInv, HandedKnown, PaymentsPlaced, SentTrue, ForeignOrders
  <2>7. QuarantineForeign'
    BY <1>0, <1>2, <2>3 DEF IInv, QuarantineForeign, ForeignOrders
  <2>8. ProcessedIsApplied'
    BY <1>0, <1>2 DEF IInv, ProcessedIsApplied, OpsOf
  <2>9. PaymentEvidence'
    BY <1>0, <1>2 DEF IInv, PaymentEvidence, CapturedFor
  <2> QED BY <2>4, <2>5, <2>6, <2>7, <2>8, <2>9 DEF IInv
<1>3. CASE o = NoOrder /\ UNCHANGED <<ops, quarantine>>
  <2>1. TypeOK'
    BY <1>0, <1>3 DEF IInv, TypeOK
  <2>2. RowsOK' /\ OrdersApart' /\ CallOK' /\ ReconciledKnown' /\ OrderMatchesOperation'
    BY <1>0, <1>3 DEF IInv, RowsOK, OrdersApart, CallOK, ReconciledKnown, OrderMatchesOperation
  <2>3. HandedKnown' /\ PaymentsPlaced' /\ SentTrue' /\ QuarantineForeign'
    BY <1>0, <1>3 DEF IInv, HandedKnown, PaymentsPlaced, SentTrue, QuarantineForeign, ForeignOrders
  <2>4. ProcessedIsApplied'
    BY <1>0, <1>3 DEF IInv, ProcessedIsApplied, OpsOf
  <2>5. PaymentEvidence'
    BY <1>0, <1>3 DEF IInv, PaymentEvidence, CapturedFor
  <2> QED BY <2>1, <2>2, <2>3, <2>4, <2>5 DEF IInv
<1> QED BY <1>1, <1>2, <1>3 DEF Webhook

LEMMA VerifyIInv ==
    ASSUME IInv, NEW p \in Payments, Verify(p)
    PROVE  IInv'
<1> DEFINE o == payments[p].order
<1> USE LedgerAssumption
<1>0. /\ payments[p].status \in {"authorized", "captured"} /\ call = Idle
      /\ UNCHANGED <<price, call, orders, payments, sent, processed, quarantine, handed,
                     reconciled>>
  BY DEF Verify, remote
<1>1. PICK f \in OpsOf(o) : /\ Level["captured"] > Level[ops[f].state]
                           /\ ops' = [ops EXCEPT ![f] = Moved(ops[f], "captured", p)]
  BY DEF Verify
<1>2. /\ f \in Fingerprints /\ ops[f].order = o /\ o \in Orders /\ o # NoOrder
      /\ ops[f].state \in OpStates \ {"absent"}
  BY Looked
<1>3. "captured" \in OpStates \ {"absent"}
  BY DEF OpStates
<1>4. /\ ops' \in [Fingerprints -> OpRow]
      /\ \A g \in Fingerprints : g # f => ops'[g] = ops[g]
      /\ ops'[f].state = "captured" /\ ops'[f].payment = p
      /\ \A g \in Fingerprints : /\ ops'[g].order = ops[g].order
                                 /\ ops'[g].amount = ops[g].amount
                                 /\ ops'[g].trace = ops[g].trace
      /\ OrdersApart' /\ CallOK' /\ OrderMatchesOperation' /\ HandedKnown'
      /\ PaymentsPlaced' /\ SentTrue'
  BY <1>0, <1>1, <1>2, <1>3, MoveFrame DEF remote
<1>5. TypeOK'
  BY <1>0, <1>4 DEF IInv, TypeOK
<1>6. RowsOK'
  BY <1>0, <1>2, <1>4 DEF IInv, RowsOK
<1>7. ReconciledKnown' /\ QuarantineForeign'
  BY <1>0, <1>4 DEF IInv, ReconciledKnown, QuarantineForeign, ForeignOrders, TypeOK
<1>8. ProcessedIsApplied'
  <2>1. \A d \in processed :
          LET od == payments[d.payment].order IN
          \/ od = NoOrder
          \/ od \in reconciled'
          \/ <<d, od>> \in quarantine'
          \/ \E fp \in Fingerprints :
                /\ ops'[fp].order = od
                /\ Level[ops'[fp].state] >= Level[EVENT_STATE_MAP[d.type]]
    BY <1>0, <1>1, <1>2, <1>3, <1>4, UpwardsKeepsApplied
  <2> QED BY <1>0, <2>1 DEF ProcessedIsApplied, OpsOf
<1>9. PaymentEvidence'
  BY <1>0, <1>2, <1>4 DEF IInv, PaymentEvidence, CapturedFor
<1> QED BY <1>4, <1>5, <1>6, <1>7, <1>8, <1>9 DEF IInv

LEMMA ReconcileIInv ==
    ASSUME IInv, NEW o \in Orders, Reconcile(o)
    PROVE  IInv'
<1> USE LedgerAssumption
<1>0. /\ call = Idle /\ reconciled' = reconciled \cup {o}
      /\ UNCHANGED <<price, call, orders, payments, sent, processed, quarantine, handed>>
  BY DEF Reconcile, remote
<1>1. PICK f \in OpsOf(o), q \in CapturedFor(o) :
           /\ payments[q].amount = ops[f].amount
           /\ ops' = [ops EXCEPT ![f].state = "paid"]
  BY DEF Reconcile
<1>2. /\ f \in Fingerprints /\ ops[f].order = o /\ o # NoOrder
      /\ ops[f].state \in OpStates \ {"absent"}
      /\ ops[f].payment \in Payments \cup {NoPayment}
  BY Looked DEF IInv, TypeOK, OpRow
<1>3. ops' = [ops EXCEPT ![f] = Moved(ops[f], "paid", ops[f].payment)]
  <2>1. [ops[f] EXCEPT !.state = "paid"] = Moved(ops[f], "paid", ops[f].payment)
    BY <1>2 DEF Moved, IInv, TypeOK, OpRow
  <2> QED BY <1>1, <1>2, <2>1 DEF IInv, TypeOK
<1>4. /\ ops' \in [Fingerprints -> OpRow]
      /\ \A g \in Fingerprints : g # f => ops'[g] = ops[g]
      /\ ops'[f].state = "paid" /\ ops'[f].payment = ops[f].payment
      /\ \A g \in Fingerprints : /\ ops'[g].order = ops[g].order
                                 /\ ops'[g].amount = ops[g].amount
                                 /\ ops'[g].trace = ops[g].trace
      /\ OrdersApart' /\ CallOK' /\ OrderMatchesOperation' /\ HandedKnown'
      /\ PaymentsPlaced' /\ SentTrue'
  <2>1. "paid" \in OpStates \ {"absent"}
    BY DEF OpStates
  <2> QED BY <1>0, <1>2, <1>3, <2>1, MoveFrame DEF remote
<1>5. TypeOK'
  BY <1>0, <1>4 DEF IInv, TypeOK
<1>6. RowsOK'
  BY <1>0, <1>2, <1>4 DEF IInv, RowsOK
<1>7. ReconciledKnown' /\ QuarantineForeign'
  BY <1>0, <1>2, <1>4 DEF IInv, ReconciledKnown, QuarantineForeign, ForeignOrders, TypeOK
<1>8. ProcessedIsApplied'
  <2>1. SUFFICES ASSUME NEW d \in processed
                 PROVE  LET od == payments[d.payment].order IN
                        \/ od = NoOrder
                        \/ od \in reconciled'
                        \/ <<d, od>> \in quarantine
                        \/ \E fp \in Fingerprints :
                              /\ od # NoOrder /\ ops'[fp].order = od
                              /\ Level[ops'[fp].state] >= Level[EVENT_STATE_MAP[d.type]]
    BY <1>0 DEF ProcessedIsApplied, OpsOf
  <2>2. CASE payments[d.payment].order = o
    BY <1>0, <2>2
  <2>3. CASE payments[d.payment].order # o
    BY <1>0, <1>2, <1>4, <2>3 DEF IInv, ProcessedIsApplied, OpsOf
  <2> QED BY <2>2, <2>3
<1>9. PaymentEvidence'
  <2>1. SUFFICES ASSUME NEW g \in Fingerprints, g = f
                 PROVE  \E c \in CapturedFor(o) : payments[c].amount = ops[f].amount
    BY <1>0, <1>2, <1>4 DEF IInv, PaymentEvidence, CapturedFor
  <2> QED BY <1>1
<1> QED BY <1>4, <1>5, <1>6, <1>7, <1>8, <1>9 DEF IInv

-----------------------------------------------------------------------------
(* The provider's steps: a payment appears or is captured.                 *)

LEMMA AttemptIInv ==
    ASSUME IInv, NEW p \in Payments, NEW o \in Orders \cup {NoOrder}, NEW a \in Amounts,
           NEW s \in {"authorized", "failed"}, Attempt(p, o, a, s)
    PROVE  IInv'
<1> USE LedgerAssumption DEF IInv, Attempt, db
<1> DEFINE e == [payment |-> p,
                 type |-> IF s = "failed" THEN "payment.failed" ELSE "payment.authorized"]
<1>1. e \in Event /\ e.payment = p
      /\ (s = "failed" => e.type = "payment.failed")
      /\ (s = "authorized" => e.type = "payment.authorized")
  BY DEF Event, EventTypes
<1>2. /\ \A q \in Payments : payments[q].status # "absent" => payments'[q] = payments[q]
      /\ payments'[p].status = s /\ payments'[p].order = o
  BY DEF TypeOK
<1>3. TypeOK'
  BY <1>1 DEF TypeOK, RemotePayment, PaymentStatuses
<1>4. RowsOK' /\ OrdersApart' /\ CallOK' /\ ReconciledKnown' /\ OrderMatchesOperation'
  BY DEF RowsOK, OrdersApart, CallOK, ReconciledKnown, OrderMatchesOperation
<1>5. HandedKnown' /\ QuarantineForeign'
  BY DEF HandedKnown, QuarantineForeign, ForeignOrders
<1>6. PaymentsPlaced'
  BY <1>2, <1>3 DEF PaymentsPlaced, ForeignOrders, Payable, TypeOK
<1>7. \A d \in sent : d.payment \in Payments /\ payments[d.payment].status # "absent"
  BY DEF SentTrue, TypeOK, Event, EventTypes
<1>8. SentTrue'
  BY <1>1, <1>2, <1>7 DEF SentTrue, TypeOK
<1>9. ProcessedIsApplied'
  BY <1>2, <1>7 DEF ProcessedIsApplied, OpsOf, TypeOK
<1>10. PaymentEvidence'
  <2>1. \A x \in Orders : CapturedFor(x) \subseteq CapturedFor(x)'
    BY <1>2 DEF CapturedFor
  <2>2. \A x \in Orders : \A q \in CapturedFor(x) : payments'[q] = payments[q]
    BY <1>2 DEF CapturedFor
  <2> QED BY <1>2, <2>1, <2>2 DEF PaymentEvidence, TypeOK, OpRow, CapturedFor
<1> QED BY <1>3, <1>4, <1>5, <1>6, <1>8, <1>9, <1>10

LEMMA CaptureIInv ==
    ASSUME IInv, NEW p \in Payments, Capture(p)
    PROVE  IInv'
<1> USE LedgerAssumption DEF IInv, Capture, db
<1>1. [payment |-> p, type |-> "payment.captured"] \in Event
  BY DEF Event, EventTypes
<1>2. /\ \A q \in Payments : q # p => payments'[q] = payments[q]
      /\ payments'[p].status = "captured"
      /\ payments'[p].order = payments[p].order /\ payments'[p].amount = payments[p].amount
  BY DEF TypeOK, RemotePayment
<1>3. TypeOK'
  BY <1>1 DEF TypeOK, RemotePayment, PaymentStatuses
<1>4. RowsOK' /\ OrdersApart' /\ CallOK' /\ ReconciledKnown' /\ OrderMatchesOperation'
  BY DEF RowsOK, OrdersApart, CallOK, ReconciledKnown, OrderMatchesOperation
<1>5. HandedKnown' /\ QuarantineForeign'
  BY DEF HandedKnown, QuarantineForeign, ForeignOrders
<1>6. PaymentsPlaced'
  BY <1>2 DEF PaymentsPlaced, ForeignOrders
<1>7. SentTrue'
  BY <1>2 DEF SentTrue, TypeOK, Event
<1>8. \A q \in Payments : payments'[q].order = payments[q].order /\ payments'[q].amount = payments[q].amount
  BY <1>2
<1>9. ProcessedIsApplied'
  BY <1>8 DEF ProcessedIsApplied, OpsOf, TypeOK, Event
<1>10. PaymentEvidence'
  <2>1. \A x \in Orders : CapturedFor(x) \subseteq CapturedFor(x)'
    BY <1>2 DEF CapturedFor
  <2> QED BY <1>2, <1>8, <2>1 DEF PaymentEvidence, TypeOK, OpRow, CapturedFor
<1> QED BY <1>3, <1>4, <1>5, <1>6, <1>7, <1>9, <1>10

-----------------------------------------------------------------------------
LEMMA StutterIInv == IInv /\ UNCHANGED vars => IInv'
<1> SUFFICES ASSUME IInv, UNCHANGED vars PROVE IInv'
  OBVIOUS
<1> USE DEF IInv, vars
<1>1. TypeOK' /\ RowsOK' /\ OrdersApart' /\ CallOK' /\ ReconciledKnown' /\ OrderMatchesOperation'
  BY DEF TypeOK, RowsOK, OrdersApart, CallOK, ReconciledKnown, OrderMatchesOperation
<1>2. HandedKnown' /\ PaymentsPlaced' /\ SentTrue' /\ QuarantineForeign'
  BY DEF HandedKnown, PaymentsPlaced, SentTrue, QuarantineForeign, ForeignOrders
<1>3. ProcessedIsApplied' /\ PaymentEvidence'
  BY DEF ProcessedIsApplied, OpsOf, PaymentEvidence, CapturedFor
<1> QED BY <1>1, <1>2, <1>3

LEMMA StepIInv == IInv /\ [Next]_vars => IInv'
<1> SUFFICES ASSUME IInv, [Next]_vars PROVE IInv'
  OBVIOUS
<1>1. CASE UNCHANGED vars
  BY <1>1, StutterIInv
<1>2. CASE Serve
  BY <1>2, ReturnIInv, BeginIInv, RemoteIInv, ReconcileIInv, GiveUpIInv, RecordIInv,
     ReplyIInv, WebhookIInv, VerifyIInv DEF Serve
<1>3. CASE Environment
  BY <1>3, RepriceIInv, ForeignIInv, AttemptIInv, CaptureIInv DEF Environment
<1> QED BY <1>1, <1>2, <1>3 DEF Next

\* The inductive invariant holds throughout.
THEOREM Invariant == Spec => []IInv
BY InitIInv, StepIInv, PTL DEF Spec

\* Every table and every message stays within its type.
THEOREM TypeCorrect == Spec => []TypeOK
<1>1. IInv => TypeOK
  BY DEF IInv
<1> QED BY <1>1, Invariant, PTL

\* The order committed for an operation is, at the provider, the operation's
\* trace and amount.
THEOREM OrderMatches == Spec => []OrderMatchesOperation
<1>1. IInv => OrderMatchesOperation
  BY DEF IInv
<1> QED BY <1>1, Invariant, PTL

\* No trace is handed two orders of the same amount.
THEOREM OneOrder == Spec => []OneOrderToPay
<1>1. IInv => OneOrderToPay
  <2> SUFFICES ASSUME IInv, NEW o1 \in handed, NEW o2 \in handed, orders[o1] = orders[o2]
               PROVE  o1 = o2
    BY DEF OneOrderToPay
  <2> USE LedgerAssumption DEF IInv
  <2>1. PICK f1 \in Fingerprints, f2 \in Fingerprints : ops[f1].order = o1 /\ ops[f2].order = o2
    BY DEF HandedKnown
  <2>2. o1 \in Orders /\ o2 \in Orders /\ o1 # NoOrder /\ o2 # NoOrder
    BY DEF TypeOK
  <2>3. [exists |-> TRUE, receipt |-> ops[f1].trace, amount |-> ops[f1].amount] =
        [exists |-> TRUE, receipt |-> ops[f2].trace, amount |-> ops[f2].amount]
    BY <2>1, <2>2 DEF OrderMatchesOperation
  <2>4. ops[f1].trace = ops[f2].trace /\ ops[f1].amount = ops[f2].amount
    BY <2>3
  <2>5. ops[f1].state # "absent" /\ ops[f2].state # "absent"
    BY <2>1, <2>2 DEF RowsOK, NoOp
  <2> QED BY <2>1, <2>4, <2>5 DEF RowsOK
<1> QED BY <1>1, Invariant, PTL

\* No event of an order of this backend is ever consumed as unknown.
THEOREM Quarantine == Spec => []QuarantineOnlyForeign
<1>1. IInv => QuarantineOnlyForeign
  BY DEF IInv, QuarantineForeign, ForeignOrders, QuarantineOnlyForeign
<1> QED BY <1>1, Invariant, PTL

\* A consumed event has had its effect.
THEOREM NothingLost == Spec => []ProcessedIsApplied
<1>1. IInv => ProcessedIsApplied
  BY DEF IInv
<1> QED BY <1>1, Invariant, PTL

\* The state of an operation is backed by a payment of its order.
THEOREM Evidence == Spec => []PaymentEvidence
<1>1. IInv => PaymentEvidence
  BY DEF IInv
<1> QED BY <1>1, Invariant, PTL

-----------------------------------------------------------------------------
(* The ledger implements the abstract life cycle.                          *)

\* An operation that moves up the hierarchy advances in the life cycle.
LEMMA AdvanceMaps ==
    ASSUME IInv, NEW o, NEW f \in OpsOf(o), NEW s \in {"authorized", "captured", "failed"},
           NEW p \in Payments \cup {NoPayment},
           Level[s] > Level[ops[f].state], UNCHANGED reconciled,
           ops' = [ops EXCEPT ![f] = Moved(ops[f], s, p)]
    PROVE  Lifecycle!Next \/ UNCHANGED LifecycleStatus
<1>1. /\ f \in Fingerprints /\ ops[f].order = o
      /\ ops[f].state \in OpStates \ {"absent"}
      /\ ops[f].state = "paid" => o \in reconciled
  BY Looked
<1>2. /\ \A g \in Fingerprints : g # f => ops'[g] = ops[g]
      /\ ops'[f].state = s /\ ops'[f].order = o
  BY <1>1 DEF IInv, TypeOK, Moved
<1>3. CASE o \in reconciled
  BY <1>1, <1>2, <1>3 DEF LifecycleStatus
<1>4. CASE o \notin reconciled
  <2>1. LifecycleStatus[f] = ops[f].state /\ ops[f].state \in {"created", "authorized"}
    BY <1>1, <1>4, LevelFacts DEF LifecycleStatus, OpStates
  <2>2. LifecycleStatus' = [LifecycleStatus EXCEPT ![f] = s]
    <3>1. \A g \in Fingerprints :
             (IF ops'[g].order \in reconciled' THEN "reconciled" ELSE ops'[g].state)
                = IF g = f THEN s ELSE LifecycleStatus[g]
      BY <1>1, <1>2, <1>4 DEF LifecycleStatus
    <3> QED BY <3>1, <1>1 DEF LifecycleStatus
  <2>3. Lifecycle!Rank[s] > Lifecycle!Rank[ops[f].state]
    BY <2>1, LevelFacts DEF Lifecycle!Rank
  <2>4. Lifecycle!Advance(f, s)
    BY <2>1, <2>2, <2>3 DEF Lifecycle!Advance
  <2>5. s \in Lifecycle!Statuses
    BY DEF Lifecycle!Statuses
  <2> QED BY <1>1, <2>4, <2>5 DEF Lifecycle!Next
<1> QED BY <1>3, <1>4

LEMMA StepMaps == IInv /\ [Next]_vars => [Lifecycle!Next]_LifecycleStatus
<1> SUFFICES ASSUME IInv, [Next]_vars
             PROVE  Lifecycle!Next \/ UNCHANGED LifecycleStatus
  OBVIOUS
<1> USE LedgerAssumption
<1>1. ASSUME UNCHANGED <<ops, reconciled>> PROVE UNCHANGED LifecycleStatus
  BY <1>1 DEF LifecycleStatus
<1>2. CASE \/ UNCHANGED vars \/ Environment \/ OrderRefused \/ OrderReply \/ Crash
           \/ (\E t \in Traces : OrderReturn(t)) \/ (\E o \in Orders : OrderRemote(o))
  BY <1>1, <1>2 DEF vars, db, Environment, Reprice, ForeignOrder, Attempt, Capture,
     OrderRefused, OrderReply, Crash, OrderReturn, OrderRemote
<1>3. ASSUME NEW t \in Traces, OrderBegin(t) PROVE Lifecycle!Next \/ UNCHANGED LifecycleStatus
  <2> DEFINE fp == Fingerprint(t, price[t])
  <2>0. fp \in Fingerprints /\ ops[fp].order = NoOrder /\ NoOrder \notin reconciled
        /\ UNCHANGED reconciled
    BY <1>3 DEF IInv, TypeOK, OrderBegin, NeedsOrder, Fingerprint, Fingerprints
  <2>1. CASE ops[fp].state # "absent"
    BY <1>1, <1>3, <2>1 DEF OrderBegin
  <2>2. CASE ops[fp].state = "absent"
    <3>1. /\ \A g \in Fingerprints : g # fp => ops'[g] = ops[g]
          /\ ops'[fp].state = "created" /\ ops'[fp].order = NoOrder
      BY <1>3, <2>0, <2>2 DEF OrderBegin, IInv, TypeOK
    <3>2. LifecycleStatus[fp] = "absent"
      BY <2>0, <2>2 DEF LifecycleStatus
    <3>3. LifecycleStatus' = [LifecycleStatus EXCEPT ![fp] = "created"]
      BY <2>0, <3>1 DEF LifecycleStatus
    <3> QED BY <2>0, <3>2, <3>3 DEF Lifecycle!Next, Lifecycle!Create
  <2> QED BY <2>1, <2>2
<1>4. CASE OrderRecord
  <2>1. /\ call.fp \in Fingerprints /\ ops[call.fp].order = NoOrder
        /\ call.order \in Orders /\ \A fp \in Fingerprints : ops[fp].order # call.order
    <3>1. call # Idle
      BY <1>4 DEF OrderRecord, Idle
    <3> QED BY <1>4, <3>1 DEF OrderRecord, IInv, CallOK
  <2>2. call.order \notin reconciled /\ NoOrder \notin reconciled /\ UNCHANGED reconciled
    BY <1>4, <2>1 DEF IInv, ReconciledKnown, TypeOK, OrderRecord
  <2>3. /\ \A g \in Fingerprints : g # call.fp => ops'[g] = ops[g]
        /\ ops'[call.fp].state = ops[call.fp].state /\ ops'[call.fp].order = call.order
    BY <1>4, <2>1 DEF OrderRecord, IInv, TypeOK, OpRow
  <2> QED BY <2>1, <2>2, <2>3 DEF LifecycleStatus
<1>5. ASSUME NEW e \in Event, Webhook(e) PROVE Lifecycle!Next \/ UNCHANGED LifecycleStatus
  <2> DEFINE o == payments[e.payment].order
  <2>0. UNCHANGED reconciled /\ e \in sent /\ e.payment \in Payments
    BY <1>5 DEF Webhook, Genuine, Event
  <2>1. CASE UNCHANGED ops
    BY <1>1, <2>0, <2>1
  <2>2. CASE \E fp \in OpsOf(o) : ops' = [ops EXCEPT ![fp] = Applied(ops[fp], e)]
    <3>1. PICK f \in OpsOf(o) : ops' = [ops EXCEPT ![f] = Applied(ops[f], e)]
      BY <2>2
    <3>2. CASE Applied(ops[f], e) = ops[f]
      <4>1. UNCHANGED ops
        BY <3>1, <3>2, Looked DEF IInv, TypeOK
      <4> QED BY <1>1, <2>0, <4>1
    <3>3. CASE \E s \in {"authorized", "captured", "failed"} :
                   /\ Applied(ops[f], e) = Moved(ops[f], s, e.payment)
                   /\ Level[s] > Level[ops[f].state]
      BY <2>0, <3>1, <3>3, AdvanceMaps
    <3> QED BY <2>0, <3>2, <3>3, AppliedFacts
  <2> QED BY <1>5, <2>1, <2>2 DEF Webhook
<1>6. ASSUME NEW p \in Payments, Verify(p) PROVE Lifecycle!Next \/ UNCHANGED LifecycleStatus
  BY <1>6, AdvanceMaps DEF Verify
<1>7. ASSUME NEW o \in Orders, Reconcile(o) PROVE Lifecycle!Next \/ UNCHANGED LifecycleStatus
  <2>1. PICK f \in OpsOf(o) : ops' = [ops EXCEPT ![f].state = "paid"]
    BY <1>7 DEF Reconcile
  <2>2. /\ f \in Fingerprints /\ ops[f].order = o /\ reconciled' = reconciled \cup {o}
        /\ ops[f].state \in OpStates \ {"absent"}
        /\ ops[f].state = "paid" => o \in reconciled
        /\ \A g \in Fingerprints : ops[g].order = o => g = f
    BY <1>7, Looked DEF Reconcile
  <2>3. \A g \in Fingerprints : ops'[g].order = ops[g].order /\ (g # f => ops'[g] = ops[g])
    BY <2>1, <2>2 DEF IInv, TypeOK, OpRow
  <2>4. LifecycleStatus' = [LifecycleStatus EXCEPT ![f] = "reconciled"]
    BY <2>2, <2>3 DEF LifecycleStatus
  <2>5. CASE o \in reconciled
    BY <2>2, <2>4, <2>5 DEF LifecycleStatus
  <2>6. CASE o \notin reconciled
    <3>1. LifecycleStatus[f] \in Lifecycle!Statuses \ {"absent", "reconciled"}
      BY <2>2, <2>6 DEF LifecycleStatus, Lifecycle!Statuses, OpStates
    <3> QED BY <2>2, <2>4, <3>1 DEF Lifecycle!Next, Lifecycle!Reconcile
  <2> QED BY <2>5, <2>6
<1>8. CASE Next
  BY <1>2, <1>3, <1>4, <1>5, <1>6, <1>7, <1>8 DEF Next, Serve
<1> QED BY <1>2, <1>8

\* Every behaviour of the ledger is one of the abstract life cycle: until it is
\* reconciled by hand, an operation only advances and never leaves a final state.
THEOREM Refinement == Spec => ImplementsLifecycle
<1>1. Init => Lifecycle!Init
  BY LedgerAssumption DEF Init, Lifecycle!Init, LifecycleStatus, NoOp
<1>2. IInv /\ [Next]_vars => [Lifecycle!Next]_LifecycleStatus
  BY StepMaps
<1> QED BY <1>1, <1>2, Invariant, PTL DEF Spec, ImplementsLifecycle, Lifecycle!Spec
=============================================================================
