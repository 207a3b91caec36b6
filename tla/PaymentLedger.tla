----------------------------- MODULE PaymentLedger -----------------------------
(***************************************************************************)
(* The payment endpoints of the backend (payments/router.py), the webhook  *)
(* processor (payments/webhook_handler.py), the tables they share          *)
(* (models.py) and the payment provider they talk to.                      *)
(*                                                                         *)
(* The endpoints are `async def` functions that block on the database and  *)
(* on the provider without awaiting, and one uvicorn process serves them:  *)
(* a handler keeps the event loop until it returns.  So the only handler   *)
(* that is not one action is the creation of an order, which commits       *)
(* twice around a remote call; `call` is that handler's program counter    *)
(* and every other handler waits for it.  What can happen meanwhile is     *)
(* the provider, the pricing tables (another process writes them) and a    *)
(* crash.                                                                  *)
(*                                                                         *)
(* The provider is external: it is modelled from the calls the code makes  *)
(* and the events it expects.  Webhooks are kept for ever in `sent`, so    *)
(* they arrive late, twice, out of order or never.                         *)
(***************************************************************************)
EXTENDS Integers, FiniteSets

CONSTANTS
    Traces,      \* traces in READY_FOR_PAYMENT with a CART_CREATED event
    Amounts,     \* totals the pricing snapshots of a cart can give, in paise
    Orders,      \* order ids the provider can issue
    Payments,    \* payment ids the provider can issue
    Foreign,     \* receipt of the orders made outside this backend
    NoOrder,     \* NULL in the column razorpay_order_id
    NoPayment    \* NULL in the column razorpay_payment_id

ASSUME LedgerAssumption ==
    /\ Amounts \subseteq Int
    /\ Foreign \notin Traces
    /\ NoOrder \notin Orders
    /\ NoPayment \notin Payments

VARIABLES
    price,       \* trace -> total of the latest snapshots of its cart
    ops,         \* fingerprint -> row of payment_operations
    call,        \* the create_payment_order handler that holds the loop
    orders,      \* order id -> order at the provider
    payments,    \* payment id -> payment at the provider
    sent,        \* webhook events the provider has issued
    processed,   \* rows of processed_webhook_events
    quarantine,  \* rows of quarantined_webhook_events
    handed,      \* orders whose id a checkout client has received
    reconciled   \* history: orders reconcile_order has written a state for

remote == <<orders, payments, sent>>
db     == <<ops, processed, quarantine>>
vars   == <<price, ops, call, orders, payments, sent, processed, quarantine,
            handed, reconciled>>

-----------------------------------------------------------------------------
(* Tables, states and events.                                              *)

EventTypes == {"payment.authorized", "payment.captured", "payment.failed"}

EVENT_STATE_MAP ==
    [e \in EventTypes |-> IF e = "payment.authorized" THEN "authorized"
                          ELSE IF e = "payment.captured" THEN "captured"
                          ELSE "failed"]

\* "absent" stands for a row that does not exist.  "paid" is what
\* reconcile_order writes: an order status of the provider.
OpStates == {"absent", "created", "authorized", "captured", "failed", "paid"}

\* Mutant: a captured payment ranks with an authorized one.
Level_CapturedAsAuthorized ==
    [absent |-> 0, paid |-> 0, created |-> 1, authorized |-> 2, captured |-> 2, failed |-> 3]

\* STATE_HIERARCHY.get(state, 0)
Level ==
    [absent |-> 0, paid |-> 0, created |-> 1, authorized |-> 2, captured |-> 3, failed |-> 3]

\* The unique column payment_operation_fingerprint; the merchant is fixed and
\* the cart is the trace's.
Fingerprints == Traces \X Amounts
Fingerprint_IgnoresAmount(t, a) == <<t, CHOOSE any \in Amounts : TRUE>>  \* mutant
Fingerprint(t, a) == <<t, a>>
NoFingerprint == <<Foreign, 0>>

OpRow == [state : OpStates, trace : Traces \cup {Foreign}, amount : Amounts \cup {0},
          order : Orders \cup {NoOrder}, payment : Payments \cup {NoPayment}]
NoOp == [state |-> "absent", trace |-> Foreign, amount |-> 0,
         order |-> NoOrder, payment |-> NoPayment]

Stages == {"idle", "calling", "answered", "replying"}
Call == [stage : Stages, fp : Fingerprints \cup {NoFingerprint},
         trace : Traces \cup {Foreign}, amount : Amounts \cup {0},
         order : Orders \cup {NoOrder}]
Idle == [stage |-> "idle", fp |-> NoFingerprint, trace |-> Foreign,
         amount |-> 0, order |-> NoOrder]

RemoteOrder == [exists : BOOLEAN, receipt : Traces \cup {Foreign}, amount : Amounts \cup {0}]
NoRemoteOrder == [exists |-> FALSE, receipt |-> Foreign, amount |-> 0]

PaymentStatuses == {"absent", "authorized", "captured", "failed"}
RemotePayment == [status : PaymentStatuses, order : Orders \cup {NoOrder},
                  amount : Amounts \cup {0}]
NoRemotePayment == [status |-> "absent", order |-> NoOrder, amount |-> 0]

Event == [payment : Payments, type : EventTypes]

\* db.query(PaymentOperation).filter(razorpay_order_id == o)
OpsOf(o) == {fp \in Fingerprints : o # NoOrder /\ ops[fp].order = o}

Known(o) == OpsOf(o) # {}

Init ==
    /\ price \in [Traces -> Amounts]
    /\ ops = [fp \in Fingerprints |-> NoOp]
    /\ call = Idle
    /\ orders = [o \in Orders |-> NoRemoteOrder]
    /\ payments = [p \in Payments |-> NoRemotePayment]
    /\ sent = {}
    /\ processed = {}
    /\ quarantine = {}
    /\ handed = {}
    /\ reconciled = {}

-----------------------------------------------------------------------------
(* POST /api/payments/order: create_payment_order.                         *)

\* The handler goes to the provider unless the operation has its order.
NeedsOrder_Always(fp) == TRUE                                           \* mutant
NeedsOrder(fp) == ops[fp].order = NoOrder

\* The operation exists and has its order: the id is returned again.
OrderReturn(t) ==
    LET fp == Fingerprint(t, price[t]) IN
    /\ call = Idle
    /\ ~NeedsOrder(fp)
    /\ handed' = handed \cup {ops[fp].order}
    /\ UNCHANGED <<price, db, call, remote, reconciled>>

\* Either a new operation is committed, or one left without an order by an
\* earlier call is taken up again; then the provider is called.
OrderBegin(t) ==
    LET fp == Fingerprint(t, price[t]) IN
    /\ call = Idle
    /\ NeedsOrder(fp)
    /\ ops' = IF ops[fp].state = "absent"
              THEN [ops EXCEPT ![fp] = [state |-> "created", trace |-> t,
                                        amount |-> price[t], order |-> NoOrder,
                                        payment |-> NoPayment]]
              ELSE ops
    /\ call' = [stage |-> "calling", fp |-> fp, trace |-> t, amount |-> price[t],
                order |-> NoOrder]
    /\ UNCHANGED <<price, remote, processed, quarantine, handed, reconciled>>

\* razorpay_service.create_order succeeds at the provider; the answer reaches
\* the handler, or the connection fails after the fact.
OrderRemote(o) ==
    /\ call.stage = "calling"
    /\ call.amount > 0
    /\ ~orders[o].exists
    /\ orders' = [orders EXCEPT ![o] = [exists |-> TRUE, receipt |-> call.trace,
                                        amount |-> call.amount]]
    /\ call' \in {[stage |-> "answered", fp |-> call.fp, trace |-> call.trace,
                   amount |-> call.amount, order |-> o], Idle}
    /\ UNCHANGED <<price, db, payments, sent, handed, reconciled>>

\* create_order raises before anything exists at the provider: an amount that
\* is not positive, a BadRequestError, a connection that never opened.
OrderRefused ==
    /\ call.stage = "calling"
    /\ call' = Idle
    /\ UNCHANGED <<price, db, remote, handed, reconciled>>

\* Mutant: the order's id is not committed before the client gets it.
OrderRecord_Uncommitted ==
    /\ call.stage = "answered"
    /\ call' = [call EXCEPT !.stage = "replying"]
    /\ UNCHANGED <<price, db, remote, handed, reconciled>>

\* op.razorpay_order_id = order["id"]; db.commit()
OrderRecord ==
    /\ call.stage = "answered"
    /\ ops' = [ops EXCEPT ![call.fp].order = call.order]
    /\ call' = [call EXCEPT !.stage = "replying"]
    /\ UNCHANGED <<price, remote, processed, quarantine, handed, reconciled>>

OrderReply ==
    /\ call.stage = "replying"
    /\ handed' = handed \cup {call.order}
    /\ call' = Idle
    /\ UNCHANGED <<price, db, remote, reconciled>>

\* The process dies inside the handler.  Outside of it nothing is in memory.
Crash ==
    /\ call # Idle
    /\ call' = Idle
    /\ UNCHANGED <<price, db, remote, handed, reconciled>>

-----------------------------------------------------------------------------
(* POST /api/payments/webhook: WebhookProcessor.process.                   *)

\* op.state = s; op.razorpay_payment_id = p
Moved(op, s, p) == [state |-> s, trace |-> op.trace, amount |-> op.amount,
                    order |-> op.order, payment |-> p]

\* What verify_signature lets through: events the provider has issued.
Genuine_Unchecked(e) == TRUE                                            \* mutant
Genuine(e) == e \in sent

\* Mutants: the last event wins; the amount is not compared; only the first
\* event of an operation counts.
Applied_LastEventWins(op, e) == Moved(op, EVENT_STATE_MAP[e.type], e.payment)
Applied_AnyAmount(op, e) ==
    IF Level[EVENT_STATE_MAP[e.type]] > Level[op.state]
    THEN Applied_LastEventWins(op, e) ELSE op
Applied_FirstEventOnly(op, e) ==
    IF op.state = "created" THEN Applied_AnyAmount(op, e) ELSE op

\* The row an event of a known type leaves behind.  An amount that differs
\* from the operation's turns the advance into a failure.
Applied(op, e) ==
    LET target == EVENT_STATE_MAP[e.type] IN
    IF Level[target] > Level[op.state]
    THEN Moved(op, IF payments[e.payment].amount = op.amount THEN target ELSE "failed",
               e.payment)
    ELSE op

\* A duplicate violates the unique column of processed_webhook_events: the
\* transaction is rolled back, nothing changes.  Otherwise the event's row, the
\* operation and the quarantine are committed together.
Webhook(e) ==
    LET o == payments[e.payment].order IN
    /\ call = Idle
    /\ Genuine(e)
    /\ e \notin processed
    /\ processed' = processed \cup {e}
    /\ \/ /\ Known(o)
          /\ \E fp \in OpsOf(o) : ops' = [ops EXCEPT ![fp] = Applied(ops[fp], e)]
          /\ UNCHANGED quarantine
       \/ /\ o \in Orders /\ ~Known(o)
          /\ quarantine' = quarantine \cup {<<e, o>>}
          /\ UNCHANGED ops
       \/ /\ o = NoOrder
          /\ UNCHANGED <<ops, quarantine>>
    /\ UNCHANGED <<price, call, remote, handed, reconciled>>

-----------------------------------------------------------------------------
(* POST /api/payments/verify: verify_payment.  The provider's checkout      *)
(* signs the pair (order, payment) of a payment that went through; neither *)
(* the amount nor the capture is part of what is signed.                   *)

Verify(p) ==
    LET o == payments[p].order IN
    /\ call = Idle
    /\ payments[p].status \in {"authorized", "captured"}
    /\ \E fp \in OpsOf(o) :
          /\ Level["captured"] > Level[ops[fp].state]
          /\ ops' = [ops EXCEPT ![fp] = Moved(ops[fp], "captured", p)]
    /\ UNCHANGED <<price, call, remote, processed, quarantine, handed, reconciled>>

-----------------------------------------------------------------------------
(* GET /api/payments/order/{id}/reconcile: reconcile_order.  fetch_order   *)
(* says "paid" with the amount paid once a payment of the order is         *)
(* captured, "created" or "attempted" before.                              *)

CapturedFor(o) == {p \in Payments : payments[p].status = "captured" /\ payments[p].order = o}

Reconcile(o) ==
    /\ call = Idle
    /\ \E fp \in OpsOf(o), p \in CapturedFor(o) :
          /\ payments[p].amount = ops[fp].amount
          /\ ops' = [ops EXCEPT ![fp].state = "paid"]
    /\ reconciled' = reconciled \cup {o}
    /\ UNCHANGED <<price, call, remote, processed, quarantine, handed>>

-----------------------------------------------------------------------------
(* The environment: the pricing tables and the provider.                   *)

\* seed_catalog and the merchant's tools add a newer PricingSnapshot.
Reprice(t, a) ==
    /\ price[t] # a
    /\ price' = [price EXCEPT ![t] = a]
    /\ UNCHANGED <<db, call, remote, handed, reconciled>>

\* Another integration of the same provider account makes an order.
ForeignOrder(o, a) ==
    /\ ~orders[o].exists
    /\ a > 0
    /\ orders' = [orders EXCEPT ![o] = [exists |-> TRUE, receipt |-> Foreign, amount |-> a]]
    /\ UNCHANGED <<price, db, call, payments, sent, handed, reconciled>>

\* A payment can be attempted by whoever holds the order's id, or without an
\* order at all (a payment link).
Payable == handed \cup {o \in Orders : orders[o].exists /\ orders[o].receipt = Foreign}
                  \cup {NoOrder}

\* An attempt is authorized or fails.  An order already paid takes no other.
Attempt(p, o, a, s) ==
    /\ payments[p].status = "absent"
    /\ o \in Payable
    /\ o # NoOrder => CapturedFor(o) = {}
    /\ a > 0
    /\ payments' = [payments EXCEPT ![p] = [status |-> s, order |-> o, amount |-> a]]
    /\ sent' = sent \cup {[payment |-> p,
                           type |-> IF s = "failed" THEN "payment.failed"
                                                    ELSE "payment.authorized"]}
    /\ UNCHANGED <<price, db, call, orders, handed, reconciled>>

Capture(p) ==
    LET o == payments[p].order IN
    /\ payments[p].status = "authorized"
    /\ o # NoOrder => CapturedFor(o) = {}
    /\ payments' = [payments EXCEPT ![p].status = "captured"]
    /\ sent' = sent \cup {[payment |-> p, type |-> "payment.captured"]}
    /\ UNCHANGED <<price, db, call, orders, handed, reconciled>>

-----------------------------------------------------------------------------
Serve ==
    \/ \E t \in Traces : OrderReturn(t) \/ OrderBegin(t)
    \/ \E o \in Orders : OrderRemote(o) \/ Reconcile(o)
    \/ OrderRefused \/ OrderRecord \/ OrderReply \/ Crash
    \/ \E e \in Event : Webhook(e)
    \/ \E p \in Payments : Verify(p)

Environment ==
    \/ \E t \in Traces, a \in Amounts : Reprice(t, a)
    \/ \E o \in Orders, a \in Amounts : ForeignOrder(o, a)
    \/ \E p \in Payments, o \in Orders \cup {NoOrder}, a \in Amounts,
          s \in {"authorized", "failed"} : Attempt(p, o, a, s)
    \/ \E p \in Payments : Capture(p)

Next == Serve \/ Environment

Spec == Init /\ [][Next]_vars

\* The provider redelivers an event until it is acknowledged and the event loop
\* serves its queue in order, so an event that finds the loop free again and
\* again is processed.  A handler that holds the loop gets on with its call: it
\* has an answer, an error or the timeout of the HTTP client.
Fairness ==
    /\ \A e \in Event : SF_vars(Webhook(e))
    /\ WF_vars(OrderRefused \/ \E o \in Orders : OrderRemote(o))
    /\ WF_vars(OrderRecord)
    /\ WF_vars(OrderReply)

FairSpec == Spec /\ Fairness

-----------------------------------------------------------------------------
(* Properties.                                                             *)

TypeOK ==
    /\ price \in [Traces -> Amounts]
    /\ ops \in [Fingerprints -> OpRow]
    /\ call \in Call
    /\ orders \in [Orders -> RemoteOrder]
    /\ payments \in [Payments -> RemotePayment]
    /\ sent \subseteq Event
    /\ processed \subseteq sent
    /\ quarantine \subseteq Event \X Orders
    /\ handed \subseteq Orders
    /\ reconciled \subseteq Orders

\* An operation's order is, at the provider, an order of the operation's own
\* trace for exactly the operation's amount, however often the call was
\* retried, crashed or repriced in between (router.py:76-114).
OrderMatchesOperation ==
    \A fp \in Fingerprints :
        ops[fp].order # NoOrder =>
            orders[ops[fp].order] = [exists |-> TRUE, receipt |-> ops[fp].trace,
                                     amount |-> ops[fp].amount]

\* Clients are never given two different orders to pay for the same trace at
\* the same amount: retries after a crash or a lost answer may leave orphans at
\* the provider, never a second payable order (router.py:75-92, 112-116).
OneOrderToPay ==
    \A o1, o2 \in handed : orders[o1] = orders[o2] => o1 = o2

\* Only events of orders made elsewhere are quarantined: an order is committed
\* to its operation before anyone can pay it, so no event of this backend's own
\* orders is ever consumed as unknown (router.py:112-116, webhook_handler.py:149-158).
QuarantineOnlyForeign ==
    \A q \in quarantine : orders[q[2]].receipt = Foreign

\* An event whose id is consumed has had its effect: its operation has advanced
\* at least as far as the event says, or the event is in quarantine, or it
\* names no order.  The guard and the effect are one transaction
\* (webhook_handler.py:6, 115-160), so no crash, duplicate or order of arrival
\* loses an effect.
ProcessedIsApplied ==
    \A e \in processed :
        LET o == payments[e.payment].order IN
        \/ o = NoOrder
        \/ o \in reconciled
        \/ <<e, o>> \in quarantine
        \/ \E fp \in OpsOf(o) : Level[ops[fp].state] >= Level[EVENT_STATE_MAP[e.type]]

\* A payment of the operation's order stands behind every state it is in.
PaymentEvidence ==
    \A fp \in Fingerprints :
        LET op == ops[fp]
            p  == op.payment
            Own == /\ p \in Payments /\ payments[p].status # "absent"
                   /\ payments[p].order = op.order /\ op.order # NoOrder
        IN  /\ op.state = "authorized" =>
                  Own /\ payments[p].status \in {"authorized", "captured"}
                      /\ payments[p].amount = op.amount
            /\ op.state = "captured" =>
                  Own /\ payments[p].status \in {"authorized", "captured"}
            /\ op.state = "failed" =>
                  Own /\ (payments[p].status = "failed" \/ payments[p].amount # op.amount)
            /\ op.state = "paid" =>
                  \E q \in CapturedFor(op.order) : payments[q].amount = op.amount

\* An operation as the abstract life cycle sees it.
LifecycleStatus == [fp \in Fingerprints |->
                       IF ops[fp].order \in reconciled THEN "reconciled" ELSE ops[fp].state]

Lifecycle == INSTANCE PaymentLifecycle
                 WITH Operations <- Fingerprints, status <- LifecycleStatus

\* Until it is reconciled by hand, an operation only moves up the hierarchy,
\* and neither leaves "captured" nor un-fails (webhook_handler.py:7, 21-27).
ImplementsLifecycle == Lifecycle!Spec

\* Some attempt to pay the order failed or was for another amount.
Spoilt(o) ==
    \E p \in Payments : /\ payments[p].status # "absent" /\ payments[p].order = o
                        /\ \/ payments[p].status = "failed"
                           \/ payments[p].amount # orders[o].amount

\* Money captured for an order that was handed out is recorded as captured, or
\* the order is reconciled by hand, if every attempt to pay the order was for its
\* amount and none failed.  "failed" ranks with "captured", so a failure that is
\* processed first is what stays recorded (webhook_handler.py:26, 129-160).
CapturedIsRecorded ==
    \A o \in Orders :
        (o \in handed /\ CapturedFor(o) # {} /\ ~Spoilt(o)) ~>
            \/ o \in reconciled
            \/ \E fp \in OpsOf(o) : ops[fp].state = "captured"

\* "Monotonic state: payment state only advances, never regresses"
\* (webhook_handler.py:7), with the provider's "paid" read as what it means, a
\* captured payment.
DocLevel(s) == IF s = "paid" THEN Level["captured"] ELSE Level[s]
StateOnlyAdvances ==
    [][\A fp \in Fingerprints : DocLevel(ops'[fp].state) >= DocLevel(ops[fp].state)]_ops

\* "Amount MUST match exactly" (webhook_handler.py:139-140): an operation whose
\* captured event has been accepted is captured for its own amount.
CapturedExactly ==
    \A e \in processed : \A fp \in OpsOf(payments[e.payment].order) :
        (e.type = "payment.captured" /\ ops[fp].state = "captured"
             /\ ops[fp].payment = e.payment)
            => payments[e.payment].amount = ops[fp].amount
=============================================================================
