-------------------------- MODULE PreparePaymentProofs --------------------------
(***************************************************************************)
(* Proofs about PreparePayment, for any catalogue, any fees and any number *)
(* of orders, traces, crashes and retries.                                 *)
(*                                                                         *)
(* What counts are the calls that insert their operation.  Such a call is  *)
(* the only one of its fingerprint, it asks for one order, and as long as  *)
(* its request may still be executed its operation is not "created".       *)
(***************************************************************************)
EXTENDS PreparePayment, CommerceRunnerProofs

\* A run that has not entered the payment has asked for nothing, and a request
\* that was executed has an order of its own.
RequestOK ==
    /\ DOMAIN orders = Orders /\ DOMAIN answers = Orders
    /\ state \in Before => request = NoRequest
    /\ request.stage = "executed" =>
          /\ request.order \in OwnOrders /\ orders[request.order].exists
          /\ answers[request.order] = svc.call

\* A run whose payment is pending reports the order of its request, or the mock.
PendingReports ==
    state = "PAYMENT_PENDING" =>
        \/ adapter = "none" /\ link = MockOrder /\ request.stage = "none"
        \/ link = request.order /\ request.stage = "executed"

\* The operation of a fingerprint is in the table; it is not "created" yet.
Present(fp) == \E r \in ops : r.fp = fp
Open(fp)    == \A r \in ops : r.fp = fp => r.state # "created"

\* A call works on an operation.  If it inserted that operation, the operation
\* is open while the call lasts and while its request is under way, and the only
\* order made for it so far is the one of its request.
CallOK ==
    /\ svc.stage = "idle" => svc = Idle /\ request = NoRequest
    /\ svc.stage # "idle" => Present(svc.call.fp)
    /\ svc.call.inserted =>
          /\ svc.stage = "paying" \/ request.stage = "sent" => Open(svc.call.fp)
          /\ \A o \in OwnOrders : answers[o].inserted /\ answers[o].fp = svc.call.fp =>
                request.stage = "executed" /\ o = request.order

\* The same of a request whose runner is gone: nothing was made for it so far,
\* and no other request is under way for an operation its call inserted.
LateOK ==
    \A l \in late :
        /\ l.order \in Orders /\ Present(l.call.fp)
        /\ l.call.inserted =>
              /\ Open(l.call.fp)
              /\ svc.call.inserted => svc.call.fp # l.call.fp
              /\ \A o \in OwnOrders : answers[o].inserted => answers[o].fp # l.call.fp
              /\ \A k \in late : k.call.inserted /\ k.call.fp = l.call.fp => k = l

PrepareInv == RequestOK /\ PendingReports /\ CallOK /\ LateOK
              /\ OrdersAccountedFor /\ InsertedOrdersOnce /\ CreatedHasOrder

-----------------------------------------------------------------------------
LEMMA InitInv == PInit => PrepareInv
<1> SUFFICES ASSUME PInit PROVE PrepareInv OBVIOUS
<1> USE DEF PInit, Init
<1>1. DOMAIN orders = Orders /\ \A o \in Orders : ~orders[o].own
  <2>1. ASSUME NEW o \in Orders PROVE ~orders[o].own
    <3>1. orders[o] \in {NoRemoteOrder}
              \cup [exists : {TRUE}, own : {FALSE}, amount : Prices \ {0}]
      BY <2>1
    <3>2. CASE orders[o] = NoRemoteOrder
      BY <3>2 DEF NoRemoteOrder
    <3>3. CASE orders[o] \in [exists : {TRUE}, own : {FALSE}, amount : Prices \ {0}]
      <4>1. orders[o].own \in {FALSE} BY <3>3
      <4> QED BY <4>1
    <3> QED BY <3>1, <3>2, <3>3
  <2> QED BY <2>1
<1>2. OwnOrders = {} BY <1>1 DEF OwnOrders
<1>3. request = NoRequest /\ request.stage = "none" BY DEF NoRequest
<1>4. svc = Idle /\ svc.stage = "idle" /\ ~svc.call.inserted BY DEF Idle, NoCall
<1> QED
  BY <1>1, <1>2, <1>3, <1>4 DEF PrepareInv, RequestOK, PendingReports, CallOK, LateOK,
     OrdersAccountedFor, InsertedOrdersOnce, CreatedHasOrder

\* Steps of the runner that ask nothing of the provider and learn nothing.
LEMMA QuietStep ==
    ASSUME PrepareInv, UNCHANGED <<orders, request, adapter, prepareVars>>,
           state # "PAYMENT_PENDING", state' # "PAYMENT_PENDING",
           state' \in Before => state \in Before
    PROVE  PrepareInv'
  BY DEF PrepareInv, RequestOK, PendingReports, CallOK, LateOK, Present, Open,
     OrdersAccountedFor, InsertedOrdersOnce, CreatedHasOrder, OwnOrders, prepareVars

\* Shopping, and the merchant's changes before the payment.
LEMMA ShoppingInv ==
    ASSUME PrepareInv, ShoppingStep \/ MerchantChange \/ EnterPayment, UNCHANGED prepareVars
    PROVE  PrepareInv'
<1>1. /\ UNCHANGED <<orders, request, adapter>>
      /\ state # "PAYMENT_PENDING" /\ state' # "PAYMENT_PENDING"
      /\ state \in Before
  BY DEF ShoppingStep, Discover, Evaluate, Select, CreateCart, BeginPrecheck, AgentRaises,
     Precheck, MerchantChange, EnterPayment, Goto, Abort, Before, runnerVars
<1> QED BY <1>1, QuietStep

\* The request is sent, or the payment ends without one.
LEMMA ValidateInv ==
    ASSUME PrepareInv, svc.stage = "paying", Validate, UNCHANGED prepareVars
    PROVE  PrepareInv'
<1> USE DEF PrepareInv
<1>1. /\ request = NoRequest /\ request.stage = "none"
      /\ UNCHANGED <<orders, adapter>>
  BY DEF Validate, NoRequest
<1>2. /\ state' \in {"ABORTED", "PAYMENT_PENDING", "PAYMENT"}
      /\ request' = request \/ request'.stage = "sent"
      /\ state' = "PAYMENT_PENDING" =>
            adapter = "none" /\ link' = MockOrder /\ request' = request
  BY DEF Validate, Abort
<1>3. state' \notin Before BY <1>2 DEF Before
<1>4. RequestOK' /\ PendingReports'
  BY <1>1, <1>2, <1>3 DEF RequestOK, PendingReports, OwnOrders, prepareVars
<1>5. CallOK' BY <1>1 DEF CallOK, Present, Open, OwnOrders, prepareVars
<1> QED
  BY <1>1, <1>4, <1>5 DEF LateOK, Present, Open, OrdersAccountedFor, InsertedOrdersOnce,
     CreatedHasOrder, OwnOrders, prepareVars

\* The other steps of process_payment.
LEMMA PaymentInv ==
    ASSUME PrepareInv, svc.stage = "paying", PaymentStep, ~Validate, UNCHANGED prepareVars
    PROVE  PrepareInv'
<1> USE DEF PrepareInv
<1>1. CASE Answer
  <2>1. /\ UNCHANGED <<orders, request, adapter>>
        /\ request.stage = "executed" /\ state' = "PAYMENT_PENDING" /\ link' = request.order
    BY <1>1 DEF Answer
  <2>2. RequestOK' /\ PendingReports'
    BY <2>1 DEF RequestOK, PendingReports, Before, OwnOrders, prepareVars
  <2> QED
    BY <2>1, <2>2 DEF CallOK, LateOK, Present, Open, OrdersAccountedFor, InsertedOrdersOnce,
       CreatedHasOrder, OwnOrders, prepareVars
<1>2. CASE ClientRaises
  <2>1. /\ UNCHANGED <<orders, adapter, state, link>>
        /\ state = "PAYMENT"
        /\ \/ request' = request
           \/ request.stage = "sent" /\ request'.stage = "refused"
    BY <1>2 DEF ClientRaises, Waiting
  <2>2. RequestOK' /\ PendingReports'
    BY <2>1 DEF RequestOK, PendingReports, Before, OwnOrders, prepareVars
  <2>3. CallOK' BY <2>1 DEF CallOK, Present, Open, OwnOrders, prepareVars
  <2> QED
    BY <2>1, <2>2, <2>3 DEF LateOK, Present, Open, OrdersAccountedFor, InsertedOrdersOnce,
       CreatedHasOrder, OwnOrders, prepareVars
<1>3. CASE ~Answer /\ ~ClientRaises
  <2>1. /\ UNCHANGED <<orders, request, adapter>>
        /\ state # "PAYMENT_PENDING" /\ state' # "PAYMENT_PENDING"
        /\ state' \notin Before
    BY <1>3 DEF PaymentStep, Timeout, ConnectionFails, ReconcileBegin, NoService, LookupFinds,
       LookupFindsNothing, LookupFails, Complete, Waiting, Reconciling, Goto, Abort, Before
  <2> QED BY <2>1, QuietStep
<1> QED BY <1>1, <1>2, <1>3

\* An order is made for a call whose operation is there, and open if the call
\* inserted it; nothing else was made for that operation by such a call.
LEMMA NewOrder ==
    ASSUME PrepareInv, UNCHANGED <<ops, adapter>>,
           NEW o \in Orders, ~orders[o].exists, NEW call,
           orders' = [orders EXCEPT ![o] = [exists |-> TRUE, own |-> TRUE,
                                            amount |-> orders'[o].amount]],
           answers' = [answers EXCEPT ![o] = call],
           Present(call.fp), call.inserted => Open(call.fp),
           \A p \in OwnOrders : call.inserted /\ answers[p].inserted => answers[p].fp # call.fp
    PROVE  /\ DOMAIN orders' = Orders /\ DOMAIN answers' = Orders
           /\ OwnOrders' = OwnOrders \cup {o}
           /\ orders'[o].exists /\ answers'[o] = call
           /\ \A p \in Orders : p # o => orders'[p] = orders[p] /\ answers'[p] = answers[p]
           /\ OrdersAccountedFor' /\ InsertedOrdersOnce' /\ CreatedHasOrder'
<1> USE DEF PrepareInv
<1>1. /\ DOMAIN orders' = Orders /\ DOMAIN answers' = Orders
      /\ orders'[o].exists /\ orders'[o].own /\ answers'[o] = call
      /\ \A p \in Orders : p # o => orders'[p] = orders[p] /\ answers'[p] = answers[p]
  BY DEF RequestOK
<1>2. OwnOrders' = OwnOrders \cup {o} BY <1>1 DEF OwnOrders
<1>3. OwnOrders \subseteq Orders BY DEF OwnOrders
<1>4. OrdersAccountedFor'
  BY <1>1, <1>2, <1>3 DEF OrdersAccountedFor, Present, Open
<1>5. InsertedOrdersOnce'
  BY <1>1, <1>2, <1>3 DEF InsertedOrdersOnce
<1>6. CreatedHasOrder'
  BY <1>1, <1>2, <1>3 DEF CreatedHasOrder
<1> QED BY <1>1, <1>2, <1>4, <1>5, <1>6

\* The provider executes the request of the present runner.
LEMMA RemoteInv ==
    ASSUME PrepareInv, NEW o \in Orders, RemoteExecutes(o),
           answers' = [answers EXCEPT ![o] = svc.call], UNCHANGED <<latest, ops, svc, late>>
    PROVE  PrepareInv'
<1> USE DEF PrepareInv
<1>1. /\ request.stage = "sent" /\ ~orders[o].exists
      /\ request'.stage = "executed" /\ request'.order = o
      /\ UNCHANGED <<state, link, adapter>>
      /\ orders' = [orders EXCEPT ![o] = [exists |-> TRUE, own |-> TRUE,
                                          amount |-> request.amount]]
  BY DEF RemoteExecutes, runnerVars
<1>2. orders' = [orders EXCEPT ![o] = [exists |-> TRUE, own |-> TRUE,
                                       amount |-> orders'[o].amount]]
  <2>1. orders'[o].amount = request.amount BY <1>1 DEF RequestOK
  <2> QED BY <1>1, <2>1
<1>3. request # NoRequest /\ svc.stage # "idle" BY <1>1 DEF NoRequest, CallOK
<1>4. state # "PAYMENT_PENDING" /\ state \notin Before
  BY <1>1, <1>3 DEF PendingReports, RequestOK
<1>5. /\ DOMAIN orders' = Orders /\ DOMAIN answers' = Orders
      /\ OwnOrders' = OwnOrders \cup {o}
      /\ orders'[o].exists /\ answers'[o] = svc.call
      /\ \A p \in Orders : p # o => orders'[p] = orders[p] /\ answers'[p] = answers[p]
      /\ OrdersAccountedFor' /\ InsertedOrdersOnce' /\ CreatedHasOrder'
  <2>1. Present(svc.call.fp) /\ (svc.call.inserted => Open(svc.call.fp))
    BY <1>1, <1>3 DEF CallOK
  <2>2. \A p \in OwnOrders : svc.call.inserted /\ answers[p].inserted =>
           answers[p].fp # svc.call.fp
    BY <1>1 DEF CallOK
  <2> QED BY <1>1, <1>2, <2>1, <2>2, NewOrder
<1>6. OwnOrders \subseteq Orders BY DEF OwnOrders
<1>7. RequestOK' /\ PendingReports'
  BY <1>1, <1>4, <1>5 DEF RequestOK, PendingReports
<1>8. CallOK'
  <2>1. svc.call.inserted => \A p \in OwnOrders' : p = o \/ ~answers'[p].inserted
                                                   \/ answers'[p].fp # svc.call.fp
    BY <1>1, <1>5, <1>6 DEF CallOK
  <2> QED BY <1>1, <1>3, <2>1 DEF CallOK, Present, Open
<1>9. LateOK'
  BY <1>5, <1>6 DEF LateOK, Present, Open
<1> QED BY <1>5, <1>7, <1>8, <1>9

\* The provider executes the request of a runner that is gone.
LEMMA LateInv == ASSUME PrepareInv, NEW l \in late, LateExecutes(l) PROVE PrepareInv'
<1> USE DEF PrepareInv
<1> DEFINE o == l.order
<1>1. /\ ~orders[o].exists /\ late' = late \ {l}
      /\ UNCHANGED <<state, link, adapter, request, ops, svc>>
      /\ orders' = [orders EXCEPT ![o] = [exists |-> TRUE, own |-> TRUE, amount |-> l.amount]]
      /\ answers' = [answers EXCEPT ![o] = l.call]
  BY DEF LateExecutes, runnerVars
<1>2. o \in Orders BY DEF LateOK
<1>3. orders' = [orders EXCEPT ![o] = [exists |-> TRUE, own |-> TRUE,
                                       amount |-> orders'[o].amount]]
  <2>1. orders'[o].amount = l.amount BY <1>1, <1>2 DEF RequestOK
  <2> QED BY <1>1, <2>1
<1>4. Present(l.call.fp) /\ (l.call.inserted => Open(l.call.fp)) BY DEF LateOK
<1>5. \A p \in OwnOrders : l.call.inserted /\ answers[p].inserted => answers[p].fp # l.call.fp
  BY DEF LateOK
<1> HIDE DEF o
<1>6. /\ DOMAIN orders' = Orders /\ DOMAIN answers' = Orders
      /\ OwnOrders' = OwnOrders \cup {o}
      /\ orders'[o].exists /\ answers'[o] = l.call
      /\ \A p \in Orders : p # o => orders'[p] = orders[p] /\ answers'[p] = answers[p]
      /\ OrdersAccountedFor' /\ InsertedOrdersOnce' /\ CreatedHasOrder'
  BY <1>1, <1>2, <1>3, <1>4, <1>5, NewOrder
<1>7. OwnOrders \subseteq Orders BY DEF OwnOrders
<1>8. RequestOK' /\ PendingReports'
  BY <1>1, <1>6, <1>7 DEF RequestOK, PendingReports
<1>9. CallOK'
  <2>1. svc.call.inserted /\ l.call.inserted => svc.call.fp # l.call.fp BY DEF LateOK
  <2> QED BY <1>1, <1>6, <1>7, <2>1 DEF CallOK, Present, Open
<1>10. LateOK'
  <2>1. \A k \in late' : k \in late /\ (k.call.inserted /\ l.call.inserted =>
                                          k.call.fp # l.call.fp)
    BY <1>1 DEF LateOK
  <2> QED BY <1>1, <1>6, <1>7, <2>1 DEF LateOK, Present, Open
<1> QED BY <1>6, <1>8, <1>9, <1>10

\* A row is committed before the payment: it is the first of its fingerprint, so
\* nothing was asked for under it.
LEMMA PersistInv == ASSUME PrepareInv, Persist PROVE PrepareInv'
<1> USE DEF PrepareInv
<1> DEFINE row == Pending(CurrentFingerprint)
<1>1. /\ UNCHANGED <<orders, request, adapter, state, link, late, answers>>
      /\ state = "READY_FOR_PAYMENT"
      /\ ops' = ops \cup {row}
      /\ svc' = [stage |-> "paying",
                 call |-> [fp |-> CurrentFingerprint, inserted |-> TRUE]]
      /\ \A r \in ops : r.fp # CurrentFingerprint
  BY DEF Persist, Begin, vars
<1>2. row.fp = CurrentFingerprint /\ row.state = "pending_creation" BY DEF Pending
<1>3. svc'.stage = "paying" /\ svc'.call.fp = CurrentFingerprint /\ svc'.call.inserted
  BY <1>1
<1> HIDE DEF row
<1>4. OwnOrders' = OwnOrders /\ request = NoRequest /\ request.stage = "none"
  BY <1>1 DEF OwnOrders, RequestOK, Before, NoRequest
<1>5. ~Present(CurrentFingerprint) BY <1>1 DEF Present
<1>6. \A o \in OwnOrders : answers[o].fp # CurrentFingerprint
  BY <1>5 DEF OrdersAccountedFor, Present
<1>7. \A l \in late : l.call.fp # CurrentFingerprint BY <1>5 DEF LateOK
<1>8. CallOK' BY <1>1, <1>2, <1>3, <1>4, <1>6 DEF CallOK, Present, Open
<1>9. LateOK' BY <1>1, <1>2, <1>3, <1>4, <1>7 DEF LateOK, Present, Open
<1> QED
  BY <1>1, <1>2, <1>4, <1>8, <1>9 DEF RequestOK, PendingReports, OrdersAccountedFor,
     InsertedOrdersOnce, CreatedHasOrder

\* A call that finds its operation inserts nothing.
LEMMA ExistingInv == ASSUME PrepareInv, Existing PROVE PrepareInv'
<1> USE DEF PrepareInv
<1>1. /\ UNCHANGED <<orders, request, adapter, state, link, ops, late, answers>>
      /\ state = "READY_FOR_PAYMENT"
      /\ svc' = [stage |-> "paying",
                 call |-> [fp |-> CurrentFingerprint, inserted |-> FALSE]]
      /\ \E r \in ops : r.fp = CurrentFingerprint
  BY DEF Existing, Begin, vars
<1>2. svc'.stage = "paying" /\ svc'.call.fp = CurrentFingerprint /\ ~svc'.call.inserted
  BY <1>1
<1>3. OwnOrders' = OwnOrders /\ request.stage = "none"
  BY <1>1 DEF OwnOrders, RequestOK, Before, NoRequest
<1>4. CallOK' BY <1>1, <1>2 DEF CallOK, Present
<1> QED
  BY <1>1, <1>2, <1>3, <1>4 DEF RequestOK, PendingReports, LateOK, Present, Open,
     OrdersAccountedFor, InsertedOrdersOnce, CreatedHasOrder

\* The outcome is recorded: a row that becomes "created" has the order of this
\* call, which is the only one an inserting call made for its fingerprint.
LEMMA RecordInv == ASSUME PrepareInv, Record PROVE PrepareInv'
<1> USE DEF PrepareInv
<1> DEFINE row == [fp |-> svc.call.fp, state |-> Outcome, order |-> RecordedOrder]
<1>1. /\ UNCHANGED <<orders, request, adapter, state, link, late, answers>>
      /\ svc.stage = "paying" /\ svc.call.inserted
      /\ svc' = [stage |-> "returned", call |-> svc.call]
      /\ ops' = {r \in ops : r.fp # svc.call.fp} \cup {row}
  BY DEF Record, vars
<1>2. row.fp = svc.call.fp /\ row.state = Outcome /\ row.order = RecordedOrder OBVIOUS
<1> HIDE DEF row
<1>3. svc'.call = svc.call /\ svc'.stage = "returned" BY <1>1
<1>4. OwnOrders' = OwnOrders BY <1>1 DEF OwnOrders
<1>5. row \in ops' /\ \A fp : Present(fp) => Present(fp)'
  BY <1>1, <1>2 DEF Present
<1>6. \A fp : fp # svc.call.fp /\ Open(fp) => Open(fp)'
  BY <1>1, <1>2 DEF Open
<1>7. state = "PAYMENT_PENDING" \/ Open(svc.call.fp)'
  BY <1>1, <1>2 DEF Open, Outcome
<1>8. state = "PAYMENT_PENDING" => request.stage # "sent" BY DEF PendingReports
<1>9. RequestOK' /\ PendingReports'
  BY <1>1, <1>3, <1>4 DEF RequestOK, PendingReports
<1>10. CallOK'
  BY <1>1, <1>3, <1>4, <1>5, <1>7, <1>8 DEF CallOK
<1>11. LateOK'
  <2>1. \A l \in late : Present(l.call.fp)' BY <1>5 DEF LateOK
  <2>2. \A l \in late : l.call.inserted => Open(l.call.fp)' BY <1>1, <1>6 DEF LateOK
  <2> QED BY <1>1, <1>3, <1>4, <2>1, <2>2 DEF LateOK
<1>12. InsertedOrdersOnce' BY <1>1, <1>4 DEF InsertedOrdersOnce
<1>13. OrdersAccountedFor'
  <2> SUFFICES ASSUME NEW o \in OwnOrders
               PROVE  \E r \in ops' : /\ r.fp = answers[o].fp
                                      /\ answers[o].inserted => r.order = o \/ r.state # "created"
    BY <1>1, <1>4 DEF OrdersAccountedFor
  <2>1. CASE answers[o].fp # svc.call.fp
    BY <1>1, <2>1 DEF OrdersAccountedFor
  <2>2. CASE answers[o].fp = svc.call.fp /\ state # "PAYMENT_PENDING"
    BY <1>2, <1>5, <2>2 DEF Outcome
  <2>3. CASE answers[o].fp = svc.call.fp /\ state = "PAYMENT_PENDING"
    <3>1. answers[o].inserted => request.stage = "executed" /\ o = request.order
      BY <1>1, <2>3 DEF CallOK
    <3>2. row.order = link BY <1>2, <2>3 DEF RecordedOrder
    <3>3. answers[o].inserted => row.order = o BY <2>3, <3>1, <3>2 DEF PendingReports
    <3> QED BY <1>2, <1>5, <2>3, <3>3
  <2> QED BY <2>1, <2>2, <2>3
<1>14. CreatedHasOrder'
  <2>1. row.state = "created" =>
           \/ adapter = "none" /\ row.order = MockOrder
           \/ row.order \in OwnOrders /\ orders[row.order].exists
                 /\ answers[row.order].fp = row.fp
    BY <1>2 DEF Outcome, RecordedOrder, PendingReports, RequestOK
  <2> QED BY <1>1, <1>4, <2>1 DEF CreatedHasOrder
<1> QED BY <1>9, <1>10, <1>11, <1>12, <1>13, <1>14

\* A call that returns without a record leaves its operation as it was.
LEMMA LeaveInv == ASSUME PrepareInv, Leave PROVE PrepareInv'
<1> USE DEF PrepareInv
<1>1. /\ UNCHANGED <<orders, request, adapter, state, link, ops, late, answers>>
      /\ svc.stage = "paying"
      /\ svc' = [stage |-> "returned", call |-> svc.call]
  BY DEF Leave, vars
<1>2. svc'.call = svc.call /\ svc'.stage = "returned" BY <1>1
<1> QED
  BY <1>1, <1>2 DEF RequestOK, PendingReports, CallOK, LateOK, Present, Open,
     OrdersAccountedFor, InsertedOrdersOnce, CreatedHasOrder, OwnOrders

\* A new runner starts with nothing; what the old one asked for may still be made.
LEMMA NewRunnerInv == ASSUME PrepareInv, NewRunner PROVE PrepareInv'
<1> USE DEF PrepareInv
<1>1. /\ state' = "INTENT_RECEIVED" /\ request' = NoRequest /\ svc' = Idle
      /\ UNCHANGED <<orders, adapter, ops, answers>>
  BY DEF NewRunner
<1>2. request'.stage = "none" /\ svc'.stage = "idle" /\ ~svc'.call.inserted
  BY <1>1 DEF NoRequest, Idle, NoCall
<1>3. OwnOrders' = OwnOrders BY <1>1 DEF OwnOrders
<1>4. LateOK'
  <2>1. CASE UNCHANGED late
    BY <1>1, <1>2, <1>3, <2>1 DEF LateOK, Present, Open
  <2>2. CASE request.stage = "sent" /\ late' # late
    <3>1. PICK o \in Orders : late' = late \cup
                    {[order |-> o, amount |-> request.amount, call |-> svc.call]}
      BY <2>2 DEF NewRunner, LeaveBehind
    <3> DEFINE l == [order |-> o, amount |-> request.amount, call |-> svc.call]
    <3>2. l.order = o /\ l.call = svc.call /\ late' = late \cup {l} BY <3>1
    <3> HIDE DEF l
    <3>3. svc.stage # "idle" BY <2>2 DEF CallOK, NoRequest
    <3>4. Present(svc.call.fp) BY <3>3 DEF CallOK
    <3>5. svc.call.inserted =>
             /\ Open(svc.call.fp)
             /\ \A p \in OwnOrders : answers[p].inserted => answers[p].fp # svc.call.fp
             /\ \A k \in late : k.call.inserted => k.call.fp # svc.call.fp
      BY <2>2 DEF CallOK, LateOK
    <3>6. \A fp : (Present(fp)' <=> Present(fp)) /\ (Open(fp)' <=> Open(fp))
      BY <1>1 DEF Present, Open
    <3> QED BY <1>1, <1>2, <1>3, <3>2, <3>4, <3>5, <3>6 DEF LateOK
  <2> QED BY <2>1, <2>2 DEF NewRunner, LeaveBehind
<1> QED
  BY <1>1, <1>2, <1>3, <1>4 DEF RequestOK, PendingReports, CallOK, OrdersAccountedFor,
     InsertedOrdersOnce, CreatedHasOrder

LEMMA NextInv == ASSUME PrepareInv, [PNext]_allVars PROVE PrepareInv'
<1>1. CASE NewTrace
  BY <1>1 DEF NewTrace, vars, PrepareInv, RequestOK, PendingReports, CallOK, LateOK, Present,
     Open, OrdersAccountedFor, InsertedOrdersOnce, CreatedHasOrder, OwnOrders
<1>2. CASE Persist BY <1>2, PersistInv
<1>3. CASE Existing BY <1>3, ExistingInv
<1>4. CASE Record BY <1>4, RecordInv
<1>5. CASE Leave BY <1>5, LeaveInv
<1>6. CASE Crash \/ TryAgain BY <1>6, NewRunnerInv DEF Crash, TryAgain
<1>7. CASE \E l \in late : LateExecutes(l) BY <1>7, LateInv
<1>8. CASE RunnerStep
  <2>1. CASE \E o \in Orders :
                RemoteExecutes(o) /\ answers' = [answers EXCEPT ![o] = svc.call]
    BY <1>8, <2>1, RemoteInv DEF RunnerStep
  <2>2. CASE UNCHANGED answers /\ svc.stage = "idle" /\ (ShoppingStep \/ MerchantChange)
    BY <1>8, <2>2, ShoppingInv DEF RunnerStep, prepareVars
  <2>3. CASE UNCHANGED answers /\ svc.stage = "paying" /\ (EnterPayment \/ PaymentStep)
    BY <1>8, <2>3, ShoppingInv, ValidateInv, PaymentInv DEF RunnerStep, prepareVars
  <2> QED BY <1>8, <2>1, <2>2, <2>3 DEF RunnerStep
<1>9. CASE UNCHANGED allVars
  BY <1>9 DEF allVars, vars, prepareVars, PrepareInv, RequestOK, PendingReports, CallOK,
     LateOK, Present, Open, OrdersAccountedFor, InsertedOrdersOnce, CreatedHasOrder, OwnOrders
<1> QED BY <1>1, <1>2, <1>3, <1>4, <1>5, <1>6, <1>7, <1>8, <1>9 DEF PNext

-----------------------------------------------------------------------------
\* The inductive invariant holds in every reachable state.
THEOREM PrepareInductive == PSpec => []PrepareInv
<1>1. PInit => PrepareInv BY InitInv
<1>2. PrepareInv /\ [PNext]_allVars => PrepareInv' BY NextInv
<1> QED BY <1>1, <1>2, PTL DEF PSpec

\* Every order this purchase has at the provider was asked for under an operation
\* in the table; if the call that asked for it inserted that operation, the
\* operation names the order or is not "created" (commerce_service.py:549-611).
THEOREM Accounted == PSpec => []OrdersAccountedFor
<1>1. PrepareInv => OrdersAccountedFor BY DEF PrepareInv
<1> QED BY <1>1, PrepareInductive, PTL

\* The calls that insert an operation make at most one order for it, whatever dies
\* or arrives late (commerce_service.py:575-598).
THEOREM InsertedOnce == PSpec => []InsertedOrdersOnce
<1>1. PrepareInv => InsertedOrdersOnce BY DEF PrepareInv
<1> QED BY <1>1, PrepareInductive, PTL

\* An operation that prepare_payment marks "created" (commerce_service.py:610)
\* names an order that was made for it.
THEOREM Created == PSpec => []CreatedHasOrder
<1>1. PrepareInv => CreatedHasOrder BY DEF PrepareInv
<1> QED BY <1>1, PrepareInductive, PTL
-----------------------------------------------------------------------------
\* The variables keep their types.

\* A new runner starts with the merchant and the provider as they are.
LEMMA NewRunnerTypes == ASSUME TypeOK, NewRunner PROVE TypeOK'
<1>1. request' \in Request BY DEF NewRunner, NoRequest, Request
<1> QED BY <1>1 DEF NewRunner, TypeOK, Machine!CommerceState, Reasons

LEMMA RowTypes ==
    ASSUME PrepareTypeOK, NEW fp \in Fingerprint, NEW order \in Orders \cup {NoOrder, MockOrder},
           NEW outcome \in {"pending_creation", "created", "failed"},
           ops' = {r \in ops : r.fp # fp}
                     \cup {[fp |-> fp, state |-> outcome, order |-> order]}
    PROVE  ops' \subseteq Row /\ \A r1, r2 \in ops' : r1.fp = r2.fp => r1 = r2
<1> DEFINE row == [fp |-> fp, state |-> outcome, order |-> order]
<1>1. row \in Row /\ row.fp = fp BY DEF Row
<1> HIDE DEF row
<1>2. ops' = {r \in ops : r.fp # fp} \cup {row} BY DEF row
<1> QED BY <1>1, <1>2 DEF PrepareTypeOK

LEMMA NoCallTyped == NoCall \in Call /\ Idle \in Service
<1>1. [trace |-> 0, cart |-> {}, amount |-> 0] \in Fingerprint
  BY PrepareAssumption DEF Fingerprint
<1>2. NoCall \in Call BY <1>1 DEF NoCall, Call
<1> QED BY <1>2 DEF Idle, Service

LEMMA PrepareTypeInit == PInit => PrepareTypeOK
<1> SUFFICES ASSUME PInit PROVE PrepareTypeOK OBVIOUS
<1>1. TypeOK BY TypeInit DEF PInit
<1>2. latest \in 0..MaxTrace BY PrepareAssumption DEF PInit
<1>3. svc \in Service /\ answers \in [Orders -> Call] BY NoCallTyped DEF PInit
<1> QED BY <1>1, <1>2, <1>3 DEF PInit, PrepareTypeOK

\* An order made at the provider keeps the types.
LEMMA LateTypes ==
    ASSUME PrepareTypeOK, NEW l \in late, LateExecutes(l)
    PROVE  PrepareTypeOK'
<1>1. /\ l.order \in Orders /\ l.amount \in Nat /\ l.call \in Call
      /\ late' \subseteq late
      /\ UNCHANGED <<runnerVars, market, adapter, request, latest, ops, svc>>
      /\ orders' = [orders EXCEPT ![l.order] = [exists |-> TRUE, own |-> TRUE,
                                                amount |-> l.amount]]
      /\ answers' = [answers EXCEPT ![l.order] = l.call]
  BY DEF LateExecutes, PrepareTypeOK, LateRequest
<1>2. orders' \in [Orders -> RemoteOrder] BY <1>1 DEF PrepareTypeOK, TypeOK, RemoteOrder
<1>3. answers' \in [Orders -> Call] BY <1>1 DEF PrepareTypeOK
<1>4. TypeOK'
  BY <1>1, <1>2 DEF PrepareTypeOK, TypeOK, runnerVars, market
<1> QED BY <1>1, <1>3, <1>4 DEF PrepareTypeOK

LEMMA PrepareTypeStep == PrepareTypeOK /\ [PNext]_allVars => PrepareTypeOK'
<1> SUFFICES ASSUME PrepareTypeOK, [PNext]_allVars PROVE PrepareTypeOK' OBVIOUS
<1>0. TypeOK /\ (UNCHANGED vars \/ NewRunner \/ Next => TypeOK')
  BY TypeStep, NewRunnerTypes DEF PrepareTypeOK
<1>1. svc \in Service /\ svc.call \in Call /\ svc.call.fp \in Fingerprint
  BY DEF PrepareTypeOK, Service, Call
<1>2. CurrentFingerprint \in Fingerprint BY DEF CurrentFingerprint, Fingerprint, PrepareTypeOK, TypeOK
<1>3. CASE NewTrace
  <2>1. latest' \in 0..MaxTrace BY <1>3, PrepareAssumption DEF NewTrace, PrepareTypeOK
  <2> QED BY <1>0, <1>3, <2>1 DEF NewTrace, PrepareTypeOK
<1>4. ASSUME NEW inserted \in BOOLEAN, Begin(inserted)
      PROVE  TypeOK' /\ svc' \in Service /\ UNCHANGED <<latest, late, answers>>
  BY <1>0, <1>2, <1>4 DEF Begin, Service, Call
<1>5. CASE Persist
  <2>1. ops' = {r \in ops : r.fp # CurrentFingerprint}
                  \cup {[fp |-> CurrentFingerprint, state |-> "pending_creation", order |-> NoOrder]}
    BY <1>5 DEF Persist, Begin, Pending
  <2>2. ops' \subseteq Row /\ \A r1, r2 \in ops' : r1.fp = r2.fp => r1 = r2
    BY <1>2, <2>1, RowTypes
  <2> QED BY <1>4, <1>5, <2>2 DEF Persist, PrepareTypeOK
<1>6. CASE Existing BY <1>4, <1>6 DEF Existing, PrepareTypeOK
<1>7. [stage |-> "returned", call |-> svc.call] \in Service BY <1>1 DEF Service
<1>8. CASE Record
  <2>1. Outcome \in {"pending_creation", "created", "failed"} BY DEF Outcome
  <2>2. RecordedOrder \in Orders \cup {NoOrder, MockOrder} BY <1>0 DEF RecordedOrder, TypeOK
  <2>3. ops' = {r \in ops : r.fp # svc.call.fp}
                  \cup {[fp |-> svc.call.fp, state |-> Outcome, order |-> RecordedOrder]}
    BY <1>8 DEF Record
  <2>4. ops' \subseteq Row /\ \A r1, r2 \in ops' : r1.fp = r2.fp => r1 = r2
    BY <1>1, <2>1, <2>2, <2>3, RowTypes
  <2> QED BY <1>0, <1>7, <1>8, <2>4 DEF Record, PrepareTypeOK
<1>9. CASE Leave BY <1>0, <1>7, <1>9 DEF Leave, PrepareTypeOK
<1>10. CASE Crash \/ TryAgain
  <2>1. /\ NewRunner /\ svc' = Idle /\ LeaveBehind /\ UNCHANGED <<latest, ops, answers>>
    BY <1>10 DEF Crash, TryAgain, NewRunner
  <2>2. request.amount \in Nat BY <1>0 DEF TypeOK, Request
  <2>3. late' \subseteq LateRequest
    BY <1>1, <2>1, <2>2 DEF LeaveBehind, LateRequest, PrepareTypeOK
  <2> QED BY <1>0, <2>1, <2>3, NoCallTyped DEF PrepareTypeOK
<1>11. CASE \E l \in late : LateExecutes(l) BY <1>11, LateTypes
<1>12. CASE RunnerStep
  <2>1. Next BY <1>12 DEF RunnerStep, Next
  <2>2. answers' \in [Orders -> Call] BY <1>1, <1>12 DEF RunnerStep, PrepareTypeOK
  <2> QED BY <1>0, <1>12, <2>1, <2>2 DEF RunnerStep, PrepareTypeOK
<1>13. CASE UNCHANGED allVars BY <1>0, <1>13 DEF allVars, prepareVars, PrepareTypeOK
<1> QED BY <1>3, <1>5, <1>6, <1>8, <1>9, <1>10, <1>11, <1>12, <1>13 DEF PNext

\* Through crashes, retries and new runners every variable keeps its type, and
\* no fingerprint has two operations (commerce_service.py:565-580).
THEOREM PrepareTypes == PSpec => []PrepareTypeOK
<1> QED BY PrepareTypeInit, PrepareTypeStep, PTL DEF PSpec

-----------------------------------------------------------------------------
(* The amounts of an operation and of its order.  Both are the price of    *)
(* one cart on the agent's products, which both validations compare with   *)
(* the canonical prices, plus the fee of the moment.                       *)

\* Once the prechecks are passed, the total is the price of the cart the buyer
\* saw plus some fee.
TotalIsTagged ==
    state \notin (Before \ {"READY_FOR_PAYMENT"}) \cup {"ABORTED"} =>
        \E f \in Fees : total = Sum(tag, cart) + f

\* A request and its order are for the total.
AskedIsTotal ==
    /\ request # NoRequest => request.amount = total
    /\ request.stage = "executed" => orders[request.order].amount = request.amount

\* So was the total of the fingerprint.
FingerprintIsTagged ==
    svc.stage = "paying" =>
        /\ svc.call.fp.cart = cart
        /\ \E f \in Fees : svc.call.fp.amount = Sum(tag, cart) + f

AmountInv == TotalIsTagged /\ AskedIsTotal /\ FingerprintIsTagged /\ AmountsDifferByFee

\* The prices a validation has compared cost what the buyer saw.
LEMMA FreshIsTagged == ASSUME TypeOK, Fresh PROVE Sum(pricing_db, cart) = Sum(tag, cart)
<1>1. IsFiniteSet(cart) BY RunnerAssumption, FS_Subset DEF TypeOK
<1>2. \A s \in cart : pricing_db[s] = tag[s] BY DEF Fresh
<1> QED BY <1>1, <1>2, SumSame DEF Sum

\* Steps that leave the cart, its price and the orders alone.
LEMMA QuietAmounts ==
    ASSUME AmountInv, UNCHANGED <<cart, total, tag, orders, request, prepareVars>>,
           state' \in (Before \ {"READY_FOR_PAYMENT"}) \cup {"ABORTED"}
               \/ state \notin (Before \ {"READY_FOR_PAYMENT"}) \cup {"ABORTED"}
    PROVE  AmountInv'
  BY DEF AmountInv, TotalIsTagged, AskedIsTotal, FingerprintIsTagged, AmountsDifferByFee,
     prepareVars

LEMMA ShoppingAmounts ==
    ASSUME TypeOK, PrepareInv, AmountInv, svc.stage = "idle", UNCHANGED prepareVars,
           ShoppingStep \/ MerchantChange
    PROVE  AmountInv'
<1>1. CASE Precheck /\ state' = "READY_FOR_PAYMENT"
  <2>1. /\ Fresh /\ total' = Sum(pricing_db, cart) + fee /\ state = "PRECHECK"
        /\ UNCHANGED <<cart, tag, orders, request>>
    BY <1>1 DEF Precheck, Abort
  <2>2. total' = Sum(tag, cart) + fee /\ fee \in Fees BY <2>1, FreshIsTagged DEF TypeOK
  <2>3. TotalIsTagged' BY <2>1, <2>2 DEF TotalIsTagged
  <2>4. request = NoRequest BY <2>1 DEF PrepareInv, RequestOK, Before
  <2> QED
    BY <2>1, <2>3, <2>4 DEF AmountInv, AskedIsTotal, NoRequest, FingerprintIsTagged,
       AmountsDifferByFee, prepareVars
<1>2. CASE CreateCart
  <2>1. state = "SELECTION" /\ state' \in {"CART_CREATED", "ABORTED"}
        /\ UNCHANGED <<total, tag, orders, request>>
    BY <1>2 DEF CreateCart, Abort, market
  <2> QED
    BY <2>1 DEF AmountInv, TotalIsTagged, AskedIsTotal, FingerprintIsTagged,
       AmountsDifferByFee, prepareVars, Before
<1>3. CASE MerchantChange
  <2>1. UNCHANGED <<state, cart, total, tag, orders, request>> /\ state = "READY_FOR_PAYMENT"
    BY <1>3 DEF MerchantChange, runnerVars
  <2> QED BY <2>1, QuietAmounts DEF Before
<1>4. CASE ShoppingStep /\ ~CreateCart /\ ~(Precheck /\ state' = "READY_FOR_PAYMENT")
  <2>1. /\ UNCHANGED <<cart, total, tag, orders, request>>
        /\ state' \in (Before \ {"READY_FOR_PAYMENT"}) \cup {"ABORTED"}
    BY <1>4 DEF ShoppingStep, Discover, Evaluate, Select, BeginPrecheck, AgentRaises, Precheck,
       Goto, Abort, market, Before
  <2> QED BY <2>1, QuietAmounts
<1> QED BY <1>1, <1>2, <1>3, <1>4

LEMMA PaymentAmounts ==
    ASSUME TypeOK, PrepareInv, AmountInv, UNCHANGED prepareVars, EnterPayment \/ PaymentStep
    PROVE  AmountInv'
<1>1. CASE Validate /\ Fresh
  <2>1. /\ total' = Sum(pricing_db, cart) + fee /\ request = NoRequest
        /\ UNCHANGED <<cart, tag, orders>>
        /\ request' \in {request, [stage |-> "sent", amount |-> total', order |-> NoOrder]}
    BY <1>1 DEF Validate, PayableTotal, market
  <2>2. total' = Sum(tag, cart) + fee /\ fee \in Fees BY <1>1, <2>1, FreshIsTagged DEF TypeOK
  <2>3. TotalIsTagged' BY <2>1, <2>2 DEF TotalIsTagged
  <2>4. AskedIsTotal' BY <2>1 DEF AskedIsTotal, NoRequest
  <2> QED
    BY <2>1, <2>3, <2>4 DEF AmountInv, FingerprintIsTagged, AmountsDifferByFee, prepareVars
<1>2. CASE ClientRaises
  <2>1. /\ UNCHANGED <<state, cart, total, tag, orders>>
        /\ \/ request' = request
           \/ /\ request.stage = "sent"
              /\ request' = [stage |-> "refused", amount |-> request.amount, order |-> NoOrder]
    BY <1>2 DEF ClientRaises, market
  <2>2. AskedIsTotal' BY <2>1 DEF AmountInv, AskedIsTotal, NoRequest
  <2> QED
    BY <2>1, <2>2 DEF AmountInv, TotalIsTagged, FingerprintIsTagged, AmountsDifferByFee, prepareVars
<1>3. CASE \/ Validate /\ ~Fresh
           \/ EnterPayment \/ Answer \/ Timeout \/ ConnectionFails \/ ReconcileBegin \/ NoService
           \/ LookupFinds \/ LookupFindsNothing \/ LookupFails \/ Complete
  <2>1. /\ UNCHANGED <<cart, total, tag, orders, request>>
        /\ state \notin (Before \ {"READY_FOR_PAYMENT"}) \cup {"ABORTED"}
    BY <1>3 DEF Validate, EnterPayment, Answer, Timeout, ConnectionFails, ReconcileBegin,
       NoService, LookupFinds, LookupFindsNothing, LookupFails, Complete, Waiting, Reconciling,
       Goto, Abort, market, Before
  <2> QED BY <2>1, QuietAmounts
<1> QED BY <1>1, <1>2, <1>3 DEF PaymentStep

\* The order of an operation that is marked "created" exists already, and so does
\* the order of a request that was executed.
LEMMA NewOrderAmounts ==
    ASSUME PrepareInv, AmountInv, UNCHANGED ops, NEW o \in Orders, ~orders[o].exists,
           \A p \in Orders : p # o => orders'[p] = orders[p]
    PROVE  /\ AmountsDifferByFee'
           /\ request.stage = "executed" => orders'[request.order] = orders[request.order]
<1>1. ASSUME NEW r \in ops, r.state = "created", r.order \in Orders
      PROVE  orders'[r.order] = orders[r.order]
  <2>1. r.order # MockOrder BY <1>1, RunnerAssumption
  <2>2. orders[r.order].exists BY <1>1, <2>1 DEF PrepareInv, CreatedHasOrder
  <2> QED BY <1>1, <2>2
<1>2. AmountsDifferByFee' BY <1>1 DEF AmountInv, AmountsDifferByFee
<1>3. request.stage = "executed" => request.order \in Orders /\ orders[request.order].exists
  BY DEF PrepareInv, RequestOK, OwnOrders
<1> QED BY <1>2, <1>3

LEMMA RemoteAmounts ==
    ASSUME PrepareInv, AmountInv, UNCHANGED <<ops, svc>>, NEW o \in Orders, RemoteExecutes(o)
    PROVE  AmountInv'
<1>1. /\ request.stage = "sent" /\ ~orders[o].exists
      /\ orders' = [orders EXCEPT ![o] = [exists |-> TRUE, own |-> TRUE, amount |-> request.amount]]
      /\ request' = [stage |-> "executed", amount |-> request.amount, order |-> o]
      /\ UNCHANGED <<state, cart, total, tag>>
  BY DEF RemoteExecutes, runnerVars, market
<1>2. request # NoRequest BY <1>1 DEF NoRequest
<1>3. orders'[o].amount = request.amount /\ \A p \in Orders : p # o => orders'[p] = orders[p]
  BY <1>1 DEF PrepareInv, RequestOK
<1>4. AskedIsTotal' BY <1>1, <1>2, <1>3 DEF AmountInv, AskedIsTotal
<1>5. AmountsDifferByFee' BY <1>1, <1>3, NewOrderAmounts
<1> QED BY <1>1, <1>4, <1>5 DEF AmountInv, TotalIsTagged, FingerprintIsTagged

LEMMA LateAmounts ==
    ASSUME PrepareInv, AmountInv, NEW l \in late, LateExecutes(l)
    PROVE  AmountInv'
<1>1. /\ ~orders[l.order].exists /\ UNCHANGED <<state, cart, total, tag, request, ops, svc>>
      /\ orders' = [orders EXCEPT ![l.order] = [exists |-> TRUE, own |-> TRUE,
                                                amount |-> l.amount]]
  BY DEF LateExecutes, runnerVars, market
<1>2. l.order \in Orders BY DEF PrepareInv, LateOK
<1>3. \A p \in Orders : p # l.order => orders'[p] = orders[p]
  BY <1>1 DEF PrepareInv, RequestOK
<1>4. /\ AmountsDifferByFee'
      /\ request.stage = "executed" => orders'[request.order] = orders[request.order]
  BY <1>1, <1>2, <1>3, NewOrderAmounts
<1> QED BY <1>1, <1>4 DEF AmountInv, TotalIsTagged, AskedIsTotal, FingerprintIsTagged

\* The operation of this call and its order are for the same cart.
LEMMA RecordAmounts == ASSUME PrepareTypeOK, PrepareInv, AmountInv, Record PROVE AmountInv'
<1> DEFINE row == [fp |-> svc.call.fp, state |-> Outcome, order |-> RecordedOrder]
<1>1. /\ svc.stage = "paying" /\ UNCHANGED vars
      /\ svc' = [stage |-> "returned", call |-> svc.call]
      /\ ops' = {r \in ops : r.fp # svc.call.fp} \cup {row}
  BY DEF Record
<1>2. row.state = Outcome /\ row.order = RecordedOrder /\ row.fp = svc.call.fp OBVIOUS
<1> HIDE DEF row
<1>3. ASSUME row.state = "created", row.order \in Orders
      PROVE  \E before, after \in Fees : orders[row.order].amount - row.fp.amount = after - before
  <2>1. state = "PAYMENT_PENDING" /\ row.order = link BY <1>2, <1>3 DEF Outcome, RecordedOrder
  <2>2. link = request.order /\ request.stage = "executed"
    BY <1>3, <2>1, RunnerAssumption DEF PrepareInv, PendingReports
  <2>3. orders[row.order].amount = total
    BY <2>1, <2>2 DEF AmountInv, AskedIsTotal, NoRequest
  <2>4. PICK after \in Fees : total = Sum(tag, cart) + after
    BY <2>1 DEF AmountInv, TotalIsTagged, Before
  <2>5. PICK before \in Fees : svc.call.fp.amount = Sum(tag, cart) + before
    BY <1>1 DEF AmountInv, FingerprintIsTagged
  <2>6. Sum(tag, cart) \in Nat
    <3>1. cart \in SUBSET Skus /\ \A s \in cart : tag[s] \in Nat
      BY RunnerAssumption DEF PrepareTypeOK, TypeOK
    <3> QED BY <3>1, CartCost
  <2>7. before \in Nat /\ after \in Nat BY RunnerAssumption
  <2>8. orders[row.order].amount - row.fp.amount = after - before
    BY <1>2, <2>3, <2>4, <2>5, <2>6, <2>7
  <2> QED BY <2>8
<1>4. AmountsDifferByFee' BY <1>1, <1>3 DEF AmountInv, AmountsDifferByFee, vars
<1>5. svc'.stage # "paying" BY <1>1
<1> QED
  BY <1>1, <1>4, <1>5 DEF AmountInv, TotalIsTagged, AskedIsTotal, FingerprintIsTagged, vars

LEMMA AmountStep ==
    ASSUME PrepareTypeOK, PrepareInv, AmountInv, [PNext]_allVars
    PROVE  AmountInv'
<1>0. TypeOK BY DEF PrepareTypeOK
<1>1. CASE NewTrace \/ Leave
  <2>1. UNCHANGED <<vars, ops>> /\ (svc'.stage = "paying" => svc' = svc)
    BY <1>1 DEF NewTrace, Leave
  <2> QED
    BY <2>1 DEF vars, AmountInv, TotalIsTagged, AskedIsTotal, FingerprintIsTagged,
       AmountsDifferByFee
<1>2. CASE Persist \/ Existing
  <2>1. /\ UNCHANGED vars /\ state = "READY_FOR_PAYMENT"
        /\ svc'.call.fp = [trace |-> latest, cart |-> cart, amount |-> total]
        /\ \A r \in ops' : r.state = "created" => r \in ops
    BY <1>2 DEF Persist, Existing, Begin, Pending, CurrentFingerprint
  <2>2. FingerprintIsTagged'
    BY <2>1 DEF AmountInv, TotalIsTagged, FingerprintIsTagged, Before, vars
  <2> QED
    BY <2>1, <2>2 DEF AmountInv, TotalIsTagged, AskedIsTotal, AmountsDifferByFee, vars
<1>3. CASE Record BY <1>3, RecordAmounts
<1>4. CASE Crash \/ TryAgain
  <2>1. /\ state' = "INTENT_RECEIVED" /\ request' = NoRequest /\ svc' = Idle
        /\ UNCHANGED <<orders, ops>>
    BY <1>4 DEF Crash, TryAgain, NewRunner
  <2> QED
    BY <2>1 DEF Idle, AmountInv, TotalIsTagged, AskedIsTotal, FingerprintIsTagged,
       AmountsDifferByFee, Before, NoRequest
<1>5. CASE RunnerStep
  BY <1>0, <1>5, ShoppingAmounts, PaymentAmounts, RemoteAmounts DEF RunnerStep, prepareVars
<1>6. CASE \E l \in late : LateExecutes(l) BY <1>6, LateAmounts
<1>7. CASE UNCHANGED allVars
  BY <1>7 DEF allVars, vars, prepareVars, AmountInv, TotalIsTagged, AskedIsTotal,
     FingerprintIsTagged, AmountsDifferByFee
<1> QED BY <1>1, <1>2, <1>3, <1>4, <1>5, <1>6, <1>7 DEF PNext

\* The operation keeps the total of the prechecks and the order is for the total
\* of the validation (commerce_service.py:561, runner.py:185): of an operation
\* marked "created" they differ by a change of the fee and by nothing else.
THEOREM Amounts == PSpec => []AmountsDifferByFee
<1>1. PInit => AmountInv
  BY DEF PInit, Init, AmountInv, TotalIsTagged, AskedIsTotal, FingerprintIsTagged,
     AmountsDifferByFee, Before, NoRequest, Idle
<1>2. PrepareTypeOK /\ PrepareInv /\ AmountInv /\ [PNext]_allVars => AmountInv'
  BY AmountStep
<1>3. AmountInv => AmountsDifferByFee BY DEF AmountInv
<1> QED BY <1>1, <1>2, <1>3, PrepareTypes, PrepareInductive, PTL DEF PSpec

=============================================================================
