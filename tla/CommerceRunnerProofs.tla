-------------------------- MODULE CommerceRunnerProofs --------------------------
(***************************************************************************)
(* Proofs about CommerceRunner, for any catalogue, budget and fees and any *)
(* number of orders under the run's receipt.  What a cart costs (Sum) only *)
(* matters as a natural number, and as the same number twice.              *)
(***************************************************************************)
EXTENDS CommerceRunner, DataLemmas

Before == {"INTENT_RECEIVED", "DISCOVERY", "EVALUATION", "SELECTION", "CART_CREATED",
           "PRECHECK", "READY_FOR_PAYMENT"}

\* Nothing is asked of the provider before the payment.
NoEarlyRequest == state \in Before => request = NoRequest

\* A request asks for the total of the run.
RequestIsForTotal == request # NoRequest => request.amount = total

\* The provider has one order of this run's own if it has executed the request,
\* and none otherwise.
OwnIsRequested ==
    /\ DOMAIN orders = Orders
    /\ request.stage = "executed" =>
          /\ request.order \in Orders
          /\ orders[request.order].exists
          /\ orders[request.order].amount = request.amount
    /\ \A o \in Orders : orders[o].own => request.stage = "executed" /\ o = request.order

IInv == NoEarlyRequest /\ RequestIsForTotal /\ OwnIsRequested
        /\ OrderIsCanonical /\ ReportedOrderMatches

-----------------------------------------------------------------------------
\* Every transition the runner asks for is in VALID_TRANSITIONS.
LEMMA ValidTransitions == ASSUME Next PROVE [Machine!Next]_state
<1> USE DEF Machine!Next, Machine!VALID_TRANSITIONS, Goto, Abort
<1>1. CASE ShoppingStep
  BY <1>1 DEF ShoppingStep, Discover, Evaluate, Select, CreateCart, BeginPrecheck,
              AgentRaises, Precheck
<1>2. CASE MerchantChange
  BY <1>2 DEF MerchantChange, runnerVars
<1>3. CASE EnterPayment
  BY <1>3 DEF EnterPayment
<1>4. CASE PaymentStep
  BY <1>4 DEF PaymentStep, Validate, Waiting, Reconciling, Answer, Timeout,
              ConnectionFails, ClientRaises, ReconcileBegin, NoService, LookupFinds,
              LookupFindsNothing, LookupFails, Complete
<1>5. CASE \E o \in Orders : RemoteExecutes(o)
  BY <1>5 DEF RemoteExecutes, runnerVars
<1> QED
  BY <1>1, <1>2, <1>3, <1>4, <1>5 DEF Next

\* The runner never makes the state machine raise InvalidStateTransitionError:
\* CommerceRunner implements CommerceStateMachine.
THEOREM StateMachine == Spec => FollowsStateMachine
<1>1. Init => Machine!Init
  BY DEF Init, Machine!Init
<1>2. [Next]_vars => [Machine!Next]_state
  BY ValidTransitions DEF vars
<1> QED
  BY <1>1, <1>2, PTL DEF Spec, FollowsStateMachine, Machine!Spec

-----------------------------------------------------------------------------
\* The request and the orders of the provider move together.
LEMMA OwnStep == ASSUME IInv, Next PROVE OwnIsRequested'
<1> USE DEF IInv, OwnIsRequested, NoEarlyRequest, NoRequest
<1>1. CASE ShoppingStep \/ MerchantChange \/ EnterPayment
  BY <1>1 DEF ShoppingStep, Discover, Evaluate, Select, CreateCart, BeginPrecheck,
              AgentRaises, Precheck, MerchantChange, EnterPayment
<1>2. CASE PaymentStep
  <2>1. CASE Validate
    BY <2>1 DEF Validate
  <2>2. CASE ClientRaises
    BY <2>2 DEF ClientRaises
  <2> QED
    BY <1>2, <2>1, <2>2 DEF PaymentStep, Answer, Timeout, ConnectionFails, ReconcileBegin,
       NoService, LookupFinds, LookupFindsNothing, LookupFails, Complete
<1>3. ASSUME NEW o \in Orders, RemoteExecutes(o) PROVE OwnIsRequested'
  <2>1. \A p \in Orders : ~orders[p].own
    BY <1>3 DEF RemoteExecutes
  <2> QED
    BY <1>3, <2>1 DEF RemoteExecutes
<1> QED
  BY <1>1, <1>2, <1>3 DEF Next

\* The amount asked for and the run's total change together.
LEMMA TotalStep == ASSUME IInv, Next PROVE NoEarlyRequest' /\ RequestIsForTotal'
<1> USE DEF IInv, NoEarlyRequest, RequestIsForTotal, Before, NoRequest, Goto, Abort
<1>1. CASE ShoppingStep
  BY <1>1 DEF ShoppingStep, Discover, Evaluate, Select, CreateCart, BeginPrecheck,
              AgentRaises, Precheck
<1>2. CASE MerchantChange \/ EnterPayment
  BY <1>2 DEF MerchantChange, EnterPayment, runnerVars
<1>3. CASE PaymentStep
  BY <1>3 DEF PaymentStep, Validate, Waiting, Reconciling, Answer, Timeout,
              ConnectionFails, ClientRaises, ReconcileBegin, NoService, LookupFinds,
              LookupFindsNothing, LookupFails, Complete
<1>4. CASE \E o \in Orders : RemoteExecutes(o)
  BY <1>4 DEF RemoteExecutes, runnerVars
<1> QED
  BY <1>1, <1>2, <1>3, <1>4 DEF Next

\* Between the validation of the payment and the end of the request nothing the
\* validation has looked at can change.
LEMMA CanonicalStep == ASSUME IInv, Next PROVE OrderIsCanonical'
<1> USE DEF IInv, OrderIsCanonical, Waiting
<1>1. CASE ShoppingStep
  BY <1>1 DEF ShoppingStep, Discover, Evaluate, Select, CreateCart, BeginPrecheck,
              AgentRaises, Precheck, Goto, Abort
<1>2. CASE MerchantChange
  BY <1>2 DEF MerchantChange, runnerVars
<1>3. CASE EnterPayment
  BY <1>3 DEF EnterPayment, Goto, NoEarlyRequest, Before, NoRequest
<1>4. CASE Validate
  BY <1>4 DEF Validate, Abort, Fresh, PayableTotal, NoRequest, market
<1>5. CASE PaymentStep /\ ~Validate
  BY <1>5 DEF PaymentStep, Answer, Timeout, ConnectionFails, ClientRaises, ReconcileBegin,
     NoService, LookupFinds, LookupFindsNothing, LookupFails, Complete, Reconciling,
     Goto, Abort, market, Fresh
<1>6. CASE \E o \in Orders : RemoteExecutes(o)
  BY <1>6 DEF RemoteExecutes, runnerVars, market, Fresh
<1> QED
  BY <1>1, <1>2, <1>3, <1>4, <1>5, <1>6 DEF Next

\* An order that is reported exists, and orders at the provider do not change.
LEMMA ReportStep == ASSUME IInv, Next PROVE ReportedOrderMatches'
<1> USE DEF IInv, ReportedOrderMatches
<1>1. CASE ShoppingStep
  BY <1>1 DEF ShoppingStep, Discover, Evaluate, Select, CreateCart, BeginPrecheck,
              AgentRaises, Precheck, Goto, Abort
<1>2. CASE MerchantChange \/ EnterPayment
  BY <1>2 DEF MerchantChange, EnterPayment, Goto, runnerVars
<1>3. CASE Validate
  BY <1>3 DEF Validate, Abort
<1>4. CASE Answer
  BY <1>4 DEF Answer, Waiting, OwnIsRequested, RequestIsForTotal, NoRequest
<1>5. CASE LookupFinds
  BY <1>5 DEF LookupFinds, Matching
<1>6. CASE PaymentStep /\ ~Validate /\ ~Answer /\ ~LookupFinds
  BY <1>6 DEF PaymentStep, Timeout, ConnectionFails, ClientRaises, ReconcileBegin,
     NoService, LookupFindsNothing, LookupFails, Complete, Reconciling, Waiting, Goto, Abort
<1>7. ASSUME NEW o \in Orders, RemoteExecutes(o) PROVE ReportedOrderMatches'
  BY <1>7 DEF RemoteExecutes, runnerVars, OwnIsRequested
<1> QED
  BY <1>1, <1>2, <1>3, <1>4, <1>5, <1>6, <1>7 DEF Next

\* The inductive invariant holds in every reachable state.
THEOREM Invariant == Spec => []IInv
<1>1. Init => IInv
  <2> SUFFICES ASSUME Init PROVE IInv
    OBVIOUS
  <2> USE DEF Init
  <2>1. NoEarlyRequest /\ RequestIsForTotal /\ OrderIsCanonical /\ ReportedOrderMatches
    BY DEF NoEarlyRequest, RequestIsForTotal, OrderIsCanonical, Waiting,
           ReportedOrderMatches
  <2>2. DOMAIN orders = Orders /\ \A o \in Orders : ~orders[o].own
    <3>1. ASSUME NEW o \in Orders PROVE ~orders[o].own
      <4>1. orders[o] \in {NoRemoteOrder}
                \cup [exists : {TRUE}, own : {FALSE}, amount : Prices \ {0}]
        BY <3>1
      <4>2. CASE orders[o] = NoRemoteOrder
        BY <4>2 DEF NoRemoteOrder
      <4>3. CASE orders[o] \in [exists : {TRUE}, own : {FALSE}, amount : Prices \ {0}]
        <5>1. orders[o].own \in {FALSE}
          BY <4>3
        <5> QED
          BY <5>1
      <4> QED
        BY <4>1, <4>2, <4>3
    <3> QED
      BY <3>1
  <2>3. request.stage # "executed"
    BY DEF NoRequest
  <2> QED
    BY <2>1, <2>2, <2>3 DEF IInv, OwnIsRequested
<1>2. IInv /\ [Next]_vars => IInv'
  <2>1. CASE Next
    BY <2>1, OwnStep, TotalStep, CanonicalStep, ReportStep DEF IInv
  <2>2. CASE UNCHANGED vars
    BY <2>2 DEF vars, IInv, NoEarlyRequest, RequestIsForTotal, OwnIsRequested,
       OrderIsCanonical, Waiting, Fresh, ReportedOrderMatches
  <2> QED
    BY <2>1, <2>2
<1> QED
  BY <1>1, <1>2, PTL DEF Spec

\* An order is placed only for a cart that is in stock at the prices the buyer
\* saw, and for its canonical total.
THEOREM Canonical == Spec => []OrderIsCanonical
<1>1. IInv => OrderIsCanonical
  BY DEF IInv
<1> QED
  BY <1>1, Invariant, PTL

\* The order a run reports exists at the provider for the run's total.
THEOREM Reported == Spec => []ReportedOrderMatches
<1>1. IInv => ReportedOrderMatches
  BY DEF IInv
<1> QED
  BY <1>1, Invariant, PTL

\* A run never has two orders at the provider, however its requests end.
THEOREM OneOrder == Spec => []AtMostOneOrder
<1>1. IInv => AtMostOneOrder
  <2> SUFFICES ASSUME IInv PROVE AtMostOneOrder
    OBVIOUS
  <2>1. OwnOrders # {} => request.stage = "executed" /\ OwnOrders = {request.order}
    BY DEF IInv, OwnIsRequested, OwnOrders
  <2>2. Cardinality({}) = 0 /\ Cardinality({request.order}) = 1
    BY FS_EmptySet, FS_Singleton
  <2>3. Cardinality(OwnOrders) <= 1
    <3>1. CASE OwnOrders = {}
      BY <3>1, <2>2
    <3>2. CASE OwnOrders # {}
      BY <3>2, <2>1, <2>2
    <3> QED
      BY <3>1, <3>2
  <2> QED
    BY <2>1, <2>3 DEF AtMostOneOrder
<1> QED
  BY <1>1, Invariant, PTL
-----------------------------------------------------------------------------
\* The variables keep their types.

\* A cart whose skus all have a price costs a natural number.
LEMMA CartCost ==
    ASSUME NEW c \in SUBSET Skus, NEW price, \A s \in c : price[s] \in Nat
    PROVE  Sum(price, c) \in Nat
<1>1. IsFiniteSet(c) BY RunnerAssumption, FS_Subset
<1> QED BY <1>1, SumNat DEF Sum

\* A fresh cart has an entry in pricing_db for every sku.
LEMMA FreshCost ==
    ASSUME TypeOK, Fresh
    PROVE  Sum(pricing_db, cart) + fee \in Nat
<1>1. \A s \in cart : pricing_db[s] \in Nat BY DEF TypeOK, Fresh
<1>2. Sum(pricing_db, cart) \in Nat BY <1>1, CartCost DEF TypeOK
<1>3. fee \in Nat BY RunnerAssumption DEF TypeOK
<1> QED BY <1>2, <1>3

LEMMA TypeInit == Init => TypeOK
<1> SUFFICES ASSUME Init PROVE TypeOK OBVIOUS
<1>1. pricing_db \in [Skus -> Nat \cup {NoPrice}] BY RunnerAssumption DEF Init
<1>2. request \in Request BY DEF Init, NoRequest, Request
<1>3. orders \in [Orders -> RemoteOrder]
  <2>1. NoRemoteOrder \in RemoteOrder BY DEF NoRemoteOrder, RemoteOrder
  <2>2. [exists : {TRUE}, own : {FALSE}, amount : Prices \ {0}] \subseteq RemoteOrder
    BY RunnerAssumption DEF RemoteOrder
  <2> QED BY <2>1, <2>2 DEF Init
<1> QED BY <1>1, <1>2, <1>3 DEF Init, TypeOK, Machine!CommerceState, Reasons

\* Commerce chaos takes from the stock and raises a price.
LEMMA StrikeTypes ==
    ASSUME TypeOK, Strike
    PROVE  /\ inventory_db' \subseteq Skus
           /\ pricing_db' \in [Skus -> Nat \cup {NoPrice}]
           /\ shipping' \in BOOLEAN /\ chaos' \in BOOLEAN
<1>1. CASE ~chaos BY <1>1 DEF Strike, TypeOK
<1>2. CASE chaos
  <2>1. PICK s, q \in Skus :
          /\ inventory_db' = inventory_db \ {s}
          /\ pricing_db' = [pricing_db EXCEPT ![q] = Hiked(pricing_db[q])]
          /\ shipping' = FALSE /\ chaos' = FALSE
    BY <1>2 DEF Strike
  <2>2. ASSUME NEW n \in Nat PROVE (3 * n) \div 2 \in Nat OBVIOUS
  <2>3. Hiked(pricing_db[q]) \in Nat BY <2>2 DEF Hiked, TypeOK
  <2> QED BY <2>1, <2>3 DEF TypeOK
<1> QED BY <1>1, <1>2

LEMMA ShoppingTypes == ASSUME TypeOK, ShoppingStep PROVE TypeOK'
<1> USE DEF TypeOK, Machine!CommerceState, Reasons, market, Goto, Abort
<1>1. CASE Discover \/ Evaluate \/ Select \/ BeginPrecheck \/ AgentRaises
  BY <1>1 DEF Discover, Evaluate, Select, BeginPrecheck, AgentRaises
<1>2. CASE CreateCart BY <1>2 DEF CreateCart, Carts
<1>3. CASE Precheck
  <2>1. CASE state' = "ABORTED" BY <1>3, <2>1 DEF Precheck
  <2>2. CASE state' # "ABORTED"
    <3>1. /\ Fresh /\ Strike /\ total' = Sum(pricing_db, cart) + fee
          /\ state = "PRECHECK" /\ state' = "READY_FOR_PAYMENT"
          /\ UNCHANGED <<cart, link, reason, raised, tag, fee, adapter, request, orders>>
      BY <1>3, <2>2 DEF Precheck
    <3>2. total' \in Nat BY <3>1, FreshCost
    <3>3. cart # {} BY <3>1
    <3>4. /\ inventory_db' \subseteq Skus
          /\ pricing_db' \in [Skus -> Nat \cup {NoPrice}]
          /\ shipping' \in BOOLEAN /\ chaos' \in BOOLEAN
      BY <3>1, StrikeTypes
    <3> QED BY <3>1, <3>2, <3>3, <3>4
  <2> QED BY <2>1, <2>2
<1> QED BY <1>1, <1>2, <1>3 DEF ShoppingStep

LEMMA MerchantTypes == ASSUME TypeOK, MerchantChange PROVE TypeOK'
<1>1. Prices \subseteq Nat BY RunnerAssumption
<1> QED BY <1>1 DEF MerchantChange, TypeOK, runnerVars

LEMMA PaymentTypes == ASSUME TypeOK, EnterPayment \/ PaymentStep PROVE TypeOK'
<1> USE DEF TypeOK, Machine!CommerceState, Reasons, market, Goto, Abort
<1>1. CASE Validate
  <2>1. CASE ~Fresh BY <1>1, <2>1 DEF Validate
  <2>2. CASE Fresh
    <3>1. /\ total' = Sum(pricing_db, cart) + fee
          /\ state = "PAYMENT"
          /\ UNCHANGED <<cart, raised, market, adapter, orders>>
      BY <1>1, <2>2 DEF Validate, PayableTotal
    <3>2. total' \in Nat BY <2>2, <3>1, FreshCost
    <3>3. /\ link' \in {link, MockOrder} /\ reason' \in {reason, "PAYMENT_ERROR"}
          /\ state' \in {"PAYMENT_PENDING", "PAYMENT", "ABORTED"}
          /\ request' \in {request, [stage |-> "sent", amount |-> total', order |-> NoOrder]}
      BY <1>1, <2>2, <3>1 DEF Validate
    <3>4. request' \in Request BY <3>2, <3>3 DEF Request
    <3> QED BY <3>1, <3>2, <3>3, <3>4
  <2> QED BY <2>1, <2>2
<1>2. CASE Answer
  <2>1. request.order \in Orders \cup {NoOrder} BY DEF Request
  <2> QED BY <1>2, <2>1 DEF Answer, Waiting
<1>3. CASE ClientRaises
  <2>1. request' \in Request BY <1>3 DEF ClientRaises, Request
  <2> QED BY <1>3, <2>1 DEF ClientRaises
<1>4. CASE LookupFinds BY <1>4 DEF LookupFinds, Reconciling, Matching
<1>5. CASE \/ EnterPayment \/ Timeout \/ ConnectionFails \/ ReconcileBegin \/ NoService
           \/ LookupFindsNothing \/ LookupFails \/ Complete
  BY <1>5 DEF EnterPayment, Timeout, ConnectionFails, ReconcileBegin, NoService,
     LookupFindsNothing, LookupFails, Complete, Waiting, Reconciling
<1> QED BY <1>1, <1>2, <1>3, <1>4, <1>5 DEF PaymentStep

LEMMA RemoteTypes == ASSUME TypeOK, NEW o \in Orders, RemoteExecutes(o) PROVE TypeOK'
<1>1. request.amount \in Nat BY DEF TypeOK, Request
<1>2. [exists |-> TRUE, own |-> TRUE, amount |-> request.amount] \in RemoteOrder
  BY <1>1 DEF RemoteOrder
<1>3. orders' \in [Orders -> RemoteOrder] BY <1>2 DEF RemoteExecutes, TypeOK
<1>4. request' \in Request BY <1>1 DEF RemoteExecutes, Request
<1> QED BY <1>3, <1>4 DEF RemoteExecutes, TypeOK, runnerVars, market

LEMMA TypeStep == TypeOK /\ [Next]_vars => TypeOK'
<1>1. TypeOK /\ Next => TypeOK'
  BY ShoppingTypes, MerchantTypes, PaymentTypes, RemoteTypes DEF Next
<1>2. TypeOK /\ UNCHANGED vars => TypeOK' BY DEF vars, TypeOK
<1> QED BY <1>1, <1>2

\* Whatever the merchant and the provider do, the total of a run is a natural
\* number, no run gets to the prechecks with an empty cart, and every variable
\* keeps its type.
THEOREM RunnerTypes == Spec => []TypeOK
<1> QED BY TypeInit, TypeStep, PTL DEF Spec

=============================================================================
