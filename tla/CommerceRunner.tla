----------------------------- MODULE CommerceRunner -----------------------------
(***************************************************************************)
(* One purchase: CommerceRunner (commerce/runner.py) drives its state      *)
(* machine, the merchant's tables it reads, and the payment provider its   *)
(* adapter talks to.                                                       *)
(*                                                                         *)
(* A runner is a plain object used by one thread.  The tables are dicts it *)
(* shares with its caller: they can change between run_to_precheck and     *)
(* process_payment, when commerce chaos strikes (at READY_FOR_PAYMENT) or  *)
(* when the caller changes them, and not inside either call.  The provider *)
(* runs beside it: a request the client has given up on may be executed    *)
(* later, or never.                                                        *)
(*                                                                         *)
(* The buyer agent is abstracted to the cart it may come up with.          *)
(***************************************************************************)
EXTENDS Integers, FiniteSets, Functions

CONSTANTS
    Skus,        \* products the agent knows
    Prices,      \* prices in the catalogue, in paise
    NoPrice,     \* a sku without an entry in pricing_db
    Fees,        \* values of flat_shipping_paise
    Budget,      \* max_budget_paise of the intent
    Orders,      \* order ids the provider can issue for the receipt
    NoOrder,     \* no order id known
    MockOrder    \* "mock_order_id", the order of a run without an adapter

ASSUME RunnerAssumption ==
    /\ IsFiniteSet(Skus)
    /\ Prices \subseteq Nat /\ NoPrice \notin Nat
    /\ Fees \subseteq Nat
    /\ Budget \in Nat
    /\ NoOrder \notin Orders /\ MockOrder \notin Orders /\ NoOrder # MockOrder

VARIABLES
    state,        \* state_machine.current_state
    cart,         \* skus of the cart
    total,        \* final_total_paise
    tag,          \* sku -> price_paise of the agent's product
    inventory_db, \* skus in stock
    pricing_db,   \* sku -> canonical price
    shipping,     \* merchant_policy_db["shipping_available"]
    fee,          \* merchant_policy_db["flat_shipping_paise"]
    chaos,        \* injections of commerce chaos are pending
    adapter,      \* payment_adapter: "none", "plain", or "service" when the
                  \* adapter has the attribute reconciliation looks for
    request,      \* the create_order request
    orders,       \* orders at the provider that carry this run's receipt
    link,         \* order id the run reports
    reason,       \* why it was aborted
    raised        \* an exception left process_payment

market     == <<tag, inventory_db, pricing_db, shipping, fee, chaos>>
runnerVars == <<state, cart, total, link, reason, raised>>
vars       == <<state, cart, total, tag, inventory_db, pricing_db, shipping, fee, chaos,
                adapter, request, orders, link, reason, raised>>

-----------------------------------------------------------------------------
Machine == INSTANCE CommerceStateMachine

Reasons == {"none", "AGENT", "PRECHECK", "STALE", "PAYMENT_ERROR", "NO_PAYMENT_ADAPTER",
            "REMOTE_ORDER_NOT_FOUND_AFTER_TIMEOUT", "RECONCILIATION_FAILED"}

Request == [stage : {"none", "sent", "executed", "refused"}, amount : Nat,
            order : Orders \cup {NoOrder}]
NoRequest == [stage |-> "none", amount |-> 0, order |-> NoOrder]

\* `own` is history: the order answers this run's request.
RemoteOrder == [exists : BOOLEAN, own : BOOLEAN, amount : Nat]
NoRemoteOrder == [exists |-> FALSE, own |-> FALSE, amount |-> 0]

\* Receipts are chosen by the caller and default to "receipt_default", so the
\* provider may hold orders of other runs under the same one.
Init ==
    /\ state = "INTENT_RECEIVED" /\ cart = {} /\ total = 0
    /\ tag \in [Skus -> Prices]
    /\ inventory_db \in SUBSET Skus
    /\ pricing_db \in [Skus -> Prices \cup {NoPrice}]
    /\ shipping \in BOOLEAN /\ fee \in Fees /\ chaos \in BOOLEAN
    /\ adapter \in {"none", "plain", "service"}
    /\ request = NoRequest
    /\ orders \in [Orders -> {NoRemoteOrder} \cup
                             [exists : {TRUE}, own : {FALSE}, amount : Prices \ {0}]]
    /\ link = NoOrder /\ reason = "none" /\ raised = FALSE

Goto(s) == state' = s /\ UNCHANGED <<cart, total, link, reason, raised>>
Abort(r) == state' = "ABORTED" /\ reason' = r /\ UNCHANGED <<cart, total, link, raised>>

Sum(price, skus) == SumFunctionOnSet(price, skus)

-----------------------------------------------------------------------------
(* run_to_precheck                                                         *)

\* Every transition is followed by ChaosEngine.trigger_boundary, which has
\* something to do at READY_FOR_PAYMENT only (see Precheck).
Discover ==
    /\ state = "INTENT_RECEIVED" /\ Goto("DISCOVERY")
    /\ UNCHANGED <<market, adapter, request, orders>>

Evaluate ==
    /\ state = "DISCOVERY" /\ Goto("EVALUATION")
    /\ UNCHANGED <<market, adapter, request, orders>>

\* Some candidate passes the oracle, or none does.
Select ==
    /\ state = "EVALUATION"
    /\ Goto("SELECTION") \/ Abort("AGENT")
    /\ UNCHANGED <<market, adapter, request, orders>>

\* What select_cart may return: a cart within the buyer's budget at the prices
\* on the agent's products, or nothing.
Carts_AnyCart == SUBSET Skus                                            \* mutant
Carts == {c \in SUBSET Skus : c # {} /\ Sum(tag, c) <= Budget}

CreateCart ==
    /\ state = "SELECTION"
    /\ \/ /\ cart' \in Carts
          /\ state' = "CART_CREATED"
          /\ UNCHANGED <<total, link, reason, raised>>
       \/ Abort("AGENT")
    /\ UNCHANGED <<market, adapter, request, orders>>

BeginPrecheck ==
    /\ state = "CART_CREATED" /\ Goto("PRECHECK")
    /\ UNCHANGED <<market, adapter, request, orders>>

\* ValueError, KeyError and AttributeError in the agent's code.
AgentRaises ==
    /\ state \in {"DISCOVERY", "EVALUATION", "SELECTION"}
    /\ state' = "ABORTED" /\ reason' = "AGENT" /\ raised' = TRUE
    /\ UNCHANGED <<cart, total, link, market, adapter, request, orders>>

\* What both validations ask of the cart: every item in stock at the price the
\* agent has seen, and shipping available.
Fresh_AnyPrice ==                                                       \* mutant
    /\ \A s \in cart : s \in inventory_db /\ pricing_db[s] # NoPrice
    /\ shipping
Fresh ==
    /\ \A s \in cart : s \in inventory_db /\ pricing_db[s] # NoPrice /\ tag[s] = pricing_db[s]
    /\ shipping

\* apply_commerce_chaos: an item in stock sells out, a price rises by half,
\* shipping is suspended; a sku without a price counts as 1000.
Hiked(p) == IF p = NoPrice THEN 1500 ELSE (3 * p) \div 2
Strike ==
    IF chaos
    THEN \E s, q \in Skus :
            /\ inventory_db' = inventory_db \ {s}
            /\ pricing_db' = [pricing_db EXCEPT ![q] = Hiked(pricing_db[q])]
            /\ shipping' = FALSE
            /\ chaos' = FALSE
    ELSE UNCHANGED <<inventory_db, pricing_db, shipping, chaos>>

Precheck ==
    /\ state = "PRECHECK"
    /\ \/ /\ Fresh
          /\ Sum(pricing_db, cart) + fee <= Budget
          /\ total' = Sum(pricing_db, cart) + fee
          /\ state' = "READY_FOR_PAYMENT"
          /\ Strike
          /\ UNCHANGED <<cart, link, reason, raised, tag, fee>>
       \/ /\ ~(Fresh /\ Sum(pricing_db, cart) + fee <= Budget)
          /\ Abort("PRECHECK")
          /\ UNCHANGED market
    /\ UNCHANGED <<adapter, request, orders>>

\* The caller's side of the shared dicts: stock, prices, shipping and its fee.
MerchantChange ==
    /\ state = "READY_FOR_PAYMENT"
    /\ \/ /\ \E s \in Skus : inventory_db' \in {inventory_db \ {s}, inventory_db \cup {s}}
          /\ UNCHANGED <<pricing_db, shipping, fee>>
       \/ /\ \E s \in Skus, p \in Prices \cup {NoPrice} :
                pricing_db' = [pricing_db EXCEPT ![s] = p]
          /\ UNCHANGED <<inventory_db, shipping, fee>>
       \/ /\ shipping' = ~shipping
          /\ UNCHANGED <<inventory_db, pricing_db, fee>>
       \/ /\ fee' \in Fees
          /\ UNCHANGED <<inventory_db, pricing_db, shipping>>
    /\ UNCHANGED <<runnerVars, tag, chaos, adapter, request, orders>>

-----------------------------------------------------------------------------
(* process_payment                                                         *)

EnterPayment ==
    /\ state = "READY_FOR_PAYMENT" /\ Goto("PAYMENT")
    /\ UNCHANGED <<market, adapter, request, orders>>

\* The amount of the order is computed again from the canonical prices and fee.
PayableTotal_Precheck == total                                          \* mutant
PayableTotal == Sum(pricing_db, cart) + fee

\* _execute_payment_validation, then the branch on the adapter.  The adapter's
\* create_order refuses an amount that is not positive with a ValueError.
Validate ==
    /\ state = "PAYMENT" /\ request = NoRequest /\ ~raised
    /\ \/ /\ ~Fresh
          /\ Abort("STALE")
          /\ UNCHANGED request
       \/ /\ Fresh
          /\ total' = PayableTotal
          /\ \/ /\ adapter = "none"
                /\ state' = "PAYMENT_PENDING" /\ link' = MockOrder
                /\ UNCHANGED <<request, reason>>
             \/ /\ adapter # "none" /\ total' > 0
                /\ request' = [stage |-> "sent", amount |-> total', order |-> NoOrder]
                /\ UNCHANGED <<state, link, reason>>
             \/ /\ adapter # "none" /\ total' <= 0
                /\ state' = "ABORTED" /\ reason' = "PAYMENT_ERROR"
                /\ UNCHANGED <<request, link>>
          /\ UNCHANGED <<cart, raised>>
    /\ UNCHANGED <<market, adapter, orders>>

Waiting == state = "PAYMENT" /\ ~raised /\ request.stage \in {"sent", "executed"}

\* The provider executes the request, whether or not the client still waits.
RemoteExecutes(o) ==
    /\ request.stage = "sent"
    /\ ~orders[o].exists
    /\ orders' = [orders EXCEPT ![o] = [exists |-> TRUE, own |-> TRUE,
                                        amount |-> request.amount]]
    /\ request' = [stage |-> "executed", amount |-> request.amount, order |-> o]
    /\ UNCHANGED <<runnerVars, market, adapter>>

Answer ==
    /\ Waiting /\ request.stage = "executed"
    /\ state' = "PAYMENT_PENDING" /\ link' = request.order
    /\ UNCHANGED <<cart, total, reason, raised, market, adapter, request, orders>>

\* requests.exceptions.ReadTimeout; PaymentChaosAdapter raises it before the
\* call (TIMEOUT) or after it (DROP_RESPONSE_AFTER_SUCCESS).
Timeout ==
    /\ Waiting /\ Goto("AMBIGUOUS_REMOTE_STATE")
    /\ UNCHANGED <<market, adapter, request, orders>>

\* Any other RequestException or OSError: a lost connection, a 5xx.
ConnectionFails ==
    /\ Waiting /\ Abort("PAYMENT_ERROR")
    /\ UNCHANGED <<market, adapter, request, orders>>

\* RazorpayClientError for a request the provider refuses, or an error of the
\* provider's library that says nothing about the request: neither is caught.
ClientRaises ==
    /\ Waiting
    /\ raised' = TRUE
    /\ \/ UNCHANGED request
       \/ /\ request.stage = "sent"
          /\ request' = [stage |-> "refused", amount |-> request.amount, order |-> NoOrder]
    /\ UNCHANGED <<state, cart, total, link, reason, market, adapter, orders>>

-----------------------------------------------------------------------------
(* _reconcile_ambiguous_payment                                            *)

\* Mutant: the order is simply requested again.
ReconcileBegin_Retry ==
    /\ state = "AMBIGUOUS_REMOTE_STATE" /\ Goto("PAYMENT")
    /\ request' = [stage |-> "sent", amount |-> total, order |-> NoOrder]
    /\ UNCHANGED <<market, adapter, orders>>

ReconcileBegin ==
    /\ state = "AMBIGUOUS_REMOTE_STATE" /\ Goto("RECONCILIATION_REQUIRED")
    /\ UNCHANGED <<market, adapter, request, orders>>

Reconciling == state = "RECONCILIATION_REQUIRED" /\ ~raised

\* Mutant: the early return forgets its transition.
NoService_StaysBehind ==
    /\ Reconciling /\ adapter # "service"
    /\ UNCHANGED vars

NoService ==
    /\ Reconciling /\ adapter # "service"
    /\ Abort("NO_PAYMENT_ADAPTER")
    /\ UNCHANGED <<market, adapter, request, orders>>

\* Orders of the receipt for the amount of the run.
Matching_AnyAmount == {o \in Orders : orders[o].exists}                 \* mutant
Matching == {o \in Orders : orders[o].exists /\ orders[o].amount = total}

LookupFinds ==
    /\ Reconciling /\ adapter = "service"
    /\ link' \in Matching
    /\ state' = "RECOVERED_SUCCESS"
    /\ UNCHANGED <<cart, total, reason, raised, market, adapter, request, orders>>

\* Mutant: a lookup that finds nothing counts as a failed payment.
LookupFindsNothing_Failed ==
    /\ Reconciling /\ adapter = "service" /\ Matching = {}
    /\ Goto("PAYMENT_FAILED")
    /\ UNCHANGED <<market, adapter, request, orders>>

LookupFindsNothing ==
    /\ Reconciling /\ adapter = "service" /\ Matching = {}
    /\ Abort("REMOTE_ORDER_NOT_FOUND_AFTER_TIMEOUT")
    /\ UNCHANGED <<market, adapter, request, orders>>

\* The lookup itself fails: caught when it is an OSError, ValueError or
\* KeyError, not caught when it is a RazorpayClientError.
LookupFails ==
    /\ Reconciling /\ adapter = "service"
    /\ \/ Abort("RECONCILIATION_FAILED")
       \/ raised' = TRUE /\ UNCHANGED <<state, cart, total, link, reason>>
    /\ UNCHANGED <<market, adapter, request, orders>>

Complete ==
    /\ state = "RECOVERED_SUCCESS" /\ Goto("COMPLETED")
    /\ UNCHANGED <<market, adapter, request, orders>>

-----------------------------------------------------------------------------
ShoppingStep == \/ Discover \/ Evaluate \/ Select \/ CreateCart \/ BeginPrecheck
                \/ AgentRaises \/ Precheck

PaymentStep == \/ Validate \/ Answer \/ Timeout \/ ConnectionFails \/ ClientRaises
               \/ ReconcileBegin \/ NoService \/ LookupFinds \/ LookupFindsNothing
               \/ LookupFails \/ Complete

Next == \/ ShoppingStep \/ MerchantChange \/ EnterPayment \/ PaymentStep
        \/ \E o \in Orders : RemoteExecutes(o)

Spec == Init /\ [][Next]_vars

\* process_payment runs to its end once called, provided every call to the
\* provider comes back, with an answer or with an error.
FairSpec == Spec /\ WF_vars(PaymentStep)

-----------------------------------------------------------------------------
(* Properties.                                                             *)

TypeOK ==
    /\ state \in Machine!CommerceState
    /\ cart \subseteq Skus
    /\ state \notin {"INTENT_RECEIVED", "DISCOVERY", "EVALUATION", "SELECTION", "ABORTED"}
          => cart # {}
    /\ total \in Nat
    /\ tag \in [Skus -> Prices]
    /\ inventory_db \subseteq Skus
    /\ pricing_db \in [Skus -> Nat \cup {NoPrice}]
    /\ shipping \in BOOLEAN /\ fee \in Fees /\ chaos \in BOOLEAN
    /\ adapter \in {"none", "plain", "service"}
    /\ request \in Request
    /\ orders \in [Orders -> RemoteOrder]
    /\ link \in Orders \cup {NoOrder, MockOrder}
    /\ reason \in Reasons
    /\ raised \in BOOLEAN

\* While an order is being placed, every item of its cart is in stock at the
\* price the buyer saw, shipping is available and the amount asked for is the
\* canonical total of that moment, whatever changed since the prechecks
\* (runner.py:159-185).
OrderIsCanonical ==
    Waiting =>
        /\ Fresh
        /\ \A s \in cart : tag[s] = pricing_db[s]
        /\ request.amount = Sum(pricing_db, cart) + fee

\* A run that reports an order reports one that exists at the provider, under
\* its receipt and for its total, whether the answer arrived or the order was
\* found by reconciliation (runner.py:100-104, 138-151).
ReportedOrderMatches ==
    state \in {"PAYMENT_PENDING", "RECOVERED_SUCCESS", "COMPLETED"} =>
        \/ adapter = "none" /\ link = MockOrder
        \/ link \in Orders /\ orders[link].exists /\ orders[link].amount = total

OwnOrders == {o \in Orders : orders[o].own}

\* "Ambiguous payment state enters reconciliation, not blind retry": a run never
\* has more than one order at the provider, and none before it pays
\* (runner.py:106-110, 125-157).
AtMostOneOrder ==
    /\ Cardinality(OwnOrders) <= 1
    /\ OwnOrders # {} => request.stage = "executed" /\ OwnOrders = {request.order}

\* The runner only asks for transitions the state machine accepts, so
\* InvalidStateTransitionError is never raised (state.py:30-47, 61-68).
FollowsStateMachine == Machine!Spec

\* A payment that has begun ends: in an order, in an abort or in an exception,
\* also when it goes through reconciliation (runner.py:85-157).
PaymentEnds ==
    (state = "PAYMENT") ~> (raised \/ state \in {"PAYMENT_PENDING", "COMPLETED", "ABORTED"})

\* "Hard budget violation cannot execute."
\* (CommerceTwin_Antigravity_Master_Playbook.md:2438).
OrderWithinBudget == \A o \in OwnOrders : orders[o].amount <= Budget
=============================================================================
