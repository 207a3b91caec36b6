----------------------------- MODULE PreparePayment -----------------------------
(***************************************************************************)
(* CommerceService.prepare_payment (services/commerce_service.py): the     *)
(* service commits a row of payment_operations, has the runner of          *)
(* CommerceRunner pay, and commits what came of it.  The process may die   *)
(* anywhere, before its reply or after it, with a request still under way; *)
(* whatever came of a call, its caller may shop again for the same intent  *)
(* with a new runner and call the service again.  Calls follow one         *)
(* another: nothing in the code serves two at once.                        *)
(***************************************************************************)
EXTENDS CommerceRunner

CONSTANT MaxTrace   \* bound: traces that get recorded while the purchase runs

ASSUME PrepareAssumption == MaxTrace \in Nat

VARIABLES
    latest,      \* the newest row of transaction_traces, 0 for "TRC-unknown"
    ops,         \* rows of payment_operations
    svc,         \* prepare_payment: the call made with this runner
    late,        \* requests under way whose runner is gone
    answers      \* history: the call whose request an order of ours answers

prepareVars == <<latest, ops, svc, late, answers>>
allVars     == <<vars, prepareVars>>

\* The fingerprint hashes the trace, the cart and the amount; the merchant and
\* the currency are fixed.
Fingerprint == [trace : 0..MaxTrace, cart : SUBSET Skus, amount : Nat]
Row == [fp : Fingerprint, state : {"pending_creation", "created", "failed"},
        order : Orders \cup {NoOrder, MockOrder}]

\* A call works on a fingerprint; `inserted` when it committed the row itself.
Call == [fp : Fingerprint, inserted : BOOLEAN]
NoCall == [fp |-> [trace |-> 0, cart |-> {}, amount |-> 0], inserted |-> FALSE]

Service == [stage : {"idle", "paying", "returned"}, call : Call]
Idle == [stage |-> "idle", call |-> NoCall]

\* `order` is the id the request gets if the provider executes it after all.
LateRequest == [order : Orders, amount : Nat, call : Call]

PInit ==
    /\ Init
    /\ latest = 0 /\ ops = {} /\ svc = Idle
    /\ late = {} /\ answers = [o \in Orders |-> NoCall]

-----------------------------------------------------------------------------
\* run_trace commits the trace of a run: this purchase's, or another request's.
NewTrace ==
    /\ latest < MaxTrace
    /\ latest' = latest + 1
    /\ UNCHANGED <<vars, ops, svc, late, answers>>

\* The fingerprint takes whatever trace is the newest in the table.
CurrentFingerprint == [trace |-> latest, cart |-> cart, amount |-> total]

Pending(fp) == [fp |-> fp, state |-> "pending_creation", order |-> NoOrder]

\* In any other state prepare_payment returns at once.
Begin(inserted) ==
    /\ svc.stage = "idle" /\ state = "READY_FOR_PAYMENT"
    /\ inserted <=> \A r \in ops : r.fp # CurrentFingerprint
    /\ svc' = [stage |-> "paying",
               call |-> [fp |-> CurrentFingerprint, inserted |-> inserted]]
    /\ UNCHANGED <<vars, latest, late, answers>>

\* Mutant: the row is added to the session and committed with the result.
Persist_Deferred == Begin(TRUE) /\ UNCHANGED ops

\* No operation has this fingerprint: one is committed before the provider is
\* called.
Persist == Begin(TRUE) /\ ops' = ops \cup {Pending(CurrentFingerprint)}

\* An operation has it: the runner pays all the same and nothing is recorded.
Existing == Begin(FALSE) /\ UNCHANGED ops

\* runner.process_payment has returned.
Settled == state \in {"PAYMENT_PENDING", "COMPLETED", "ABORTED"} /\ ~raised

\* Mutants: whatever did not abort has created an order; the runner's own state
\* is written.
Outcome_NotAborted == IF state # "ABORTED" THEN "created" ELSE "failed"
Outcome_RunnerState == IF state = "PAYMENT_PENDING" THEN "created" ELSE state
Outcome == IF state = "PAYMENT_PENDING" THEN "created" ELSE "failed"

\* Only the event of PAYMENT_PENDING has a detail "order_id"; the one of
\* RECOVERED_SUCCESS calls it "recovered_order_id".
RecordedOrder == IF state = "PAYMENT_PENDING" THEN link ELSE NoOrder

\* The outcome is committed; whether its caller ever learns of it is open.
Record ==
    /\ svc.stage = "paying" /\ svc.call.inserted /\ Settled
    /\ ops' = {r \in ops : r.fp # svc.call.fp}
                 \cup {[fp |-> svc.call.fp, state |-> Outcome, order |-> RecordedOrder]}
    /\ svc' = [stage |-> "returned", call |-> svc.call]
    /\ UNCHANGED <<vars, latest, late, answers>>

\* Nothing is written when the operation existed, or when the runner raised.
Leave ==
    /\ svc.stage = "paying"
    /\ raised \/ (~svc.call.inserted /\ Settled)
    /\ svc' = [stage |-> "returned", call |-> svc.call]
    /\ UNCHANGED <<vars, latest, ops, late, answers>>

\* A request under way reaches the provider later, or never.
LeaveBehind ==
    \/ UNCHANGED late
    \/ /\ request.stage = "sent"
       /\ \E o \in Orders :
             /\ ~orders[o].exists
             /\ \A r \in late : r.order # o
             /\ late' = late \cup
                   {[order |-> o, amount |-> request.amount, call |-> svc.call]}

\* A new runner starts on the same intent.
NewRunner ==
    /\ state' = "INTENT_RECEIVED" /\ cart' = {} /\ total' = 0
    /\ link' = NoOrder /\ reason' = "none" /\ raised' = FALSE
    /\ request' = NoRequest /\ chaos' = FALSE
    /\ svc' = Idle /\ LeaveBehind
    /\ UNCHANGED <<tag, inventory_db, pricing_db, shipping, fee, adapter, orders,
                   latest, ops, answers>>

\* The process dies inside prepare_payment.
Crash == svc.stage = "paying" /\ NewRunner

\* The call is over, whatever came of it, or the purchase never came to a call:
\* the caller, who may not have had the reply, shops again.
TryAgain == svc.stage # "paying" /\ state # "INTENT_RECEIVED" /\ NewRunner

\* The provider executes a request nobody waits for.
LateExecutes(r) ==
    /\ r \in late /\ ~orders[r.order].exists
    /\ late' = late \ {r}
    /\ orders' = [orders EXCEPT ![r.order] = [exists |-> TRUE, own |-> TRUE,
                                              amount |-> r.amount]]
    /\ answers' = [answers EXCEPT ![r.order] = r.call]
    /\ UNCHANGED <<runnerVars, market, adapter, request, latest, ops, svc>>

-----------------------------------------------------------------------------
\* The runner pays inside prepare_payment, shops and waits outside of it.
RunnerStep ==
    /\ \/ /\ \/ svc.stage = "idle" /\ (ShoppingStep \/ MerchantChange)
             \/ svc.stage = "paying" /\ (EnterPayment \/ PaymentStep)
          /\ UNCHANGED answers
       \/ \E o \in Orders :
             RemoteExecutes(o) /\ answers' = [answers EXCEPT ![o] = svc.call]
    /\ UNCHANGED <<latest, ops, svc, late>>

PNext == NewTrace \/ Persist \/ Existing \/ Record \/ Leave \/ Crash \/ TryAgain
         \/ (\E r \in late : LateExecutes(r)) \/ RunnerStep

PSpec == PInit /\ [][PNext]_allVars

-----------------------------------------------------------------------------
(* Properties.                                                             *)

PrepareTypeOK ==
    /\ TypeOK
    /\ latest \in 0..MaxTrace
    /\ ops \subseteq Row
    /\ \A r1, r2 \in ops : r1.fp = r2.fp => r1 = r2
    /\ svc \in Service
    /\ late \subseteq LateRequest
    /\ answers \in [Orders -> Call]

\* "Persist PaymentOperation BEFORE calling the payment provider"
\* (commerce_service.py:551): every order of this purchase at the provider was
\* asked for under an operation that is in the table, and if the call that asked
\* for it inserted that operation, the operation names the order or is not
\* "created", wherever the process died and however late the order was made.
\* Orders asked for by a call that found its operation are named by none
\* (commerce_service.py:578-581).
OrdersAccountedFor ==
    \A o \in OwnOrders :
        \E r \in ops :
            /\ r.fp = answers[o].fp
            /\ answers[o].inserted => r.order = o \/ r.state # "created"

\* The calls that insert an operation never make two orders for one operation,
\* whatever is retried, dies or arrives late: a second order of a fingerprint
\* comes from a call that found the operation (commerce_service.py:575-598).
InsertedOrdersOnce ==
    \A o1, o2 \in OwnOrders :
        (answers[o1] = answers[o2] /\ answers[o1].inserted) => o1 = o2

\* An operation marked "created" names an order that exists at the provider and
\* that this purchase asked for under this very operation; with no adapter it
\* names the mock order (commerce_service.py:600-611).
CreatedHasOrder ==
    \A r \in ops : r.state = "created" =>
        \/ adapter = "none" /\ r.order = MockOrder
        \/ r.order \in OwnOrders /\ orders[r.order].exists /\ answers[r.order].fp = r.fp

\* The operation keeps the total of the prechecks, the order is made for the one
\* of the validation before payment (commerce_service.py:561, runner.py:185): of
\* a "created" operation they differ by a change of the shipping fee and nothing
\* else, whatever crashed and was tried again in between.
AmountsDifferByFee ==
    \A r \in ops : r.state = "created" /\ r.order \in Orders =>
        \E before, after \in Fees : orders[r.order].amount - r.fp.amount = after - before

\* "Prevents double-charge on process restart" (commerce_service.py:552): an
\* operation, which its fingerprint identifies, has one order at the provider.
OneOrderPerOperation ==
    \A o1, o2 \in OwnOrders : answers[o1].fp = answers[o2].fp => o1 = o2
=============================================================================
