# CommerceTwin in TLA+

CommerceTwin simulates AI buyers that shop at a merchant, injects faults into the
merchant's data and the payment channel, explains why purchases were lost, proposes
repairs and verifies them by replay. Purchases that get through are paid at Razorpay in
test mode. This directory holds the TLA+ model of its core, the TLC configurations that
check it and the theorems TLAPS proves about it. `PROJECT.json` lists components, runs,
mutations, the map from definitions to source lines, findings, hazards and theorems.

    tlc -workers 2 -config PaymentLedger.cfg MCPaymentLedger.tla
    tlapm PaymentLedgerProofs.tla

Paths below are relative to `src/backend/app` unless they start with `src/`.

## The system

| Component | State it keeps | Operations | What makes it correct |
|---|---|---|---|
| Payment endpoints, `payments/router.py` | rows of `payment_operations` | create order, verify checkout, reconcile, webhook | an operation's order is for its trace and amount; one payable order per trace and amount |
| Webhook processor, `payments/webhook_handler.py` | `processed_webhook_events`, `quarantined_webhook_events`, operation states | process one event | an event takes effect once, states only advance, a captured payment is recorded unless an attempt at its order failed |
| Runner, `commerce/runner.py` and `commerce/state.py` | state, cart, total of one purchase; the market dicts it shares with its caller | `run_to_precheck`, `process_payment`, reconciliation | pays only for a cart that is still valid, at most once, ends |
| Commerce service, `services/commerce_service.py` | `experiment_runs`, traces, snapshots, `payment_operations`, repairs, replay results | run a trace, prepare a payment, localise, propose and verify repairs | operation committed before money moves and true of its order, replay from the recorded state |
| Chaos engine, `chaos/` | clones of the market, applied and pending injections | apply, trigger at a boundary, rollback | originals untouched, rollback restores the clone |
| Payment fault adapter, `chaos/payment_chaos.py` | one armed fault | `create_order` | one fault per arming |
| Buyers and oracle, `buyers/` | ranking of products, hard constraints | discover, evaluate, select | selected carts satisfy the constraints |
| Repair synthesis and analysis, `analytics/repair.py`, `verifier.py`, `causal.py`, `prioritizer.py` | proposals and results | localise, synthesise, verify, rank | a verified repair fixes the replayed trace |
| Leak graph and metrics, `analytics/` | `failure_clusters` | recompute, aggregate | clusters partition the failed traces |
| REST API, `api/routers.py` | none | experiments, failures, repairs, replays | reports what the service did |
| Timeline, `commerce/tracer.py`, `utils/tracing.py` | a hash chain of events | append | order and integrity |
| Benchmark, `src/evals/run_benchmark.py`, `analytics/metrics_engine.py` | the traces of a cohort | run a scenario, a baseline; compute metrics | what it reports is so |

How they interact. The service builds a runner around a buyer, the market dicts and
optionally a chaos engine, runs it to the prechecks and commits its trace;
`prepare_payment` commits an operation and has the runner pay through an adapter. The
payment endpoints work from a committed trace and the same table of operations. Razorpay
answers the calls and sends webhooks on its own schedule. A failed trace goes through
localisation, a proposal and a replay against its snapshot. The benchmark puts a chaos
engine in front of a buyer and the repair loop behind her.

What is hard about it.

* The payment endpoints are `async def` and never await, so in the single uvicorn process
  a handler runs to its end before the next begins. What interleaves with them is the
  provider, other processes that write prices, and a crash between two commits.
* The endpoints under `/api/v1` are plain `def` and run in a thread pool: they do
  interleave, on one SQLite database.
* Provider calls may be executed after the client has given up, or never; webhooks are
  late, repeated and reordered.
* The runner checks a market it does not own, twice, and charges for the second look.
* Injections overlap: catalogue and context chaos rewrite the same descriptions, commerce
  chaos strikes in the middle of a purchase, and one rollback has to undo them all.
* A repair is proposed, replayed and decided in several commits by threads that know
  nothing of each other, from rows that other handlers add to and delete.

## Modules

| Module | What it is |
|---|---|
| `PaymentLifecycle` | abstract specification: how the state of an operation may move |
| `PaymentLedger` | payment endpoints, webhook processor, tables, provider |
| `PaymentLedgerProofs` | theorems about `PaymentLedger` |
| `CommerceStateMachine` | abstract specification: the table of `commerce/state.py` |
| `CommerceRunner` | one purchase, the market, the provider behind an adapter |
| `CommerceRunnerProofs` | theorems about `CommerceRunner` |
| `PreparePayment` | `prepare_payment` around `CommerceRunner`, with crashes |
| `PreparePaymentProofs` | theorems about `PreparePayment` |
| `RepairLifecycle` | abstract specification: a proposal is decided once |
| `RepairLoop` | experiments, traces, leak graph, proposals and replays in threads over one database |
| `RepairLoopProofs` | theorems about `RepairLoop` |
| `ChaosEngine` | apply, trigger_boundary, rollback and the families of chaos |
| `ChaosEngineProofs` | theorems about `ChaosEngine` |
| `BuyerAgents` | the oracle, the rankings and the greedy cart as operators |
| `BuyerAgentsProofs` | what the operators of `BuyerAgents` compute, for any catalogue |
| `Evaluation` | `ChaosEngine` and `BuyerAgents` composed: the benchmark |
| `EvaluationProofs` | theorems about `Evaluation` |
| `DataLemmas` | induction over finite sets; sums and sorted enumerations of finite sets |
| `MC...` | the modules TLC runs: symmetry sets, markets, merchants and intents |

Operators marked *mutant* and named `X_Something` next to a definition `X` are variants
of `X` with a plausible bug. Nothing uses them; replacing `X` by one must break the
property `PROJECT.json` lists with it.

### PaymentLedger

`ops` is the table `payment_operations`, indexed by fingerprint. The code hashes merchant,
trace, cart, amount and currency; the merchant and the currency are constants and the cart
is the trace's, so a fingerprint is a pair of trace and amount. `processed` and
`quarantine` are the other two tables. `price` is the total of a trace's cart at the latest
price snapshots.

`create_payment_order` is the only handler that is not one step: it commits the operation
(`OrderBegin`), calls the provider (`OrderRemote`, or `OrderRefused`), commits the order id
(`OrderRecord`) and replies (`OrderReply`); `call` holds where it is. `Crash` ends it
anywhere. Every other handler needs `call = Idle`, which is the event loop. `Webhook` is
`WebhookProcessor.process`, a single transaction; `Verify` is `verify_payment`; `Reconcile`
is `reconcile_order`.

The provider is external. It makes orders, lets whoever holds an order id attempt payments
(of any amount in `Amounts`, also without an order, also for orders made elsewhere in the
account), captures at most one payment per order, and never forgets an event it has sent,
so that any event may be delivered at any time, again or never. The code identifies an
event by its id; here it is its payment and its type. `handed` and `reconciled` are history
variables: order ids given to clients, and orders somebody has reconciled by hand.

Abstracted: signatures (what gets through are events the provider issued), and requests
that are refused without changing anything.

### CommerceRunner

`state`, `cart`, `total` are the fields of the runner, `inventory_db` (the skus with
stock), `pricing_db`, `shipping` and `fee` the dicts it reads, and `tag` the prices on the
agent's products. The agent is reduced to the cart it may select. One action stands for one
transition of the state machine together with everything the code does before the next.
`Strike` is commerce chaos, which is triggered inside the transition to READY_FOR_PAYMENT,
and `MerchantChange` is the caller changing a dict between the two calls: the runner is
used by one thread and its dicts belong to one request, so nothing changes inside a call.

`request` is the message to the provider: `RemoteExecutes` may happen while the client
waits, after it has timed out, or never. The adapter is `none` (simulation), `plain`, or
`service` (it has the attribute reconciliation needs, as `PaymentChaosAdapter` does).
`orders` are the provider's orders with this run's receipt; since receipts default to a
constant, some may exist beforehand.

### PreparePayment

Extends `CommerceRunner` with the table of operations (`ops`), the newest trace (`latest`)
and the call of `prepare_payment` (`svc`): its fingerprint, and whether it inserted the
operation (`Persist`) or found it (`Existing`). `Record` commits the outcome, `Leave` is the
end of a call that writes none. `Crash` is the process dying inside the call. `TryAgain` is
the caller shopping again for the same intent with a new runner at any time outside a call:
after an abort, after an order was made, after a commit whose reply was lost. So a call may
meet an operation in any state, "created" included, and pays again on it. Both keep what
the database and the provider hold, and a request under way may stay under way (`late`), to
be executed at any later time (`LateExecutes`) or never. `NewTrace` is any `run_trace` that
commits meanwhile; the same purchase then has another fingerprint. `answers` is a history
variable: the call whose request an order answers.

Two calls of one fingerprint at the same time are left out: nothing in the code serves
`prepare_payment` to more than one caller.

### RepairLoop

`products`, `traces`, `clusters` (with `leak`, the clusters the leak graph writes),
`repairs` and `results` are the tables; rows are numbered in the order of their insertion.
A trace carries its buyer, its market (the snapshot, with what the buyer wants of it: see `Market`) and whether it is a replay; what it
ended as is a function of these, `final_classification`, because a run is deterministic
once its market is given. `thread` holds, for every thread of the pool, the handler it is
in and that handler's local variables.

One action is what a handler does between two commits, since only a commit is visible to
the other threads. `RunExperiment`, `CompileFails`, `AddProduct`, `DuplicateProduct`,
`RunBuyer`, `RunRaises` and `EndCohort` are `POST /experiments/{id}/run`;
`CreateFailureRepair`, `CommitCluster`, `Synthesize` and `ManualReview` are
`localize_failure` and `generate_repair`, whoever calls them; `BeginVerify`,
`RefuseVerify`, `Replay` and `Record` are `verify_repair`, reached from two endpoints;
`LeakGraph` recomputes the clusters. `Restart` is the process dying with every thread in
it; committed rows stay. `told` is a history variable: what callers were told of a
proposal. SQLite is opened without foreign keys being enforced, so a deleted cluster
leaves the rows that name it.

### ChaosEngine

A *location* is a field of a product or the shipping policy; `canon` maps locations to the
merchant's values and `clone` to what the engine's copies hold, products, attributes,
inventory, pricing and policy alike. `injections` is the list of that name, each with the
location its patch restores and the value it writes there; `pending` is
`pending_injections`. A step is one turn of one of the engine's loops; `stage` and
`sampled` say which loop and how far. Nothing else can run in between, but the steps make
every choice of `random.sample` and `random.choice` a choice of the model.

Rollback finds out what to restore from the family and from the keys of a patch, and
`DROP_ATTR` has keys that make it look like a description of the first product:
`DropMark` is that patch. `Lost` names the two kinds of description that do not come back.

### BuyerAgents and Evaluation

`BuyerAgents` holds operators named as the methods they translate. Words are tokens of
title and description, an attribute is a number or a set of words, similarities are
compared as fractions. A loop or a stable sort over part of a list is the enumeration of the
positions it keeps, in its order (`Entries`, `Ranked`), and a total is a sum over a finite
set. `Feasible` is not code: it is the definition the greedy cart is compared with.

`Evaluation` runs a cohort. `StartScenario` and `Chaos` make a scenario's catalogue and
apply all chaos, `Shop` is `run_trace` up to the prechecks, `Strike` the entry into
READY_FOR_PAYMENT, `Succeed` and `Fail` the two ways a scenario ends, with the repair loop
in `Fail` (`Proposed`, `Sandbox`, `Recovered`). The keyword and semantic baselines have an
action each. `CartsHonourTruth` and the honesty in `IntegrityIsReal`, and with them their
theorems, leave out intents that forbid an attribute their buyer may not be shown
(`Judged`). `Drill` is an engine used on its own, with any profile and any merchant, as its
tests do; it shares the state of the engine and nothing else.

## Runs

| Run | Bounds | Shows |
|---|---|---|
| `ledger_safety` | 1 trace, 2 amounts, 2 orders, 2 payments | type, consistency with the provider, no lost or invented effect, refinement of the life cycle |
| `ledger_liveness` | 1 trace, 2 amounts, 1 order, 2 payments | a captured payment is recorded as captured, if no attempt at its order failed or was for another amount |
| `ledger_monotone`, `ledger_exact` | as above | violations, see Findings |
| `runner` | 2 products, prices 0 and 2, fees 0 and 1, budget 2, 2 orders, every initial market | fresh carts only, one order, matching reports, the state machine, termination |
| `runner_budget` | 1 product | violation |
| `prepare` | 1 product of price 2, fees 0 and 1, budget 2, 1 new trace, 3 orders | through crashes, lost replies and late executions every order has an operation, calls that insert one make one order, "created" is true, and amounts differ by a shipping fee at most |
| `prepare_restart` | 1 product, prices 0 and 2, budget 3, 2 orders | violation |
| `repair` | 2 threads, 2 buyers, 6 markets, 4 traces, 2 clusters, 2 proposals, 3 results | a buyer runs once, a verdict agrees with all its replays, a proposal is judged by its own snapshot and only repairable traces are verified, refinement of the life cycle |
| `repair_snapshot`, `repair_reply` | as above | violations |
| `evaluation` | 3 products, 2 merchants, 2 mutations per family, 4 intents, 2 scenarios, all systems | rollback restores, carts honour the merchant's truth, the greedy cart is optimal, reported integrity is real, nothing recovers |

Why the bounds are enough. Operations of different traces meet only through the order id
they share, which `OneOrderToPay` and the proofs rule out for any number; two amounts give
one trace two fingerprints, which is where operations compete, and give a payment that
differs from its operation; two orders give an orphan and its replacement; two payments
give a failed attempt and a later one. For the runner, two products give carts in which
only one item is stale, the budget lets one of them in but not both, and a price of 0
reaches the amounts the provider's client refuses. For `prepare`, three orders are what the
first call, one that finds its operation and one under a second fingerprint can have, or a
late one beside two others; one price and a budget of its size leave the fee as the one
thing that moves, and `runner` varies the rest. For the repair loop, two threads are what
a race needs, and two rows of a table are what confusing one with another needs: two
proposals for one trace, two replays of one proposal. For the evaluation, two mutations out
of three products leave a product alone and let families meet on one product, a third
product gives a category a second choice, and the intents exercise every check of the
oracle that needs data of its own. Runs with violations use the smallest
instance that has the behaviour. Deadlock checking is off for the purchases and the cohort,
which really end; the ledger never stops. Symmetry is used only where no liveness is
checked.

Fairness. `ledger_liveness`: strong fairness for each webhook, because Razorpay redelivers
an event until it is acknowledged and asyncio serves its queue in order, so an event that
finds the loop free again and again is served; weak fairness for the steps of the handler
that holds the loop, because it is running code and its one external call comes back with
an answer or an error. `runner`: weak fairness for the steps of `process_payment` taken
together. Neither assumes anything about prices, payments, crashes or callers. That every
provider call comes back is an assumption about the HTTP library and the network; the code
sets no timeout itself.

## Findings

Each is a run in which TLC finds what a comment or document denies.

* `ledger_monotone`: reconciliation writes `paid`, which has no level; a delayed webhook
  takes the operation back to `authorized`.
* `ledger_exact`: the checkout callback records a capture without an amount, and the
  webhook's amount check sits in the branch that no longer runs.
* `runner_budget`: a higher shipping fee takes the order over the budget after the prechecks.
* `prepare_restart`: the process dies with its request sent, the next call finds the
  operation and has another order made for the same fingerprint. The same happens after a
  call that ended well and whose reply was lost.
* `repair_snapshot`: the sandbox takes a product's category from its current row, so a trace
  whose category chaos had changed is verified as repaired although it was not.
* `repair_reply`: a caller is told VERIFIED of a proposal whose replay failed.

Met on the way, without a run of their own: `prepare_payment` looks for `order_id` where a
recovery records `recovered_order_id`, so a recovered purchase leaves an operation `failed`
(`services/commerce_service.py:605`); `failed` has the level of `captured`
(`payments/webhook_handler.py:26`), so which of a failed and a captured attempt is
recorded depends on which event comes first, and a capture that comes after a failure is
never recorded (`Spoilt` in `PaymentLedger` names the orders this can happen to); an order
made by a call that found its operation is recorded nowhere, because that branch writes
nothing (`services/commerce_service.py:578`); a purchase that is tried again after another
trace was committed has a new fingerprint, so it gets a second operation and a second order
(`services/commerce_service.py:566`); the leak graph looks for traces classified `FAILED`
(`analytics/leak_graph.py:19`), which no code writes, so it deletes clusters and never adds
any in practice; rollback empties some descriptions (`Lost` in `ChaosEngine`); the
benchmark's recoveries are zero by construction (`NothingRecovers`), as its committed
results are; a forbidden attribute keeps a product away only while the attribute is shown
(`buyers/oracle.py:26`), so the baselines, which show none (`src/evals/run_benchmark.py:384`),
and chaos, which drops `power_watts`, let such a product through (`Hidden` in `Evaluation`;
the committed scenarios forbid no attribute).

## Proofs

`PaymentLedgerProofs` proves, for all finite or infinite sets of traces, amounts, orders
and payments and from `LedgerAssumption` alone (amounts are integers, the sentinels are not
ids), that every reachable state satisfies `TypeOK`, `OrderMatchesOperation`,
`OneOrderToPay`, `QuarantineOnlyForeign`, `ProcessedIsApplied` and `PaymentEvidence`, and
that the ledger implements `PaymentLifecycle`. None of these is inductive alone. The
inductive invariant `IInv` adds what they rest on:

* the call in progress agrees with the row it will write, and an order it has made is
  nobody else's yet, which gives `OrderMatchesOperation` and that no two operations share
  an order;
* an order id is committed before it is handed out, so orders that can be paid are known
  or foreign, which gives `OneOrderToPay` and `QuarantineOnlyForeign`;
* events sent agree with the payments they name, and payments never lose their order or
  amount, which gives `PaymentEvidence` and, with the levels only rising outside
  reconciliation, `ProcessedIsApplied`.

The preservation proof has one lemma per action. `Refinement` then maps each step to a step
of the life cycle or a stutter, by the same case split.

`DataLemmas` is what the proofs about carts and catalogues need. The induction theorems of
the prover's library take the predicate as an operator, which cannot be instantiated, so
`UpTo` and `SubsetInduction` are stated about the *set* of what has been shown; they follow
from the well-foundedness of `<`. With them come that `SumFunctionOnSet`, a fold that picks
elements by `CHOOSE`, has a value and one that does not depend on the picks (`FoldExists`,
`FoldUnique`, `SumRemove`), is a natural number, is monotone and may be renamed; and that a
finite set can be enumerated along any strict order (`SortedExists`).

`CommerceRunnerProofs` proves for any catalogue, budget, fees and orders that the runner
implements `CommerceStateMachine` (directly from the guards of the actions), `TypeOK`, where
a total is a number because a sum is one, and, by an invariant that ties the request to the
total and the provider's own order to the request, `OrderIsCanonical`,
`ReportedOrderMatches` and `AtMostOneOrder`.

`PreparePaymentProofs` proves `OrdersAccountedFor`, `InsertedOrdersOnce` and
`CreatedHasOrder` for any number of crashes, retries, traces and orders. What counts are the
calls that insert their operation; of a call that finds it nothing more is true than that
the operation is in the table. A call inserts only a fingerprint that is not in the table,
and every call whose request was sent has its own in it (`Present`), so there is one
inserting call for each fingerprint. `CallOK` says that its operation is not "created" as
long as it pays or its request is under way (`Open`), and that no order was made for it
except the one its request names; `LateOK` says the same of requests whose process is gone,
for which no order was made at all. So when such a request is executed, it is the first of
its inserting call, and either its call goes on to record it or the operation stays as it
is: after a crash no later call writes to that row. When `Record` writes "created", the
order it names is the one the request was answered with (`PendingReports`, `RequestOK`).
`AmountsDifferByFee` compares two sums taken at different times. `AmountInv` says that the
total, the amount asked for and the amount in a fingerprint are each the cart at the prices
its products carry (`tag`) plus some fee: those prices do not change with the market, and
the prechecks and the validation let only a cart through whose prices equal them.

`RepairLoopProofs` proves, for any number of threads, buyers, markets and rows, `TypeOK`,
`OneTracePerBuyer`, `VerdictHasReplay`, `ReplaysItsSnapshot`, `VerifiedIsRepaired` and the
refinement of `RepairLifecycle`. What makes verdicts
stable is that a replay is a function of the snapshot: `Replayed` does not mention the state,
and the invariant ties every replay under way, every result and every verdict to it, so
that a second thread that overwrites a status overwrites it with the same one. That needs
the product of a trace to be committed and never deleted (`Owned`), proposals to lead to
their snapshot along both paths (`Linked`), and the local variables of each thread to agree
with the rows they were read from (`LocalsOK`). `OneTracePerBuyer` rests on `FirstRun`: a
thread about to run a buyer is the only one that has inserted her product.

`ChaosEngineProofs` proves `RollbackRestores` for any merchants, number of products and
profile. It says nothing of the states in between, so it is not inductive; `Restorable`
adds that a location no injection names holds the merchant's value, and that the *first*
injection at a location knows that value. An injection at a fresh location reads it from the
clone, one at a location already injected is not the first, and rollback removes the last,
so the first of each location goes last. Scheduled
chaos knows the value too (`ScheduledKnows`), because no stage before the one that schedules
it touches stock, prices or shipping (`CommerceWaits`).

The same module proves that chaos only hides (`OnlyHides`): the clone, every value rollback
will write and every value still scheduled either fits the merchant's or says less.

`BuyerAgentsProofs` proves what the buyers compute. The order of each ranking is a weak order
(for similarities this is cross-multiplication of fractions, `Fractions`), made strict by
the positions, so the candidates are the positions in that order, each once
(`StructuredArranged`, `SemanticArranged`, `HybridArranged`). The greedy cart then has one
valid product of each required category, and no candidate of that category beats it
(`GreedyFacts`). `GreedyIsOptimal` compares it with any feasible choice: the map from
products in the cart to products of their category in the choice is injective and never to
a cheaper one, so the cart costs no more.

`EvaluationProofs` proves every invariant of the run `evaluation`, for any number of
products and scenarios, any merchants and intents. `EngineAssumption` says that merchants
are well formed, `EvaluationAssumption` that a target budget is at most the budget (a
scenario's budget is 1.1 to 1.3 times its target,
`src/scripts/generate_buyer_datasets.py:90`) and that no intent asks for the categories
"unknown" and "sandbox", which stand for none. The steps are:

* the benchmark implements `EngineSpec` (`BenchmarkUsesEngine`), so `OnlyHides` and
  `RollbackRestores` hold in it;
* a catalogue that hides something of the merchant's (`Shows`) makes the oracle no more
  lenient, so a cart from it is honest (`HonestCarts`); what chaos leaves and what the
  baselines hand over are such catalogues (`ChaosShows`, `BareShows`);
* in the sandbox no product is of a required category, so a replay has no cart
  (`NeverRecovered`);
* `ScriptInv` carries these facts to the end of the cohort: a run that is ready has an
  accepted cart (`ReadyHonest`), so asking the oracle about the target budget cannot fail,
  and every trace says what is true (`TracesTrue`). The merchant behind the traces does not
  change, because an engine used on its own has no traces.

Only model-checked: liveness (`CapturedIsRecorded`, `PaymentEnds`), which is beyond the
prover. The runs with violations have nothing to prove.

## Plan

Done: `PaymentLifecycle`, `PaymentLedger`, `CommerceStateMachine`, `CommerceRunner`,
`PreparePayment`, `RepairLifecycle`, `RepairLoop`, `ChaosEngine`, `BuyerAgents` and
`Evaluation`, all with proofs. Left, in this order:

1. `PurchaseLedger`: `PreparePayment` composed with the webhook processor over one table of
   operations: what the webhook's amount check makes of an order whose fee has changed, and
   which traces the order endpoint can pay.
2. `RepairAnalytics`: the paired verifier, the counterfactual localizer and the prioritizer as
   operators checked against definitions.
3. `Timeline`: the hash chain and its verification.

## Not modelled

Language-model buyers, the intent compiler and the LLM adapters (text in, text out; their
outcome for a purchase is a cart or an exception, which the runner has), configuration,
migrations, the console, the demo and the dataset generators (sequential programs without
state of their own). `analytics/verifier.py`, `causal.py`, `prioritizer.py` and
`repositories.py` are called by tests only. Of the modelled parts: logging, hashing and
wording; in the benchmark, its language-model baseline, result files, latencies, values in
paise and confidence intervals; in the API, the endpoints that only read.
