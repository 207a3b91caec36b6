------------------------------- MODULE Evaluation -------------------------------
(***************************************************************************)
(* The benchmark (evals/run_benchmark.py): the chaos engine and the buyers *)
(* put together.  A cohort of scenarios is shopped for one after another   *)
(* by the system under evaluation - CommerceTwin under chaos with the      *)
(* repair loop behind it, or a baseline without either - and the metrics   *)
(* engine (analytics/metrics_engine.py) sums up the traces.  "drill" is no *)
(* system: it is an engine used on its own, as tests/test_chaos_engine.py  *)
(* and evals/run_chaos.py do.                                              *)
(***************************************************************************)
EXTENDS ChaosEngine, BuyerAgents
LOCAL INSTANCE TLC

CONSTANTS
    Intents,    \* what scenarios ask for, with the target budget and whether
                \* the dataset calls the scenario eligible
    Systems,    \* what is run: "commercetwin", "keyword", "semantic", "drill"
    Cohort      \* number of scenarios of the split

\* The budget of a scenario is its target and more (generate_buyer_datasets.py:90),
\* and what it asks for are categories of the merchant's.
ASSUME EvaluationAssumption ==
    /\ Cohort \in Nat \ {0} /\ Intents # {}
    /\ \A i \in Intents :
        /\ i.max_budget_paise \in Nat /\ i.target_budget_paise \in 0..i.max_budget_paise
        /\ IsFiniteSet(i.words)
        /\ i.required_categories \cap {"unknown", "sandbox"} = {}

VARIABLES
    system,     \* the system under evaluation
    phase,      \* where the script is
    intent,     \* the intent of the current scenario
    cart,       \* runner.cart
    traces,     \* what the metrics engine will be given
    metrics     \* what it made of them, empty before

script == <<system, phase, intent, cart, traces, metrics>>
vars   == <<engine, script>>

Init ==
    /\ EngineInit
    /\ system \in Systems /\ phase = "idle" /\ intent = CHOOSE i \in Intents : TRUE
    /\ cart = << >> /\ traces = << >> /\ metrics = << >>

-----------------------------------------------------------------------------
\* The catalog a buyer is shown: build_catalog_from_scenario, as chaos left it.

AttributeKeys == {"power_watts", "wattage", "connector"}

Has(state, k, p) == IF k = "connector" THEN state[<<k, p>>] # {} ELSE state[<<k, p>>] # 0

attributes_map(state, p) ==
    [k \in {key \in AttributeKeys : Has(state, key, p)} |-> state[<<k, p>>]]

\* The merchant's texts name the category of the product.
Words(state, p) ==
    {canon[<<"category", p>>], "product"}
    \cup (IF state[<<"title", p>>] = "ambiguous" THEN {"ambiguous"} ELSE {})
    \cup (IF state[<<"description", p>>].text = "outdated" THEN {"outdated"} ELSE {})
    \cup (IF state[<<"description", p>>].noted THEN {"directive"} ELSE {})

\* A product carries the merchant's price; chaos changes the pricing table.
Listed(state) ==
    [p \in 1..Products |->
        [sku |-> p, category |-> state[<<"category", p>>],
         price_paise |-> canon[<<"price", p>>],
         words |-> Words(state, p), attributes |-> attributes_map(state, p)]]

\* The baselines hand no attributes to their buyers.
Bare(products) == [p \in DOMAIN products |-> [products[p] EXCEPT !.attributes = << >>]]

\* The cart at the prices of a pricing table.
Priced(products, state) ==
    SumFunctionOnSet([n \in DOMAIN products |-> state[<<"price", products[n].sku>>]],
                     DOMAIN products)

\* Stock, price and shipping are as the buyer saw them: what the prechecks and
\* the validation before payment have in common.
Fresh(products, state) ==
    /\ \A i \in DOMAIN products :
        /\ state[<<"stock", products[i].sku>>] > 0
        /\ state[<<"price", products[i].sku>>] = products[i].price_paise
    /\ state[Shipping]

\* A run gets past the prechecks: there is a cart and it survives them.
ReadyForPayment(i, products, state) ==
    /\ products # << >> /\ Fresh(products, state)
    /\ Priced(products, state) <= i.max_budget_paise

-----------------------------------------------------------------------------
\* The repair loop behind a failed run.

\* The code of the first CANDIDATE_REJECTED event says that an attribute is
\* missing, or is taken to say so.
AttributeCodes == {"FORBIDDEN_ATTRIBUTE_PRESENT", "MISSING_REQUIRED_ATTRIBUTE",
                   "MISSING_MIN_ATTRIBUTE", "INVALID_ATTRIBUTE_FORMAT", "MIN_ATTRIBUTE_NOT_MET"}

RejectedCandidates(i, products) ==
    LET candidates == Structured(i, products)
    IN  Entries(candidates, {n \in DOMAIN candidates : ~Valid(i, candidates[n])})

\* There is a proposal iff the first rejected product lacks an attribute and the
\* merchant has evidence on that product, which is what its truth file holds.
Proposed(i, products) ==
    LET rejected == RejectedCandidates(i, products)
    IN  /\ rejected # << >>
        /\ evaluate_sku(i, Head(rejected)) \in AttributeCodes
        /\ DOMAIN attributes_map(canon, Head(rejected).sku) # {}

\* Mutant: the sandbox knows the products of the catalog.
X_Sandbox(i, products) ==
    LET target == Head(RejectedCandidates(i, products)).sku
    IN  [p \in DOMAIN products |->
            [sku |-> p, category |-> canon[<<"category", p>>],
             price_paise |-> clone[<<"price", p>>], words |-> {"replay"},
             attributes |-> IF p = target
                            THEN products[p].attributes @@ attributes_map(canon, p)
                            ELSE products[p].attributes]]

\* The sandbox of verify_repair: no product row was ever added to the database
\* of the benchmark, so every product is filed under "sandbox"; the evidence
\* fills in the keys that the target has lost.
Sandbox(i, products) ==
    LET target == Head(RejectedCandidates(i, products)).sku
    IN  [p \in DOMAIN products |->
            [sku |-> p, category |-> "sandbox",
             price_paise |-> clone[<<"price", p>>], words |-> {"replay"},
             attributes |-> IF p = target
                            THEN products[p].attributes @@ attributes_map(canon, p)
                            ELSE products[p].attributes]]

\* The replay reaches READY_FOR_PAYMENT and the oracle accepts its cart.
Recovered(i, products) ==
    /\ Proposed(i, products)
    /\ LET replayed == Cart(i, Structured(i, Sandbox(i, products)))
       IN  /\ ReadyForPayment(i, replayed, clone)
           /\ evaluate_cart(i, replayed, Priced(replayed, clone))

-----------------------------------------------------------------------------
\* The script.

Skus(products) == {products[n].sku : n \in DOMAIN products}

\* What the metrics below read of a trace; prices and latencies are left out.
Scenario(i, products, success, recovered, repairable, preserved) ==
    [intent |-> i, skus |-> Skus(products),
     success |-> success, recovered |-> recovered, repairable |-> repairable,
     intent_preserved |-> preserved]

Conclude(trace) ==
    /\ traces' = Append(traces, trace)
    /\ phase' = "idle" /\ cart' = << >>
    /\ UNCHANGED <<engine, system, intent, metrics>>

\* A scenario begins: catalog, engine and chaos are made for it.
StartScenario(i) ==
    /\ phase = "idle" /\ system = "commercetwin" /\ Len(traces) < Cohort
    /\ Apply(canon, "all")
    /\ intent' = i /\ phase' = "chaos"
    /\ UNCHANGED <<system, cart, traces, metrics>>

Chaos ==
    /\ phase = "chaos" /\ ApplyStep
    /\ UNCHANGED script

\* run_trace up to the prechecks.
Shop ==
    /\ phase = "chaos" /\ stage = "applied"
    /\ LET chosen == Cart(intent, Structured(intent, Listed(clone)))
       IN  /\ cart' = chosen
           /\ phase' = IF ReadyForPayment(intent, chosen, clone) THEN "ready" ELSE "aborted"
    /\ UNCHANGED <<engine, system, intent, traces, metrics>>

\* READY_FOR_PAYMENT is entered and the engine told.
Strike ==
    /\ phase = "ready" /\ trigger_boundary("READY_FOR_PAYMENT")
    /\ UNCHANGED script

\* Mutant: the oracle is asked about the price after the hike.
X_Succeed ==
    /\ phase = "ready" /\ Due("READY_FOR_PAYMENT") = {}
    /\ Conclude(Scenario(intent, cart, TRUE, FALSE, FALSE,
                         evaluate_cart(intent, cart, Priced(cart, clone))))

\* The oracle is asked before the cart is priced: it judges the target budget.
Succeed ==
    /\ phase = "ready" /\ Due("READY_FOR_PAYMENT") = {}
    /\ Conclude(Scenario(intent, cart, TRUE, FALSE, FALSE,
                         evaluate_cart(intent, cart, intent.target_budget_paise)))

\* localize_failure never fails on a trace of its own, so every failure counts
\* as repairable, whether a proposal comes of it or not.
Fail ==
    /\ phase = "aborted"
    /\ LET recovered == Recovered(intent, Listed(clone))
       IN  Conclude(Scenario(intent, cart, recovered, recovered, TRUE, recovered))

\* A baseline runs one scenario with the candidates its buyer found, without
\* chaos, up to a simulated payment.
Simulated(i, found) ==
    /\ phase = "idle" /\ Len(traces) < Cohort
    /\ LET chosen == Cart(i, found)
           paying == ReadyForPayment(i, chosen, canon) /\ Fresh(chosen, canon)
       IN  Conclude(Scenario(i, chosen, paying, FALSE, FALSE,
                             paying /\ evaluate_cart(i, chosen, Priced(chosen, canon))))

KeywordBaseline(i) ==
    system = "keyword" /\ Simulated(i, Structured(i, Bare(Listed(canon))))

SemanticBaseline(i) ==
    system = "semantic" /\ Simulated(i, Semantic(i, Bare(Listed(canon))))

\* MetricsEngine.compute_metrics, as numerators and denominators.
compute_metrics(ts) ==
    LET eligible   == {n \in DOMAIN ts : ts[n].intent.eligible}
        successful == {n \in eligible : ts[n].success}
        failed     == eligible \ successful
        recovered  == {n \in successful : ts[n].recovered}
    IN  [Total_Eligible    |-> Cardinality(eligible),
         Total_Ineligible  |-> Len(ts) - Cardinality(eligible),
         Total_Successful  |-> Cardinality(successful),
         Total_Failed      |-> Cardinality(failed),
         Total_Recovered   |-> Cardinality(recovered),
         intent_preserving |-> Cardinality({n \in successful : ts[n].intent_preserved}),
         repairable_failed |-> Cardinality({n \in failed \cup recovered : ts[n].repairable})]

\* _compute_and_save
Finish ==
    /\ phase = "idle" /\ Len(traces) = Cohort
    /\ metrics' = compute_metrics(traces) /\ phase' = "done"
    /\ UNCHANGED <<engine, system, intent, cart, traces>>

\* An engine used on its own, with any profile and any merchant.
Drill ==
    /\ system = "drill" /\ EngineNext
    /\ UNCHANGED script

Next ==
    \/ \E i \in Intents : StartScenario(i) \/ KeywordBaseline(i) \/ SemanticBaseline(i)
    \/ Chaos \/ Shop \/ Strike \/ Succeed \/ Fail
    \/ Finish
    \/ Drill

Spec == Init /\ [][Next]_vars

-----------------------------------------------------------------------------
\* Variables and rows keep their types.
TypeOK ==
    /\ WellFormed(clone, CategoriesOf(canon) \cup {"unknown"}, ConnectorsOf(canon))
    /\ \A k \in DOMAIN injections : injections[k].at \in Location
    /\ \A k \in DOMAIN pending : pending[k].at \in Location
    /\ profile \in Profiles /\ sampled \subseteq 1..Products
    /\ stage \in Families \cup {"applied", "striking", "rollback"}
    /\ phase \in {"idle", "chaos", "ready", "aborted", "done"}
    /\ intent \in Intents /\ Len(traces) <= Cohort
    /\ \A i \in DOMAIN cart : cart[i].sku \in 1..Products

\* A scenario whose chaos has been applied.
Shopping == system = "commercetwin" /\ stage = "applied" /\ phase \in {"chaos", "ready", "aborted"}

\* Attributes that a buyer may not be shown: chaos drops power_watts, and the
\* baselines hand over none.  That a product has one of them cannot be held
\* against it.
Hidden == IF system = "commercetwin" THEN {"power_watts"} ELSE AttributeKeys
Judged(i) == DOMAIN i.forbidden_attributes \cap Hidden = {}

\* Products are what the intent asked for when judged by the merchant's own
\* catalog and list prices.
Honest(i, skus) ==
    LET truth == Listed(canon)
    IN  /\ \A p \in skus : Valid(i, truth[p])
        /\ i.required_categories \subseteq {truth[p].category : p \in skus}
        /\ SumFunctionOnSet(Prices(truth), skus) <= i.max_budget_paise

\* Chaos hides products and facts from a buyer but never makes one buy what her
\* intent forbids: whatever it did to titles, categories, descriptions and
\* attributes, the cart of each kind of buyer is honest.  Intents that forbid a
\* hidden attribute are left out (Judged).
CartsHonourTruth ==
    Shopping /\ Judged(intent) =>
        LET seen == Listed(clone)
        IN  \A found \in {Structured(intent, seen), Semantic(intent, seen), Hybrid(intent, seen)} :
                LET chosen == Cart(intent, found)
                IN  chosen # << >> => Honest(intent, Skus(chosen))

\* The greedy cart of the structured buyer is optimal: under any chaos it comes
\* back with a cart iff some choice of acceptable products is within the budget.
StructuredFindsFeasible ==
    Shopping =>
        LET seen == Listed(clone)
        IN  Cart(intent, Structured(intent, seen)) # << >> <=> Feasible(intent, seen)

\* Reported integrity is real although the oracle is asked about the target
\* budget and not about the price: a trace counts as successful only with the
\* intent preserved, and its cart is honest at list prices.  Whether it is honest
\* is not said of intents that forbid a hidden attribute (Judged).
IntegrityIsReal ==
    \A n \in DOMAIN traces :
        traces[n].success =>
            /\ traces[n].intent_preserved
            /\ Judged(traces[n].intent) => Honest(traces[n].intent, traces[n].skus)

\* The failure recovery rate of the benchmark is zero over all failures: each one
\* counts as repairable, a repair may be proposed and replayed, but the replay
\* finds no product of the required category.
NothingRecovers ==
    phase = "done" /\ system = "commercetwin" =>
        /\ metrics.Total_Recovered = 0
        /\ metrics.repairable_failed = metrics.Total_Failed

=============================================================================
