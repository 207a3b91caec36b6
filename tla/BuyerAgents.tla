------------------------------ MODULE BuyerAgents ------------------------------
(***************************************************************************)
(* The deterministic buyers: the oracle that judges products and carts     *)
(* (buyers/oracle.py), the greedy cart (buyers/agent.py) and the three     *)
(* rankings of candidates (buyers/configurations.py).                      *)
(*                                                                         *)
(* A product is a record                                                   *)
(*   [sku, category, price_paise, words, attributes]                       *)
(* where words are the tokens of its title and description, and attributes *)
(* maps the keys it has to their values.  An intent is a record            *)
(*   [words, max_budget_paise, required_categories, forbidden_categories,  *)
(*    forbidden_attributes, required_attributes, min_attributes,           *)
(*    compatibility]                                                       *)
(* An attribute with a minimum is a number, 0 if its text holds none; one  *)
(* with a compatibility is the set of the words of its text.               *)
(***************************************************************************)
EXTENDS Integers, Sequences, FiniteSets, Functions

\* The oracle on one product: the first check that fails names the reason.  No
\* intent has two minima, whose order would decide between their codes.
evaluate_sku(intent, p) ==
    LET a == p.attributes
        has(k) == k \in DOMAIN a
    IN  IF p.category \in intent.forbidden_categories
        THEN "FORBIDDEN_CATEGORY_PRESENT"
        ELSE IF \E k \in DOMAIN intent.forbidden_attributes :
                    has(k) /\ a[k] \in intent.forbidden_attributes[k]
        THEN "FORBIDDEN_ATTRIBUTE_PRESENT"
        ELSE IF \E k \in DOMAIN intent.required_attributes :
                    has(k) => a[k] # intent.required_attributes[k]
        THEN "MISSING_REQUIRED_ATTRIBUTE"
        ELSE IF \E k \in DOMAIN intent.min_attributes : ~has(k)
        THEN "MISSING_MIN_ATTRIBUTE"
        ELSE IF \E k \in DOMAIN intent.min_attributes : a[k] = 0
        THEN "INVALID_ATTRIBUTE_FORMAT"
        ELSE IF \E k \in DOMAIN intent.min_attributes : a[k] < intent.min_attributes[k]
        THEN "MIN_ATTRIBUTE_NOT_MET"
        ELSE IF \E k \in DOMAIN intent.compatibility :
                    has(k) => intent.compatibility[k] \notin a[k]
        THEN "COMPATIBILITY_MISMATCH"
        ELSE "none"

Valid(intent, p) == evaluate_sku(intent, p) = "none"

Categories(cart) == {cart[i].category : i \in DOMAIN cart}

Prices(products) == [i \in DOMAIN products |-> products[i].price_paise]

Total(cart) == SumFunctionOnSet(Prices(cart), DOMAIN cart)

\* The oracle on a cart: budget, forbidden categories, required categories.
evaluate_cart(intent, cart, total_amount_paise) ==
    /\ total_amount_paise <= intent.max_budget_paise
    /\ Categories(cart) \cap intent.forbidden_categories = {}
    /\ intent.required_categories \subseteq Categories(cart)

-----------------------------------------------------------------------------
\* The elements of a finite set in an order of it.
Enumerated(S, precedes(_, _)) ==
    CHOOSE order \in [1..Cardinality(S) -> S] :
        \A m, n \in DOMAIN order : m < n => precedes(order[m], order[n])

\* The entries of a sequence at some of its positions.
Entries(s, positions) ==
    LET order == Enumerated(positions, LAMBDA i, j : i < j)
    IN  [n \in DOMAIN order |-> s[order[n]]]

\* discover_candidates: a stable sort of some positions of the catalog.
Ranked(products, positions, Better(_, _)) ==
    LET order == Enumerated(positions,
                            LAMBDA i, j : \/ Better(products[i], products[j])
                                          \/ ~Better(products[j], products[i]) /\ i < j)
    IN  [n \in DOMAIN order |-> products[order[n]]]

Shared(intent, p) == Cardinality(intent.words \cap p.words)
United(intent, p) == Cardinality(intent.words \cup p.words)

\* Jaccard similarities, compared as fractions.
MoreSimilar(intent, p, q) ==
    Shared(intent, p) * United(intent, q) > Shared(intent, q) * United(intent, p)

\* Mutant: candidates stay in the order of the catalog.
X_Structured(intent, products) ==
    Ranked(products, {i \in DOMAIN products : products[i].category \in intent.required_categories},
           LAMBDA p, q : FALSE)

\* StructuredBuyer: products of a required category, the cheapest first.
Structured(intent, products) ==
    Ranked(products, {i \in DOMAIN products : products[i].category \in intent.required_categories},
           LAMBDA p, q : p.price_paise < q.price_paise)

\* SemanticBuyer: products that share a word with the intent, the closest first.
Semantic(intent, products) ==
    Ranked(products, {i \in DOMAIN products : Shared(intent, products[i]) > 0},
           LAMBDA p, q : MoreSimilar(intent, p, q))

\* HybridBuyer: a required category counts more than any similarity.
Hybrid(intent, products) ==
    LET boosted(p) == p.category \in intent.required_categories
    IN  Ranked(products, {i \in DOMAIN products : \/ Shared(intent, products[i]) > 0
                                                  \/ boosted(products[i])},
               LAMBDA p, q : \/ boosted(p) /\ ~boosted(q)
                             \/ boosted(p) = boosted(q) /\ MoreSimilar(intent, p, q))

-----------------------------------------------------------------------------
\* evaluate_candidates
evaluate_candidates(intent, candidates) ==
    Entries(candidates, {n \in DOMAIN candidates : Valid(intent, candidates[n])})

\* Where a required category is met for the first time.
FirstOfCategory(intent, products) ==
    {n \in DOMAIN products :
        /\ products[n].category \in intent.required_categories
        /\ \A m \in 1..(n - 1) : products[m].category # products[n].category}

\* Mutant: the final oracle check of the cart is skipped.
X_select_cart(intent, valid_products) ==
    Entries(valid_products, FirstOfCategory(intent, valid_products))

\* The first valid product of each required category, if the oracle accepts
\* them together.
select_cart(intent, valid_products) ==
    LET cart == Entries(valid_products, FirstOfCategory(intent, valid_products))
    IN  IF evaluate_cart(intent, cart, Total(cart)) THEN cart ELSE << >>

Cart(intent, candidates) == select_cart(intent, evaluate_candidates(intent, candidates))

\* What the greedy buyer is measured against: some choice of acceptable products
\* covers the required categories within the budget.
Feasible(intent, products) ==
    \E chosen \in SUBSET {i \in DOMAIN products : Valid(intent, products[i])} :
        /\ chosen # {}
        /\ intent.required_categories \subseteq {products[i].category : i \in chosen}
        /\ {products[i].category : i \in chosen} \subseteq intent.required_categories
        /\ SumFunctionOnSet(Prices(products), chosen) <= intent.max_budget_paise

=============================================================================
