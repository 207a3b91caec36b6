---------------------------- MODULE EvaluationProofs ----------------------------
(***************************************************************************)
(* What the benchmark reports is what it should, for any number of         *)
(* products and scenarios, any merchants and intents.                      *)
(*                                                                         *)
(* The benchmark uses its engine as the engine's own specification allows, *)
(* so chaos only hides (ChaosOnlyHides).  A buyer who is shown a catalog   *)
(* that hides something of the merchant's comes back with an honest cart   *)
(* or none (HonestCarts); a sandbox without categories gives her none.     *)
(***************************************************************************)
EXTENDS Evaluation, ChaosEngineProofs, BuyerAgentsProofs

-----------------------------------------------------------------------------
(* The catalogs that buyers are shown.                                     *)

LEMMA WordsFinite ==
    ASSUME NEW state, NEW p
    PROVE  IsFiniteSet(Words(state, p)) /\ Words(state, p) # {}
<1> DEFINE A == {canon[<<"category", p>>], "product"}
           B == IF state[<<"title", p>>] = "ambiguous" THEN {"ambiguous"} ELSE {}
           C == IF state[<<"description", p>>].text = "outdated" THEN {"outdated"} ELSE {}
           D == IF state[<<"description", p>>].noted THEN {"directive"} ELSE {}
<1>1. \A x : IsFiniteSet({x}) BY FS_Singleton
<1>2. IsFiniteSet({}) BY FS_EmptySet
<1>3. A = {canon[<<"category", p>>]} \cup {"product"} OBVIOUS
<1>4. IsFiniteSet(A)
  <2> DEFINE c == canon[<<"category", p>>]
  <2> HIDE DEF c
  <2>1. IsFiniteSet({c} \cup {"product"}) BY <1>1, FS_AddElement
  <2> QED BY <1>3, <2>1 DEF c
<1>5. IsFiniteSet(B) /\ IsFiniteSet(C) /\ IsFiniteSet(D) BY <1>1, <1>2
<1>6. Words(state, p) = A \cup B \cup C \cup D BY DEF Words
<1>7. A # {} OBVIOUS
<1> HIDE DEF A, B, C, D
<1>8. IsFiniteSet(A \cup B) BY <1>4, <1>5, FS_Union
<1>9. IsFiniteSet((A \cup B) \cup C) BY <1>5, <1>8, FS_Union
<1>10. IsFiniteSet(((A \cup B) \cup C) \cup D) BY <1>5, <1>9, FS_Union
<1>11. Words(state, p) # {} BY <1>6, <1>7
<1> QED BY <1>6, <1>10, <1>11

\* Prices are the merchant's, whatever state of the catalog is listed.
LEMMA ListedCatalog ==
    ASSUME canon \in Merchants, NEW state
    PROVE  Catalog(Listed(state), Products)
<1>1. DOMAIN Listed(state) = 1..Products BY DEF Listed
<1>2. ASSUME NEW p \in 1..Products
      PROVE  /\ Listed(state)[p].price_paise \in Nat
             /\ IsFiniteSet(Listed(state)[p].words) /\ Listed(state)[p].words # {}
  <2>1. /\ Listed(state)[p].price_paise = canon[<<"price", p>>]
        /\ Listed(state)[p].words = Words(state, p)
    BY DEF Listed
  <2>2. canon[<<"price", p>>] \in Nat BY EngineAssumption DEF WellFormed
  <2> QED BY <2>1, <2>2, WordsFinite
<1> QED BY <1>1, <1>2 DEF Catalog

\* A catalog that shows the merchant's products, with something hidden: category
\* and attributes of a product are the merchant's where they are shown, and what
\* the intent forbids is shown.
Shows(i, seen) ==
    LET truth == Listed(canon)
    IN  /\ Catalog(seen, Products)
        /\ \A p \in 1..Products :
            LET shown == seen[p].attributes
                real  == truth[p].attributes
            IN  /\ seen[p].sku = p
                /\ seen[p].price_paise = truth[p].price_paise
                /\ seen[p].category \in i.required_categories =>
                        truth[p].category = seen[p].category
                /\ \A k \in DOMAIN shown : k \in DOMAIN real /\ real[k] = shown[k]
                /\ \A k \in DOMAIN i.forbidden_attributes : k \in DOMAIN real => k \in DOMAIN shown

\* The oracle cannot object to the merchant's product if it accepts the shown one.
LEMMA ValidAsShown ==
    ASSUME NEW i, NEW seen, Shows(i, seen), NEW p \in 1..Products,
           Valid(i, seen[p]), seen[p].category \in i.required_categories
    PROVE  Valid(i, Listed(canon)[p])
<1> DEFINE truth == Listed(canon)
           shown == seen[p].attributes
           real  == truth[p].attributes
<1>1. /\ truth[p].category = seen[p].category
      /\ \A k \in DOMAIN shown : k \in DOMAIN real /\ real[k] = shown[k]
      /\ \A k \in DOMAIN i.forbidden_attributes : k \in DOMAIN real => k \in DOMAIN shown
  BY DEF Shows
<1> HIDE DEF truth
<1>2. /\ seen[p].category \notin i.forbidden_categories
      /\ \A k \in DOMAIN i.forbidden_attributes :
            ~(k \in DOMAIN shown /\ shown[k] \in i.forbidden_attributes[k])
      /\ \A k \in DOMAIN i.required_attributes :
            k \in DOMAIN shown /\ shown[k] = i.required_attributes[k]
      /\ \A k \in DOMAIN i.min_attributes :
            k \in DOMAIN shown /\ shown[k] # 0 /\ ~(shown[k] < i.min_attributes[k])
      /\ \A k \in DOMAIN i.compatibility : k \in DOMAIN shown /\ i.compatibility[k] \in shown[k]
  BY DEF Valid, evaluate_sku
<1>3. /\ truth[p].category \notin i.forbidden_categories
      /\ \A k \in DOMAIN i.forbidden_attributes :
            ~(k \in DOMAIN real /\ real[k] \in i.forbidden_attributes[k])
      /\ \A k \in DOMAIN i.required_attributes :
            k \in DOMAIN real /\ real[k] = i.required_attributes[k]
      /\ \A k \in DOMAIN i.min_attributes :
            k \in DOMAIN real /\ real[k] # 0 /\ ~(real[k] < i.min_attributes[k])
      /\ \A k \in DOMAIN i.compatibility : k \in DOMAIN real /\ i.compatibility[k] \in real[k]
  <2> HIDE DEF shown, real
  <2> QED BY <1>1, <1>2
<1>4. Valid(i, truth[p]) BY <1>3 DEF Valid, evaluate_sku
<1> QED BY <1>4 DEF truth

\* A cart from a catalog that hides something is honest, and as cheap as it was
\* shown.
LEMMA HonestCarts ==
    ASSUME NEW i, i.max_budget_paise \in Nat, NEW seen, Shows(i, seen),
           NEW I \in SUBSET (1..Products), NEW B, WeakOrder(B, I),
           NEW candidates, Arranged(candidates, seen, I, B), Cart(i, candidates) # << >>
    PROVE  /\ evaluate_cart(i, Cart(i, candidates), Total(Cart(i, candidates)))
           /\ Skus(Cart(i, candidates)) \subseteq 1..Products
           /\ Honest(i, Skus(Cart(i, candidates)))
<1> DEFINE basket == Cart(i, candidates)
           truth == Listed(canon)
           h == Prices(seen)
           g == Prices(truth)
<1>0. Products \in Nat BY EngineAssumption
<1>1. Catalog(seen, Products) BY DEF Shows
<1>2. /\ evaluate_cart(i, basket, Total(basket))
      /\ \E L \in Nat : \E pos \in [1..L -> I] :
            /\ basket = [n \in 1..L |-> seen[pos[n]]]
            /\ Greedily(i, seen, I, B, L, pos)
  BY <1>0, CartFacts
<1>3. PICK L \in Nat : \E pos \in [1..L -> I] :
            /\ basket = [n \in 1..L |-> seen[pos[n]]]
            /\ Greedily(i, seen, I, B, L, pos)
  BY <1>2
<1>4. PICK pos : /\ pos \in [1..L -> I]
                 /\ basket = [n \in 1..L |-> seen[pos[n]]]
                 /\ Greedily(i, seen, I, B, L, pos)
  BY <1>3
<1> HIDE DEF basket
<1>5. /\ pos \in [1..L -> 1..Products]
      /\ \A m, n \in 1..L : m # n => pos[m] # pos[n]
  <2>1. pos \in [1..L -> 1..Products] BY <1>4
  <2>2. \A m, n \in 1..L : m # n => pos[m] # pos[n] BY <1>4, GreedyApart
  <2> QED BY <2>1, <2>2
<1>6. Skus(basket) = Places(L, pos)
  <2>1. \A n \in 1..L : basket[n].sku = pos[n] BY <1>4, <1>5 DEF Shows
  <2>2. DOMAIN basket = 1..L BY <1>4
  <2> QED BY <2>1, <2>2 DEF Skus, Places
<1>7. \A n \in 1..L : /\ Valid(i, seen[pos[n]])
                      /\ seen[pos[n]].category \in i.required_categories
                      /\ pos[n] \in 1..Products
  BY <1>4, <1>5 DEF Greedily
<1>8. \A p \in Places(L, pos) : p \in 1..Products /\ Valid(i, truth[p])
  BY <1>7, ValidAsShown DEF Places
<1>9. \A n \in 1..L : truth[pos[n]].category = seen[pos[n]].category BY <1>7 DEF Shows
<1>10. Categories(basket) = {seen[pos[n]].category : n \in 1..L} BY <1>4 DEF Categories
<1> HIDE DEF truth
<1>11. Categories(basket) \subseteq {truth[p].category : p \in Places(L, pos)}
  BY <1>9, <1>10 DEF Places
<1>12. /\ i.required_categories \subseteq Categories(basket)
       /\ Total(basket) <= i.max_budget_paise
  BY <1>2 DEF evaluate_cart, basket
<1>13. /\ IsFiniteSet(Places(L, pos))
       /\ Total(Picks(seen, L, pos)) = SumFunctionOnSet(Prices(seen), Places(L, pos))
  BY <1>0, <1>1, <1>5, CartTotal
<1>14. basket = Picks(seen, L, pos) BY <1>4 DEF Picks
<1>15. \A p \in Places(L, pos) : h[p] = g[p]
  <2>1. DOMAIN seen = 1..Products /\ DOMAIN truth = 1..Products BY <1>1 DEF Catalog, truth, Listed
  <2>2. \A p \in 1..Products : seen[p].price_paise = truth[p].price_paise BY DEF Shows, truth
  <2>3. \A p \in 1..Products : h[p] = g[p] BY <2>1, <2>2 DEF Prices
  <2> HIDE DEF h, g
  <2> QED BY <1>8, <2>3
<1>16. SumFunctionOnSet(g, Places(L, pos)) <= i.max_budget_paise
  <2>1. SumFunctionOnSet(h, Places(L, pos)) = SumFunctionOnSet(g, Places(L, pos))
    <3> HIDE DEF h, g
    <3> QED BY <1>13, <1>15, SumSame
  <2> QED BY <1>12, <1>13, <1>14, <2>1
<1>17. Honest(i, Places(L, pos)) BY <1>8, <1>11, <1>12, <1>16 DEF Honest, truth
<1>18. Places(L, pos) \subseteq 1..Products BY <1>8
<1> QED BY <1>2, <1>6, <1>17, <1>18 DEF basket

-----------------------------------------------------------------------------
(* What the systems under evaluation are shown.                            *)

\* Chaos leaves a catalog that hides something.
LEMMA ChaosShows ==
    ASSUME OnlyHides, system = "commercetwin", NEW i \in Intents, Judged(i)
    PROVE  Shows(i, Listed(clone))
<1> DEFINE truth == Listed(canon)
           seen  == Listed(clone)
<1>1. Catalog(seen, Products) BY ListedCatalog DEF OnlyHides
<1>2. ASSUME NEW p \in 1..Products
      PROVE  /\ seen[p].sku = p
             /\ seen[p].price_paise = truth[p].price_paise
             /\ seen[p].category \in i.required_categories =>
                     truth[p].category = seen[p].category
  <2>1. clone[<<"category", p>>] = canon[<<"category", p>>] \/ clone[<<"category", p>>] = "unknown"
    BY FieldLocation DEF OnlyHides, Fits, Fields
  <2>2. "unknown" \notin i.required_categories BY EvaluationAssumption
  <2> QED BY <2>1, <2>2 DEF Listed
<1>3. ASSUME NEW p \in 1..Products
      PROVE  LET shown == seen[p].attributes
                 real  == truth[p].attributes
             IN  /\ \A k \in DOMAIN shown : k \in DOMAIN real /\ real[k] = shown[k]
                 /\ \A k \in DOMAIN i.forbidden_attributes : k \in DOMAIN real => k \in DOMAIN shown
  <2>1. /\ seen[p].attributes = attributes_map(clone, p)
        /\ truth[p].attributes = attributes_map(canon, p)
    BY DEF Listed
  <2>2. \A k \in AttributeKeys : /\ <<k, p>> \in Location
                                 /\ Fits(<<k, p>>, canon[<<k, p>>], clone[<<k, p>>])
    BY FieldLocation DEF OnlyHides, AttributeKeys, Fields
  <2>3. /\ clone[<<"wattage", p>>] = canon[<<"wattage", p>>]
        /\ clone[<<"connector", p>>] = canon[<<"connector", p>>]
        /\ \/ clone[<<"power_watts", p>>] = canon[<<"power_watts", p>>]
           \/ clone[<<"power_watts", p>>] = 0
    BY <2>2 DEF AttributeKeys, Fits
  <2>4. \A k \in AttributeKeys : Has(clone, k, p) =>
                                    Has(canon, k, p) /\ clone[<<k, p>>] = canon[<<k, p>>]
    BY <2>3 DEF AttributeKeys, Has
  <2>5. \A k \in AttributeKeys : k # "power_watts" /\ Has(canon, k, p) => Has(clone, k, p)
    BY <2>3 DEF AttributeKeys, Has
  <2>6. "power_watts" \notin DOMAIN i.forbidden_attributes BY DEF Judged, Hidden
  <2> QED BY <2>1, <2>4, <2>5, <2>6 DEF attributes_map
<1> QED BY <1>1, <1>2, <1>3 DEF Shows

\* So do the baselines.
LEMMA BareShows ==
    ASSUME canon \in Merchants, system # "commercetwin", NEW i \in Intents
    PROVE  /\ Catalog(Bare(Listed(canon)), Products)
           /\ Judged(i) => Shows(i, Bare(Listed(canon)))
<1> DEFINE truth == Listed(canon)
           seen  == Bare(truth)
<1>1. Catalog(truth, Products) BY ListedCatalog
<1>2. DOMAIN truth = 1..Products BY <1>1 DEF Catalog
<1>3. DOMAIN seen = 1..Products BY <1>2 DEF Bare
<1>4. ASSUME NEW p \in 1..Products
      PROVE  /\ seen[p].sku = p
             /\ seen[p].price_paise = truth[p].price_paise
             /\ seen[p].words = truth[p].words
             /\ seen[p].category = truth[p].category
             /\ seen[p].attributes = << >>
             /\ DOMAIN truth[p].attributes \subseteq AttributeKeys
  <2>1. seen[p] = [truth[p] EXCEPT !.attributes = << >>] BY <1>2 DEF Bare
  <2>2. truth[p] = [sku |-> p, category |-> canon[<<"category", p>>],
                    price_paise |-> canon[<<"price", p>>],
                    words |-> Words(canon, p), attributes |-> attributes_map(canon, p)]
    BY DEF Listed
  <2> QED BY <2>1, <2>2 DEF attributes_map
<1> HIDE DEF seen, truth
<1>5. Catalog(seen, Products) BY <1>1, <1>3, <1>4 DEF Catalog
<1>6. ASSUME Judged(i) PROVE Shows(i, seen)
  <2>1. DOMAIN i.forbidden_attributes \cap AttributeKeys = {} BY <1>6 DEF Judged, Hidden
  <2>2. DOMAIN << >> = {} OBVIOUS
  <2>3. \A p \in 1..Products : DOMAIN seen[p].attributes = {} BY <1>4, <2>2
  <2> QED BY <1>4, <1>5, <2>1, <2>3 DEF Shows, truth
<1> QED BY <1>5, <1>6 DEF seen, truth

\* The rankings under one name: candidates are products of the catalog in some
\* order of preference.
Ranking(found, seen) ==
    \E I \in SUBSET (1..Products) : \E B : WeakOrder(B, I) /\ Arranged(found, seen, I, B)

LEMMA Rankings ==
    ASSUME NEW i \in Intents, NEW seen, Catalog(seen, Products)
    PROVE  /\ Ranking(Structured(i, seen), seen)
           /\ Ranking(Semantic(i, seen), seen)
           /\ Ranking(Hybrid(i, seen), seen)
<1>1. Products \in Nat /\ IsFiniteSet(i.words) BY EngineAssumption, EvaluationAssumption
<1>2. Ranking(Structured(i, seen), seen)
  <2>1. Wanted(i, seen) \in SUBSET (1..Products) BY DEF Wanted, Catalog
  <2> QED BY <1>1, <2>1, StructuredArranged DEF Ranking
<1>3. Ranking(Semantic(i, seen), seen)
  <2>1. Related(i, seen) \in SUBSET (1..Products) BY DEF Related, Catalog
  <2> QED BY <1>1, <2>1, SemanticArranged DEF Ranking
<1>4. Ranking(Hybrid(i, seen), seen)
  <2>1. Offered(i, seen) \in SUBSET (1..Products) BY DEF Offered, Catalog
  <2> QED BY <1>1, <2>1, HybridArranged DEF Ranking
<1> QED BY <1>2, <1>3, <1>4

\* What a buyer comes back with.
LEMMA CartOfRanking ==
    ASSUME NEW i \in Intents, NEW seen, Catalog(seen, Products), NEW found,
           Ranking(found, seen), Cart(i, found) # << >>
    PROVE  /\ evaluate_cart(i, Cart(i, found), Total(Cart(i, found)))
           /\ \E L \in Nat : \E pos \in [1..L -> 1..Products] :
                /\ Cart(i, found) = [n \in 1..L |-> seen[pos[n]]]
                /\ \A n \in 1..L : seen[pos[n]].category \in i.required_categories
<1>1. PICK I \in SUBSET (1..Products) : \E B : WeakOrder(B, I) /\ Arranged(found, seen, I, B)
  BY DEF Ranking
<1>2. PICK B : WeakOrder(B, I) /\ Arranged(found, seen, I, B) BY <1>1
<1>3. Products \in Nat BY EngineAssumption
<1>4. /\ evaluate_cart(i, Cart(i, found), Total(Cart(i, found)))
      /\ \E L \in Nat : \E pos \in [1..L -> I] :
            /\ Cart(i, found) = [n \in 1..L |-> seen[pos[n]]]
            /\ Greedily(i, seen, I, B, L, pos)
  BY <1>2, <1>3, CartFacts
<1>5. PICK L \in Nat : \E pos \in [1..L -> I] :
            /\ Cart(i, found) = [n \in 1..L |-> seen[pos[n]]]
            /\ Greedily(i, seen, I, B, L, pos)
  BY <1>4
<1>6. PICK pos : /\ pos \in [1..L -> I]
                 /\ Cart(i, found) = [n \in 1..L |-> seen[pos[n]]]
                 /\ Greedily(i, seen, I, B, L, pos)
  BY <1>5
<1>7. pos \in [1..L -> 1..Products] BY <1>6
<1>8. \A n \in 1..L : seen[pos[n]].category \in i.required_categories BY <1>6 DEF Greedily
<1> QED BY <1>4, <1>6, <1>7, <1>8

LEMMA HonestRanking ==
    ASSUME NEW i \in Intents, NEW seen, Shows(i, seen), NEW found,
           Ranking(found, seen), Cart(i, found) # << >>
    PROVE  Honest(i, Skus(Cart(i, found)))
<1>1. PICK I \in SUBSET (1..Products) : \E B : WeakOrder(B, I) /\ Arranged(found, seen, I, B)
  BY DEF Ranking
<1>2. PICK B : WeakOrder(B, I) /\ Arranged(found, seen, I, B) BY <1>1
<1>3. i.max_budget_paise \in Nat BY EvaluationAssumption
<1> QED BY <1>1, <1>2, <1>3, HonestCarts

-----------------------------------------------------------------------------
(* The repair loop.                                                        *)

\* No product of the sandbox is of a required category.
LEMMA NeverRecovered ==
    ASSUME OnlyHides, NEW i \in Intents, NEW products, DOMAIN products = 1..Products
    PROVE  Recovered(i, products) = FALSE
<1> DEFINE box == Sandbox(i, products)
           replayed == Cart(i, Structured(i, box))
<1>1. /\ DOMAIN box = 1..Products
      /\ \A p \in 1..Products : /\ box[p].category = "sandbox" /\ box[p].words = {"replay"}
                                /\ box[p].price_paise = clone[<<"price", p>>]
  BY DEF Sandbox
<1>2. \A p \in 1..Products : clone[<<"price", p>>] \in Nat
  BY FieldLocation DEF OnlyHides, Fits, Fields
<1>3. IsFiniteSet({"replay"}) BY FS_Singleton
<1>4. Catalog(box, Products) BY <1>1, <1>2, <1>3 DEF Catalog
<1>5. "sandbox" \notin i.required_categories BY EvaluationAssumption
<1> HIDE DEF box
<1>6. ASSUME replayed # << >> PROVE FALSE
  <2>1. Ranking(Structured(i, box), box) BY <1>4, Rankings
  <2>2. \E L \in Nat : \E pos \in [1..L -> 1..Products] :
          /\ replayed = [n \in 1..L |-> box[pos[n]]]
          /\ \A n \in 1..L : box[pos[n]].category \in i.required_categories
    BY <1>4, <1>6, <2>1, CartOfRanking
  <2> HIDE DEF replayed
  <2>3. PICK L \in Nat : \E pos \in [1..L -> 1..Products] :
          /\ replayed = [n \in 1..L |-> box[pos[n]]]
          /\ \A n \in 1..L : box[pos[n]].category \in i.required_categories
    BY <2>2
  <2>4. PICK pos : /\ pos \in [1..L -> 1..Products]
                   /\ replayed = [n \in 1..L |-> box[pos[n]]]
                   /\ \A n \in 1..L : box[pos[n]].category \in i.required_categories
    BY <2>3
  <2>5. ~(1 \in 1..L)
    <3>1. ASSUME 1 \in 1..L PROVE FALSE
      <4>1. pos[1] \in 1..Products BY <2>4, <3>1
      <4>2. box[pos[1]].category = "sandbox" BY <1>1, <4>1
      <4>3. box[pos[1]].category \in i.required_categories BY <2>4, <3>1
      <4> QED BY <1>5, <4>2, <4>3
    <3> QED BY <3>1
  <2>6. L = 0 BY <2>5
  <2>7. replayed = << >> BY <2>4, <2>6
  <2> QED BY <1>6, <2>7
<1>7. ~ReadyForPayment(i, replayed, clone) BY <1>6 DEF ReadyForPayment
<1> QED BY <1>7 DEF Recovered, box

-----------------------------------------------------------------------------
(* The engine of the benchmark.                                            *)

LEMMA EngineSteps ==
    ASSUME canon \in Merchants, [Next]_vars
    PROVE  [EngineNext]_engine
<1>1. ASSUME NEW i \in Intents, StartScenario(i) PROVE EngineNext
  <2>1. Apply(canon, "all") BY <1>1 DEF StartScenario
  <2> QED BY <2>1 DEF EngineNext, Profiles
<1>2. ASSUME NEW i \in Intents, KeywordBaseline(i) \/ SemanticBaseline(i) PROVE UNCHANGED engine
  BY <1>2 DEF KeywordBaseline, SemanticBaseline, Simulated, Conclude
<1>3. CASE Chaos BY <1>3 DEF Chaos, EngineNext
<1>4. CASE Shop BY <1>4 DEF Shop
<1>5. CASE Strike BY <1>5 DEF Strike, EngineNext
<1>6. CASE Succeed BY <1>6 DEF Succeed, Conclude
<1>7. CASE Fail BY <1>7 DEF Fail, Conclude
<1>8. CASE Finish BY <1>8 DEF Finish
<1>9. CASE Drill BY <1>9 DEF Drill
<1>10. CASE UNCHANGED vars BY <1>10 DEF vars
<1> QED BY <1>1, <1>2, <1>3, <1>4, <1>5, <1>6, <1>7, <1>8, <1>9, <1>10 DEF Next

LEMMA EngineStays == Cloned /\ EngineTyped /\ [Next]_vars => Cloned' /\ EngineTyped'
<1>1. Cloned => canon \in Merchants BY DEF Cloned, OnlyHides
<1> QED BY <1>1, EngineSteps, EngineNextCloned, EngineTypes

LEMMA EngineStarts == Init => Cloned /\ EngineTyped
<1>1. EngineInit => EngineTyped BY DEF EngineInit, EngineTyped, Profiles
<1> QED BY <1>1, EngineInitCloned DEF Init

\* The benchmark uses the engine as the specification of the engine allows.
THEOREM BenchmarkUsesEngine == Spec => EngineSpec
<1>1. Init => EngineInit BY DEF Init
<1>2. Cloned => canon \in Merchants BY DEF Cloned, OnlyHides
<1>3. Cloned /\ [Next]_vars => [EngineNext]_engine BY <1>2, EngineSteps
<1> QED BY <1>1, <1>3, EngineStarts, EngineStays, PTL DEF Spec, EngineSpec

-----------------------------------------------------------------------------
(* The invariant of the script.                                            *)

\* Where the script is.
Position ==
    /\ phase \in {"idle", "chaos", "ready", "aborted", "done"}
    /\ intent \in Intents
    /\ \E S : traces \in Seq(S)
    /\ Len(traces) <= Cohort
    /\ phase \in {"chaos", "ready", "aborted"} =>
            system = "commercetwin" /\ Len(traces) < Cohort
    /\ system = "drill" => traces = << >>
    /\ \A n \in DOMAIN cart : cart[n].sku \in 1..Products

\* What Honest says of any catalog, and what a trace says that is true of it.
HonestIn(truth, i, skus) ==
    /\ \A p \in skus : Valid(i, truth[p])
    /\ i.required_categories \subseteq {truth[p].category : p \in skus}
    /\ SumFunctionOnSet(Prices(truth), skus) <= i.max_budget_paise
HonestIf(truth, hidden, i, skus) ==
    DOMAIN i.forbidden_attributes \cap hidden = {} => HonestIn(truth, i, skus)
Reported(truth, hidden, who, t) ==
    /\ t.success => t.intent_preserved /\ HonestIf(truth, hidden, t.intent, t.skus)
    /\ who = "commercetwin" => ~t.recovered /\ (~t.success => t.repairable)

\* A run that is ready for payment has a cart that the oracle accepted.
ReadyHonest ==
    phase = "ready" => /\ evaluate_cart(intent, cart, Total(cart))
                       /\ HonestIf(Listed(canon), Hidden, intent, Skus(cart))

TracesTrue == \A n \in DOMAIN traces : Reported(Listed(canon), Hidden, system, traces[n])

MetricsTrue == phase = "done" => metrics = compute_metrics(traces)

ScriptInv == Position /\ ReadyHonest /\ TracesTrue /\ MetricsTrue

LEMMA HonestSame ==
    ASSUME NEW i, NEW skus
    PROVE  /\ Honest(i, skus) <=> HonestIn(Listed(canon), i, skus)
           /\ HonestIf(Listed(canon), Hidden, i, skus) <=> (Judged(i) => Honest(i, skus))
BY DEF Honest, HonestIn, HonestIf, Judged

LEMMA SameTruth ==
    ASSUME UNCHANGED <<canon, system>>
    PROVE  Listed(canon)' = Listed(canon) /\ Hidden' = Hidden
BY DEF Listed, Words, Hidden

\* One more trace that says what is true.
LEMMA Concluding ==
    ASSUME ScriptInv, Len(traces) < Cohort, system # "drill", NEW t, Conclude(t),
           Reported(Listed(canon), Hidden, system, t)
    PROVE  ScriptInv'
<1>1. /\ traces' = Append(traces, t) /\ phase' = "idle" /\ cart' = << >>
      /\ UNCHANGED <<canon, system, intent>>
  BY DEF Conclude, engine
<1>2. /\ DOMAIN traces' = DOMAIN traces \cup {Len(traces) + 1}
      /\ \A n \in DOMAIN traces : traces'[n] = traces[n]
      /\ traces'[Len(traces) + 1] = t
  BY <1>1, Appended DEF ScriptInv, Position
<1>3. Listed(canon)' = Listed(canon) /\ Hidden' = Hidden BY <1>1, SameTruth
<1>4. TracesTrue' BY <1>1, <1>2, <1>3 DEF ScriptInv, TracesTrue
<1>5. (\E S : traces' \in Seq(S)) /\ Len(traces') <= Cohort
  <2>1. PICK S : traces \in Seq(S) BY DEF ScriptInv, Position
  <2>2. traces \in Seq(S \cup {t}) BY <2>1, SeqMonotonic
  <2>3. traces' \in Seq(S \cup {t}) /\ Len(traces') = Len(traces) + 1 /\ Len(traces) \in Nat
    BY <1>1, <2>2, AppendProperties, LenProperties
  <2> QED BY <2>3, EvaluationAssumption
<1>6. DOMAIN cart' = {} BY <1>1
<1>7. Position' BY <1>1, <1>5, <1>6 DEF ScriptInv, Position
<1> QED BY <1>1, <1>4, <1>7 DEF ScriptInv, ReadyHonest, MetricsTrue

\* A cart from a listed catalog is a cart of products of the merchant.
LEMMA CartTyped ==
    ASSUME canon \in Merchants, NEW i \in Intents, NEW state, NEW found,
           Ranking(found, Listed(state))
    PROVE  \A n \in DOMAIN Cart(i, found) : Cart(i, found)[n].sku \in 1..Products
<1> DEFINE chosen == Cart(i, found)
           seen == Listed(state)
<1>1. CASE chosen = << >>
  <2>1. DOMAIN chosen = {} BY <1>1
  <2> QED BY <2>1
<1>2. CASE chosen # << >>
  <2>1. Catalog(seen, Products) BY ListedCatalog
  <2>2. \E L \in Nat : \E pos \in [1..L -> 1..Products] :
          /\ chosen = [n \in 1..L |-> seen[pos[n]]]
          /\ \A n \in 1..L : seen[pos[n]].category \in i.required_categories
    <3>1. Ranking(found, seen) OBVIOUS
    <3> HIDE DEF seen
    <3> QED BY <1>2, <2>1, <3>1, CartOfRanking
  <2>3. PICK L \in Nat : \E pos \in [1..L -> 1..Products] : chosen = [n \in 1..L |-> seen[pos[n]]]
    BY <2>2
  <2>4. PICK pos : pos \in [1..L -> 1..Products] /\ chosen = [n \in 1..L |-> seen[pos[n]]]
    BY <2>3
  <2> HIDE DEF chosen
  <2>5. \A p \in 1..Products : seen[p].sku = p BY DEF Listed
  <2> HIDE DEF seen
  <2>6. DOMAIN chosen = 1..L /\ \A n \in 1..L : chosen[n] = seen[pos[n]] /\ pos[n] \in 1..Products
    BY <2>4
  <2> QED BY <2>5, <2>6 DEF chosen
<1> QED BY <1>1, <1>2

-----------------------------------------------------------------------------
(* The steps of the script.                                                *)

LEMMA StartStep ==
    ASSUME ScriptInv, NEW i \in Intents, StartScenario(i)
    PROVE  ScriptInv'
<1>1. /\ canon' = canon /\ phase = "idle" /\ system = "commercetwin" /\ Len(traces) < Cohort
      /\ intent' = i /\ phase' = "chaos" /\ UNCHANGED <<system, cart, traces>>
  BY DEF StartScenario, Apply
<1>2. Listed(canon)' = Listed(canon) /\ Hidden' = Hidden BY <1>1, SameTruth
<1>3. TracesTrue' BY <1>1, <1>2 DEF ScriptInv, TracesTrue
<1>4. Position' BY <1>1 DEF ScriptInv, Position
<1> QED BY <1>1, <1>3, <1>4 DEF ScriptInv, ReadyHonest, MetricsTrue

\* Steps of the engine leave the merchant's catalog alone.
LEMMA EngineOnlyStep ==
    ASSUME ScriptInv, UNCHANGED canon, UNCHANGED script
    PROVE  ScriptInv'
<1>1. UNCHANGED <<system, phase, intent, cart, traces, metrics>> BY DEF script
<1>2. Listed(canon)' = Listed(canon) /\ Hidden' = Hidden BY <1>1, SameTruth
<1>3. TracesTrue' BY <1>1, <1>2 DEF ScriptInv, TracesTrue
<1>4. Position' BY <1>1 DEF ScriptInv, Position
<1>5. ReadyHonest' BY <1>1, <1>2 DEF ScriptInv, ReadyHonest
<1>6. MetricsTrue' BY <1>1 DEF ScriptInv, MetricsTrue
<1> QED BY <1>3, <1>4, <1>5, <1>6 DEF ScriptInv

LEMMA ShopStep ==
    ASSUME Cloned, ScriptInv, Shop
    PROVE  ScriptInv'
<1> DEFINE seen == Listed(clone)
           found == Structured(intent, seen)
           chosen == Cart(intent, found)
<1>1. /\ phase = "chaos" /\ cart' = chosen
      /\ phase' = IF ReadyForPayment(intent, chosen, clone) THEN "ready" ELSE "aborted"
      /\ UNCHANGED <<canon, system, intent, traces, metrics>>
  BY DEF Shop, engine
<1>2. intent \in Intents /\ system = "commercetwin" /\ Len(traces) < Cohort
  BY <1>1 DEF ScriptInv, Position
<1>3. OnlyHides /\ canon \in Merchants BY DEF Cloned, OnlyHides
<1>4. Catalog(seen, Products) BY <1>3, ListedCatalog
<1>5. Ranking(found, seen) BY <1>2, <1>4, Rankings
<1>6. \A n \in DOMAIN chosen : chosen[n].sku \in 1..Products BY <1>2, <1>3, <1>5, CartTyped
<1>7. ASSUME chosen # << >>
      PROVE  /\ evaluate_cart(intent, chosen, Total(chosen))
             /\ HonestIf(Listed(canon), Hidden, intent, Skus(chosen))
  <2>1. evaluate_cart(intent, chosen, Total(chosen))
    BY <1>2, <1>4, <1>5, <1>7, CartOfRanking
  <2>2. Judged(intent) => Honest(intent, Skus(chosen))
    BY <1>2, <1>3, <1>5, <1>7, ChaosShows, HonestRanking
  <2> QED BY <2>1, <2>2, HonestSame
<1>8. Listed(canon)' = Listed(canon) /\ Hidden' = Hidden BY <1>1, SameTruth
<1> HIDE DEF chosen
<1>9. phase' = "ready" => chosen # << >> BY <1>1 DEF ReadyForPayment
<1>10. ReadyHonest' BY <1>1, <1>7, <1>8, <1>9 DEF ReadyHonest
<1>11. TracesTrue' BY <1>1, <1>8 DEF ScriptInv, TracesTrue
<1>12. Position' BY <1>1, <1>2, <1>6 DEF ScriptInv, Position
<1>13. MetricsTrue' BY <1>1 DEF MetricsTrue
<1> QED BY <1>10, <1>11, <1>12, <1>13 DEF ScriptInv

\* The target budget is no more than the budget, so the oracle accepts the cart.
LEMMA SucceedStep ==
    ASSUME ScriptInv, Succeed
    PROVE  ScriptInv'
<1> DEFINE preserved == evaluate_cart(intent, cart, intent.target_budget_paise)
           t == Scenario(intent, cart, TRUE, FALSE, FALSE, preserved)
<1>1. phase = "ready" /\ Conclude(t) BY DEF Succeed
<1>2. /\ intent \in Intents /\ system = "commercetwin" /\ Len(traces) < Cohort
      /\ evaluate_cart(intent, cart, Total(cart))
      /\ HonestIf(Listed(canon), Hidden, intent, Skus(cart))
  BY <1>1 DEF ScriptInv, Position, ReadyHonest
<1>3. intent.target_budget_paise <= intent.max_budget_paise BY <1>2, EvaluationAssumption
<1>4. preserved = TRUE BY <1>2, <1>3 DEF evaluate_cart
<1>5. /\ t.success = TRUE /\ t.recovered = FALSE /\ t.intent_preserved = preserved
      /\ t.intent = intent /\ t.skus = Skus(cart)
  BY DEF Scenario
<1> HIDE DEF t, preserved
<1>6. Reported(Listed(canon), Hidden, system, t) BY <1>2, <1>4, <1>5 DEF Reported
<1> QED BY <1>1, <1>2, <1>6, Concluding

LEMMA FailStep ==
    ASSUME Cloned, ScriptInv, Fail
    PROVE  ScriptInv'
<1> DEFINE recovered == Recovered(intent, Listed(clone))
           t == Scenario(intent, cart, recovered, recovered, TRUE, recovered)
<1>1. phase = "aborted" /\ Conclude(t) BY DEF Fail
<1>2. intent \in Intents /\ system = "commercetwin" /\ Len(traces) < Cohort
  BY <1>1 DEF ScriptInv, Position
<1>3. recovered = FALSE
  <2>1. DOMAIN Listed(clone) = 1..Products BY DEF Listed
  <2> QED BY <1>2, <2>1, NeverRecovered DEF Cloned
<1>4. t.success = recovered /\ t.recovered = recovered /\ t.repairable = TRUE BY DEF Scenario
<1> HIDE DEF t, recovered
<1>5. Reported(Listed(canon), Hidden, system, t) BY <1>3, <1>4 DEF Reported
<1> QED BY <1>1, <1>2, <1>5, Concluding

\* A baseline that pays had its cart accepted at list prices.
LEMMA BaselineStep ==
    ASSUME Cloned, ScriptInv, system # "commercetwin", system # "drill", NEW i \in Intents,
           NEW found, Ranking(found, Bare(Listed(canon))), Simulated(i, found)
    PROVE  ScriptInv'
<1> DEFINE seen == Bare(Listed(canon))
           chosen == Cart(i, found)
           paying == ReadyForPayment(i, chosen, canon) /\ Fresh(chosen, canon)
           preserved == paying /\ evaluate_cart(i, chosen, Priced(chosen, canon))
           t == Scenario(i, chosen, paying, FALSE, FALSE, preserved)
<1>1. Len(traces) < Cohort /\ Conclude(t) BY DEF Simulated
<1>2. canon \in Merchants BY DEF Cloned, OnlyHides
<1>3. Catalog(seen, Products) /\ (Judged(i) => Shows(i, seen)) BY <1>2, BareShows
<1>4. Ranking(found, seen) OBVIOUS
<1> HIDE DEF seen
<1>5. ASSUME paying
      PROVE  preserved /\ HonestIf(Listed(canon), Hidden, i, Skus(chosen))
  <2>1. chosen # << >> /\ Priced(chosen, canon) <= i.max_budget_paise
    BY <1>5 DEF ReadyForPayment
  <2>2. evaluate_cart(i, chosen, Total(chosen)) BY <1>3, <1>4, <2>1, CartOfRanking
  <2>3. evaluate_cart(i, chosen, Priced(chosen, canon)) BY <2>1, <2>2 DEF evaluate_cart
  <2>4. Judged(i) => Honest(i, Skus(chosen)) BY <1>3, <1>4, <2>1, HonestRanking
  <2>5. HonestIf(Listed(canon), Hidden, i, Skus(chosen)) BY <2>4, HonestSame
  <2> QED BY <1>5, <2>3, <2>5
<1>6. /\ t.success = paying /\ t.intent_preserved = preserved
      /\ t.intent = i /\ t.skus = Skus(chosen)
  BY DEF Scenario
<1> HIDE DEF t, paying, preserved, chosen
<1>7. Reported(Listed(canon), Hidden, system, t) BY <1>5, <1>6 DEF Reported
<1> QED BY <1>1, <1>7, Concluding

LEMMA FinishStep ==
    ASSUME ScriptInv, Finish
    PROVE  ScriptInv'
<1>1. /\ phase' = "done" /\ metrics' = compute_metrics(traces)
      /\ UNCHANGED <<canon, system, intent, cart, traces>>
  BY DEF Finish, engine
<1>2. Listed(canon)' = Listed(canon) /\ Hidden' = Hidden BY <1>1, SameTruth
<1>3. TracesTrue' BY <1>1, <1>2 DEF ScriptInv, TracesTrue
<1>4. Position' BY <1>1 DEF ScriptInv, Position
<1>5. MetricsTrue' BY <1>1 DEF MetricsTrue, compute_metrics
<1> QED BY <1>1, <1>3, <1>4, <1>5 DEF ScriptInv, ReadyHonest

\* A drill has no traces that its merchants could belie.
LEMMA DrillStep ==
    ASSUME ScriptInv, Drill
    PROVE  ScriptInv'
<1>1. system = "drill" /\ UNCHANGED <<system, phase, intent, cart, traces, metrics>>
  BY DEF Drill, script
<1>2. traces = << >> /\ phase # "ready" BY <1>1 DEF ScriptInv, Position
<1>3. DOMAIN traces' = {} BY <1>1, <1>2
<1>4. TracesTrue' BY <1>3 DEF TracesTrue
<1>5. Position' BY <1>1 DEF ScriptInv, Position
<1>6. MetricsTrue' BY <1>1 DEF ScriptInv, MetricsTrue, compute_metrics
<1> QED BY <1>1, <1>2, <1>4, <1>5, <1>6 DEF ScriptInv, ReadyHonest

-----------------------------------------------------------------------------
EvaluationInv == Cloned /\ EngineTyped /\ ScriptInv

LEMMA EvaluationInit == Init => EvaluationInv
<1> SUFFICES ASSUME Init PROVE ScriptInv BY EngineStarts DEF EvaluationInv
<1>1. /\ phase = "idle" /\ intent = CHOOSE i \in Intents : TRUE
      /\ cart = << >> /\ traces = << >>
  BY DEF Init
<1>2. intent \in Intents BY <1>1, EvaluationAssumption
<1>3. << >> \in Seq({}) /\ Len(<< >>) = 0 BY EmptySeq
<1>4. DOMAIN cart = {} /\ DOMAIN traces = {} BY <1>1
<1>5. Position BY <1>1, <1>2, <1>3, <1>4, EvaluationAssumption DEF Position
<1> QED BY <1>1, <1>4, <1>5 DEF ScriptInv, ReadyHonest, TracesTrue, MetricsTrue

LEMMA EvaluationStep == EvaluationInv /\ [Next]_vars => EvaluationInv'
<1> SUFFICES ASSUME EvaluationInv, [Next]_vars PROVE ScriptInv'
  BY EngineStays DEF EvaluationInv
<1> USE DEF EvaluationInv
<1>0. canon \in Merchants BY DEF Cloned, OnlyHides
<1>1. ASSUME NEW i \in Intents, StartScenario(i) PROVE ScriptInv' BY <1>1, StartStep
<1>2. ASSUME NEW i \in Intents, KeywordBaseline(i) PROVE ScriptInv'
  <2>1. system = "keyword" /\ Simulated(i, Structured(i, Bare(Listed(canon))))
    BY <1>2 DEF KeywordBaseline
  <2>2. Catalog(Bare(Listed(canon)), Products) BY <1>0, <2>1, BareShows
  <2>3. Ranking(Structured(i, Bare(Listed(canon))), Bare(Listed(canon))) BY <2>2, Rankings
  <2> QED BY <2>1, <2>3, BaselineStep
<1>3. ASSUME NEW i \in Intents, SemanticBaseline(i) PROVE ScriptInv'
  <2>1. system = "semantic" /\ Simulated(i, Semantic(i, Bare(Listed(canon))))
    BY <1>3 DEF SemanticBaseline
  <2>2. Catalog(Bare(Listed(canon)), Products) BY <1>0, <2>1, BareShows
  <2>3. Ranking(Semantic(i, Bare(Listed(canon))), Bare(Listed(canon))) BY <2>2, Rankings
  <2> QED BY <2>1, <2>3, BaselineStep
<1>4. CASE Chaos
  <2>1. UNCHANGED canon
    BY <1>4 DEF Chaos, ApplyStep, apply_catalog_chaos, apply_context_chaos, drop_attribute,
                apply_commerce_chaos, NextFamily, Sample
  <2> QED BY <1>4, <2>1, EngineOnlyStep DEF Chaos
<1>5. CASE Shop BY <1>5, ShopStep
<1>6. CASE Strike
  <2>1. UNCHANGED canon BY <1>6 DEF Strike, trigger_boundary
  <2> QED BY <1>6, <2>1, EngineOnlyStep DEF Strike
<1>7. CASE Succeed BY <1>7, SucceedStep
<1>8. CASE Fail BY <1>8, FailStep
<1>9. CASE Finish BY <1>9, FinishStep
<1>10. CASE Drill BY <1>10, DrillStep
<1>11. CASE UNCHANGED vars
  <2>1. UNCHANGED canon /\ UNCHANGED script BY <1>11 DEF vars, engine
  <2> QED BY <2>1, EngineOnlyStep
<1> QED BY <1>1, <1>2, <1>3, <1>4, <1>5, <1>6, <1>7, <1>8, <1>9, <1>10, <1>11 DEF Next

THEOREM EvaluationInvariant == Spec => []EvaluationInv
BY EvaluationInit, EvaluationStep, PTL DEF Spec

-----------------------------------------------------------------------------
(* What follows from it.                                                   *)

\* Variables and rows keep their types: chaos writes nothing into the clone that
\* no merchant could hold there, but the category "unknown".
THEOREM EvaluationTypes == Spec => []TypeOK
<1>1. EvaluationInv => TypeOK
  <2> SUFFICES ASSUME EvaluationInv PROVE TypeOK OBVIOUS
  <2> USE DEF EvaluationInv, Cloned
  <2>1. WellFormed(canon, CategoriesOf(canon), ConnectorsOf(canon))
    BY EngineAssumption DEF OnlyHides
  <2>2. DOMAIN clone = Location BY DEF EngineInv, Shapes
  <2>3. clone[Shipping] \in BOOLEAN
    <3>1. Shipping \in Location /\ Shipping[1] = "shipping" BY DEF Location, Shipping
    <3> QED BY <3>1 DEF OnlyHides, Fits
  <2>4. ASSUME NEW p \in 1..Products
        PROVE  /\ clone[<<"title", p>>] \in Title
               /\ clone[<<"description", p>>] \in Description
               /\ clone[<<"category", p>>] \in CategoriesOf(canon) \cup {"unknown"}
               /\ \A f \in {"stock", "price", "power_watts", "wattage"} : clone[<<f, p>>] \in Nat
               /\ clone[<<"connector", p>>] \subseteq ConnectorsOf(canon)
    <3>1. \A f \in Fields : Fits(<<f, p>>, canon[<<f, p>>], clone[<<f, p>>])
      BY FieldLocation DEF OnlyHides
    <3>2. clone[<<"title", p>>] \in Title BY <3>1 DEF Fits, Fields
    <3>3. clone[<<"description", p>>] \in Description BY <3>1 DEF Fits, Fields
    <3>4. clone[<<"category", p>>] \in CategoriesOf(canon) \cup {"unknown"}
      BY <3>1 DEF Fits, Fields, CategoriesOf
    <3>5. clone[<<"stock", p>>] \in Nat /\ clone[<<"price", p>>] \in Nat
      BY <3>1 DEF Fits, Fields
    <3>6. canon[<<"power_watts", p>>] \in Nat /\ canon[<<"wattage", p>>] \in Nat
      BY <2>1 DEF WellFormed
    <3>7. clone[<<"power_watts", p>>] \in Nat /\ clone[<<"wattage", p>>] \in Nat
      BY <3>1, <3>6 DEF Fits, Fields
    <3>8. clone[<<"connector", p>>] \subseteq ConnectorsOf(canon)
      <4>1. clone[<<"connector", p>>] = canon[<<"connector", p>>] BY <3>1 DEF Fits, Fields
      <4> QED BY <4>1 DEF ConnectorsOf
    <3> QED BY <3>2, <3>3, <3>4, <3>5, <3>7, <3>8
  <2>5. WellFormed(clone, CategoriesOf(canon) \cup {"unknown"}, ConnectorsOf(canon))
    BY <2>2, <2>3, <2>4 DEF WellFormed
  <2>6. /\ \A k \in DOMAIN injections : injections[k].at \in Location
        /\ \A k \in DOMAIN pending : pending[k].at \in Location
    BY DEF OnlyHides, Known
  <2> QED BY <2>5, <2>6 DEF TypeOK, EngineTyped, ScriptInv, Position
<1> QED BY <1>1, EvaluationInvariant, PTL

\* Under any chaos the cart of each kind of buyer is what the intent asked for,
\* judged by the merchant's own catalog, unless the intent forbids an attribute
\* that is hidden from the buyer (Judged).
THEOREM ChaosCannotMislead == Spec => []CartsHonourTruth
<1>1. EvaluationInv => CartsHonourTruth
  <2> DEFINE seen == Listed(clone)
  <2> SUFFICES ASSUME EvaluationInv, Shopping, Judged(intent),
                      NEW found \in {Structured(intent, seen), Semantic(intent, seen),
                                     Hybrid(intent, seen)},
                      Cart(intent, found) # << >>
               PROVE  Honest(intent, Skus(Cart(intent, found)))
    BY DEF CartsHonourTruth
  <2>1. OnlyHides /\ intent \in Intents /\ system = "commercetwin"
    BY DEF EvaluationInv, Cloned, ScriptInv, Position, Shopping
  <2>2. Shows(intent, seen) BY <2>1, ChaosShows
  <2>3. Catalog(seen, Products) BY <2>2 DEF Shows
  <2> HIDE DEF seen
  <2>4. Ranking(found, seen) BY <2>1, <2>3, Rankings
  <2> QED BY <2>1, <2>2, <2>4, HonestRanking
<1> QED BY <1>1, EvaluationInvariant, PTL

\* The greedy buyer finds a cart whenever there is one to be found.
THEOREM GreedySuffices == Spec => []StructuredFindsFeasible
<1>1. EvaluationInv => StructuredFindsFeasible
  <2> DEFINE seen == Listed(clone)
  <2> SUFFICES ASSUME EvaluationInv
               PROVE  Cart(intent, Structured(intent, seen)) # << >> <=> Feasible(intent, seen)
    BY DEF StructuredFindsFeasible
  <2>1. canon \in Merchants /\ intent \in Intents
    BY DEF EvaluationInv, Cloned, OnlyHides, ScriptInv, Position
  <2>2. Catalog(seen, Products) BY <2>1, ListedCatalog
  <2>3. Products \in Nat /\ intent.max_budget_paise \in Nat
    BY <2>1, EngineAssumption, EvaluationAssumption
  <2> HIDE DEF seen
  <2> QED BY <2>2, <2>3, GreedyIsOptimal
<1> QED BY <1>1, EvaluationInvariant, PTL

\* A trace that counts as successful has the intent preserved, and an honest cart
\* unless its intent forbids an attribute hidden from the buyer (Judged).
THEOREM ReportedIntegrity == Spec => []IntegrityIsReal
<1>1. EvaluationInv => IntegrityIsReal
  <2> SUFFICES ASSUME EvaluationInv, NEW n \in DOMAIN traces, traces[n].success
               PROVE  /\ traces[n].intent_preserved
                      /\ Judged(traces[n].intent) => Honest(traces[n].intent, traces[n].skus)
    BY DEF IntegrityIsReal
  <2>1. /\ traces[n].intent_preserved
        /\ HonestIf(Listed(canon), Hidden, traces[n].intent, traces[n].skus)
    BY DEF EvaluationInv, ScriptInv, TracesTrue, Reported
  <2> QED BY <2>1, HonestSame
<1> QED BY <1>1, EvaluationInvariant, PTL

\* The benchmark never reports a recovery, and counts each failure as repairable.
THEOREM NoRecoveryReported == Spec => []NothingRecovers
<1>1. EvaluationInv => NothingRecovers
  <2> SUFFICES ASSUME EvaluationInv, phase = "done", system = "commercetwin"
               PROVE  /\ metrics.Total_Recovered = 0
                      /\ metrics.repairable_failed = metrics.Total_Failed
    BY DEF NothingRecovers
  <2>1. metrics = compute_metrics(traces) BY DEF EvaluationInv, ScriptInv, MetricsTrue
  <2>2. \A n \in DOMAIN traces :
          ~traces[n].recovered /\ (~traces[n].success => traces[n].repairable)
    BY DEF EvaluationInv, ScriptInv, TracesTrue, Reported
  <2> DEFINE eligible   == {n \in DOMAIN traces : traces[n].intent.eligible}
             successful == {n \in eligible : traces[n].success}
             failed     == eligible \ successful
             recovered  == {n \in successful : traces[n].recovered}
  <2>3. /\ metrics.Total_Recovered = Cardinality(recovered)
        /\ metrics.Total_Failed = Cardinality(failed)
        /\ metrics.repairable_failed
             = Cardinality({n \in failed \cup recovered : traces[n].repairable})
    BY <2>1 DEF compute_metrics
  <2>4. recovered = {} BY <2>2
  <2>5. {n \in failed \cup recovered : traces[n].repairable} = failed BY <2>2, <2>4
  <2>6. Cardinality({}) = 0 BY FS_EmptySet
  <2> HIDE DEF recovered, failed
  <2> QED BY <2>3, <2>4, <2>5, <2>6
<1> QED BY <1>1, EvaluationInvariant, PTL

\* At the end of every drill, as of every rollback, the merchant's state is back.
THEOREM DrillsRestore == Spec => []RollbackRestores
BY BenchmarkUsesEngine, RollbackRestoresMerchant, PTL

=============================================================================
