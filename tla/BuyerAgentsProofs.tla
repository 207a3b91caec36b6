--------------------------- MODULE BuyerAgentsProofs ---------------------------
(***************************************************************************)
(* Proofs about BuyerAgents, for any intent and any catalog: every ranking *)
(* is an enumeration of its candidates, and of the structured one's        *)
(* candidates the greedy cart takes the cheapest valid product of each     *)
(* required category, so that it fails only if every cart would.           *)
(***************************************************************************)
EXTENDS BuyerAgents, DataLemmas

-----------------------------------------------------------------------------
(* Orders.                                                                 *)

\* An order in which elements may be equal.
WeakOrder(B, I) ==
    /\ \A x \in I : <<x, x>> \notin B
    /\ \A x, y, z \in I : <<x, y>> \in B /\ <<y, z>> \in B => <<x, z>> \in B
    /\ \A x, y, z \in I : <<x, y>> \notin B /\ <<y, z>> \notin B => <<x, z>> \notin B

\* Equal elements stay in the order they have as numbers.
Stable(B, I) ==
    {pair \in I \X I : \/ pair \in B
                       \/ <<pair[2], pair[1]>> \notin B /\ pair[1] < pair[2]}

LEMMA StableOrder ==
    ASSUME NEW I \in SUBSET Nat, NEW B, WeakOrder(B, I)
    PROVE  StrictOrder(Stable(B, I), I)
<1> DEFINE R(x, y) == <<x, y>> \in B \/ (<<y, x>> \notin B /\ x < y)
<1>1. \A x, y \in I : <<x, y>> \in Stable(B, I) <=> R(x, y) BY DEF Stable
<1>2. \A x \in I : ~R(x, x)
  <2>1. \A x \in I : ~(x < x) OBVIOUS
  <2>2. \A x \in I : <<x, x>> \notin B BY DEF WeakOrder
  <2> QED BY <2>1, <2>2
<1>3. \A x, y \in I : x # y => R(x, y) \/ R(y, x)
  <2>1. \A x, y \in I : x # y => x < y \/ y < x OBVIOUS
  <2> QED BY <2>1
<1>4. ASSUME NEW x \in I, NEW y \in I, NEW z \in I, R(x, y), R(y, z) PROVE R(x, z)
  <2>1. CASE <<x, y>> \in B /\ <<y, z>> \in B BY <2>1 DEF WeakOrder
  <2>2. CASE <<x, y>> \in B /\ <<z, y>> \notin B BY <2>2 DEF WeakOrder
  <2>3. CASE <<y, x>> \notin B /\ <<y, z>> \in B BY <2>3 DEF WeakOrder
  <2>4. CASE <<y, x>> \notin B /\ x < y /\ <<z, y>> \notin B /\ y < z
    <3>1. <<z, x>> \notin B BY <2>4 DEF WeakOrder
    <3>2. x < z BY <2>4
    <3> QED BY <3>1, <3>2
  <2> QED BY <1>4, <2>1, <2>2, <2>3, <2>4
<1> HIDE DEF R
<1> QED BY <1>1, <1>2, <1>3, <1>4 DEF StrictOrder

\* Fractions a/u are compared by cross multiplication.
LEMMA Fractions ==
    ASSUME NEW a \in Nat, NEW b \in Nat, NEW c \in Nat,
           NEW u \in Nat \ {0}, NEW v \in Nat \ {0}, NEW w \in Nat \ {0}
    PROVE  /\ a * v > b * u /\ b * w > c * v => a * w > c * u
           /\ ~(a * v > b * u) /\ ~(b * w > c * v) => ~(a * w > c * u)
<1>1. \A x, y \in Nat, k \in Nat \ {0} : (x > y <=> k * x > k * y) OBVIOUS
<1>2. /\ a * v \in Nat /\ b * u \in Nat /\ b * w \in Nat /\ c * v \in Nat
      /\ a * w \in Nat /\ c * u \in Nat
  OBVIOUS
<1>3. /\ w * (a * v) = v * (a * w)
      /\ w * (b * u) = u * (b * w)
      /\ u * (c * v) = v * (c * u)
  OBVIOUS
<1>4. /\ a * v > b * u <=> w * (a * v) > w * (b * u)
      /\ b * w > c * v <=> u * (b * w) > u * (c * v)
      /\ a * w > c * u <=> v * (a * w) > v * (c * u)
  BY <1>1, <1>2
<1>5. /\ w * (a * v) \in Nat /\ w * (b * u) \in Nat /\ u * (b * w) \in Nat
      /\ u * (c * v) \in Nat /\ v * (a * w) \in Nat /\ v * (c * u) \in Nat
  BY <1>2
<1> DEFINE p == v * (a * w)
           q == w * (b * u)
           r == v * (c * u)
<1>6. /\ a * v > b * u <=> p > q
      /\ b * w > c * v <=> q > r
      /\ a * w > c * u <=> p > r
      /\ p \in Nat /\ q \in Nat /\ r \in Nat
  BY <1>3, <1>4, <1>5
<1> HIDE DEF p, q, r
<1> QED BY <1>6

-----------------------------------------------------------------------------
(* Enumerations.                                                           *)

\* The entries of s at the positions in I, in the order of B and then of s.
Arranged(result, s, I, B) ==
    \E order : /\ Sorted(order, I, Stable(B, I))
               /\ result = [n \in 1..Cardinality(I) |-> s[order[n]]]

LEMMA Positions ==
    ASSUME NEW N \in Nat, NEW I \in SUBSET (1..N)
    PROVE  IsFiniteSet(I) /\ Cardinality(I) \in Nat /\ I \in SUBSET Nat
<1>1. IsFiniteSet(1..N) BY FS_Interval
<1>2. IsFiniteSet(I) BY <1>1, FS_Subset
<1>3. 1..N \subseteq Nat OBVIOUS
<1> QED BY <1>2, <1>3, FS_CardinalityType

LEMMA EntriesArranged ==
    ASSUME NEW N \in Nat, NEW I \in SUBSET (1..N), NEW s
    PROVE  Arranged(Entries(s, I), s, I, {})
<1>1. IsFiniteSet(I) /\ I \in SUBSET Nat BY Positions
<1>2. WeakOrder({}, I) BY DEF WeakOrder
<1>3. PICK any : Sorted(any, I, Stable({}, I)) BY <1>1, <1>2, StableOrder, SortedExists
<1>4. \A i, j \in I : <<i, j>> \in Stable({}, I) <=> i < j BY DEF Stable
<1>5. /\ any \in [1..Cardinality(I) -> I]
      /\ \A m, n \in DOMAIN any : m < n => any[m] < any[n]
  BY <1>3, <1>4 DEF Sorted
<1> DEFINE order == Enumerated(I, LAMBDA i, j : i < j)
<1>6. /\ order \in [1..Cardinality(I) -> I]
      /\ \A m, n \in DOMAIN order : m < n => order[m] < order[n]
  BY <1>5 DEF Enumerated
<1>7. Entries(s, I) = [n \in DOMAIN order |-> s[order[n]]] BY DEF Entries
<1> HIDE DEF order
<1>8. Sorted(order, I, Stable({}, I)) BY <1>4, <1>6 DEF Sorted
<1> QED BY <1>6, <1>7, <1>8 DEF Arranged

\* What the proofs use of an arrangement.
Arrangement(result, s, I, B) ==
    /\ Cardinality(I) \in Nat /\ DOMAIN result = 1..Cardinality(I)
    /\ result = [n \in DOMAIN result |-> result[n]]
    /\ \E order \in [1..Cardinality(I) -> I] :
          /\ \A n \in DOMAIN result : result[n] = s[order[n]]
          /\ \A m, n \in DOMAIN result : m # n => order[m] # order[n]
          /\ \A i \in I : \E n \in DOMAIN result : order[n] = i
          /\ \A m, n \in DOMAIN result : m < n => <<order[n], order[m]>> \notin B
          /\ B = {} => \A m, n \in DOMAIN result : m < n => order[m] < order[n]

LEMMA ArrangedFacts ==
    ASSUME NEW N \in Nat, NEW I \in SUBSET (1..N), NEW s, NEW B, WeakOrder(B, I),
           NEW result, Arranged(result, s, I, B)
    PROVE  Arrangement(result, s, I, B)
<1>1. IsFiniteSet(I) /\ I \in SUBSET Nat BY Positions
<1>2. Cardinality(I) \in Nat BY <1>1, FS_CardinalityType
<1>3. PICK order : /\ Sorted(order, I, Stable(B, I))
                   /\ result = [n \in 1..Cardinality(I) |-> s[order[n]]]
  BY DEF Arranged
<1>4. StrictOrder(Stable(B, I), I) BY <1>1, StableOrder
<1>5. /\ \A m, n \in 1..Cardinality(I) : m # n => order[m] # order[n]
      /\ \A i \in I : \E n \in 1..Cardinality(I) : order[n] = i
  BY <1>1, <1>3, <1>4, SortedOnto
<1>6. ASSUME NEW x \in I, NEW y \in I, <<x, y>> \in Stable(B, I)
      PROVE  <<y, x>> \notin B /\ (B = {} => x < y)
  <2>1. <<x, y>> \in B \/ (<<y, x>> \notin B /\ x < y) BY <1>6 DEF Stable
  <2>2. <<x, y>> \in B => <<y, x>> \notin B BY DEF WeakOrder
  <2> QED BY <2>1, <2>2
<1>7. order \in [1..Cardinality(I) -> I] BY <1>3 DEF Sorted
<1>8. \A m, n \in 1..Cardinality(I) :
          m < n => /\ <<order[n], order[m]>> \notin B
                   /\ B = {} => order[m] < order[n]
  BY <1>3, <1>6, <1>7 DEF Sorted
<1> QED BY <1>2, <1>3, <1>5, <1>7, <1>8 DEF Arrangement

-----------------------------------------------------------------------------
(* The three rankings.                                                     *)

\* A catalog: positions 1..N, prices and words that can be compared.
Catalog(products, N) ==
    /\ DOMAIN products = 1..N
    /\ \A i \in 1..N : /\ products[i].price_paise \in Nat
                       /\ IsFiniteSet(products[i].words) /\ products[i].words # {}

Wanted(intent, products) ==
    {i \in DOMAIN products : products[i].category \in intent.required_categories}
Cheaper(intent, products) ==
    {pair \in Wanted(intent, products) \X Wanted(intent, products) :
        products[pair[1]].price_paise < products[pair[2]].price_paise}

\* The structured buyer's candidates are the products of a required category,
\* each once, the cheapest first.
LEMMA StructuredArranged ==
    ASSUME NEW N \in Nat, NEW intent, NEW products, Catalog(products, N)
    PROVE  /\ WeakOrder(Cheaper(intent, products), Wanted(intent, products))
           /\ Arranged(Structured(intent, products), products, Wanted(intent, products),
                       Cheaper(intent, products))
<1> DEFINE I == Wanted(intent, products)
           B == Cheaper(intent, products)
           Better(p, q) == p.price_paise < q.price_paise
<1>0. I \in SUBSET (1..N) /\ IsFiniteSet(I) /\ I \in SUBSET Nat
  <2>1. I \in SUBSET (1..N) BY DEF Wanted, Catalog
  <2> QED BY <2>1, Positions
<1>1. \A i, j \in I : <<i, j>> \in B <=> Better(products[i], products[j]) BY DEF Cheaper
<1>2. WeakOrder(B, I)
  <2>1. \A i \in I : products[i].price_paise \in Nat BY <1>0 DEF Catalog
  <2> HIDE DEF I, B
  <2> QED BY <1>1, <2>1 DEF WeakOrder
<1> HIDE DEF I, B
<1>3. PICK any : Sorted(any, I, Stable(B, I)) BY <1>0, <1>2, StableOrder, SortedExists
<1> DEFINE before(i, j) == \/ Better(products[i], products[j])
                           \/ ~Better(products[j], products[i]) /\ i < j
<1>4. \A i, j \in I : <<i, j>> \in Stable(B, I) <=> before(i, j) BY <1>1 DEF Stable
<1>5. /\ any \in [1..Cardinality(I) -> I]
      /\ \A m, n \in DOMAIN any : m < n => before(any[m], any[n])
  <2> HIDE DEF before, Better
  <2> QED BY <1>3, <1>4 DEF Sorted
<1> DEFINE order == Enumerated(I, before)
<1>6. Structured(intent, products) = [n \in DOMAIN order |-> products[order[n]]]
  BY DEF Structured, Ranked, I, Wanted
<1> HIDE DEF before, Better
<1>7. /\ order \in [1..Cardinality(I) -> I]
      /\ \A m, n \in DOMAIN order : m < n => before(order[m], order[n])
  BY <1>5 DEF Enumerated
<1> HIDE DEF order
<1>8. Sorted(order, I, Stable(B, I)) BY <1>4, <1>7 DEF Sorted
<1>9. DOMAIN order = 1..Cardinality(I) BY <1>7
<1> QED BY <1>2, <1>6, <1>8, <1>9 DEF Arranged, I, B

\* Similarities are fractions of natural numbers that are not divided by zero.
LEMMA Similarities ==
    ASSUME NEW intent, IsFiniteSet(intent.words), NEW p, IsFiniteSet(p.words), p.words # {}
    PROVE  Shared(intent, p) \in Nat /\ United(intent, p) \in Nat \ {0}
<1>1. IsFiniteSet(intent.words \cap p.words) BY FS_Intersection
<1>2. IsFiniteSet(intent.words \cup p.words) BY FS_Union
<1>3. intent.words \cup p.words # {} OBVIOUS
<1>4. Cardinality(intent.words \cup p.words) # 0 BY <1>2, <1>3, FS_EmptySet
<1> QED BY <1>1, <1>2, <1>4, FS_CardinalityType DEF Shared, United

LEMMA MoreSimilarOrders ==
    ASSUME NEW N \in Nat, NEW intent, IsFiniteSet(intent.words), NEW products,
           Catalog(products, N), NEW i \in 1..N, NEW j \in 1..N, NEW k \in 1..N
    PROVE  LET closer(x, y) == MoreSimilar(intent, products[x], products[y])
           IN  /\ ~closer(i, i)
               /\ closer(i, j) /\ closer(j, k) => closer(i, k)
               /\ ~closer(i, j) /\ ~closer(j, k) => ~closer(i, k)
<1>1. \A x \in 1..N : /\ Shared(intent, products[x]) \in Nat
                      /\ United(intent, products[x]) \in Nat \ {0}
  BY Similarities DEF Catalog
<1>2. \A x, y \in 1..N :
        MoreSimilar(intent, products[x], products[y]) <=>
            Shared(intent, products[x]) * United(intent, products[y])
              > Shared(intent, products[y]) * United(intent, products[x])
  BY DEF MoreSimilar
<1>3. PICK a, b, c \in Nat : /\ a = Shared(intent, products[i])
                             /\ b = Shared(intent, products[j])
                             /\ c = Shared(intent, products[k])
  BY <1>1
<1>4. PICK u, v, w \in Nat \ {0} : /\ u = United(intent, products[i])
                                   /\ v = United(intent, products[j])
                                   /\ w = United(intent, products[k])
  BY <1>1
<1>5. /\ a * v > b * u /\ b * w > c * v => a * w > c * u
      /\ ~(a * v > b * u) /\ ~(b * w > c * v) => ~(a * w > c * u)
  BY Fractions
<1>6. ~(a * u > a * u)
  <2>1. \A x \in Nat : ~(x > x) OBVIOUS
  <2>2. a * u \in Nat OBVIOUS
  <2> QED BY <2>1, <2>2
<1>7. /\ MoreSimilar(intent, products[i], products[i]) <=> a * u > a * u
      /\ MoreSimilar(intent, products[i], products[j]) <=> a * v > b * u
      /\ MoreSimilar(intent, products[j], products[k]) <=> b * w > c * v
      /\ MoreSimilar(intent, products[i], products[k]) <=> a * w > c * u
  BY <1>2, <1>3, <1>4
<1> QED BY <1>5, <1>6, <1>7

Related(intent, products) == {i \in DOMAIN products : Shared(intent, products[i]) > 0}
Closer(intent, products) ==
    {pair \in Related(intent, products) \X Related(intent, products) :
        MoreSimilar(intent, products[pair[1]], products[pair[2]])}

\* The semantic buyer's candidates are the products that share a word with the
\* intent, each once, the closest first.
LEMMA SemanticArranged ==
    ASSUME NEW N \in Nat, NEW intent, IsFiniteSet(intent.words), NEW products,
           Catalog(products, N)
    PROVE  /\ WeakOrder(Closer(intent, products), Related(intent, products))
           /\ Arranged(Semantic(intent, products), products, Related(intent, products),
                       Closer(intent, products))
<1> DEFINE I == Related(intent, products)
           B == Closer(intent, products)
           Better(p, q) == MoreSimilar(intent, p, q)
<1>0. I \in SUBSET (1..N) /\ IsFiniteSet(I) /\ I \in SUBSET Nat
  <2>1. I \in SUBSET (1..N) BY DEF Related, Catalog
  <2> QED BY <2>1, Positions
<1>1. \A i, j \in I : <<i, j>> \in B <=> Better(products[i], products[j]) BY DEF Closer
<1>2. WeakOrder(B, I)
  <2> HIDE DEF I, B
  <2> QED BY <1>0, <1>1, MoreSimilarOrders DEF WeakOrder
<1> HIDE DEF I, B
<1>3. PICK any : Sorted(any, I, Stable(B, I)) BY <1>0, <1>2, StableOrder, SortedExists
<1> DEFINE before(i, j) == \/ Better(products[i], products[j])
                           \/ ~Better(products[j], products[i]) /\ i < j
<1>4. \A i, j \in I : <<i, j>> \in Stable(B, I) <=> before(i, j) BY <1>1 DEF Stable
<1>5. /\ any \in [1..Cardinality(I) -> I]
      /\ \A m, n \in DOMAIN any : m < n => before(any[m], any[n])
  <2> HIDE DEF before, Better
  <2> QED BY <1>3, <1>4 DEF Sorted
<1> DEFINE order == Enumerated(I, before)
<1>6. Semantic(intent, products) = [n \in DOMAIN order |-> products[order[n]]]
  BY DEF Semantic, Ranked, I, Related
<1> HIDE DEF before, Better
<1>7. /\ order \in [1..Cardinality(I) -> I]
      /\ \A m, n \in DOMAIN order : m < n => before(order[m], order[n])
  BY <1>5 DEF Enumerated
<1> HIDE DEF order
<1>8. Sorted(order, I, Stable(B, I)) BY <1>4, <1>7 DEF Sorted
<1>9. DOMAIN order = 1..Cardinality(I) BY <1>7
<1> QED BY <1>2, <1>6, <1>8, <1>9 DEF Arranged, I, B

Boosted(intent, p) == p.category \in intent.required_categories
Offered(intent, products) ==
    {i \in DOMAIN products : Shared(intent, products[i]) > 0 \/ Boosted(intent, products[i])}
Ahead(intent, p, q) ==
    \/ Boosted(intent, p) /\ ~Boosted(intent, q)
    \/ Boosted(intent, p) = Boosted(intent, q) /\ MoreSimilar(intent, p, q)
BoostedCloser(intent, products) ==
    {pair \in Offered(intent, products) \X Offered(intent, products) :
        Ahead(intent, products[pair[1]], products[pair[2]])}

\* The hybrid buyer's candidates are both kinds, each once, those of a required
\* category first.
LEMMA HybridArranged ==
    ASSUME NEW N \in Nat, NEW intent, IsFiniteSet(intent.words), NEW products,
           Catalog(products, N)
    PROVE  /\ WeakOrder(BoostedCloser(intent, products), Offered(intent, products))
           /\ Arranged(Hybrid(intent, products), products, Offered(intent, products),
                       BoostedCloser(intent, products))
<1> DEFINE I == Offered(intent, products)
           B == BoostedCloser(intent, products)
           Better(p, q) == Ahead(intent, p, q)
<1>0. I \in SUBSET (1..N) /\ IsFiniteSet(I) /\ I \in SUBSET Nat
  <2>1. I \in SUBSET (1..N) BY DEF Offered, Catalog
  <2> QED BY <2>1, Positions
<1>1. \A i, j \in I : <<i, j>> \in B <=> Better(products[i], products[j]) BY DEF BoostedCloser
<1>2. WeakOrder(B, I)
  <2>1. \A p, q : Boosted(intent, p) \in BOOLEAN BY DEF Boosted
  <2>2. ASSUME NEW i \in I, NEW j \in I, NEW k \in I
        PROVE  /\ ~Better(products[i], products[i])
               /\ Better(products[i], products[j]) /\ Better(products[j], products[k])
                    => Better(products[i], products[k])
               /\ ~Better(products[i], products[j]) /\ ~Better(products[j], products[k])
                    => ~Better(products[i], products[k])
    <3>1. i \in 1..N /\ j \in 1..N /\ k \in 1..N BY <1>0
    <3>2. /\ ~MoreSimilar(intent, products[i], products[i])
          /\ MoreSimilar(intent, products[i], products[j])
               /\ MoreSimilar(intent, products[j], products[k])
               => MoreSimilar(intent, products[i], products[k])
          /\ ~MoreSimilar(intent, products[i], products[j])
               /\ ~MoreSimilar(intent, products[j], products[k])
               => ~MoreSimilar(intent, products[i], products[k])
      BY <3>1, MoreSimilarOrders
    <3> QED BY <2>1, <3>2, Zenon DEF Ahead
  <2> HIDE DEF I, B, Better
  <2> QED BY <1>1, <2>2 DEF WeakOrder
<1> HIDE DEF I, B
<1>3. PICK any : Sorted(any, I, Stable(B, I)) BY <1>0, <1>2, StableOrder, SortedExists
<1> DEFINE before(i, j) == \/ Better(products[i], products[j])
                           \/ ~Better(products[j], products[i]) /\ i < j
<1>4. \A i, j \in I : <<i, j>> \in Stable(B, I) <=> before(i, j) BY <1>1 DEF Stable
<1>5. /\ any \in [1..Cardinality(I) -> I]
      /\ \A m, n \in DOMAIN any : m < n => before(any[m], any[n])
  <2> HIDE DEF before, Better
  <2> QED BY <1>3, <1>4 DEF Sorted
<1> DEFINE order == Enumerated(I, before)
<1>6. Hybrid(intent, products) = [n \in DOMAIN order |-> products[order[n]]]
  BY DEF Hybrid, Ranked, I, Offered, Boosted, Ahead
<1> HIDE DEF before, Better
<1>7. /\ order \in [1..Cardinality(I) -> I]
      /\ \A m, n \in DOMAIN order : m < n => before(order[m], order[n])
  BY <1>5 DEF Enumerated
<1> HIDE DEF order
<1>8. Sorted(order, I, Stable(B, I)) BY <1>4, <1>7 DEF Sorted
<1>9. DOMAIN order = 1..Cardinality(I) BY <1>7
<1> QED BY <1>2, <1>6, <1>8, <1>9 DEF Arranged, I, B

-----------------------------------------------------------------------------
(* The greedy cart.                                                        *)

Greedy(intent, candidates) ==
    LET valid == evaluate_candidates(intent, candidates)
    IN  Entries(valid, FirstOfCategory(intent, valid))

LEMMA CartIsGreedy ==
    ASSUME NEW intent, NEW candidates
    PROVE  Cart(intent, candidates) =
             IF evaluate_cart(intent, Greedy(intent, candidates), Total(Greedy(intent, candidates)))
             THEN Greedy(intent, candidates) ELSE << >>
BY DEF Cart, select_cart, Greedy

\* pos says where in the catalog the products of the greedy cart come from: they
\* are valid, of required categories, one of each, and no valid candidate is
\* better than the one of its category in the cart.
Greedily(intent, products, I, B, L, pos) ==
    /\ \A n \in 1..L : /\ Valid(intent, products[pos[n]])
                       /\ products[pos[n]].category \in intent.required_categories
    /\ \A m, n \in 1..L : m # n => products[pos[m]].category # products[pos[n]].category
    /\ \A i \in I :
          Valid(intent, products[i]) /\ products[i].category \in intent.required_categories =>
            \E n \in 1..L : /\ products[pos[n]].category = products[i].category
                            /\ <<i, pos[n]>> \notin B

LEMMA GreedyFacts ==
    ASSUME NEW N \in Nat, NEW intent, NEW products, NEW I \in SUBSET (1..N), NEW B,
           WeakOrder(B, I), NEW candidates, Arranged(candidates, products, I, B)
    PROVE  \E L \in Nat : \E pos \in [1..L -> I] :
              /\ Greedy(intent, candidates) = [n \in 1..L |-> products[pos[n]]]
              /\ Greedily(intent, products, I, B, L, pos)
<1> DEFINE valid == evaluate_candidates(intent, candidates)
           V == {n \in DOMAIN candidates : Valid(intent, candidates[n])}
           F == FirstOfCategory(intent, valid)
           greedy == Greedy(intent, candidates)
<1>0. \A J : WeakOrder({}, J) BY DEF WeakOrder
<1>a. Arrangement(candidates, products, I, B) BY ArrangedFacts
<1>1. PICK order \in [1..Cardinality(I) -> I] :
        /\ \A n \in DOMAIN candidates : candidates[n] = products[order[n]]
        /\ \A i \in I : \E n \in DOMAIN candidates : order[n] = i
        /\ \A m, n \in DOMAIN candidates : m < n => <<order[n], order[m]>> \notin B
  BY <1>a DEF Arrangement
<1>2. Cardinality(I) \in Nat /\ DOMAIN candidates = 1..Cardinality(I)
  BY <1>a DEF Arrangement
<1>3. V \in SUBSET (1..Cardinality(I)) BY <1>2
<1>4. Arranged(valid, candidates, V, {}) BY <1>2, <1>3, EntriesArranged DEF evaluate_candidates
<1> HIDE DEF V, valid
<1>b. Arrangement(valid, candidates, V, {}) BY <1>0, <1>2, <1>3, <1>4, ArrangedFacts
<1>5. PICK vorder \in [1..Cardinality(V) -> V] :
        /\ \A n \in DOMAIN valid : valid[n] = candidates[vorder[n]]
        /\ \A i \in V : \E n \in DOMAIN valid : vorder[n] = i
        /\ \A m, n \in DOMAIN valid : m < n => vorder[m] < vorder[n]
  BY <1>b DEF Arrangement
<1>6. Cardinality(V) \in Nat /\ DOMAIN valid = 1..Cardinality(V)
  BY <1>b DEF Arrangement
<1>7. F \in SUBSET (1..Cardinality(V)) BY <1>6 DEF FirstOfCategory
<1>8. greedy = Entries(valid, F) BY DEF Greedy, valid
<1>9. Arranged(greedy, valid, F, {}) BY <1>6, <1>7, <1>8, EntriesArranged
<1> HIDE DEF F, greedy
<1>c. Arrangement(greedy, valid, F, {}) BY <1>0, <1>6, <1>7, <1>9, ArrangedFacts
<1>10. PICK forder \in [1..Cardinality(F) -> F] :
        /\ \A n \in DOMAIN greedy : greedy[n] = valid[forder[n]]
        /\ \A m, n \in DOMAIN greedy : m # n => forder[m] # forder[n]
        /\ \A i \in F : \E n \in DOMAIN greedy : forder[n] = i
  BY <1>c DEF Arrangement
<1>11. /\ Cardinality(F) \in Nat /\ DOMAIN greedy = 1..Cardinality(F)
       /\ greedy = [n \in DOMAIN greedy |-> greedy[n]]
  BY <1>c DEF Arrangement
<1> DEFINE L == Cardinality(F)
           pos == [n \in 1..L |-> order[vorder[forder[n]]]]
<1>12. ASSUME NEW l \in DOMAIN valid
       PROVE  /\ vorder[l] \in V /\ vorder[l] \in DOMAIN candidates
              /\ order[vorder[l]] \in I
              /\ valid[l] = products[order[vorder[l]]]
              /\ Valid(intent, valid[l])
  <2>1. vorder[l] \in V BY <1>5, <1>6
  <2>2. vorder[l] \in DOMAIN candidates /\ Valid(intent, candidates[vorder[l]]) BY <2>1 DEF V
  <2> QED BY <2>1, <2>2, <1>1, <1>2, <1>5
<1>13. ASSUME NEW n \in 1..L
       PROVE  /\ forder[n] \in F /\ forder[n] \in DOMAIN valid
              /\ pos[n] \in I /\ products[pos[n]] = valid[forder[n]]
              /\ greedy[n] = products[pos[n]]
  <2>1. forder[n] \in F BY <1>10
  <2>2. forder[n] \in DOMAIN valid BY <2>1, <1>6, <1>7
  <2> QED BY <2>1, <2>2, <1>10, <1>11, <1>12
<1> HIDE DEF pos, L
<1>14. pos \in [1..L -> I] BY <1>13 DEF pos
<1>15. greedy = [n \in 1..L |-> products[pos[n]]] BY <1>11, <1>13 DEF L
<1>16. ASSUME NEW n \in 1..L
       PROVE  /\ Valid(intent, products[pos[n]])
              /\ products[pos[n]].category \in intent.required_categories
  BY <1>12, <1>13 DEF F, FirstOfCategory
<1>17. ASSUME NEW x \in F, NEW y \in F, x # y PROVE valid[x].category # valid[y].category
  <2>1. x \in Nat /\ y \in Nat BY <1>6, <1>7
  <2>2. x \in 1..(y - 1) \/ y \in 1..(x - 1) BY <1>7, <1>17, <2>1, <1>6
  <2> QED BY <2>2 DEF F, FirstOfCategory
<1>18. ASSUME NEW m \in 1..L, NEW n \in 1..L, m # n
       PROVE  products[pos[m]].category # products[pos[n]].category
  <2>1. forder[m] # forder[n] BY <1>10, <1>11, <1>18 DEF L
  <2> QED BY <2>1, <1>13, <1>17
<1>19. ASSUME NEW i \in I, Valid(intent, products[i]),
              products[i].category \in intent.required_categories
       PROVE  \E n \in 1..L : /\ products[pos[n]].category = products[i].category
                              /\ <<i, pos[n]>> \notin B
  <2>1. PICK k \in DOMAIN candidates : order[k] = i BY <1>1
  <2>2. k \in V /\ candidates[k] = products[i] BY <1>1, <1>19, <2>1 DEF V
  <2>3. PICK l \in DOMAIN valid : vorder[l] = k BY <1>5, <2>2
  <2>4. valid[l] = products[i] BY <1>5, <2>2, <2>3
  <2> DEFINE Same == {x \in DOMAIN valid : valid[x].category = products[i].category}
  <2>5. Same \in SUBSET Nat /\ Same # {} BY <1>6, <2>4
  <2>6. PICK m \in Same : \A x \in Same : m <= x BY <2>5, LeastNumber
  <2>7. m \in F
    <3>1. \A x \in 1..(m - 1) : x \in DOMAIN valid /\ ~(m <= x) BY <1>6, <2>6
    <3> QED BY <1>19, <2>6, <3>1 DEF F, FirstOfCategory
  <2>8. PICK n \in 1..L : forder[n] = m BY <1>10, <1>11, <2>7 DEF L
  <2>9. pos[n] = order[vorder[m]] /\ products[pos[n]].category = products[i].category
    BY <1>13, <2>6, <2>8 DEF pos
  <2>10. <<i, pos[n]>> \notin B
    <3>1. CASE m = l BY <2>1, <2>3, <2>9, <3>1 DEF WeakOrder
    <3>2. CASE m # l
      <4>1. m < l BY <2>4, <2>6, <3>2, <1>6
      <4>2. vorder[m] < vorder[l] BY <1>5, <4>1, <2>6
      <4>3. vorder[m] \in DOMAIN candidates BY <1>12, <2>6
      <4> QED BY <1>1, <2>1, <2>3, <2>9, <4>2, <4>3
    <3> QED BY <3>1, <3>2
  <2> QED BY <2>9, <2>10
<1>20. Greedily(intent, products, I, B, L, pos) BY <1>16, <1>18, <1>19 DEF Greedily
<1>21. L \in Nat BY <1>11 DEF L
<1> QED BY <1>14, <1>15, <1>20, <1>21 DEF greedy

\* A buyer that comes back with a cart comes back with the greedy one, and the
\* oracle has accepted it.
LEMMA CartFacts ==
    ASSUME NEW N \in Nat, NEW intent, NEW products, NEW I \in SUBSET (1..N), NEW B,
           WeakOrder(B, I), NEW candidates, Arranged(candidates, products, I, B),
           Cart(intent, candidates) # << >>
    PROVE  LET cart == Cart(intent, candidates)
           IN  /\ evaluate_cart(intent, cart, Total(cart))
               /\ \E L \in Nat : \E pos \in [1..L -> I] :
                    /\ cart = [n \in 1..L |-> products[pos[n]]]
                    /\ Greedily(intent, products, I, B, L, pos)
<1>1. /\ Cart(intent, candidates) = Greedy(intent, candidates)
      /\ evaluate_cart(intent, Cart(intent, candidates), Total(Cart(intent, candidates)))
  BY CartIsGreedy
<1> QED BY <1>1, GreedyFacts

\* The products at some positions of a catalog, and those positions.
Picks(products, L, pos) == [n \in 1..L |-> products[pos[n]]]
Places(L, pos) == {pos[n] : n \in 1..L}

\* What a cart costs is what its products cost in the catalog.
LEMMA CartTotal ==
    ASSUME NEW N \in Nat, NEW products, Catalog(products, N),
           NEW L \in Nat, NEW pos \in [1..L -> 1..N],
           \A m, n \in 1..L : m # n => pos[m] # pos[n]
    PROVE  /\ IsFiniteSet(Places(L, pos))
           /\ Total(Picks(products, L, pos)) = SumFunctionOnSet(Prices(products), Places(L, pos))
<1> DEFINE cart == [n \in 1..L |-> products[pos[n]]]
           f == Prices(cart)
           h == Prices(products)
           to == pos
           S == 1..L
<1>1. IsFiniteSet(S) BY FS_Interval
<1>2. \A n \in S : f[n] \in Int /\ f[n] = h[to[n]] BY DEF Prices, Catalog
<1>3. Total(cart) = SumFunctionOnSet(f, S) BY DEF Total
<1>4. \A m, n \in S : m # n => to[m] # to[n] OBVIOUS
<1> HIDE DEF f, h, to, S
<1>5. /\ IsFiniteSet({to[n] : n \in S})
      /\ SumFunctionOnSet(f, S) = SumFunctionOnSet(h, {to[n] : n \in S})
  <2>1. SumFunctionOnSet(f, S) = SumFunctionOnSet(h, {to[n] : n \in S})
    BY <1>1, <1>2, <1>4, SumRenamed
  <2>2. IsFiniteSet({to[n] : n \in S}) BY <1>1, <1>2, <1>4, <2>1, SumRenamed
  <2> QED BY <2>1, <2>2
<1> HIDE DEF cart
<1>6. /\ IsFiniteSet({to[n] : n \in S})
      /\ Total(cart) = SumFunctionOnSet(h, {to[n] : n \in S})
  BY <1>3, <1>5
<1> QED BY <1>6 DEF h, to, S, cart, Picks, Places

\* Different categories, different products.
LEMMA GreedyApart ==
    ASSUME NEW intent, NEW products, NEW I, NEW B, NEW L, NEW pos,
           Greedily(intent, products, I, B, L, pos)
    PROVE  \A m, n \in 1..L : m # n => pos[m] # pos[n]
BY DEF Greedily

\* The structured buyer comes back with a cart exactly if some choice of
\* acceptable products is within the budget: of each category she has taken the
\* cheapest.
THEOREM GreedyIsOptimal ==
    ASSUME NEW N \in Nat, NEW intent, intent.max_budget_paise \in Nat, NEW products,
           Catalog(products, N)
    PROVE  Cart(intent, Structured(intent, products)) # << >> <=> Feasible(intent, products)
<1> DEFINE I == Wanted(intent, products)
           B == Cheaper(intent, products)
           found == Structured(intent, products)
           h == Prices(products)
<1>1. I \in SUBSET (1..N) /\ \A i \in I : products[i].category \in intent.required_categories
  BY DEF Wanted, Catalog
<1>2. WeakOrder(B, I) /\ Arranged(found, products, I, B) BY StructuredArranged
<1>3. \A i \in 1..N : h[i] = products[i].price_paise /\ h[i] \in Nat BY DEF Prices, Catalog
<1>4. \A i, j \in I : <<i, j>> \notin B => ~(h[i] < h[j]) BY <1>1, <1>3 DEF Cheaper
<1>5. DOMAIN products = 1..N BY DEF Catalog
<1> HIDE DEF I, B, found, h
<1>6. ASSUME Cart(intent, found) # << >> PROVE Feasible(intent, products)
  <2> DEFINE cart == Cart(intent, found)
  <2>1. /\ evaluate_cart(intent, cart, Total(cart))
        /\ \E L \in Nat : \E pos \in [1..L -> I] :
             /\ cart = [n \in 1..L |-> products[pos[n]]]
             /\ Greedily(intent, products, I, B, L, pos)
    BY <1>1, <1>2, <1>6, CartFacts
  <2>2. PICK L \in Nat : \E pos \in [1..L -> I] :
             /\ cart = [n \in 1..L |-> products[pos[n]]]
             /\ Greedily(intent, products, I, B, L, pos)
    BY <2>1
  <2>3. PICK pos : /\ pos \in [1..L -> I]
                   /\ cart = [n \in 1..L |-> products[pos[n]]]
                   /\ Greedily(intent, products, I, B, L, pos)
    BY <2>2
  <2> HIDE DEF cart
  <2>4. pos \in [1..L -> 1..N] /\ \A m, n \in 1..L : m # n => pos[m] # pos[n]
    <3>1. pos \in [1..L -> 1..N] BY <1>1, <2>3
    <3>2. \A m, n \in 1..L : m # n => pos[m] # pos[n] BY <2>3, GreedyApart
    <3> QED BY <3>1, <3>2
  <2> DEFINE chosen == Places(L, pos)
  <2>5. Total(cart) = SumFunctionOnSet(h, chosen)
    <3>1. Total(Picks(products, L, pos)) = SumFunctionOnSet(Prices(products), Places(L, pos))
      BY <2>4, CartTotal
    <3>2. cart = Picks(products, L, pos) BY <2>3 DEF Picks
    <3> QED BY <3>1, <3>2 DEF h
  <2>6. chosen \in SUBSET {i \in DOMAIN products : Valid(intent, products[i])}
    BY <1>5, <2>3, <2>4 DEF Greedily, Places
  <2>7. chosen # {}
    <3>1. L # 0
      <4>1. L = 0 => cart = << >> BY <2>3
      <4> QED BY <1>6, <4>1 DEF cart
    <3>2. 1 \in 1..L BY <3>1
    <3> QED BY <3>2 DEF Places
  <2>8. Categories(cart) = {products[i].category : i \in chosen} BY <2>3 DEF Categories, Places
  <2>9. {products[i].category : i \in chosen} \subseteq intent.required_categories
    BY <2>3 DEF Greedily, Places
  <2>10. /\ intent.required_categories \subseteq {products[i].category : i \in chosen}
         /\ SumFunctionOnSet(h, chosen) <= intent.max_budget_paise
    BY <2>1, <2>5, <2>8 DEF evaluate_cart
  <2> HIDE DEF chosen
  <2> QED BY <2>6, <2>7, <2>9, <2>10 DEF Feasible, h
<1>7. ASSUME Feasible(intent, products) PROVE Cart(intent, found) # << >>
  <2>1. PICK X \in SUBSET {i \in DOMAIN products : Valid(intent, products[i])} :
          /\ X # {}
          /\ intent.required_categories \subseteq {products[i].category : i \in X}
          /\ {products[i].category : i \in X} \subseteq intent.required_categories
          /\ SumFunctionOnSet(h, X) <= intent.max_budget_paise
    BY <1>7 DEF Feasible, h
  <2>2. X \in SUBSET (1..N) /\ X \in SUBSET I /\ \A i \in X : Valid(intent, products[i])
    BY <1>5, <2>1 DEF I, Wanted
  <2> DEFINE cart == Greedy(intent, found)
  <2>3. PICK L \in Nat : \E pos \in [1..L -> I] :
             /\ cart = [n \in 1..L |-> products[pos[n]]]
             /\ Greedily(intent, products, I, B, L, pos)
    BY <1>1, <1>2, GreedyFacts
  <2>4. PICK pos \in [1..L -> I] :
             /\ cart = [n \in 1..L |-> products[pos[n]]]
             /\ Greedily(intent, products, I, B, L, pos)
    BY <2>3
  <2> HIDE DEF cart
  <2>5. pos \in [1..L -> 1..N] /\ \A m, n \in 1..L : m # n => pos[m] # pos[n]
    BY <1>1, <2>4, GreedyApart
  <2>6. Categories(cart) = {products[pos[n]].category : n \in 1..L} BY <2>4 DEF Categories
  <2>7. Categories(cart) \cap intent.forbidden_categories = {}
    <3>1. \A n \in 1..L : products[pos[n]].category \notin intent.forbidden_categories
      BY <2>4 DEF Greedily, Valid, evaluate_sku
    <3> QED BY <2>6, <3>1
  <2>8. intent.required_categories \subseteq Categories(cart)
    <3>1. ASSUME NEW q \in intent.required_categories PROVE q \in Categories(cart)
      <4>1. PICK i \in X : products[i].category = q BY <2>1
      <4>2. i \in I /\ Valid(intent, products[i]) BY <2>2
      <4> QED BY <2>4, <2>6, <4>1, <4>2 DEF Greedily
    <3> QED BY <3>1
  <2> DEFINE partner == [n \in 1..L |-> CHOOSE i \in X : products[i].category = products[pos[n]].category]
             f == Prices(cart)
             k == [n \in 1..L |-> h[partner[n]]]
  <2>9. \A n \in 1..L : /\ partner[n] \in X
                        /\ products[partner[n]].category = products[pos[n]].category
    <3>1. \A n \in 1..L : \E i \in X : products[i].category = products[pos[n]].category
      BY <2>1, <2>4 DEF Greedily
    <3> QED BY <3>1
  <2> HIDE DEF partner
  <2>10. \A n \in 1..L : f[n] = h[pos[n]] /\ f[n] \in Nat BY <1>3, <2>4, <2>5 DEF Prices
  <2>11. \A n \in 1..L : ~(h[partner[n]] < h[pos[n]])
    <3>1. ASSUME NEW n \in 1..L PROVE ~(h[partner[n]] < h[pos[n]])
      <4>1. partner[n] \in I /\ Valid(intent, products[partner[n]]) BY <2>2, <2>9
      <4>2. PICK m \in 1..L : /\ products[pos[m]].category = products[partner[n]].category
                              /\ <<partner[n], pos[m]>> \notin B
        BY <1>1, <2>4, <4>1 DEF Greedily
      <4>3. m = n BY <2>4, <2>9, <4>2 DEF Greedily
      <4> QED BY <1>4, <4>1, <4>2, <4>3
    <3> QED BY <3>1
  <2>12. \A m, n \in 1..L : m # n => partner[m] # partner[n] BY <2>4, <2>9 DEF Greedily
  <2>13. \A n \in 1..L : h[partner[n]] \in Nat BY <1>3, <2>2, <2>9
  <2>14. \A n \in 1..L : k[n] \in Int /\ k[n] = h[partner[n]] /\ f[n] \in Int /\ f[n] <= k[n]
    BY <2>10, <2>11, <2>13
  <2>15. Total(cart) = SumFunctionOnSet(f, 1..L) BY <2>4 DEF Total
  <2> DEFINE Y == {partner[n] : n \in 1..L}
  <2> HIDE DEF f, k
  <2>16. IsFiniteSet(1..L) BY FS_Interval
  <2>17. SumFunctionOnSet(f, 1..L) <= SumFunctionOnSet(k, 1..L) BY <2>14, <2>16, SumMonotone
  <2>18. SumFunctionOnSet(k, 1..L) = SumFunctionOnSet(h, Y)
    <3> DEFINE S == 1..L
    <3>1. IsFiniteSet(S) /\ \A x \in S : k[x] \in Int /\ k[x] = h[partner[x]] BY <2>14, <2>16
    <3>2. \A x, y \in S : x # y => partner[x] # partner[y] BY <2>12
    <3> HIDE DEF S
    <3>3. SumFunctionOnSet(k, S) = SumFunctionOnSet(h, {partner[x] : x \in S})
      BY <3>1, <3>2, SumRenamed
    <3> QED BY <3>3 DEF S
  <2>19. Y \in SUBSET X /\ IsFiniteSet(X) /\ \A i \in X : h[i] \in Nat
    BY <1>3, <2>2, <2>9, Positions
  <2> HIDE DEF Y
  <2>20. SumFunctionOnSet(h, Y) <= SumFunctionOnSet(h, X) BY <2>19, SumPart
  <2>21. /\ SumFunctionOnSet(f, 1..L) \in Int /\ SumFunctionOnSet(k, 1..L) \in Int
         /\ SumFunctionOnSet(h, X) \in Int
    <3>1. \A i \in X : h[i] \in Int BY <2>19
    <3> QED BY <2>14, <2>16, <2>19, <3>1, SumInt
  <2>22. Total(cart) <= intent.max_budget_paise
    <3>1. PICK a, b, c \in Int : /\ a = SumFunctionOnSet(f, 1..L)
                                 /\ b = SumFunctionOnSet(k, 1..L)
                                 /\ c = SumFunctionOnSet(h, X)
      BY <2>21
    <3>2. a <= b /\ b <= c /\ c <= intent.max_budget_paise
      BY <2>1, <2>17, <2>18, <2>20, <3>1
    <3>3. a <= intent.max_budget_paise BY <3>2
    <3> QED BY <2>15, <3>1, <3>3
  <2>23. Cart(intent, found) = cart
    <3>1. evaluate_cart(intent, cart, Total(cart)) BY <2>7, <2>8, <2>22 DEF evaluate_cart
    <3> QED BY <3>1, CartIsGreedy DEF cart
  <2>24. Categories(<< >>) = {} BY DEF Categories
  <2>25. intent.required_categories # {} BY <2>1
  <2>26. cart # << >>
    <3>1. CASE cart = << >> BY <2>8, <2>24, <2>25, <3>1
    <3> QED BY <3>1
  <2> QED BY <2>23, <2>26
<1> QED BY <1>6, <1>7 DEF found

=============================================================================
