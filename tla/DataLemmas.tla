------------------------------- MODULE DataLemmas -------------------------------
(***************************************************************************)
(* Facts about the data the models are built from: induction over natural  *)
(* numbers and finite sets, sums, and the enumeration of a finite set in   *)
(* an order.                                                               *)
(*                                                                         *)
(* The induction principles are stated about a set C of what has been      *)
(* shown, instead of a predicate, so that they can be applied to any C.    *)
(* They come down to the least number of a set of natural numbers, which   *)
(* exists because < is well-founded on Nat.                                *)
(***************************************************************************)
EXTENDS Integers, Sequences, FiniteSets, FiniteSetTheorems, TLAPS

-----------------------------------------------------------------------------
(* Induction.                                                              *)

\* A non-empty set of natural numbers has a least element.
LEMMA LeastNumber ==
    ASSUME NEW S \in SUBSET Nat, S # {}
    PROVE  \E n \in S : \A m \in S : n <= m
<1> DEFINE R == OpToRel(<, Nat)
<1>1. IsWellFoundedOn(R, Nat) BY NatLessThanWellFounded
<1>2. \A m, n \in Nat : <<m, n>> \in R <=> m < n BY DEF OpToRel
<1> HIDE DEF R
<1>3. PICK n \in S : \A m \in S : ~ (<<m, n>> \in R) BY <1>1, WFMin
<1>4. \A m \in S : ~ (m < n) BY <1>2, <1>3
<1>5. \A m \in S : m \in Nat /\ n \in Nat OBVIOUS
<1>6. \A m \in S : n <= m BY <1>4, <1>5
<1> QED BY <1>6

\* Induction over 0..N.
LEMMA UpTo ==
    ASSUME NEW N \in Nat, NEW C, 0 \in C,
           \A n \in 0..N : n # N /\ n \in C => n + 1 \in C
    PROVE  \A n \in 0..N : n \in C
<1> SUFFICES ASSUME NEW k \in 0..N, k \notin C PROVE FALSE OBVIOUS
<1> DEFINE T == {n \in 0..N : n \notin C}
<1>1. T \subseteq Nat /\ T # {} OBVIOUS
<1>2. PICK m \in T : \A n \in T : m <= n BY <1>1, LeastNumber
<1>3. m \in 0..N /\ m \notin C /\ m # 0 OBVIOUS
<1>4. m - 1 \in 0..N /\ m - 1 # N /\ m - 1 \notin T /\ (m - 1) + 1 = m BY <1>2, <1>3
<1>5. m - 1 \in C BY <1>4
<1> QED BY <1>3, <1>4, <1>5

\* Induction over the subsets of a finite set: a subset may use all smaller ones.
LEMMA SubsetInduction ==
    ASSUME NEW S, IsFiniteSet(S), NEW C,
           \A T \in SUBSET S : (\A R \in SUBSET T : R # T => R \in C) => T \in C
    PROVE  \A T \in SUBSET S : T \in C
<1> SUFFICES ASSUME NEW A \in SUBSET S, A \notin C PROVE FALSE OBVIOUS
<1> DEFINE Bad == {T \in SUBSET S : T \notin C}
           Sizes == {Cardinality(T) : T \in Bad}
<1>1. \A T \in SUBSET S : IsFiniteSet(T) /\ Cardinality(T) \in Nat
  BY FS_Subset, FS_CardinalityType
<1>2. Sizes \subseteq Nat /\ Sizes # {} BY <1>1
<1>3. PICK n \in Sizes : \A m \in Sizes : n <= m BY <1>2, LeastNumber
<1>4. PICK T \in Bad : n = Cardinality(T) BY <1>3
<1>5. ASSUME NEW R \in SUBSET T, R # T PROVE R \in C
  <2>1. R \in SUBSET S /\ Cardinality(R) \in Nat /\ Cardinality(T) \in Nat BY <1>1
  <2>2. Cardinality(R) <= Cardinality(T) /\ Cardinality(T) # Cardinality(R)
    BY <1>1, <1>5, FS_Subset
  <2>3. ~ (Cardinality(T) <= Cardinality(R)) BY <2>1, <2>2
  <2>4. Cardinality(R) \notin Sizes BY <1>3, <1>4, <2>3
  <2> QED BY <2>1, <2>4
<1> QED BY <1>4, <1>5

-----------------------------------------------------------------------------
(* Sums: SumFunctionOnSet of Functions.  One is defined by a recursive     *)
(* function that picks elements by CHOOSE; that the function exists, and   *)
(* that the order does not matter, is what has to be shown.                *)

Pick(T) == CHOOSE x \in T : TRUE
Added(f, g, T) == IF T = {} THEN 0 ELSE f[Pick(T)] + g[T \ {Pick(T)}]
Adds(f, S, g) == g = [T \in SUBSET S |-> Added(f, g, T)]

LEMMA Picked == \A T : T # {} => Pick(T) \in T
BY DEF Pick

LEMMA SumIsFold == ASSUME NEW f, NEW S PROVE SumFunctionOnSet(f, S) = (CHOOSE g : Adds(f, S, g))[S]
BY DEF SumFunctionOnSet, FoldFunctionOnSet, MapThenFoldSet, Adds, Added, Pick

\* g does what the recursion says on sets of up to n elements.
AddsUpTo(f, S, n, g) ==
    /\ g = [T \in SUBSET S |-> g[T]]
    /\ \A T \in SUBSET S : Cardinality(T) <= n => g[T] = Added(f, g, T)

\* What is left when an element has been picked is a smaller set.
LEMMA LeftOver ==
    ASSUME NEW S, IsFiniteSet(S), NEW T \in SUBSET S
    PROVE  /\ Cardinality(T) \in 0..Cardinality(S)
           /\ T # {} => /\ T \ {Pick(T)} \in SUBSET S
                        /\ Cardinality(T \ {Pick(T)}) = Cardinality(T) - 1
           /\ Cardinality(T) = 0 => T = {}
<1>1. IsFiniteSet(T) /\ Cardinality(T) <= Cardinality(S) BY FS_Subset
<1>2. Cardinality(T) \in Nat /\ Cardinality(S) \in Nat BY <1>1, FS_CardinalityType
<1>3. T # {} => Pick(T) \in T BY Picked
<1>4. Pick(T) \in T => Cardinality(T \ {Pick(T)}) = Cardinality(T) - 1
  BY <1>1, FS_RemoveElement
<1>5. Cardinality(T) = 0 => T = {} BY <1>1, FS_EmptySet
<1> QED BY <1>1, <1>2, <1>3, <1>4, <1>5

\* The recursion defines a function.
LEMMA FoldExists == ASSUME NEW f, NEW S, IsFiniteSet(S) PROVE \E g : Adds(f, S, g)
<1> DEFINE N == Cardinality(S)
           C == {n \in 0..N : \E g : AddsUpTo(f, S, n, g)}
<1>1. N \in Nat BY FS_CardinalityType
<1>2. 0 \in C
  <2> DEFINE g == [T \in SUBSET S |-> 0]
  <2>1. ASSUME NEW T \in SUBSET S, Cardinality(T) <= 0 PROVE g[T] = Added(f, g, T)
    <3>1. Cardinality(T) \in 0..N /\ (Cardinality(T) = 0 => T = {}) BY LeftOver
    <3>2. T = {} BY <1>1, <2>1, <3>1
    <3> QED BY <3>2 DEF Added
  <2>2. AddsUpTo(f, S, 0, g) BY <2>1 DEF AddsUpTo
  <2> HIDE DEF g
  <2> QED BY <1>1, <2>2
<1>3. ASSUME NEW n \in 0..N, n # N, n \in C PROVE n + 1 \in C
  <2>1. PICK g : AddsUpTo(f, S, n, g) BY <1>3
  <2> DEFINE h == [T \in SUBSET S |-> IF Cardinality(T) <= n THEN g[T] ELSE Added(f, g, T)]
  <2>2. ASSUME NEW T \in SUBSET S, Cardinality(T) <= n + 1 PROVE h[T] = Added(f, h, T)
    <3>1. ASSUME T # {} PROVE h[T \ {Pick(T)}] = g[T \ {Pick(T)}]
      <4>1. /\ T \ {Pick(T)} \in SUBSET S
            /\ Cardinality(T \ {Pick(T)}) = Cardinality(T) - 1
            /\ Cardinality(T) \in 0..N
        BY <3>1, LeftOver
      <4>2. Cardinality(T \ {Pick(T)}) <= n BY <1>1, <2>2, <4>1
      <4> QED BY <4>1, <4>2
    <3>2. Added(f, h, T) = Added(f, g, T) BY <3>1 DEF Added
    <3>3. h[T] = Added(f, g, T) BY <2>1 DEF AddsUpTo
    <3> QED BY <3>2, <3>3
  <2>3. AddsUpTo(f, S, n + 1, h) BY <2>2 DEF AddsUpTo
  <2> HIDE DEF h
  <2>4. \E k : AddsUpTo(f, S, n + 1, k) BY <2>3
  <2>5. n + 1 \in 0..N BY <1>1, <1>3
  <2> QED BY <2>4, <2>5
<1>4. N \in C
  <2> HIDE DEF C
  <2> QED BY <1>1, <1>2, <1>3, UpTo
<1>5. PICK g : AddsUpTo(f, S, N, g) BY <1>4
<1>6. ASSUME NEW T \in SUBSET S PROVE g[T] = Added(f, g, T)
  <2>1. Cardinality(T) <= N BY FS_Subset
  <2> QED BY <1>5, <2>1 DEF AddsUpTo
<1>7. g = [T \in SUBSET S |-> Added(f, g, T)] BY <1>5, <1>6 DEF AddsUpTo
<1> QED BY <1>7 DEF Adds

\* It does not depend on the set it is defined for.
LEMMA FoldUnique ==
    ASSUME NEW f, NEW S, IsFiniteSet(S), NEW g, Adds(f, S, g), NEW R, NEW h, Adds(f, R, h)
    PROVE  \A T \in SUBSET S : T \subseteq R => g[T] = h[T]
<1> DEFINE C == {T \in SUBSET S : T \subseteq R => g[T] = h[T]}
<1>1. ASSUME NEW T \in SUBSET S, \A Q \in SUBSET T : Q # T => Q \in C PROVE T \in C
  <2> SUFFICES ASSUME T \subseteq R PROVE g[T] = h[T] OBVIOUS
  <2>1. g[T] = Added(f, g, T) /\ h[T] = Added(f, h, T) BY DEF Adds
  <2>2. CASE T = {} BY <2>1, <2>2 DEF Added
  <2>3. CASE T # {}
    <3>1. Pick(T) \in T BY <2>3, Picked
    <3>2. T \ {Pick(T)} \in C BY <1>1, <3>1
    <3>3. g[T \ {Pick(T)}] = h[T \ {Pick(T)}] BY <3>2
    <3> QED BY <2>1, <3>3 DEF Added
  <2> QED BY <2>2, <2>3
<1> HIDE DEF C
<1>2. \A T \in SUBSET S : T \in C BY <1>1, SubsetInduction
<1> QED BY <1>2 DEF C

\* The recursion equation of a sum.
LEMMA SumRecursion ==
    ASSUME NEW f, NEW S, IsFiniteSet(S)
    PROVE  /\ S = {} => SumFunctionOnSet(f, S) = 0
           /\ S # {} => SumFunctionOnSet(f, S) = f[Pick(S)] + SumFunctionOnSet(f, S \ {Pick(S)})
<1> DEFINE R == S \ {Pick(S)}
           g == CHOOSE g : Adds(f, S, g)
           h == CHOOSE h : Adds(f, R, h)
<1>1. IsFiniteSet(R) BY FS_RemoveElement
<1>2. Adds(f, S, g) /\ Adds(f, R, h) BY <1>1, FoldExists
<1>3. SumFunctionOnSet(f, S) = g[S] /\ SumFunctionOnSet(f, R) = h[R] BY SumIsFold
<1> HIDE DEF g, h
<1>4. h[R] = g[R] BY <1>1, <1>2, FoldUnique
<1>5. g[S] = Added(f, g, S) BY <1>2 DEF Adds
<1> QED BY <1>3, <1>4, <1>5 DEF Added

\* The same for the subsets of a finite set, as the inductions below use it.
LEMMA SumStep ==
    ASSUME NEW f, NEW S, IsFiniteSet(S), NEW T \in SUBSET S
    PROVE  /\ T = {} => SumFunctionOnSet(f, T) = 0
           /\ T # {} => /\ Pick(T) \in T
                        /\ T \ {Pick(T)} \in SUBSET T /\ T \ {Pick(T)} # T
                        /\ SumFunctionOnSet(f, T) = f[Pick(T)] + SumFunctionOnSet(f, T \ {Pick(T)})
<1>1. IsFiniteSet(T) BY FS_Subset
<1> QED BY <1>1, SumRecursion, Picked

\* A sum of integers is an integer, one of natural numbers a natural number.
LEMMA SumInt ==
    ASSUME NEW f, NEW S, IsFiniteSet(S), \A x \in S : f[x] \in Int
    PROVE  SumFunctionOnSet(f, S) \in Int
<1> DEFINE C == {T \in SUBSET S : SumFunctionOnSet(f, T) \in Int}
<1>1. ASSUME NEW T \in SUBSET S, \A R \in SUBSET T : R # T => R \in C PROVE T \in C
  <2>1. /\ T = {} => SumFunctionOnSet(f, T) = 0
        /\ T # {} => /\ Pick(T) \in S /\ T \ {Pick(T)} \in C
                     /\ SumFunctionOnSet(f, T) = f[Pick(T)] + SumFunctionOnSet(f, T \ {Pick(T)})
    BY <1>1, SumStep
  <2> QED BY <2>1
<1> HIDE DEF C
<1>2. S \in C BY <1>1, SubsetInduction
<1> QED BY <1>2 DEF C

LEMMA SumNat ==
    ASSUME NEW f, NEW S, IsFiniteSet(S), \A x \in S : f[x] \in Nat
    PROVE  SumFunctionOnSet(f, S) \in Nat
<1> DEFINE C == {T \in SUBSET S : SumFunctionOnSet(f, T) \in Nat}
<1>1. ASSUME NEW T \in SUBSET S, \A R \in SUBSET T : R # T => R \in C PROVE T \in C
  <2>1. /\ T = {} => SumFunctionOnSet(f, T) = 0
        /\ T # {} => /\ Pick(T) \in S /\ T \ {Pick(T)} \in C
                     /\ SumFunctionOnSet(f, T) = f[Pick(T)] + SumFunctionOnSet(f, T \ {Pick(T)})
    BY <1>1, SumStep
  <2> QED BY <2>1
<1> HIDE DEF C
<1>2. S \in C BY <1>1, SubsetInduction
<1> QED BY <1>2 DEF C

\* A sum depends on the values at its elements only.
LEMMA SumSame ==
    ASSUME NEW f, NEW h, NEW S, IsFiniteSet(S), \A x \in S : f[x] = h[x]
    PROVE  SumFunctionOnSet(f, S) = SumFunctionOnSet(h, S)
<1> DEFINE C == {T \in SUBSET S : SumFunctionOnSet(f, T) = SumFunctionOnSet(h, T)}
<1>1. ASSUME NEW T \in SUBSET S, \A R \in SUBSET T : R # T => R \in C PROVE T \in C
  <2>1. /\ T = {} => SumFunctionOnSet(f, T) = 0 /\ SumFunctionOnSet(h, T) = 0
        /\ T # {} => /\ Pick(T) \in S /\ T \ {Pick(T)} \in C
                     /\ SumFunctionOnSet(f, T) = f[Pick(T)] + SumFunctionOnSet(f, T \ {Pick(T)})
                     /\ SumFunctionOnSet(h, T) = h[Pick(T)] + SumFunctionOnSet(h, T \ {Pick(T)})
    BY <1>1, SumStep
  <2> QED BY <2>1
<1> HIDE DEF C
<1>2. S \in C BY <1>1, SubsetInduction
<1> QED BY <1>2 DEF C

\* Any element may be counted first.
LEMMA SumRemove ==
    ASSUME NEW f, NEW S, IsFiniteSet(S), \A x \in S : f[x] \in Int, NEW y \in S
    PROVE  SumFunctionOnSet(f, S) = f[y] + SumFunctionOnSet(f, S \ {y})
<1> DEFINE C == {T \in SUBSET S :
                    \A x \in T : SumFunctionOnSet(f, T) = f[x] + SumFunctionOnSet(f, T \ {x})}
<1>0. \A T \in SUBSET S : SumFunctionOnSet(f, T) \in Int
  BY FS_Subset, SumInt
<1>1. ASSUME NEW T \in SUBSET S, \A R \in SUBSET T : R # T => R \in C PROVE T \in C
  <2> SUFFICES ASSUME NEW x \in T
               PROVE  SumFunctionOnSet(f, T) = f[x] + SumFunctionOnSet(f, T \ {x})
    OBVIOUS
  <2> DEFINE p == Pick(T)
  <2>1. p \in T /\ SumFunctionOnSet(f, T) = f[p] + SumFunctionOnSet(f, T \ {p}) BY SumStep
  <2> HIDE DEF p
  <2>2. CASE x = p BY <2>1, <2>2
  <2>3. CASE x # p
    <3>1. T \ {p} \in C /\ T \ {x} \in C BY <1>1, <2>1
    <3>2. /\ SumFunctionOnSet(f, T \ {p}) = f[x] + SumFunctionOnSet(f, (T \ {p}) \ {x})
          /\ SumFunctionOnSet(f, T \ {x}) = f[p] + SumFunctionOnSet(f, (T \ {x}) \ {p})
      BY <2>1, <2>3, <3>1
    <3>3. (T \ {p}) \ {x} = (T \ {x}) \ {p} OBVIOUS
    <3>4. PICK a \in Int : a = SumFunctionOnSet(f, (T \ {p}) \ {x}) BY <1>0
    <3>5. PICK b, c \in Int : b = f[x] /\ c = f[p] BY <2>1
    <3>6. c + (b + a) = b + (c + a) OBVIOUS
    <3> QED BY <2>1, <3>2, <3>3, <3>4, <3>5, <3>6
  <2> QED BY <2>2, <2>3
<1> HIDE DEF C
<1>2. S \in C BY <1>1, SubsetInduction
<1> QED BY <1>2 DEF C

\* A sum grows with its terms.
LEMMA SumMonotone ==
    ASSUME NEW f, NEW h, NEW S, IsFiniteSet(S),
           \A x \in S : f[x] \in Int /\ h[x] \in Int /\ f[x] <= h[x]
    PROVE  SumFunctionOnSet(f, S) <= SumFunctionOnSet(h, S)
<1> DEFINE C == {T \in SUBSET S : SumFunctionOnSet(f, T) <= SumFunctionOnSet(h, T)}
<1>0. \A T \in SUBSET S : SumFunctionOnSet(f, T) \in Int /\ SumFunctionOnSet(h, T) \in Int
  BY FS_Subset, SumInt
<1>1. ASSUME NEW T \in SUBSET S, \A R \in SUBSET T : R # T => R \in C PROVE T \in C
  <2>1. /\ T = {} => SumFunctionOnSet(f, T) = 0 /\ SumFunctionOnSet(h, T) = 0
        /\ T # {} => /\ Pick(T) \in S /\ T \ {Pick(T)} \in C
                     /\ SumFunctionOnSet(f, T) = f[Pick(T)] + SumFunctionOnSet(f, T \ {Pick(T)})
                     /\ SumFunctionOnSet(h, T) = h[Pick(T)] + SumFunctionOnSet(h, T \ {Pick(T)})
    BY <1>1, SumStep
  <2> QED BY <1>0, <2>1
<1> HIDE DEF C
<1>2. S \in C BY <1>1, SubsetInduction
<1> QED BY <1>2 DEF C

\* Part of a sum of natural numbers is no more than all of it.
LEMMA SumPart ==
    ASSUME NEW f, NEW S, IsFiniteSet(S), \A x \in S : f[x] \in Nat, NEW R \in SUBSET S
    PROVE  SumFunctionOnSet(f, R) <= SumFunctionOnSet(f, S)
<1> DEFINE C == {T \in SUBSET S : SumFunctionOnSet(f, R \cap T) <= SumFunctionOnSet(f, T)}
<1>0. \A T \in SUBSET S : IsFiniteSet(T) /\ SumFunctionOnSet(f, T) \in Nat BY FS_Subset, SumNat
<1>1. ASSUME NEW T \in SUBSET S, \A Q \in SUBSET T : Q # T => Q \in C PROVE T \in C
  <2>1. CASE T = {} BY <1>0, <2>1
  <2>2. CASE T # {}
    <3> DEFINE p == Pick(T)
               Q == T \ {p}
    <3>1. /\ p \in T /\ Q \in SUBSET S /\ SumFunctionOnSet(f, T) = f[p] + SumFunctionOnSet(f, Q)
          /\ SumFunctionOnSet(f, R \cap Q) <= SumFunctionOnSet(f, Q)
      BY <1>1, <2>2, SumStep
    <3> HIDE DEF p
    <3>2. CASE p \in R
      <4>1. IsFiniteSet(R \cap T) /\ p \in R \cap T /\ \A x \in R \cap T : f[x] \in Int
        BY <1>0, <3>1, <3>2
      <4>2. SumFunctionOnSet(f, R \cap T) = f[p] + SumFunctionOnSet(f, (R \cap T) \ {p})
        BY <4>1, SumRemove
      <4>3. (R \cap T) \ {p} = R \cap Q OBVIOUS
      <4>4. PICK a, b, c \in Nat : /\ a = f[p] /\ c = SumFunctionOnSet(f, Q)
                                   /\ b = SumFunctionOnSet(f, R \cap Q)
        BY <1>0, <3>1
      <4>5. SumFunctionOnSet(f, R \cap T) = a + b /\ SumFunctionOnSet(f, T) = a + c /\ b <= c
        BY <3>1, <4>2, <4>3, <4>4
      <4> QED BY <4>5
    <3>3. CASE p \notin R
      <4>1. R \cap T = R \cap Q BY <3>3
      <4>2. PICK a, b, c \in Nat : /\ a = f[p] /\ c = SumFunctionOnSet(f, Q)
                                   /\ b = SumFunctionOnSet(f, R \cap Q)
        BY <1>0, <3>1
      <4>3. SumFunctionOnSet(f, R \cap T) = b /\ SumFunctionOnSet(f, T) = a + c /\ b <= c
        BY <3>1, <4>1, <4>2
      <4> QED BY <4>3
    <3> QED BY <3>2, <3>3
  <2> QED BY <2>1, <2>2
<1> HIDE DEF C
<1>2. S \in C BY <1>1, SubsetInduction
<1>3. R \cap S = R OBVIOUS
<1> QED BY <1>2, <1>3 DEF C

\* A sum may be taken over other names for the same terms.
LEMMA SumRenamed ==
    ASSUME NEW f, NEW h, NEW S, IsFiniteSet(S), NEW to,
           \A x \in S : f[x] \in Int /\ f[x] = h[to[x]],
           \A x, y \in S : x # y => to[x] # to[y]
    PROVE  /\ IsFiniteSet({to[x] : x \in S})
           /\ SumFunctionOnSet(f, S) = SumFunctionOnSet(h, {to[x] : x \in S})
<1> DEFINE Image(T) == {to[x] : x \in T}
           C == {T \in SUBSET S : /\ IsFiniteSet(Image(T))
                                  /\ SumFunctionOnSet(f, T) = SumFunctionOnSet(h, Image(T))}
<1>1. ASSUME NEW T \in SUBSET S, \A R \in SUBSET T : R # T => R \in C PROVE T \in C
  <2>1. CASE T = {}
    <3>1. Image(T) = {} BY <2>1
    <3>2. IsFiniteSet({}) BY FS_EmptySet
    <3>3. SumFunctionOnSet(f, {}) = 0 /\ SumFunctionOnSet(h, {}) = 0 BY <3>2, SumRecursion
    <3> QED BY <2>1, <3>1, <3>2, <3>3
  <2>2. CASE T # {}
    <3> DEFINE p == Pick(T)
               R == T \ {p}
    <3>1. /\ p \in T /\ SumFunctionOnSet(f, T) = f[p] + SumFunctionOnSet(f, R)
          /\ IsFiniteSet(Image(R)) /\ SumFunctionOnSet(f, R) = SumFunctionOnSet(h, Image(R))
      BY <1>1, <2>2, SumStep
    <3> HIDE DEF p
    <3>2. Image(T) = Image(R) \cup {to[p]} /\ to[p] \notin Image(R) BY <3>1
    <3>7. IsFiniteSet(Image(R) \cup {to[p]}) BY <3>1, FS_AddElement
    <3>3. IsFiniteSet(Image(T)) BY <3>2, <3>7
    <3>4. \A y \in Image(T) : h[y] \in Int OBVIOUS
    <3>5. to[p] \in Image(T) /\ Image(T) \ {to[p]} = Image(R) BY <3>2
    <3>6. SumFunctionOnSet(h, Image(T)) = h[to[p]] + SumFunctionOnSet(h, Image(R))
      BY <3>3, <3>4, <3>5, SumRemove
    <3> QED BY <3>1, <3>3, <3>6
  <2> QED BY <2>1, <2>2
<1> HIDE DEF C
<1>2. S \in C BY <1>1, SubsetInduction
<1> QED BY <1>2 DEF C

-----------------------------------------------------------------------------
(* The enumeration of a finite set in an order, which is a set of pairs.   *)

StrictOrder(R, S) ==
    /\ \A x \in S : <<x, x>> \notin R
    /\ \A x, y, z \in S : <<x, y>> \in R /\ <<y, z>> \in R => <<x, z>> \in R
    /\ \A x, y \in S : x # y => <<x, y>> \in R \/ <<y, x>> \in R

\* order goes through S along R.
Sorted(order, S, R) ==
    /\ order \in [1..Cardinality(S) -> S]
    /\ \A m, n \in 1..Cardinality(S) : m < n => <<order[m], order[n]>> \in R

LEMMA Greatest ==
    ASSUME NEW S, IsFiniteSet(S), NEW R, StrictOrder(R, S), NEW T \in SUBSET S, T # {}
    PROVE  \E x \in T : \A y \in T : y # x => <<y, x>> \in R
<1> DEFINE C == {U \in SUBSET S : U # {} => \E x \in U : \A y \in U : y # x => <<y, x>> \in R}
<1>1. ASSUME NEW U \in SUBSET S, \A Q \in SUBSET U : Q # U => Q \in C PROVE U \in C
  <2> SUFFICES ASSUME U # {} PROVE \E x \in U : \A y \in U : y # x => <<y, x>> \in R
    OBVIOUS
  <2>1. PICK p \in U : TRUE OBVIOUS
  <2>2. CASE U = {p} BY <2>2
  <2>3. CASE U # {p}
    <3>1. U \ {p} \in C /\ U \ {p} # {} BY <1>1, <2>1, <2>3
    <3>2. PICK x \in U \ {p} : \A y \in U \ {p} : y # x => <<y, x>> \in R BY <3>1
    <3>3. CASE <<p, x>> \in R BY <3>2, <3>3
    <3>4. CASE <<x, p>> \in R
      <4>1. \A y \in U : y # p => <<y, p>> \in R BY <3>2, <3>4 DEF StrictOrder
      <4> QED BY <4>1
    <3> QED BY <3>2, <3>3, <3>4 DEF StrictOrder
  <2> QED BY <2>2, <2>3
<1> HIDE DEF C
<1>2. T \in C BY <1>1, SubsetInduction
<1> QED BY <1>2 DEF C

LEMMA SortedExists ==
    ASSUME NEW S, IsFiniteSet(S), NEW R, StrictOrder(R, S)
    PROVE  \E order : Sorted(order, S, R)
<1> DEFINE C == {T \in SUBSET S : \E order : Sorted(order, T, R)}
<1>1. ASSUME NEW T \in SUBSET S, \A Q \in SUBSET T : Q # T => Q \in C PROVE T \in C
  <2>1. IsFiniteSet(T) /\ Cardinality(T) \in Nat BY FS_Subset, FS_CardinalityType
  <2>2. CASE T = {}
    <3>1. Cardinality(T) = 0 BY <2>2, FS_EmptySet
    <3>2. Sorted([n \in {} |-> 0], T, R) BY <3>1 DEF Sorted
    <3> QED BY <3>2
  <2>3. CASE T # {}
    <3>1. PICK x \in T : \A y \in T : y # x => <<y, x>> \in R BY <2>3, Greatest
    <3> DEFINE Q == T \ {x}
               c == Cardinality(T)
    <3>2. Q \in C BY <1>1, <3>1
    <3>3. PICK order : Sorted(order, Q, R) BY <3>2
    <3>4. Cardinality(Q) = c - 1 BY <2>1, FS_RemoveElement
    <3>5. c \in Nat BY <2>1
    <3> HIDE DEF c
    <3>6. order \in [1..(c - 1) -> Q] BY <3>3, <3>4 DEF Sorted
    <3>7. \A m, n \in 1..(c - 1) : m < n => <<order[m], order[n]>> \in R BY <3>3, <3>4 DEF Sorted
    <3> DEFINE new == [n \in 1..c |-> IF n = c THEN x ELSE order[n]]
    <3>8. new \in [1..c -> T]
      <4>1. ASSUME NEW n \in 1..c, n # c PROVE n \in 1..(c - 1) BY <3>5, <4>1
      <4> QED BY <3>6, <4>1
    <3>9. ASSUME NEW m \in 1..c, NEW n \in 1..c, m < n PROVE <<new[m], new[n]>> \in R
      <4>1. m # c /\ m \in 1..(c - 1) BY <3>5, <3>9
      <4>2. CASE n = c
        <5>1. order[m] \in T /\ order[m] # x BY <3>6, <4>1
        <5> QED BY <3>1, <4>1, <4>2, <5>1
      <4>3. CASE n # c
        <5>1. n \in 1..(c - 1) BY <3>5, <4>3
        <5> QED BY <3>7, <3>9, <4>1, <4>3, <5>1
      <4> QED BY <4>2, <4>3
    <3> HIDE DEF new
    <3>10. Sorted(new, T, R) BY <3>8, <3>9 DEF Sorted, c
    <3> QED BY <3>10
  <2> QED BY <2>2, <2>3
<1> HIDE DEF C
<1>2. S \in C BY <1>1, SubsetInduction
<1> QED BY <1>2 DEF C

\* Such an enumeration leaves nothing out and repeats nothing.
LEMMA SortedOnto ==
    ASSUME NEW S, IsFiniteSet(S), NEW R, StrictOrder(R, S), NEW order, Sorted(order, S, R)
    PROVE  /\ \A m, n \in 1..Cardinality(S) : m # n => order[m] # order[n]
           /\ \A x \in S : \E n \in 1..Cardinality(S) : order[n] = x
<1> DEFINE c == Cardinality(S)
<1>1. c \in Nat BY FS_CardinalityType
<1> HIDE DEF c
<1>2. order \in [1..c -> S] BY DEF Sorted, c
<1>3. ASSUME NEW m \in 1..c, NEW n \in 1..c, m # n PROVE order[m] # order[n]
  <2>1. order[m] \in S /\ order[n] \in S BY <1>2
  <2>2. m < n \/ n < m BY <1>1, <1>3
  <2>3. <<order[m], order[n]>> \in R \/ <<order[n], order[m]>> \in R
    BY <2>2 DEF Sorted, c
  <2> QED BY <2>1, <2>3 DEF StrictOrder
<1>4. order \in Injection(1..c, S) BY <1>2, <1>3 DEF Injection, IsInjective
<1>5. Cardinality(1..c) = c BY <1>1, FS_Interval
<1>6. order \in Surjection(1..c, S) BY <1>4, <1>5, FS_Injection DEF c
<1>7. \A x \in S : \E n \in 1..c : order[n] = x BY <1>6 DEF Surjection
<1> QED BY <1>3, <1>7 DEF c

=============================================================================
