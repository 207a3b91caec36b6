--------------------------- MODULE ChaosEngineProofs ---------------------------
(***************************************************************************)
(* Rollback restores the merchant's state, for any number of products and  *)
(* mutations, any merchants, profiles and random choices.                  *)
(*                                                                         *)
(* The values that locations hold need no type: all that counts is which   *)
(* location an injection names and whether the first one that names it     *)
(* knows the merchant's value.                                             *)
(***************************************************************************)
EXTENDS ChaosEngine, SequenceTheorems, TLAPS

\* The clone covers every location; what struck and what is scheduled are
\* sequences.
Shapes ==
    /\ DOMAIN clone = Location
    /\ \E S : injections \in Seq(S)
    /\ \E S : pending \in Seq(S)

\* Scheduled chaos knows the merchant's value, DROP_ATTR apart.
ScheduledKnows ==
    \A k \in DOMAIN pending :
        IF pending[k].family = "catalog"
        THEN pending[k].at = <<"description", 1>> /\ Includes("commerce")
        ELSE pending[k].before = canon[pending[k].at]

Commercial(l) == l[1] \in {"stock", "price", "shipping"}

\* Until commerce chaos has been scheduled, nothing touches what it reads.
CommerceWaits ==
    stage \in {"catalog", "context", "commerce"} =>
        \A k \in DOMAIN injections : ~Commercial(injections[k].at)

EngineInv == Shapes /\ ScheduledKnows /\ CommerceWaits /\ Restorable

-----------------------------------------------------------------------------
\* One more injection, on a location whose first injection it is only if it
\* knows the merchant's value, keeps every location restorable.
LEMMA Recording ==
    ASSUME NEW at, NEW before, Shapes, Restorable,
           UNCHANGED <<canon, profile>>,
           injections' = Append(injections, [at |-> at, before |-> before]),
           \A l \in Location : l # at => clone'[l] = clone[l],
           ~Lost(at) /\ On(at) = {} => before = canon[at]
    PROVE  /\ Restorable'
           /\ \E S : injections' \in Seq(S)
           /\ DOMAIN injections' = DOMAIN injections \cup {Len(injections) + 1}
           /\ \A k \in DOMAIN injections : injections'[k] = injections[k]
           /\ injections'[Len(injections) + 1] = [at |-> at, before |-> before]
<1> DEFINE i == [at |-> at, before |-> before]
           n == Len(injections)
<1>1. PICK S : injections \in Seq(S) BY DEF Shapes
<1>2. injections \in Seq(S \cup {i}) BY <1>1, SeqMonotonic
<1>3. /\ injections' \in Seq(S \cup {i})
      /\ Len(injections') = n + 1
      /\ \A k \in 1..n : injections'[k] = injections[k]
      /\ injections'[n + 1] = i
  BY <1>2, AppendProperties
<1>4. n \in Nat /\ DOMAIN injections = 1..n /\ DOMAIN injections' = 1..(n + 1)
  BY <1>2, <1>3, LenProperties
<1>5. i.at = at /\ i.before = before OBVIOUS
<1> HIDE DEF i, n
<1>6. ASSUME NEW l \in Location, ~Lost(l)'
      PROVE  /\ On(l)' = {} => clone'[l] = canon'[l]
             /\ \A k \in On(l)' : (\A j \in On(l)' : k <= j) => injections'[k].before = canon'[l]
  <2>1. ~Lost(l) BY <1>6 DEF Lost, Includes
  <2>2. On(l) \subseteq On(l)' BY <1>3, <1>4 DEF On
  <2>3. CASE l = at
    <3>1. n + 1 \in On(l)' BY <2>3, <1>3, <1>4, <1>5 DEF On
    <3>2. ASSUME NEW k \in On(l)', \A j \in On(l)' : k <= j
          PROVE  injections'[k].before = canon'[l]
      <4>1. CASE k = n + 1
        <5>1. On(l) = {} BY <4>1, <2>2, <3>2, <1>4 DEF On
        <5> QED BY <5>1, <4>1, <2>1, <2>3, <1>3, <1>5
      <4>2. CASE k # n + 1
        <5>1. k \in On(l) /\ injections'[k] = injections[k] BY <4>2, <3>2, <1>3, <1>4 DEF On
        <5>2. \A j \in On(l) : k <= j BY <2>2, <3>2
        <5> QED BY <5>1, <5>2, <2>1 DEF Restorable
      <4> QED BY <4>1, <4>2
    <3> QED BY <3>1, <3>2
  <2>4. CASE l # at
    <3>1. On(l)' = On(l) BY <2>4, <1>3, <1>4, <1>5 DEF On
    <3>2. \A k \in On(l) : injections'[k] = injections[k] BY <1>3, <1>4 DEF On
    <3>3. clone'[l] = clone[l] BY <2>4
    <3> QED BY <3>1, <3>2, <3>3, <2>1 DEF Restorable
  <2> QED BY <2>3, <2>4
<1>7. Restorable' BY <1>6 DEF Restorable
<1> QED BY <1>3, <1>4, <1>7 DEF i, n

\* What Inject does to the clone: one location changes.
LEMMA Injecting ==
    ASSUME NEW at, NEW before, NEW after, EngineInv, Inject(at, before, after),
           UNCHANGED <<canon, pending, profile, stage>>, ~Commercial(at),
           ~Lost(at) /\ On(at) = {} => before = canon[at]
    PROVE  EngineInv'
<1>1. /\ DOMAIN clone' = Location
      /\ \A l \in Location : l # at => clone'[l] = clone[l]
  BY DEF Inject, EngineInv, Shapes
<1>2. /\ Restorable'
      /\ \E S : injections' \in Seq(S)
      /\ DOMAIN injections' = DOMAIN injections \cup {Len(injections) + 1}
      /\ \A k \in DOMAIN injections : injections'[k] = injections[k]
      /\ injections'[Len(injections) + 1] = [at |-> at, before |-> before]
  BY <1>1, Recording DEF Inject, EngineInv
<1>3. ScheduledKnows' BY DEF EngineInv, ScheduledKnows, Includes
<1>4. CommerceWaits' BY <1>2 DEF EngineInv, CommerceWaits, Commercial
<1>5. Shapes' BY <1>1, <1>2 DEF EngineInv, Shapes
<1> QED BY <1>2, <1>3, <1>4, <1>5 DEF EngineInv

\* A location without an injection holds the merchant's value.
LEMMA Untouched ==
    ASSUME EngineInv, NEW l \in Location, ~Lost(l), On(l) = {}
    PROVE  clone[l] = canon[l]
BY DEF EngineInv, Restorable

LEMMA FieldLocation ==
    ASSUME NEW f \in Fields, NEW p \in 1..Products
    PROVE  <<f, p>> \in Location
BY DEF Location

-----------------------------------------------------------------------------
LEMMA CatalogStep ==
    ASSUME EngineInv, NEW p \in 1..Products, apply_catalog_chaos(p)
    PROVE  EngineInv'
<1> USE DEF apply_catalog_chaos, Sample
<1>1. CASE ambiguous_units(p)
  <2>1. <<"title", p>> \in Location BY FieldLocation DEF Fields
  <2>2. ~Commercial(<<"title", p>>) BY DEF Commercial
  <2> QED BY <1>1, <2>1, <2>2, Injecting, Untouched DEF ambiguous_units
<1>2. CASE stale_descriptive_text(p)
  <2>1. <<"description", p>> \in Location BY FieldLocation DEF Fields
  <2>2. ~Commercial(<<"description", p>>) BY DEF Commercial
  <2> QED BY <1>2, <2>1, <2>2, Injecting, Untouched DEF stale_descriptive_text
<1>3. CASE missing_category_mapping(p)
  <2>1. <<"category", p>> \in Location BY FieldLocation DEF Fields
  <2>2. ~Commercial(<<"category", p>>) BY DEF Commercial
  <2> QED BY <1>3, <2>1, <2>2, Injecting, Untouched DEF missing_category_mapping
<1> QED BY <1>1, <1>2, <1>3

\* A description that context chaos reads as missing is missing at the merchant.
LEMMA ContextStep ==
    ASSUME EngineInv, NEW p \in 1..Products, apply_context_chaos(p)
    PROVE  EngineInv'
<1> DEFINE at == <<"description", p>>
           before == Written(clone[at])
           after == [text |-> before.text, noted |-> TRUE]
<1>1. at \in Location BY FieldLocation DEF Fields
<1>2. ~Commercial(at) BY DEF Commercial
<1>3. Inject(at, before, after) /\ UNCHANGED <<canon, pending, profile, stage>>
  BY DEF apply_context_chaos, Sample
<1>4. ASSUME ~Lost(at), On(at) = {} PROVE before = canon[at]
  <2>1. clone[at] = canon[at] BY <1>1, <1>4, Untouched
  <2>2. canon[at] # None BY <1>4 DEF Lost
  <2> QED BY <2>1, <2>2 DEF Written
<1> HIDE DEF at, before, after
<1> QED BY <1>2, <1>3, <1>4, Injecting

LEMMA DropStep ==
    ASSUME EngineInv, NEW p \in 1..Products, drop_attribute(p)
    PROVE  EngineInv'
<1> DEFINE at == <<"power_watts", p>>
<1>1. at \in Location BY FieldLocation DEF Fields
<1>2. ~Commercial(at) BY DEF Commercial
<1>3. UNCHANGED <<canon, pending, profile, stage>> BY DEF drop_attribute
<1>4. CASE clone[at] = 0
  <2>1. UNCHANGED <<clone, injections>> BY <1>4 DEF drop_attribute
  <2> QED BY <1>3, <2>1
      DEF EngineInv, Shapes, ScheduledKnows, CommerceWaits, Restorable, Lost, On, Includes
<1>5. CASE clone[at] # 0
  <2>1. Inject(at, clone[at], 0) BY <1>5 DEF drop_attribute
  <2> HIDE DEF at
  <2> QED BY <1>1, <1>2, <1>3, <2>1, Injecting, Untouched
<1> QED BY <1>4, <1>5

\* Before commerce chaos no injection names stock, prices or shipping.
LEMMA CommerceReads ==
    ASSUME EngineInv, stage = "commerce", NEW l \in Location, Commercial(l)
    PROVE  clone[l] = canon[l]
<1>1. On(l) = {} BY DEF EngineInv, CommerceWaits, On
<1>2. ~Lost(l) BY DEF Lost, Commercial
<1> QED BY <1>1, <1>2, Untouched

\* What commerce chaos schedules.
LEMMA ScheduledSteps ==
    ASSUME NEW p \in 1..Products, NEW q \in 1..Products, apply_commerce_chaos(p, q)
    PROVE  /\ pending' \in Seq({SellOut(p), Hike(q), NoShipping, DropMark})
           /\ \A k \in DOMAIN pending' : pending'[k] \in {SellOut(p), Hike(q), NoShipping, DropMark}
<1> DEFINE sold == IF clone[<<"stock", p>>] > 0 THEN <<SellOut(p)>> ELSE << >>
           rest == <<Hike(q), NoShipping, DropMark>>
           E == {SellOut(p), Hike(q), NoShipping, DropMark}
<1>1. pending' = sold \o rest BY DEF apply_commerce_chaos
<1>2. sold \in Seq(E) /\ rest \in Seq(E) BY Z3
<1> HIDE DEF E, sold, rest
<1>3. pending' \in Seq(E) BY <1>1, <1>2, ConcatProperties
<1>4. \A k \in DOMAIN pending' : pending'[k] \in E BY <1>3, ElementOfSeq, LenProperties
<1> QED BY <1>3, <1>4 DEF E

LEMMA CommerceStep ==
    ASSUME EngineInv, NEW p \in 1..Products, NEW q \in 1..Products, apply_commerce_chaos(p, q)
    PROVE  EngineInv'
<1> DEFINE known(e) == IF e.family = "catalog"
                       THEN e.at = <<"description", 1>> /\ Includes("commerce")
                       ELSE e.before = canon[e.at]
<1>1. /\ stage = "commerce" /\ Includes("commerce")
      /\ UNCHANGED <<canon, clone, injections, profile, stage>>
  BY DEF apply_commerce_chaos
<1>2. known(SellOut(p))
  <2>1. <<"stock", p>> \in Location BY FieldLocation DEF Fields
  <2>2. clone[<<"stock", p>>] = canon[<<"stock", p>>] BY <1>1, <2>1, CommerceReads DEF Commercial
  <2> QED BY <2>2 DEF SellOut, Scheduled
<1>3. known(Hike(q))
  <2>1. <<"price", q>> \in Location BY FieldLocation DEF Fields
  <2>2. clone[<<"price", q>>] = canon[<<"price", q>>] BY <1>1, <2>1, CommerceReads DEF Commercial
  <2> QED BY <2>2 DEF Hike, Scheduled
<1>4. known(NoShipping)
  <2>1. Shipping \in Location BY DEF Location
  <2>2. clone[Shipping] = canon[Shipping] BY <1>1, <2>1, CommerceReads DEF Commercial, Shipping
  <2> QED BY <2>2 DEF NoShipping, Scheduled
<1>5. known(DropMark) BY <1>1 DEF DropMark, Scheduled
<1> DEFINE E == {SellOut(p), Hike(q), NoShipping, DropMark}
<1>6. \A e \in E : known(e) BY <1>2, <1>3, <1>4, <1>5
<1>7. pending' \in Seq(E) /\ \A k \in DOMAIN pending' : pending'[k] \in E BY ScheduledSteps
<1> HIDE DEF E
<1>8. ScheduledKnows'
  <2>1. ASSUME NEW k \in DOMAIN pending' PROVE known(pending'[k]) BY <1>6, <1>7
  <2> QED BY <1>1, <2>1 DEF ScheduledKnows, Includes
<1> HIDE DEF known
<1>9. Shapes' BY <1>1, <1>7 DEF EngineInv, Shapes
<1>10. CommerceWaits' BY <1>1 DEF EngineInv, CommerceWaits
<1>11. Restorable' BY <1>1 DEF EngineInv, Restorable, Lost, On, Includes
<1> QED BY <1>8, <1>9, <1>10, <1>11 DEF EngineInv

LEMMA FamilyStep ==
    ASSUME EngineInv, NextFamily
    PROVE  EngineInv'
<1>1. UNCHANGED <<canon, clone, injections, pending, profile>> BY DEF NextFamily
<1>2. stage' \in {"catalog", "context", "commerce"} => stage \in {"catalog", "context", "commerce"}
  BY DEF NextFamily, Following, Families
<1>3. CommerceWaits' BY <1>1, <1>2 DEF EngineInv, CommerceWaits
<1> QED BY <1>1, <1>3 DEF EngineInv, Shapes, ScheduledKnows, Restorable, Lost, On, Includes

-----------------------------------------------------------------------------
LEMMA RemovedOne ==
    ASSUME NEW S, NEW s \in Seq(S), NEW k \in DOMAIN s
    PROVE  /\ Without(s, k) \in Seq(S)
           /\ \A j \in DOMAIN Without(s, k) : \E i \in DOMAIN s : Without(s, k)[j] = s[i]
<1> DEFINE a == SubSeq(s, 1, k - 1)
           b == SubSeq(s, k + 1, Len(s))
<1>1. Len(s) \in Nat /\ DOMAIN s = 1..Len(s) /\ k \in 1..Len(s) BY LenProperties
<1>2. /\ a \in Seq(S) /\ Len(a) = k - 1
      /\ \A j \in 1..(k - 1) : a[j] = s[j]
  <2>1. 1 \in Int /\ k - 1 \in Int BY <1>1
  <2>2. \A i \in 1..(k - 1) : s[i] \in S BY <1>1, ElementOfSeq
  <2>3. /\ a \in Seq(S)
        /\ Len(a) = IF 1 <= k - 1 THEN (k - 1) - 1 + 1 ELSE 0
        /\ \A i \in 1..((k - 1) - 1 + 1) : a[i] = s[1 + i - 1]
    BY <2>1, <2>2, SubSeqProperties
  <2> HIDE DEF a
  <2> QED BY <2>3, <1>1
<1>3. /\ b \in Seq(S) /\ Len(b) = Len(s) - k
      /\ \A j \in 1..(Len(s) - k) : b[j] = s[k + j]
  <2>1. k + 1 \in Int /\ Len(s) \in Int BY <1>1
  <2>2. \A i \in (k + 1)..Len(s) : s[i] \in S BY <1>1, ElementOfSeq
  <2>3. /\ b \in Seq(S)
        /\ Len(b) = IF k + 1 <= Len(s) THEN Len(s) - (k + 1) + 1 ELSE 0
        /\ \A i \in 1..(Len(s) - (k + 1) + 1) : b[i] = s[(k + 1) + i - 1]
    BY <2>1, <2>2, SubSeqProperties
  <2> HIDE DEF b
  <2>4. Len(b) = Len(s) - k BY <2>3, <1>1
  <2>5. ASSUME NEW j \in 1..(Len(s) - k) PROVE b[j] = s[k + j]
    <3>1. j \in 1..(Len(s) - (k + 1) + 1) /\ (k + 1) + j - 1 = k + j BY <1>1
    <3> QED BY <3>1, <2>3
  <2> QED BY <2>3, <2>4, <2>5
<1> HIDE DEF a, b
<1>4. /\ a \o b \in Seq(S) /\ Len(a \o b) = Len(s) - 1
      /\ \A j \in 1..(Len(s) - 1) :
            (a \o b)[j] = IF j <= k - 1 THEN a[j] ELSE b[j - (k - 1)]
  <2>1. /\ a \o b \in Seq(S) /\ Len(a \o b) = Len(a) + Len(b)
        /\ \A j \in 1..(Len(a) + Len(b)) :
              (a \o b)[j] = IF j <= Len(a) THEN a[j] ELSE b[j - Len(a)]
    BY <1>2, <1>3, ConcatProperties
  <2>2. Len(a) + Len(b) = Len(s) - 1 BY <1>1, <1>2, <1>3
  <2> QED BY <2>1, <2>2, <1>2
<1>5. DOMAIN (a \o b) = 1..(Len(s) - 1)
  <2>1. DOMAIN (a \o b) = 1..Len(a \o b) BY <1>4, LenProperties
  <2> QED BY <2>1, <1>4
<1>6. ASSUME NEW j \in DOMAIN (a \o b)
      PROVE  \E i \in DOMAIN s : (a \o b)[j] = s[i]
  <2>1. j \in 1..(Len(s) - 1) BY <1>5
  <2>2. CASE j <= k - 1
    <3>1. (a \o b)[j] = a[j] BY <2>1, <2>2, <1>4
    <3>2. j \in 1..(k - 1) /\ j \in DOMAIN s BY <2>1, <2>2, <1>1
    <3> QED BY <3>1, <3>2, <1>2
  <2>3. CASE ~(j <= k - 1)
    <3>1. (a \o b)[j] = b[j - (k - 1)] BY <2>1, <2>3, <1>4
    <3>2. j - (k - 1) \in 1..(Len(s) - k) /\ k + (j - (k - 1)) \in DOMAIN s BY <2>1, <2>3, <1>1
    <3>3. b[j - (k - 1)] = s[k + (j - (k - 1))] BY <3>2, <1>3
    <3> QED BY <3>1, <3>2, <3>3
  <2> QED BY <2>2, <2>3
<1>7. Without(s, k) = a \o b BY DEF Without, a, b
<1> QED BY <1>4, <1>6, <1>7

LEMMA StrikeStep ==
    ASSUME EngineInv, NEW boundary, trigger_boundary(boundary)
    PROVE  EngineInv'
<1>1. PICK k \in Due(boundary) :
        /\ IF pending[k].family = "catalog"
           THEN clone' = clone
           ELSE clone' = [clone EXCEPT ![pending[k].at] = pending[k].after]
        /\ injections' = Append(injections, [at |-> pending[k].at, before |-> pending[k].before])
        /\ pending' = Without(pending, k)
        /\ stage' \in {"applied", "striking"}
  BY DEF trigger_boundary
<1>2. k \in DOMAIN pending BY DEF Due
<1>3. UNCHANGED <<canon, profile>> BY DEF trigger_boundary
<1>4. /\ DOMAIN clone' = Location
      /\ \A l \in Location : l # pending[k].at => clone'[l] = clone[l]
  BY <1>1 DEF EngineInv, Shapes
<1>5. ~Lost(pending[k].at) => pending[k].before = canon[pending[k].at]
  BY <1>2 DEF EngineInv, ScheduledKnows, Lost
<1>6. /\ Restorable'
      /\ \E S : injections' \in Seq(S)
  BY <1>1, <1>3, <1>4, <1>5, Recording DEF EngineInv
<1>7. /\ \E S : pending' \in Seq(S)
      /\ \A j \in DOMAIN pending' : \E i \in DOMAIN pending : pending'[j] = pending[i]
  <2>1. PICK S : pending \in Seq(S) BY DEF EngineInv, Shapes
  <2> QED BY <1>1, <1>2, <2>1, RemovedOne
<1>8. ScheduledKnows' BY <1>3, <1>7 DEF EngineInv, ScheduledKnows, Includes
<1>9. CommerceWaits' BY <1>1 DEF CommerceWaits
<1>10. Shapes' BY <1>4, <1>6, <1>7 DEF Shapes
<1> QED BY <1>6, <1>8, <1>9, <1>10 DEF EngineInv

\* Undoing the last injection: if it is the first on its location, the merchant's
\* value is back; if not, the first one is still there.
LEMMA RollbackStep ==
    ASSUME EngineInv, rollback
    PROVE  EngineInv'
<1> DEFINE n == Len(injections)
           last == injections[n]
<1>1. PICK S : injections \in Seq(S) BY DEF EngineInv, Shapes
<1>2. n \in Nat /\ n > 0 /\ DOMAIN injections = 1..n
  BY <1>1, LenProperties, EmptySeq DEF rollback
<1>3. /\ clone' = [clone EXCEPT ![last.at] = last.before]
      /\ injections' = SubSeq(injections, 1, n - 1)
      /\ stage' \in {"applied", "rollback"}
      /\ UNCHANGED <<canon, pending, profile>>
  BY DEF rollback
<1>4. /\ injections' \in Seq(S) /\ Len(injections') = n - 1
      /\ \A k \in 1..(n - 1) : injections'[k] = injections[k]
  <2>1. 1 \in 1..(n + 1) /\ n - 1 \in 0..n BY <1>2
  <2> HIDE DEF n
  <2> QED BY <1>1, <1>2, <1>3, <2>1, SubSeqProperties DEF n
<1>5. DOMAIN injections' = 1..(n - 1) BY <1>4, LenProperties
<1>6. /\ DOMAIN clone' = Location
      /\ \A l \in Location : clone'[l] = IF l = last.at THEN last.before ELSE clone[l]
  BY <1>3 DEF EngineInv, Shapes
<1> HIDE DEF n, last
<1>7. ASSUME NEW l \in Location, ~Lost(l)'
      PROVE  /\ On(l)' = {} => clone'[l] = canon'[l]
             /\ \A k \in On(l)' : (\A j \in On(l)' : k <= j) => injections'[k].before = canon'[l]
  <2>1. ~Lost(l) BY <1>3, <1>7 DEF Lost, Includes
  <2>2. On(l)' = On(l) \ {n} BY <1>2, <1>4, <1>5 DEF On
  <2>3. n \in On(l) <=> l = last.at BY <1>2 DEF On, last
  <2>4. On(l) \subseteq 1..n BY <1>2 DEF On
  <2>5. ASSUME On(l)' = {} PROVE clone'[l] = canon'[l]
    <3>1. CASE l = last.at
      <4>1. \A j \in On(l) : n <= j BY <2>2, <2>5, <1>2, <2>4
      <4>2. last.before = canon[l] BY <4>1, <2>1, <2>3, <3>1 DEF EngineInv, Restorable, last
      <4> QED BY <4>2, <3>1, <1>3, <1>6
    <3>2. CASE l # last.at
      <4>1. On(l) = {} BY <2>2, <2>3, <2>5, <3>2
      <4> QED BY <4>1, <2>1, <3>2, <1>3, <1>6 DEF EngineInv, Restorable
    <3> QED BY <3>1, <3>2
  <2>6. ASSUME NEW k \in On(l)', \A j \in On(l)' : k <= j
        PROVE  injections'[k].before = canon'[l]
    <3>1. k \in On(l) /\ k # n BY <2>2, <2>6
    <3>2. k <= n BY <3>1, <2>4, <1>2
    <3>3. \A j \in On(l) : k <= j BY <2>2, <2>6, <3>2
    <3>4. injections'[k] = injections[k] BY <3>1, <2>4, <1>2, <1>4
    <3> QED BY <3>1, <3>3, <3>4, <2>1, <1>3 DEF EngineInv, Restorable
  <2> QED BY <2>5, <2>6
<1>8. Restorable' BY <1>7 DEF Restorable
<1>9. ScheduledKnows' BY <1>3 DEF EngineInv, ScheduledKnows, Includes
<1>10. CommerceWaits' BY <1>3 DEF CommerceWaits
<1>11. Shapes' BY <1>3, <1>4, <1>6 DEF EngineInv, Shapes
<1> QED BY <1>8, <1>9, <1>10, <1>11 DEF EngineInv

-----------------------------------------------------------------------------
LEMMA Starting ==
    ASSUME NEW m \in Merchants, canon' = m, clone' = m, injections' = << >>, pending' = << >>
    PROVE  EngineInv'
<1>1. DOMAIN clone' = Location BY EngineAssumption DEF WellFormed
<1>2. << >> \in Seq({}) BY EmptySeq
<1>3. DOMAIN injections' = {} /\ DOMAIN pending' = {} OBVIOUS
<1> QED BY <1>1, <1>2, <1>3
    DEF EngineInv, Shapes, ScheduledKnows, CommerceWaits, Restorable, On

LEMMA EngineInitInv == EngineInit => EngineInv
<1> SUFFICES ASSUME EngineInit PROVE EngineInv OBVIOUS
<1>1. DOMAIN clone = Location BY EngineAssumption DEF EngineInit, WellFormed
<1>2. << >> \in Seq({}) BY EmptySeq
<1>3. DOMAIN injections = {} /\ DOMAIN pending = {} BY DEF EngineInit
<1> QED BY <1>1, <1>2, <1>3
    DEF EngineInit, EngineInv, Shapes, ScheduledKnows, CommerceWaits, Restorable, On

LEMMA EngineNextInv == EngineInv /\ [EngineNext]_engine => EngineInv'
<1> SUFFICES ASSUME EngineInv, [EngineNext]_engine PROVE EngineInv' OBVIOUS
<1>1. CASE \E m \in Merchants, requested \in Profiles : Apply(m, requested)
  BY <1>1, Starting DEF Apply
<1>2. CASE ApplyStep
  BY <1>2, CatalogStep, ContextStep, DropStep, CommerceStep, FamilyStep DEF ApplyStep
<1>3. CASE trigger_boundary("READY_FOR_PAYMENT") BY <1>3, StrikeStep
<1>4. CASE rollback BY <1>4, RollbackStep
<1>5. CASE UNCHANGED engine
  BY <1>5 DEF engine, EngineInv, Shapes, ScheduledKnows, CommerceWaits, Restorable, Lost, On, Includes
<1> QED BY <1>1, <1>2, <1>3, <1>4, <1>5 DEF EngineNext

\* Whatever struck, in whatever order and at whatever boundary, each location can
\* be unwound to the merchant's value.
THEOREM AlwaysRestorable == EngineSpec => []Restorable
<1>1. EngineInv => Restorable BY DEF EngineInv
<1> QED BY <1>1, EngineInitInv, EngineNextInv, PTL DEF EngineSpec

\* A rolled back engine holds the merchant's state again.
THEOREM RollbackRestoresMerchant == EngineSpec => []RollbackRestores
<1>1. EngineInv => RollbackRestores
  <2> SUFFICES ASSUME EngineInv, injections = << >>, NEW l \in Location, ~Lost(l)
               PROVE  clone[l] = canon[l]
    BY DEF RollbackRestores
  <2>1. On(l) = {} BY DEF On
  <2> QED BY <2>1, Untouched
<1> QED BY <1>1, EngineInitInv, EngineNextInv, PTL DEF EngineSpec

-----------------------------------------------------------------------------
(* Chaos hides what the merchant says and never makes anything up about    *)
(* category and attributes, which is what the buyers below rely on.        *)

\* What a location may hold in a clone, if it holds truth at the merchant.
Fits(l, truth, v) ==
    /\ l[1] = "shipping" => v \in BOOLEAN
    /\ l[1] = "title" => v \in Title
    /\ l[1] = "description" => v \in Description
    /\ l[1] = "category" => v = truth \/ v = "unknown"
    /\ l[1] \in {"stock", "price"} => v \in Nat
    /\ l[1] = "power_watts" => v = truth \/ v = 0
    /\ l[1] \in {"wattage", "connector"} => v = truth

\* What rollback will write fits.
Known(i) == i.at \in Location /\ Fits(i.at, canon[i.at], i.before)

\* The clone, what rollback will write and what is scheduled all fit.
OnlyHides ==
    /\ canon \in Merchants
    /\ \A l \in Location : Fits(l, canon[l], clone[l])
    /\ \A k \in DOMAIN injections : Known(injections[k])
    /\ \A k \in DOMAIN pending :
        Known(pending[k]) /\ Fits(pending[k].at, canon[pending[k].at], pending[k].after)

LEMMA MerchantFits ==
    ASSUME NEW m \in Merchants, NEW l \in Location
    PROVE  Fits(l, m[l], m[l])
<1>1. WellFormed(m, CategoriesOf(m), ConnectorsOf(m)) BY EngineAssumption
<1>2. CASE l = Shipping BY <1>1, <1>2 DEF Fits, Shipping, WellFormed
<1>3. CASE l # Shipping
  <2>1. PICK f \in Fields, p \in 1..Products : l = <<f, p>> BY <1>3 DEF Location
  <2>2. l[1] = f BY <2>1
  <2>3. f = "title" => m[l] \in Title BY <1>1, <2>1 DEF WellFormed
  <2>4. f = "description" => m[l] \in Description BY <1>1, <2>1 DEF WellFormed
  <2>5. f \in {"stock", "price"} => m[l] \in Nat BY <1>1, <2>1 DEF WellFormed
  <2> QED BY <2>2, <2>3, <2>4, <2>5 DEF Fits, Fields
<1> QED BY <1>2, <1>3

LEMMA Appended ==
    ASSUME NEW s, \E S : s \in Seq(S), NEW e
    PROVE  /\ DOMAIN Append(s, e) = DOMAIN s \cup {Len(s) + 1}
           /\ \A k \in DOMAIN s : Append(s, e)[k] = s[k]
           /\ Append(s, e)[Len(s) + 1] = e
<1>1. PICK S : s \in Seq(S) OBVIOUS
<1>2. s \in Seq(S \cup {e}) BY <1>1, SeqMonotonic
<1>3. /\ Append(s, e) \in Seq(S \cup {e}) /\ Len(Append(s, e)) = Len(s) + 1
      /\ \A k \in 1..Len(s) : Append(s, e)[k] = s[k]
      /\ Append(s, e)[Len(s) + 1] = e
  BY <1>2, AppendProperties
<1>4. /\ Len(s) \in Nat /\ DOMAIN s = 1..Len(s)
      /\ DOMAIN Append(s, e) = 1..(Len(s) + 1)
  BY <1>2, <1>3, LenProperties
<1> QED BY <1>3, <1>4

\* One location is overwritten by something that fits.
LEMMA Overwriting ==
    ASSUME NEW at \in Location, NEW before, NEW after, EngineInv, OnlyHides,
           Fits(at, canon[at], before), Fits(at, canon[at], after), Inject(at, before, after),
           UNCHANGED <<canon, pending>>
    PROVE  OnlyHides'
<1>1. \A l \in Location : clone'[l] = IF l = at THEN after ELSE clone[l]
  BY DEF Inject, EngineInv, Shapes
<1>2. \A l \in Location : Fits(l, canon[l], clone'[l]) BY <1>1 DEF OnlyHides
<1> DEFINE i == [at |-> at, before |-> before]
<1>3. /\ DOMAIN injections' = DOMAIN injections \cup {Len(injections) + 1}
      /\ \A k \in DOMAIN injections : injections'[k] = injections[k]
      /\ injections'[Len(injections) + 1] = i
  BY Appended DEF Inject, EngineInv, Shapes
<1>4. i.at = at /\ i.before = before OBVIOUS
<1> HIDE DEF i
<1>5. \A k \in DOMAIN injections' : Known(injections'[k])
  BY <1>3, <1>4 DEF OnlyHides, Known
<1> QED BY <1>2, <1>5 DEF OnlyHides, Known

LEMMA CatalogHides ==
    ASSUME EngineInv, OnlyHides, NEW p \in 1..Products, apply_catalog_chaos(p)
    PROVE  OnlyHides'
<1>1. \A f \in Fields : <<f, p>> \in Location /\ Fits(<<f, p>>, canon[<<f, p>>], clone[<<f, p>>])
  BY FieldLocation DEF OnlyHides
<1>2. UNCHANGED <<canon, pending>> BY DEF apply_catalog_chaos, Sample
<1>3. CASE ambiguous_units(p)
  <2>1. Fits(<<"title", p>>, canon[<<"title", p>>], "ambiguous") BY DEF Fits, Title
  <2> QED BY <1>1, <1>2, <1>3, <2>1, Overwriting DEF ambiguous_units, Fields
<1>4. CASE stale_descriptive_text(p)
  <2>1. Fits(<<"description", p>>, canon[<<"description", p>>], Stale) BY DEF Fits, Stale, Description
  <2> QED BY <1>1, <1>2, <1>4, <2>1, Overwriting DEF stale_descriptive_text, Fields
<1>5. CASE missing_category_mapping(p)
  <2>1. Fits(<<"category", p>>, canon[<<"category", p>>], "unknown") BY DEF Fits
  <2> QED BY <1>1, <1>2, <1>5, <2>1, Overwriting DEF missing_category_mapping, Fields
<1> QED BY <1>3, <1>4, <1>5 DEF apply_catalog_chaos

LEMMA ContextHides ==
    ASSUME EngineInv, OnlyHides, NEW p \in 1..Products, apply_context_chaos(p)
    PROVE  OnlyHides'
<1> DEFINE at == <<"description", p>>
           before == Written(clone[at])
           after == [text |-> before.text, noted |-> TRUE]
<1>1. at \in Location BY FieldLocation DEF Fields
<1>2. Inject(at, before, after) /\ UNCHANGED <<canon, pending>>
  BY DEF apply_context_chaos, Sample
<1>3. clone[at] \in Description
  <2>1. Fits(at, canon[at], clone[at]) BY <1>1 DEF OnlyHides
  <2>2. at[1] = "description" OBVIOUS
  <2> HIDE DEF at
  <2> QED BY <2>1, <2>2 DEF Fits
<1>4. before \in Description BY <1>3 DEF Written, Description, Empty
<1>5. after \in Description BY <1>4 DEF Description
<1>6. Fits(at, canon[at], before) /\ Fits(at, canon[at], after) BY <1>4, <1>5 DEF Fits
<1> HIDE DEF at, before, after
<1> QED BY <1>1, <1>2, <1>6, Overwriting

LEMMA DropHides ==
    ASSUME EngineInv, OnlyHides, NEW p \in 1..Products, drop_attribute(p)
    PROVE  OnlyHides'
<1> DEFINE at == <<"power_watts", p>>
<1>1. at \in Location BY FieldLocation DEF Fields
<1>2. UNCHANGED <<canon, pending>> BY DEF drop_attribute
<1>3. Fits(at, canon[at], clone[at]) BY <1>1 DEF OnlyHides
<1>4. Fits(at, canon[at], 0) BY DEF Fits
<1>5. CASE UNCHANGED <<clone, injections>> BY <1>2, <1>5 DEF OnlyHides, Known
<1>6. CASE Inject(at, clone[at], 0)
  <2> HIDE DEF at
  <2> QED BY <1>1, <1>2, <1>3, <1>4, <1>6, Overwriting
<1> QED BY <1>5, <1>6 DEF drop_attribute

LEMMA CommerceHides ==
    ASSUME EngineInv, OnlyHides, NEW p \in 1..Products, NEW q \in 1..Products,
           apply_commerce_chaos(p, q)
    PROVE  OnlyHides'
<1> DEFINE fitting(e) == Known(e) /\ Fits(e.at, canon[e.at], e.after)
           stock == <<"stock", p>>
           price == <<"price", q>>
<1>1. UNCHANGED <<canon, clone, injections>> BY DEF apply_commerce_chaos
<1>2. stock \in Location /\ price \in Location BY FieldLocation DEF Fields
<1>3. clone[stock] \in Nat /\ clone[price] \in Nat
  <2>1. Fits(stock, canon[stock], clone[stock]) /\ Fits(price, canon[price], clone[price])
    BY <1>2 DEF OnlyHides
  <2>2. stock[1] = "stock" /\ price[1] = "price" OBVIOUS
  <2> HIDE DEF stock, price
  <2> QED BY <2>1, <2>2 DEF Fits
<1>4. fitting(SellOut(p)) BY <1>2, <1>3 DEF SellOut, Scheduled, Known, Fits
<1>5. fitting(Hike(q))
  <2>1. Hiked(clone[price]) \in Nat BY <1>3 DEF Hiked
  <2> QED BY <1>2, <1>3, <2>1 DEF Hike, Scheduled, Known, Fits
<1>6. fitting(NoShipping)
  <2>1. Shipping \in Location BY DEF Location
  <2>2. /\ Fits(Shipping, canon[Shipping], clone[Shipping])
          /\ Fits(Shipping, canon[Shipping], FALSE)
    BY <2>1 DEF OnlyHides, Fits, Shipping
  <2> QED BY <2>1, <2>2 DEF NoShipping, Scheduled, Known
<1>7. fitting(DropMark)
  <2>1. <<"description", 1>> \in Location BY FieldLocation, EngineAssumption DEF Fields
  <2> QED BY <2>1 DEF DropMark, Scheduled, Known, Fits, Description, Empty
<1>8. \A k \in DOMAIN pending' : fitting(pending'[k]) BY <1>4, <1>5, <1>6, <1>7, ScheduledSteps
<1> QED BY <1>1, <1>8 DEF OnlyHides, Known

LEMMA StrikeHides ==
    ASSUME EngineInv, OnlyHides, NEW boundary, trigger_boundary(boundary)
    PROVE  OnlyHides'
<1>1. PICK k \in DOMAIN pending :
        /\ clone' = clone \/ clone' = [clone EXCEPT ![pending[k].at] = pending[k].after]
        /\ injections' = Append(injections, [at |-> pending[k].at, before |-> pending[k].before])
        /\ pending' = Without(pending, k)
  BY DEF trigger_boundary, Due
<1>2. UNCHANGED canon BY DEF trigger_boundary
<1>3. Known(pending[k]) /\ Fits(pending[k].at, canon[pending[k].at], pending[k].after)
  BY DEF OnlyHides
<1>4. \A l \in Location : \/ clone'[l] = clone[l]
                          \/ l = pending[k].at /\ clone'[l] = pending[k].after
  BY <1>1 DEF EngineInv, Shapes
<1>5. \A l \in Location : Fits(l, canon[l], clone'[l]) BY <1>3, <1>4 DEF OnlyHides
<1> DEFINE i == [at |-> pending[k].at, before |-> pending[k].before]
<1>6. /\ DOMAIN injections' = DOMAIN injections \cup {Len(injections) + 1}
      /\ \A j \in DOMAIN injections : injections'[j] = injections[j]
      /\ injections'[Len(injections) + 1] = i
  BY <1>1, Appended DEF EngineInv, Shapes
<1>7. i.at = pending[k].at /\ i.before = pending[k].before OBVIOUS
<1> HIDE DEF i
<1>8. \A j \in DOMAIN injections' : Known(injections'[j])
  BY <1>3, <1>6, <1>7 DEF OnlyHides, Known
<1>9. \A j \in DOMAIN pending' : \E n \in DOMAIN pending : pending'[j] = pending[n]
  <2>1. PICK S : pending \in Seq(S) BY DEF EngineInv, Shapes
  <2> QED BY <1>1, <2>1, RemovedOne
<1>10. \A j \in DOMAIN pending' :
        Known(pending'[j]) /\ Fits(pending'[j].at, canon[pending'[j].at], pending'[j].after)
  BY <1>9 DEF OnlyHides
<1> QED BY <1>2, <1>5, <1>8, <1>10 DEF OnlyHides, Known

LEMMA RollbackHides ==
    ASSUME EngineInv, OnlyHides, rollback
    PROVE  OnlyHides'
<1> DEFINE n == Len(injections)
           last == injections[n]
<1>1. PICK S : injections \in Seq(S) BY DEF EngineInv, Shapes
<1>2. n \in Nat /\ n > 0 /\ DOMAIN injections = 1..n
  BY <1>1, LenProperties, EmptySeq DEF rollback
<1>3. /\ clone' = [clone EXCEPT ![last.at] = last.before]
      /\ injections' = SubSeq(injections, 1, n - 1)
      /\ UNCHANGED <<canon, pending>>
  BY DEF rollback
<1>4. /\ injections' \in Seq(S) /\ Len(injections') = n - 1
      /\ \A k \in 1..(n - 1) : injections'[k] = injections[k]
  <2>1. 1 \in 1..(n + 1) /\ n - 1 \in 0..n BY <1>2
  <2> HIDE DEF n
  <2> QED BY <1>1, <1>2, <1>3, <2>1, SubSeqProperties DEF n
<1>5. DOMAIN injections' = 1..(n - 1) BY <1>4, LenProperties
<1>6. \A l \in Location : clone'[l] = IF l = last.at THEN last.before ELSE clone[l]
  BY <1>3 DEF EngineInv, Shapes
<1>7. n \in DOMAIN injections BY <1>2
<1> HIDE DEF n
<1>8. Fits(last.at, canon[last.at], last.before) BY <1>7 DEF OnlyHides, Known
<1> HIDE DEF last
<1>9. \A l \in Location : Fits(l, canon[l], clone'[l]) BY <1>6, <1>8 DEF OnlyHides
<1>10. \A k \in DOMAIN injections' : k \in DOMAIN injections /\ injections'[k] = injections[k]
  BY <1>2, <1>4, <1>5
<1>11. \A k \in DOMAIN injections' : Known(injections'[k])
  BY <1>10 DEF OnlyHides
<1> QED BY <1>3, <1>9, <1>11 DEF OnlyHides, Known

LEMMA StartingHides ==
    ASSUME NEW m \in Merchants, canon' = m, clone' = m, injections' = << >>, pending' = << >>
    PROVE  OnlyHides'
<1>1. \A l \in Location : Fits(l, m[l], m[l]) BY MerchantFits
<1>2. DOMAIN injections' = {} /\ DOMAIN pending' = {} OBVIOUS
<1> QED BY <1>1, <1>2 DEF OnlyHides

\* The clone has the locations of a merchant and every engine step keeps to
\* what fits.
Cloned == EngineInv /\ OnlyHides

LEMMA EngineInitCloned == EngineInit => Cloned
<1> SUFFICES ASSUME EngineInit PROVE OnlyHides BY EngineInitInv DEF Cloned
<1>1. canon \in Merchants /\ clone = canon /\ injections = << >> /\ pending = << >>
  BY DEF EngineInit
<1>2. \A l \in Location : Fits(l, canon[l], canon[l]) BY <1>1, MerchantFits
<1>3. DOMAIN injections = {} /\ DOMAIN pending = {} BY <1>1
<1> QED BY <1>1, <1>2, <1>3 DEF OnlyHides

LEMMA EngineNextCloned == Cloned /\ [EngineNext]_engine => Cloned'
<1> SUFFICES ASSUME Cloned, [EngineNext]_engine PROVE OnlyHides' BY EngineNextInv DEF Cloned
<1> USE DEF Cloned
<1>1. CASE \E m \in Merchants, requested \in Profiles : Apply(m, requested)
  BY <1>1, StartingHides DEF Apply
<1>2. CASE ApplyStep
  <2>1. CASE \E p \in 1..Products : apply_catalog_chaos(p) BY <2>1, CatalogHides
  <2>2. CASE \E p \in 1..Products : apply_context_chaos(p) BY <2>2, ContextHides
  <2>3. CASE \E p \in 1..Products : drop_attribute(p) BY <2>3, DropHides
  <2>4. CASE \E p, q \in 1..Products : apply_commerce_chaos(p, q) BY <2>4, CommerceHides
  <2>5. CASE NextFamily BY <2>5 DEF NextFamily, OnlyHides, Known
  <2> QED BY <1>2, <2>1, <2>2, <2>3, <2>4, <2>5 DEF ApplyStep
<1>3. CASE trigger_boundary("READY_FOR_PAYMENT") BY <1>3, StrikeHides
<1>4. CASE rollback BY <1>4, RollbackHides
<1>5. CASE UNCHANGED engine BY <1>5 DEF engine, OnlyHides, Known
<1> QED BY <1>1, <1>2, <1>3, <1>4, <1>5 DEF EngineNext

\* Whatever chaos did, a product is filed under its own category or none, shows
\* its own attributes or none, and is priced and stocked.
THEOREM ChaosOnlyHides == EngineSpec => []OnlyHides
<1>1. Cloned => OnlyHides BY DEF Cloned
<1> QED BY <1>1, EngineInitCloned, EngineNextCloned, PTL DEF EngineSpec

\* The loops of the engine stay within their bounds.
EngineTyped ==
    /\ profile \in Profiles /\ sampled \subseteq 1..Products
    /\ stage \in Families \cup {"applied", "striking", "rollback"}

LEMMA EngineTypes == EngineTyped /\ [EngineNext]_engine => EngineTyped'
<1> SUFFICES ASSUME EngineTyped, [EngineNext]_engine PROVE EngineTyped' OBVIOUS
<1> USE DEF EngineTyped, Families, Profiles
<1>1. CASE \E m \in Merchants, requested \in Profiles : Apply(m, requested)
  BY <1>1 DEF Apply
<1>2. CASE ApplyStep
  <2>1. ASSUME NEW p \in 1..Products, apply_catalog_chaos(p) PROVE EngineTyped'
    BY <2>1 DEF apply_catalog_chaos, Sample
  <2>2. ASSUME NEW p \in 1..Products, apply_context_chaos(p) PROVE EngineTyped'
    BY <2>2 DEF apply_context_chaos, Sample
  <2>3. ASSUME NEW p \in 1..Products, drop_attribute(p) PROVE EngineTyped'
    <3>1. 1..p \subseteq 1..Products BY EngineAssumption
    <3> QED BY <2>3, <3>1 DEF drop_attribute
  <2>4. ASSUME NEW p \in 1..Products, NEW q \in 1..Products, apply_commerce_chaos(p, q)
        PROVE  EngineTyped'
    BY <2>4 DEF apply_commerce_chaos
  <2>5. CASE NextFamily BY <2>5 DEF NextFamily, Following
  <2> QED BY <1>2, <2>1, <2>2, <2>3, <2>4, <2>5 DEF ApplyStep
<1>3. CASE trigger_boundary("READY_FOR_PAYMENT") BY <1>3 DEF trigger_boundary
<1>4. CASE rollback BY <1>4 DEF rollback
<1>5. CASE UNCHANGED engine BY <1>5 DEF engine
<1> QED BY <1>1, <1>2, <1>3, <1>4, <1>5 DEF EngineNext

=============================================================================
