------------------------------ MODULE ChaosEngine ------------------------------
(***************************************************************************)
(* The chaos engine (chaos/engine.py) with the three families of mutations *)
(* it applies (catalog_chaos.py, context_chaos.py, commerce_chaos.py).     *)
(* An engine mutates a clone of the merchant's state and writes down, for  *)
(* each mutation, what to put back.  Catalog, context and attribute chaos  *)
(* strike in apply; commerce chaos is scheduled there and strikes when the *)
(* buyer crosses a boundary; rollback puts everything back, last mutation  *)
(* first.                                                                  *)
(*                                                                         *)
(* The engine belongs to one thread; a step is one turn of one of its      *)
(* loops.  random.sample and random.choice choose freely.                  *)
(***************************************************************************)
EXTENDS Integers, Sequences, FiniteSets

CONSTANTS
    Products,       \* number of products of the merchant
    Merchants,      \* states of a merchant that apply is given
    MaxMutations    \* at most this many products are mutated by a family

\* What the state of a merchant consists of: a location is a field of a product
\* or the shipping policy.  Attributes have a location each.
Fields   == {"title", "description", "category", "stock", "price",
             "power_watts", "wattage", "connector"}
Shipping == <<"shipping", 0>>
Location == (Fields \X (1..Products)) \cup {Shipping}

\* A description: whose text it is, and whether context chaos added to it.
None         == [text |-> "None", noted |-> FALSE]
Empty        == [text |-> "", noted |-> FALSE]
Stale        == [text |-> "outdated", noted |-> FALSE]
Description  == [text : {"None", "", "merchant", "outdated"}, noted : BOOLEAN]

Title    == {"merchant", "ambiguous"}
Families == {"catalog", "context", "commerce", "drop_attribute"}
Profiles == Families \cup {"none", "all"}

\* What a location may hold; every caller prices and stocks all its products.
WellFormed(state, Category, Connector) ==
    /\ DOMAIN state = Location /\ state[Shipping] \in BOOLEAN
    /\ \A p \in 1..Products :
        /\ state[<<"title", p>>] \in Title
        /\ state[<<"description", p>>] \in Description
        /\ state[<<"category", p>>] \in Category
        /\ \A f \in {"stock", "price", "power_watts", "wattage"} : state[<<f, p>>] \in Nat
        /\ state[<<"connector", p>>] \subseteq Connector

CategoriesOf(state) == {state[<<"category", p>>] : p \in 1..Products}
ConnectorsOf(state) == UNION {state[<<"connector", p>>] : p \in 1..Products}

ASSUME EngineAssumption ==
    /\ Products \in Nat \ {0} /\ MaxMutations \in Nat
    /\ \A m \in Merchants : WellFormed(m, CategoriesOf(m), ConnectorsOf(m))

VARIABLES
    canon,      \* the state that apply was given
    clone,      \* the cloned_... fields
    injections, \* mutations that have struck, with what rollback writes
    pending,    \* pending_injections
    profile,    \* the profile of the last apply
    stage,      \* where the engine is
    sampled     \* products the running loop has been through

engine == <<canon, clone, injections, pending, profile, stage, sampled>>

EngineInit ==
    /\ canon \in Merchants /\ clone = canon
    /\ injections = << >> /\ pending = << >>
    /\ profile = "none" /\ stage = "applied" /\ sampled = {}

-----------------------------------------------------------------------------
\* apply

Includes(family) == profile \in {family, "all"}

num_mutations == IF MaxMutations < Products THEN MaxMutations ELSE Products

\* apply clones what it is given and forgets what it did before.
Apply(m, requested) ==
    /\ stage = "applied"
    /\ canon' = m /\ clone' = m
    /\ injections' = << >> /\ pending' = << >>
    /\ profile' = requested /\ stage' = "catalog" /\ sampled' = {}

\* A location is overwritten and what was there is written down.
Inject(at, before, after) ==
    /\ injections' = Append(injections, [at |-> at, before |-> before])
    /\ clone' = [clone EXCEPT ![at] = after]

\* random.sample: products in any order, none twice.
Sample(p) ==
    /\ Cardinality(sampled) < num_mutations
    /\ p \notin sampled /\ sampled' = sampled \cup {p}
    /\ UNCHANGED <<canon, pending, profile, stage>>

ambiguous_units(p) ==
    Inject(<<"title", p>>, clone[<<"title", p>>], "ambiguous")
stale_descriptive_text(p) ==
    Inject(<<"description", p>>, clone[<<"description", p>>], Stale)
\* Mutant: the category is removed instead of replaced.
X_missing_category_mapping(p) ==
    Inject(<<"category", p>>, clone[<<"category", p>>], "None")
missing_category_mapping(p) ==
    Inject(<<"category", p>>, clone[<<"category", p>>], "unknown")

apply_catalog_chaos(p) ==
    /\ stage = "catalog" /\ Includes("catalog") /\ Sample(p)
    /\ \/ ambiguous_units(p)
       \/ stale_descriptive_text(p)
       \/ missing_category_mapping(p)

\* p.description or "", then a sentence is added to it.
Written(description) == IF description = None THEN Empty ELSE description

apply_context_chaos(p) ==
    /\ stage = "context" /\ Includes("context") /\ Sample(p)
    /\ LET at == <<"description", p>>
           before == Written(clone[at])
       IN  Inject(at, before, [text |-> before.text, noted |-> TRUE])

\* Scheduled chaos: what it will write, what rollback will write, and when.
Scheduled(family, at, before, after) ==
    [family |-> family, at |-> at, before |-> before, after |-> after,
     start_boundary |-> "READY_FOR_PAYMENT"]

Hiked(price) == (3 * price) \div 2

SellOut(p) == Scheduled("inventory", <<"stock", p>>, clone[<<"stock", p>>], 0)
Hike(p)    == Scheduled("price", <<"price", p>>, clone[<<"price", p>>],
                        Hiked(clone[<<"price", p>>]))
NoShipping == Scheduled("checkout", Shipping, clone[Shipping], FALSE)

\* DROP_ATTR changes nothing when it strikes.  Its patch has neither an index
\* nor a field, so rollback takes it for a description of the first product.
DropMark   == Scheduled("catalog", <<"description", 1>>, Empty, Empty)

apply_commerce_chaos(p, q) ==
    /\ stage = "commerce" /\ Includes("commerce") /\ pending = << >>
    /\ pending' = (IF clone[<<"stock", p>>] > 0 THEN <<SellOut(p)>> ELSE << >>)
                  \o <<Hike(q), NoShipping, DropMark>>
    /\ UNCHANGED <<canon, clone, injections, profile, stage, sampled>>

\* The products lose the attribute power_watts in the order of the catalog.
drop_attribute(p) ==
    /\ stage = "drop_attribute" /\ Includes("drop_attribute")
    /\ sampled = 1..(p - 1) /\ sampled' = 1..p
    /\ IF clone[<<"power_watts", p>>] = 0
       THEN UNCHANGED <<clone, injections>>
       ELSE Inject(<<"power_watts", p>>, clone[<<"power_watts", p>>], 0)
    /\ UNCHANGED <<canon, pending, profile, stage>>

Following == [catalog |-> "context", context |-> "commerce",
              commerce |-> "drop_attribute", drop_attribute |-> "applied"]

FamilyDone ==
    \/ ~Includes(stage)
    \/ stage \in {"catalog", "context"} /\ Cardinality(sampled) = num_mutations
    \/ stage = "commerce" /\ pending # << >>
    \/ stage = "drop_attribute" /\ sampled = 1..Products

NextFamily ==
    /\ stage \in Families /\ FamilyDone
    /\ stage' = Following[stage] /\ sampled' = {}
    /\ UNCHANGED <<canon, clone, injections, pending, profile>>

ApplyStep ==
    \/ \E p \in 1..Products : \/ apply_catalog_chaos(p)
                              \/ apply_context_chaos(p)
                              \/ drop_attribute(p)
    \/ \E p, q \in 1..Products : apply_commerce_chaos(p, q)
    \/ NextFamily

-----------------------------------------------------------------------------
\* trigger_boundary and rollback

Due(boundary) == {k \in DOMAIN pending : pending[k].start_boundary = boundary}

Without(s, k) == SubSeq(s, 1, k - 1) \o SubSeq(s, k + 1, Len(s))

\* The first scheduled injection of the boundary strikes.
trigger_boundary(boundary) ==
    /\ stage \in {"applied", "striking"}
    /\ \E k \in Due(boundary) :
        /\ \A j \in Due(boundary) : k <= j
        /\ IF pending[k].family = "catalog"
           THEN clone' = clone
           ELSE clone' = [clone EXCEPT ![pending[k].at] = pending[k].after]
        /\ injections' = Append(injections, [at |-> pending[k].at, before |-> pending[k].before])
        /\ pending' = Without(pending, k)
        /\ stage' = IF Due(boundary) = {k} THEN "applied" ELSE "striking"
    /\ UNCHANGED <<canon, profile, sampled>>

\* Mutant: the oldest injection is put back first.
X_rollback ==
    /\ stage \in {"applied", "rollback"} /\ injections # << >>
    /\ clone' = [clone EXCEPT ![Head(injections).at] = Head(injections).before]
    /\ injections' = Tail(injections)
    /\ stage' = IF Len(injections) = 1 THEN "applied" ELSE "rollback"
    /\ UNCHANGED <<canon, pending, profile, sampled>>

\* The last injection is put back; what is pending stays scheduled.
rollback ==
    /\ stage \in {"applied", "rollback"} /\ injections # << >>
    /\ LET last == injections[Len(injections)]
       IN  clone' = [clone EXCEPT ![last.at] = last.before]
    /\ injections' = SubSeq(injections, 1, Len(injections) - 1)
    /\ stage' = IF Len(injections) = 1 THEN "applied" ELSE "rollback"
    /\ UNCHANGED <<canon, pending, profile, sampled>>

EngineNext ==
    \/ \E m \in Merchants, requested \in Profiles : Apply(m, requested)
    \/ ApplyStep
    \/ trigger_boundary("READY_FOR_PAYMENT")
    \/ rollback

EngineSpec == EngineInit /\ [][EngineNext]_engine

-----------------------------------------------------------------------------
\* Locations that rollback may leave different: a missing description that
\* context chaos touched becomes an empty one, and undoing DROP_ATTR empties
\* the description of the first product.
Lost(l) ==
    \/ l[1] = "description" /\ canon[l] = None
    \/ l = <<"description", 1>> /\ Includes("commerce")

On(l) == {k \in DOMAIN injections : injections[k].at = l}

\* A location that no injection has touched is the merchant's, and the first
\* injection that touched one knows the merchant's value: families that strike
\* the same description, at whatever boundary, unwind to the original.
Restorable ==
    \A l \in Location : ~Lost(l) =>
        /\ On(l) = {} => clone[l] = canon[l]
        /\ \A k \in On(l) : (\A j \in On(l) : k <= j) => injections[k].before = canon[l]

\* Rolled back, the clone is the merchant's state again (rollback's docstring),
\* whatever the profile, the random choices and the boundaries crossed before.
RollbackRestores ==
    injections = << >> => \A l \in Location : ~Lost(l) => clone[l] = canon[l]

=============================================================================
