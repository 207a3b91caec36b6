------------------------------- MODULE RepairLoop -------------------------------
(***************************************************************************)
(* The repair loop of services/commerce_service.py behind the endpoints of *)
(* api/routers.py: buyers of an experiment shop, the failed ones are       *)
(* localized, clustered and given a repair proposal, and proposals are     *)
(* verified by replaying the snapshot of the trace they came from.         *)
(*                                                                         *)
(* The endpoints are plain functions, so FastAPI runs them in a pool of    *)
(* threads: a step of this module is what a thread does from one commit to *)
(* the next.  Rows are numbered in the order of their commits; a snapshot  *)
(* is committed with its trace and has the number of the trace.  The       *)
(* database is the default one, SQLite, which checks no foreign key.       *)
(***************************************************************************)
EXTENDS Integers, Sequences

CONSTANTS
    Threads,        \* threads that serve requests
    Cohort,         \* buyers of the experiment
    Markets,        \* what chaos can make of a buyer's merchant, with her intent
    Evidence,       \* the wattage filed as merchant evidence
    MaxTraces,      \* bounds on the rows of transaction_traces,
    MaxClusters,    \*   failure_clusters,
    MaxRepairs,     \*   repair_proposals
    MaxResults      \*   and replay_results

\* A buyer is offered one product.  "mapped": it is filed in the category she
\* requires; "relevant": its text shares a word with her intent; "watts": its
\* typed attribute, 0 when it has none; "need": the least she accepts.
Market == [mapped : BOOLEAN, relevant : BOOLEAN, watts : Nat, need : Nat \ {0}]

ASSUME LoopAssumption ==
    /\ Cohort \in Nat /\ Evidence \in Nat \ {0}
    /\ Markets \subseteq Market
    /\ MaxTraces \in Nat /\ MaxClusters \in Nat /\ MaxRepairs \in Nat /\ MaxResults \in Nat

VARIABLES
    products,   \* buyers whose product and evidence rows are committed
    traces,     \* transaction_traces with their events and snapshots
    clusters,   \* failure_clusters made for a repair, with the deleted ones
    leak,       \* failure_clusters made by the leak graph
    repairs,    \* repair_proposals
    results,    \* replay_results
    thread,     \* what each thread is doing, with the local variables it needs
    told        \* answers given to requests for a verification

vars == <<products, traces, clusters, leak, repairs, results, thread, told>>

-----------------------------------------------------------------------------
\* What a run to the prechecks makes of a market.

\* The oracle's verdict on the product.
Rejection(m) == IF m.watts = 0 THEN "MISSING_MIN_ATTRIBUTE"
                ELSE IF m.watts < m.need THEN "MIN_ATTRIBUTE_NOT_MET" ELSE "none"

\* localize_failure reads both codes as a missing typed attribute.
AttributeReasons == {"MISSING_MIN_ATTRIBUTE", "MIN_ATTRIBUTE_NOT_MET"}

\* A trace: the market it ran in, whether the buyer found the product, and for
\* whom it ran.
Trace == [buyer : 1..Cohort, market : Market, found : BOOLEAN, replay : BOOLEAN]

\* The reason code of its CANDIDATE_REJECTED event.
Rejected(tr) == IF tr.found THEN Rejection(tr.market) ELSE "none"

final_classification(tr) ==
    IF tr.found /\ Rejection(tr.market) = "none" /\ tr.market.mapped
    THEN "READY_FOR_PAYMENT" ELSE "ABORTED"

\* The reason in the payload of its ABORTED event.
AbortReason(tr) == IF tr.found /\ Rejection(tr.market) = "none"
                   THEN "INVALID_CART_CONSTRUCTED" ELSE "NO_VALID_PRODUCTS_FOUND"

\* SemanticBuyer looks at the text, StructuredBuyer at the category.
SemanticTrace(b, m)   == [buyer |-> b, market |-> m, found |-> m.relevant, replay |-> FALSE]
StructuredTrace(b, m) == [buyer |-> b, market |-> m, found |-> m.mapped, replay |-> TRUE]

-----------------------------------------------------------------------------
\* The local variables of a thread, 0 where a step needs none.
Locals(pc, buyer, trace, failure, repair, replay) ==
    [pc |-> pc, buyer |-> buyer, trace |-> trace,
     failure |-> failure, repair |-> repair, replay |-> replay]

Idle                  == Locals("idle", 0, 0, 0, 0, 0)
Cohorting(b)          == Locals("cohort", b, 0, 0, 0, 0)
Running(b)            == Locals("run", b, 0, 0, 0, 0)
Localizing(b, n)      == Locals("localize", b, n, 0, 0, 0)
Synthesizing(b, n, c) == Locals("synthesize", b, n, c, 0, 0)
Replaying(r, n)       == Locals("replay", 0, n, 0, r, 0)
Recording(r, n, k)    == Locals("record", 0, n, 0, r, k)

Unknown == MaxTraces + 1    \* a trace id that is in no row

Cluster == [trace : 1..Unknown, live : BOOLEAN]
LeakCluster == [reason_code : {"INVALID_CART_CONSTRUCTED", "NO_VALID_PRODUCTS_FOUND"},
                supporting_trace_ids : SUBSET (1..MaxTraces)]
Repair == [failure : 1..MaxClusters, snapshot : 1..MaxTraces,
           status : {"proposed", "verified", "failed"}]
Result == [repair : 1..MaxRepairs, trace : 1..MaxTraces, success : BOOLEAN]

Init ==
    /\ products = {} /\ traces = << >> /\ clusters = << >> /\ leak = {}
    /\ repairs = << >> /\ results = << >>
    /\ thread = [t \in Threads |-> Idle]
    /\ told = {}

At(t, pc) == thread[t].pc = pc

Become(t, record) == thread' = [thread EXCEPT ![t] = record]

\* A single request is over; a cohort goes on with the next buyer.
Continue(t) == Become(t, IF thread[t].buyer = 0 THEN Idle ELSE Cohorting(thread[t].buyer + 1))

-----------------------------------------------------------------------------
(* POST /experiments/{id}/run                                              *)

RunExperiment(t) ==
    /\ At(t, "idle")
    /\ Become(t, Cohorting(1))
    /\ UNCHANGED <<products, traces, clusters, leak, repairs, results, told>>

\* The intent compiler is unavailable: 503, and what is committed stays.
CompileFails(t) ==
    /\ At(t, "cohort") /\ thread[t].buyer <= Cohort
    /\ Become(t, Idle)
    /\ UNCHANGED <<products, traces, clusters, leak, repairs, results, told>>

\* Mutant: the product is merged into the table instead of added.
X_AddProduct(t) ==
    /\ At(t, "cohort") /\ thread[t].buyer <= Cohort
    /\ products' = products \cup {thread[t].buyer}
    /\ Become(t, Running(thread[t].buyer))
    /\ UNCHANGED <<traces, clusters, leak, repairs, results, told>>

\* The product, its attribute and its evidence are flushed, and committed with
\* the ExperimentRun of the trace.
AddProduct(t) ==
    /\ At(t, "cohort") /\ thread[t].buyer <= Cohort
    /\ thread[t].buyer \notin products
    /\ products' = products \cup {thread[t].buyer}
    /\ Become(t, Running(thread[t].buyer))
    /\ UNCHANGED <<traces, clusters, leak, repairs, results, told>>

\* The sku is a primary key: the flush raises IntegrityError outside the try.
DuplicateProduct(t) ==
    /\ At(t, "cohort") /\ thread[t].buyer \in products
    /\ Become(t, Idle)
    /\ UNCHANGED <<products, traces, clusters, leak, repairs, results, told>>

\* run_trace: the run, then the trace, its events and its snapshot in one commit.
RunBuyer(t) ==
    /\ At(t, "run") /\ Len(traces) < MaxTraces
    /\ \E m \in Markets :
         LET row == SemanticTrace(thread[t].buyer, m) IN
         /\ traces' = Append(traces, row)
         /\ Become(t, IF final_classification(row) = "ABORTED"
                      THEN Localizing(thread[t].buyer, Len(traces) + 1)
                      ELSE Cohorting(thread[t].buyer + 1))
    /\ UNCHANGED <<products, clusters, leak, repairs, results, told>>

\* The run raises: the buyer's result is "ERROR" and the cohort goes on.
RunRaises(t) ==
    /\ At(t, "run")
    /\ Become(t, Cohorting(thread[t].buyer + 1))
    /\ UNCHANGED <<products, traces, clusters, leak, repairs, results, told>>

EndCohort(t) ==
    /\ At(t, "cohort") /\ thread[t].buyer > Cohort
    /\ Become(t, Idle)
    /\ UNCHANGED <<products, traces, clusters, leak, repairs, results, told>>

-----------------------------------------------------------------------------
(* localize_failure and generate_repair, for a buyer of a cohort or for    *)
(* POST /failures/{trace_id}/repairs                                       *)

\* Any trace id is taken: of a trace that succeeded, of a replay, of none.
CreateFailureRepair(t) ==
    /\ At(t, "idle")
    /\ \E n \in DOMAIN traces \cup {Unknown} :
          Become(t, Localizing(0, n))
    /\ UNCHANGED <<products, traces, clusters, leak, repairs, results, told>>

\* Mutant: the cluster is made like those of the leak graph, without its trace.
X_CommitCluster(t) ==
    /\ At(t, "localize") /\ Len(clusters) < MaxClusters
    /\ clusters' = Append(clusters, [trace |-> 0, live |-> TRUE])
    /\ Become(t, Synthesizing(thread[t].buyer, thread[t].trace, Len(clusters) + 1))
    /\ UNCHANGED <<products, traces, leak, repairs, results, told>>

\* The cluster is committed before there is evidence for a repair.
CommitCluster(t) ==
    /\ At(t, "localize") /\ Len(clusters) < MaxClusters
    /\ clusters' = Append(clusters, [trace |-> thread[t].trace, live |-> TRUE])
    /\ Become(t, Synthesizing(thread[t].buyer, thread[t].trace, Len(clusters) + 1))
    /\ UNCHANGED <<products, traces, leak, repairs, results, told>>

\* The cause is a missing attribute and the catalog has evidence for the sku.
HasEvidence(n) ==
    /\ n \in DOMAIN traces
    /\ Rejected(traces[n]) \in AttributeReasons
    /\ traces[n].buyer \in products

Synthesize(t) ==
    /\ At(t, "synthesize") /\ HasEvidence(thread[t].trace) /\ Len(repairs) < MaxRepairs
    /\ repairs' = Append(repairs, [failure |-> thread[t].failure,
                                   snapshot |-> thread[t].trace, status |-> "proposed"])
    /\ Continue(t)
    /\ UNCHANGED <<products, traces, clusters, leak, results, told>>

ManualReview(t) ==
    /\ At(t, "synthesize") /\ ~HasEvidence(thread[t].trace)
    /\ Continue(t)
    /\ UNCHANGED <<products, traces, clusters, leak, repairs, results, told>>

-----------------------------------------------------------------------------
(* verify_repair, for POST /repairs/{id}/verify and POST /replays          *)

\* The proposal is open and its cluster still leads to a trace.
Verifiable(r) ==
    /\ repairs[r].status = "proposed"
    /\ clusters[repairs[r].failure].live
    /\ clusters[repairs[r].failure].trace \in DOMAIN traces

\* Mutant: the newest trace is replayed.
X_BeginVerify(t) ==
    /\ At(t, "idle")
    /\ \E r \in DOMAIN repairs :
         /\ Verifiable(r)
         /\ Become(t, Replaying(r, Len(traces)))
    /\ UNCHANGED <<products, traces, clusters, leak, repairs, results, told>>

\* The proposal, its cluster, the trace and the snapshot are read.
BeginVerify(t) ==
    /\ At(t, "idle")
    /\ \E r \in DOMAIN repairs :
         /\ Verifiable(r)
         /\ Become(t, Replaying(r, clusters[repairs[r].failure].trace))
    /\ UNCHANGED <<products, traces, clusters, leak, repairs, results, told>>

\* verify_repair returns False.
RefuseVerify(t) ==
    /\ At(t, "idle")
    /\ \E r \in DOMAIN repairs : ~Verifiable(r) /\ told' = told \cup {<<r, "FAILED">>}
    /\ UNCHANGED <<products, traces, clusters, leak, repairs, results, thread>>

\* Mutant: a value the product has is replaced.
X_Patched(m) == [m EXCEPT !.watts = m.need]

\* The patch only adds: a key the product has keeps its value.
Patched(m) == [m EXCEPT !.watts = IF m.watts = 0 THEN Evidence ELSE m.watts]

\* The sandbox is the snapshot, patched; but a snapshot holds no category, so
\* the product's is the one of its current row, if there is one.
Sandbox(tr) == [Patched(tr.market) EXCEPT !.mapped = tr.buyer \in products]

ReplayOf(tr) == StructuredTrace(tr.buyer, Sandbox(tr))

\* run_trace commits the trace of the replay.
Replay(t) ==
    /\ At(t, "replay") /\ Len(traces) < MaxTraces
    /\ traces' = Append(traces, ReplayOf(traces[thread[t].trace]))
    /\ Become(t, Recording(thread[t].repair, thread[t].trace, Len(traces) + 1))
    /\ UNCHANGED <<products, clusters, leak, repairs, results, told>>

\* Mutant: the status is committed, the result is not.
X_Record(t) ==
    /\ At(t, "record")
    /\ LET n == thread[t]
           success == final_classification(traces[n.replay]) = "READY_FOR_PAYMENT"
       IN  /\ repairs' = [repairs EXCEPT ![n.repair] =
                            [failure |-> @.failure, snapshot |-> @.snapshot,
                             status |-> IF success THEN "verified" ELSE "failed"]]
           /\ told' = told \cup {<<n.repair, "VERIFIED">>}
    /\ Become(t, Idle)
    /\ UNCHANGED <<products, traces, clusters, leak, results>>

\* The result and the proposal's new status, in one commit.  The status is not
\* read again.  Whatever the outcome is, what verify_repair returns is a
\* dictionary, which the endpoint takes for true.
Record(t) ==
    /\ At(t, "record") /\ Len(results) < MaxResults
    /\ LET n == thread[t]
           success == final_classification(traces[n.replay]) = "READY_FOR_PAYMENT"
       IN  /\ results' = Append(results, [repair |-> n.repair, trace |-> n.trace,
                                          success |-> success])
           /\ repairs' = [repairs EXCEPT ![n.repair] =
                            [failure |-> @.failure, snapshot |-> @.snapshot,
                             status |-> IF success THEN "verified" ELSE "failed"]]
           /\ told' = told \cup {<<n.repair, "VERIFIED">>}
    /\ Become(t, Idle)
    /\ UNCHANGED <<products, traces, clusters, leak>>

-----------------------------------------------------------------------------
(* GET /api/v1/analytics/failures                                          *)

\* The traces the leak graph counts as failed.
Failed == {n \in DOMAIN traces : final_classification(traces[n]) = "FAILED"}

LeakClusters ==
    {[reason_code |-> reason,
      supporting_trace_ids |-> {n \in Failed : AbortReason(traces[n]) = reason}]
        : reason \in {AbortReason(traces[n]) : n \in Failed}}

\* Every cluster there is goes, those of repairs too; the graph's are committed.
LeakGraph ==
    /\ clusters' = [i \in DOMAIN clusters |-> [trace |-> clusters[i].trace, live |-> FALSE]]
    /\ leak' = LeakClusters
    /\ UNCHANGED <<products, traces, repairs, results, thread, told>>

-----------------------------------------------------------------------------
\* The process dies and is started again.
Restart ==
    /\ thread' = [t \in Threads |-> Idle]
    /\ UNCHANGED <<products, traces, clusters, leak, repairs, results, told>>

-----------------------------------------------------------------------------
Request(t) == RunExperiment(t) \/ CreateFailureRepair(t) \/ BeginVerify(t) \/ RefuseVerify(t)

CohortStep(t) ==
    CompileFails(t) \/ AddProduct(t) \/ DuplicateProduct(t) \/ RunBuyer(t)
        \/ RunRaises(t) \/ EndCohort(t)

RepairStep(t) == CommitCluster(t) \/ Synthesize(t) \/ ManualReview(t)

VerifyStep(t) == Replay(t) \/ Record(t)

Next == \/ \E t \in Threads : Request(t) \/ CohortStep(t) \/ RepairStep(t) \/ VerifyStep(t)
        \/ LeakGraph
        \/ Restart

Spec == Init /\ [][Next]_vars

-----------------------------------------------------------------------------
\* The rows and the local variables of the threads have their types.
ThreadRecord ==
    [pc : {"idle", "cohort", "run", "localize", "synthesize", "replay", "record"},
     buyer : 0..(Cohort + 1), trace : 0..Unknown, failure : 0..MaxClusters,
     repair : 0..MaxRepairs, replay : 0..MaxTraces]

TypeOK ==
    /\ products \subseteq 1..Cohort
    /\ traces \in Seq(Trace) /\ Len(traces) <= MaxTraces
    /\ clusters \in Seq(Cluster) /\ Len(clusters) <= MaxClusters
    /\ leak \subseteq LeakCluster
    /\ repairs \in Seq(Repair) /\ Len(repairs) <= MaxRepairs
    /\ results \in Seq(Result) /\ Len(results) <= MaxResults
    /\ thread \in [Threads -> ThreadRecord]
    /\ told \subseteq (1..MaxRepairs) \X {"VERIFIED", "FAILED"}

\* However many buyers' requests, retries and restarts there are, an experiment
\* never runs a buyer twice: the primary key of products stands in for the
\* check run_experiment (api/routers.py:86) does not make.
OneTracePerBuyer ==
    \A i, j \in DOMAIN traces :
        ~traces[i].replay /\ ~traces[j].replay /\ traces[i].buyer = traces[j].buyer => i = j

\* The verdict of a proposal and the replays on record agree: it is open as long
\* as there is none, and all of them have its verdict, also when two threads
\* verify it at once and the later one overwrites its status
\* (commerce_service.py:532).
VerdictHasReplay ==
    \A r \in DOMAIN repairs :
        LET replays == {i \in DOMAIN results : results[i].repair = r} IN
        IF repairs[r].status = "proposed" THEN replays = {}
        ELSE /\ replays # {}
             /\ \A i \in replays : results[i].success <=> repairs[r].status = "verified"

\* A proposal is judged by the trace it was made for, never by a newer one: the
\* snapshot of the proposal and of its replay, found along two paths
\* (commerce_service.py:338 and 412-427), are the same.
ReplaysItsSnapshot ==
    \A i \in DOMAIN results : results[i].trace = repairs[results[i].repair].snapshot

\* Only a trace that failed because the attribute was missing can be repaired,
\* and only if the evidence satisfies the buyer: an attribute that is there and
\* too small is localized as missing (commerce_service.py:257), gets a proposal,
\* and the replay turns it down.
VerifiedIsRepaired ==
    \A r \in DOMAIN repairs : repairs[r].status = "verified" =>
        LET tr == traces[repairs[r].snapshot] IN
        /\ final_classification(tr) = "ABORTED"
        /\ tr.market.watts = 0 /\ Evidence >= tr.market.need

\* The life of the proposals, as RepairLifecycle sees it.
lifecycle == [r \in 1..MaxRepairs |-> IF r \in DOMAIN repairs THEN repairs[r].status ELSE "absent"]

Lifecycle == INSTANCE RepairLifecycle WITH Repairs <- 1..MaxRepairs, status <- lifecycle

\* Proposals are decided once and for all.
ImplementsLifecycle == Lifecycle!Spec

\* commerce_service.py:383: "Never uses current DB product state."  A verified
\* proposal makes the trace succeed in the merchant's state of that time.
VerifiedOnSnapshot ==
    \A r \in DOMAIN repairs : repairs[r].status = "verified" =>
        LET tr == traces[repairs[r].snapshot] IN
        final_classification(StructuredTrace(tr.buyer, Patched(tr.market))) = "READY_FOR_PAYMENT"

\* commerce_service.py:387: "Returns True only when the replayed trace reaches
\* READY_FOR_PAYMENT": a caller that is told VERIFIED has a verified proposal.
ToldVerifiedIsVerified ==
    \A r \in DOMAIN repairs : <<r, "VERIFIED">> \in told => repairs[r].status = "verified"
=============================================================================
