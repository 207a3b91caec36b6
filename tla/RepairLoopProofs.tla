---------------------------- MODULE RepairLoopProofs ----------------------------
(***************************************************************************)
(* Proofs about RepairLoop.  What makes verdicts stable is that a replay   *)
(* is a function of the snapshot: Replayed below does not mention the      *)
(* state, and every replay, result and verdict is tied to it.              *)
(***************************************************************************)
EXTENDS RepairLoop, SequenceTheorems, TLAPS

\* The replay of a trace whose product is in the table.
Replayed(tr) == StructuredTrace(tr.buyer, [mapped |-> TRUE, relevant |-> tr.market.relevant,
                    watts |-> IF tr.market.watts = 0 THEN Evidence ELSE tr.market.watts,
                    need |-> tr.market.need])

Verdict(tr) == IF final_classification(Replayed(tr)) = "READY_FOR_PAYMENT"
               THEN "verified" ELSE "failed"

\* Traces belong to buyers whose product is committed.
Owned == \A n \in DOMAIN traces : traces[n].buyer \in products

\* A thread that is about to run a buyer is the only one, and the first.
FirstRun ==
    \A t \in Threads : thread[t].pc = "run" =>
        /\ thread[t].buyer \in products
        /\ \A n \in DOMAIN traces : ~traces[n].replay => traces[n].buyer # thread[t].buyer
        /\ \A u \in Threads : thread[u].pc = "run" /\ thread[u].buyer = thread[t].buyer => u = t

\* What the local variables of a thread refer to.
ThreadRefs(n) ==
    /\ n.pc = "cohort" => n.buyer \in 1..(Cohort + 1)
    /\ n.pc = "run" => n.buyer \in 1..Cohort
    /\ n.pc \in {"localize", "synthesize"} => n.buyer \in 0..Cohort /\ n.trace \in 1..Unknown
    /\ n.pc = "synthesize" => /\ n.failure \in DOMAIN clusters
                              /\ clusters[n.failure].trace = n.trace
    /\ n.pc \in {"replay", "record"} => /\ n.repair \in DOMAIN repairs
                                        /\ n.trace = repairs[n.repair].snapshot
    /\ n.pc = "record" => /\ n.replay \in DOMAIN traces
                          /\ traces[n.replay] = Replayed(traces[n.trace])

LocalsOK == \A t \in Threads : ThreadRefs(thread[t])

\* A proposal leads to the trace of its snapshot along both paths, and the
\* trace was rejected for its attribute.
Linked ==
    \A r \in DOMAIN repairs :
        /\ repairs[r].failure \in DOMAIN clusters
        /\ clusters[repairs[r].failure].trace = repairs[r].snapshot
        /\ repairs[r].snapshot \in DOMAIN traces
        /\ Rejected(traces[repairs[r].snapshot]) \in AttributeReasons

\* A result and a verdict say what the replay of the snapshot gives.
Decided ==
    \A i \in DOMAIN results :
        /\ results[i].repair \in DOMAIN repairs
        /\ repairs[results[i].repair].status # "proposed"
        /\ results[i].trace = repairs[results[i].repair].snapshot
        /\ results[i].success <=> Verdict(traces[results[i].trace]) = "verified"

Judged ==
    \A r \in DOMAIN repairs : repairs[r].status # "proposed" =>
        /\ repairs[r].status = Verdict(traces[repairs[r].snapshot])
        /\ \E i \in DOMAIN results : results[i].repair = r

IInv == /\ TypeOK /\ Owned /\ OneTracePerBuyer /\ FirstRun /\ LocalsOK
        /\ Linked /\ Decided /\ Judged

USE DEF At, Become

-----------------------------------------------------------------------------
\* Appending a row keeps the rows there are.
LEMMA Appended ==
    ASSUME NEW S, NEW s \in Seq(S), NEW e \in S
    PROVE  /\ Append(s, e) \in Seq(S)
           /\ Len(Append(s, e)) = Len(s) + 1
           /\ Len(s) \in Nat
           /\ DOMAIN s = 1..Len(s)
           /\ DOMAIN Append(s, e) = 1..(Len(s) + 1)
           /\ \A i \in 1..Len(s) : Append(s, e)[i] = s[i]
           /\ Append(s, e)[Len(s) + 1] = e
  BY AppendProperties, LenProperties

\* A classification is one of the two names the runs of this module end in; the
\* leak graph looks for another.
LEMMA Classified == ASSUME NEW tr
                    PROVE  final_classification(tr) \in {"READY_FOR_PAYMENT", "ABORTED"}
  BY DEF final_classification

LEMMA NoLeak == LeakClusters = {}
  <1>1. Failed = {}
    BY Classified DEF Failed
  <1>2. {AbortReason(traces[n]) : n \in Failed} = {}
    BY <1>1
  <1>3. ASSUME NEW c \in LeakClusters PROVE FALSE
    <2>1. PICK reason \in {AbortReason(traces[n]) : n \in Failed} : TRUE
      BY <1>3 DEF LeakClusters
    <2> QED BY <1>2, <2>1
  <1> QED BY <1>3

\* A patch only adds the wattage, and the sandbox sets the category.
LEMMA PatchAdds ==
    ASSUME NEW m \in Market, NEW x \in BOOLEAN
    PROVE  [Patched(m) EXCEPT !.mapped = x] =
               [mapped |-> x, relevant |-> m.relevant,
                watts |-> IF m.watts = 0 THEN Evidence ELSE m.watts, need |-> m.need]
  <1>1. Patched(m) = [mapped |-> m.mapped, relevant |-> m.relevant,
                      watts |-> IF m.watts = 0 THEN Evidence ELSE m.watts, need |-> m.need]
    BY DEF Patched, Market
  <1> QED BY <1>1

\* The sandbox of a committed product is the patched snapshot.
LEMMA ReplayIsReplayed ==
    ASSUME NEW tr \in Trace, tr.buyer \in products, LoopAssumption
    PROVE  /\ ReplayOf(tr) = Replayed(tr)
           /\ Replayed(tr) \in Trace
           /\ Replayed(tr).buyer = tr.buyer
           /\ Replayed(tr).replay
  <1> DEFINE m == tr.market
  <1>1. m \in Market /\ tr.buyer \in 1..Cohort
    BY DEF Trace
  <1>2. Sandbox(tr) = [Patched(m) EXCEPT !.mapped = TRUE]
    BY DEF Sandbox
  <1>3. Sandbox(tr) = [mapped |-> TRUE, relevant |-> m.relevant,
                       watts |-> IF m.watts = 0 THEN Evidence ELSE m.watts, need |-> m.need]
    <2> HIDE DEF m
    <2> QED BY <1>1, <1>2, PatchAdds
  <1>4. Sandbox(tr) \in Market
    BY <1>1, <1>3 DEF Market, LoopAssumption
  <1> QED BY <1>1, <1>3, <1>4 DEF ReplayOf, Replayed, StructuredTrace, Trace, Market

-----------------------------------------------------------------------------
\* What a thread is made into.
LEMMA ThreadLocals ==
    ASSUME LoopAssumption
    PROVE  /\ Idle \in ThreadRecord /\ Idle.pc = "idle"
           /\ \A b \in 0..(Cohort + 1) : /\ Cohorting(b) \in ThreadRecord
                                       /\ Cohorting(b).pc = "cohort" /\ Cohorting(b).buyer = b
           /\ \A b \in 0..(Cohort + 1) : /\ Running(b) \in ThreadRecord
                                       /\ Running(b).pc = "run" /\ Running(b).buyer = b
           /\ \A b \in 0..Cohort, n \in 1..Unknown :
                  /\ Localizing(b, n) \in ThreadRecord
                  /\ Localizing(b, n).pc = "localize"
                  /\ Localizing(b, n).buyer = b /\ Localizing(b, n).trace = n
           /\ \A b \in 0..Cohort, n \in 1..Unknown, c \in 1..MaxClusters :
                  /\ Synthesizing(b, n, c) \in ThreadRecord
                  /\ Synthesizing(b, n, c).pc = "synthesize"
                  /\ Synthesizing(b, n, c).buyer = b /\ Synthesizing(b, n, c).trace = n
                  /\ Synthesizing(b, n, c).failure = c
           /\ \A r \in 1..MaxRepairs, n \in 1..MaxTraces :
                  /\ Replaying(r, n) \in ThreadRecord /\ Replaying(r, n).pc = "replay"
                  /\ Replaying(r, n).repair = r /\ Replaying(r, n).trace = n
           /\ \A r \in 1..MaxRepairs, n, k \in 1..MaxTraces :
                  /\ Recording(r, n, k) \in ThreadRecord /\ Recording(r, n, k).pc = "record"
                  /\ Recording(r, n, k).repair = r /\ Recording(r, n, k).trace = n
                  /\ Recording(r, n, k).replay = k
  <1> USE DEF LoopAssumption, ThreadRecord, Unknown, Locals
  <1>1. Idle \in ThreadRecord /\ Idle.pc = "idle"
    BY DEF Idle
  <1>2. \A b \in 0..(Cohort + 1) : /\ Cohorting(b) \in ThreadRecord
                                  /\ Cohorting(b).pc = "cohort" /\ Cohorting(b).buyer = b
    BY DEF Cohorting
  <1>3. \A b \in 0..(Cohort + 1) : /\ Running(b) \in ThreadRecord
                                  /\ Running(b).pc = "run" /\ Running(b).buyer = b
    BY DEF Running
  <1>4. \A b \in 0..Cohort, n \in 1..Unknown :
            /\ Localizing(b, n) \in ThreadRecord /\ Localizing(b, n).pc = "localize"
            /\ Localizing(b, n).buyer = b /\ Localizing(b, n).trace = n
    BY DEF Localizing
  <1>5. \A b \in 0..Cohort, n \in 1..Unknown, c \in 1..MaxClusters :
            /\ Synthesizing(b, n, c) \in ThreadRecord
            /\ Synthesizing(b, n, c).pc = "synthesize"
            /\ Synthesizing(b, n, c).buyer = b /\ Synthesizing(b, n, c).trace = n
            /\ Synthesizing(b, n, c).failure = c
    BY DEF Synthesizing
  <1>6. \A r \in 1..MaxRepairs, n \in 1..MaxTraces :
            /\ Replaying(r, n) \in ThreadRecord /\ Replaying(r, n).pc = "replay"
            /\ Replaying(r, n).repair = r /\ Replaying(r, n).trace = n
    BY DEF Replaying
  <1>7. \A r \in 1..MaxRepairs, n, k \in 1..MaxTraces :
            /\ Recording(r, n, k) \in ThreadRecord /\ Recording(r, n, k).pc = "record"
            /\ Recording(r, n, k).repair = r /\ Recording(r, n, k).trace = n
            /\ Recording(r, n, k).replay = k
    BY DEF Recording
  <1> QED BY <1>1, <1>2, <1>3, <1>4, <1>5, <1>6, <1>7

LEMMA InitIInv == Init => IInv
  <1> USE DEF Init
  <1> SUFFICES ASSUME Init PROVE IInv
    OBVIOUS
  <1>1. DOMAIN traces = {} /\ DOMAIN repairs = {} /\ DOMAIN results = {}
    OBVIOUS
  <1>2. TypeOK
    BY LoopAssumption, ThreadLocals DEF TypeOK, LoopAssumption
  <1>3. Owned /\ OneTracePerBuyer /\ Linked /\ Decided /\ Judged
    BY <1>1 DEF Owned, OneTracePerBuyer, Linked, Decided, Judged
  <1>4. FirstRun /\ LocalsOK
    BY LoopAssumption, ThreadLocals DEF FirstRun, LocalsOK, ThreadRefs
  <1> QED BY <1>2, <1>3, <1>4 DEF IInv

\* Steps that only move one thread.
LEMMA MoveThread ==
    ASSUME LoopAssumption, IInv, NEW t \in Threads, NEW n \in ThreadRecord,
           thread' = [thread EXCEPT ![t] = n],
           n.pc # "run", ThreadRefs(n),
           UNCHANGED <<products, traces, clusters, repairs, results>>,
           leak' = leak, told' \subseteq (1..MaxRepairs) \X {"VERIFIED", "FAILED"}
    PROVE  IInv'
  <1>1. TypeOK'
    BY DEF IInv, TypeOK
  <1>2. FirstRun'
    BY DEF IInv, TypeOK, FirstRun
  <1>3. LocalsOK'
    BY DEF IInv, TypeOK, LocalsOK, ThreadRefs
  <1>4. (Owned /\ OneTracePerBuyer /\ Linked /\ Decided /\ Judged)'
    BY DEF IInv, Owned, OneTracePerBuyer, Linked, Decided, Judged, HasEvidence
  <1> QED BY <1>1, <1>2, <1>3, <1>4 DEF IInv

-----------------------------------------------------------------------------
(* One lemma per action that changes a table.                              *)

LEMMA AddProductIInv ==
    ASSUME LoopAssumption, IInv, NEW t \in Threads, AddProduct(t) PROVE IInv'
  <1> USE DEF AddProduct
  <1> DEFINE b == thread[t].buyer
  <1>0. b \in 1..Cohort /\ thread[t] \in ThreadRecord /\ products \subseteq products'
    BY DEF IInv, TypeOK, LocalsOK, ThreadRefs, LoopAssumption, ThreadRecord
  <1>1. /\ thread' = [thread EXCEPT ![t] = Running(b)]
        /\ Running(b) \in ThreadRecord /\ Running(b).pc = "run" /\ Running(b).buyer = b
    BY <1>0, ThreadLocals DEF LoopAssumption
  <1>2. TypeOK'
    BY <1>0, <1>1 DEF IInv, TypeOK
  <1>3. Owned'
    BY <1>0 DEF IInv, Owned
  <1>4. FirstRun'
    <2>1. \A n \in DOMAIN traces : traces[n].buyer # b
      BY DEF IInv, Owned
    <2>2. \A u \in Threads \ {t} : thread[u].pc = "run" => thread[u].buyer # b
      BY DEF IInv, FirstRun
    <2> QED BY <1>0, <1>1, <2>1, <2>2 DEF IInv, TypeOK, FirstRun
  <1>5. LocalsOK'
    BY <1>0, <1>1 DEF IInv, TypeOK, LocalsOK, ThreadRefs
  <1>6. (OneTracePerBuyer /\ Linked /\ Decided /\ Judged)'
    BY DEF IInv, OneTracePerBuyer, Linked, Decided, Judged
  <1> QED BY <1>2, <1>3, <1>4, <1>5, <1>6 DEF IInv

\* What a new trace leaves as it is.
LEMMA NewTrace ==
    ASSUME LoopAssumption, IInv, NEW row \in Trace, Len(traces) < MaxTraces,
           traces' = Append(traces, row), row.buyer \in products,
           UNCHANGED <<products, clusters, leak, repairs, results, told>>
    PROVE  /\ traces' \in Seq(Trace) /\ Len(traces') <= MaxTraces
           /\ DOMAIN traces' = 1..(Len(traces) + 1)
           /\ DOMAIN traces = 1..Len(traces) /\ Len(traces) \in Nat
           /\ \A n \in DOMAIN traces : n \in DOMAIN traces' /\ traces'[n] = traces[n]
           /\ traces'[Len(traces) + 1] = row
           /\ (Owned /\ Linked /\ Decided /\ Judged)'
  <1>1. traces \in Seq(Trace)
    BY DEF IInv, TypeOK
  <1>2. /\ traces' \in Seq(Trace) /\ Len(traces') = Len(traces) + 1 /\ Len(traces) \in Nat
        /\ DOMAIN traces = 1..Len(traces) /\ DOMAIN traces' = 1..(Len(traces) + 1)
        /\ \A n \in 1..Len(traces) : traces'[n] = traces[n]
        /\ traces'[Len(traces) + 1] = row
    BY <1>1, Appended
  <1>3. \A n \in DOMAIN traces : n \in DOMAIN traces' /\ traces'[n] = traces[n]
    BY <1>2
  <1>4. Owned'
    BY <1>2 DEF IInv, Owned
  <1>5. Linked'
    BY <1>3 DEF IInv, Linked
  <1>6. Decided'
    BY <1>3 DEF IInv, Decided, Linked
  <1>7. Judged'
    BY <1>3 DEF IInv, Judged, Linked
  <1> QED BY <1>2, <1>3, <1>4, <1>5, <1>6, <1>7, LoopAssumption DEF LoopAssumption

LEMMA RunBuyerIInv ==
    ASSUME LoopAssumption, IInv, NEW t \in Threads, RunBuyer(t) PROVE IInv'
  <1> DEFINE b == thread[t].buyer
  <1>1. PICK m \in Markets :
          LET row == SemanticTrace(b, m) IN
          /\ traces' = Append(traces, row)
          /\ thread' = [thread EXCEPT ![t] =
                 IF final_classification(row) = "ABORTED"
                 THEN Localizing(b, Len(traces) + 1)
                 ELSE Cohorting(b + 1)]
    BY DEF RunBuyer
  <1> DEFINE row == SemanticTrace(b, m)
             after == IF final_classification(row) = "ABORTED"
                      THEN Localizing(b, Len(traces) + 1)
                      ELSE Cohorting(b + 1)
  <1>2. /\ b \in 1..Cohort /\ b \in products /\ thread[t] \in ThreadRecord
        /\ thread[t].pc = "run" /\ Len(traces) < MaxTraces /\ MaxTraces \in Nat /\ Cohort \in Nat
        /\ UNCHANGED <<products, clusters, leak, repairs, results, told>>
        /\ traces \in Seq(Trace)
    BY DEF RunBuyer, IInv, TypeOK, LocalsOK, ThreadRefs, FirstRun, LoopAssumption
  <1>3. m \in Market /\ m.relevant \in BOOLEAN
    BY DEF LoopAssumption, Market
  <1>4. row \in Trace /\ row.buyer = b /\ ~row.replay
    BY <1>2, <1>3 DEF SemanticTrace, Trace
  <1>5. /\ traces' \in Seq(Trace) /\ Len(traces') <= MaxTraces
        /\ DOMAIN traces' = 1..(Len(traces) + 1)
        /\ DOMAIN traces = 1..Len(traces) /\ Len(traces) \in Nat
        /\ \A n \in DOMAIN traces : n \in DOMAIN traces' /\ traces'[n] = traces[n]
        /\ traces'[Len(traces) + 1] = row
        /\ (Owned /\ Linked /\ Decided /\ Judged)'
    BY <1>1, <1>2, <1>4, NewTrace
  <1>6. /\ after \in ThreadRecord
        /\ \/ /\ after.pc = "cohort" /\ after.buyer = b + 1
           \/ /\ after.pc = "localize" /\ after.buyer = b /\ after.trace = Len(traces) + 1
    BY <1>2, <1>5, ThreadLocals DEF Unknown
  <1>7. thread' = [thread EXCEPT ![t] = after] /\ thread \in [Threads -> ThreadRecord]
    BY <1>1 DEF IInv, TypeOK
  <1>8. TypeOK'
    BY <1>2, <1>5, <1>6, <1>7 DEF IInv, TypeOK
  <1>9. OneTracePerBuyer'
    BY <1>2, <1>4, <1>5 DEF IInv, FirstRun, OneTracePerBuyer
  <1>10. FirstRun'
    <2> SUFFICES ASSUME NEW u \in Threads, thread'[u].pc = "run"
                 PROVE  /\ thread'[u].buyer \in products'
                        /\ \A n \in DOMAIN traces' :
                              ~traces'[n].replay => traces'[n].buyer # thread'[u].buyer
                        /\ \A v \in Threads : thread'[v].pc = "run"
                              /\ thread'[v].buyer = thread'[u].buyer => v = u
      BY DEF FirstRun
    <2>1. u # t /\ thread'[u] = thread[u]
      BY <1>6, <1>7
    <2>2. thread[u].buyer # b
      BY <1>2, <2>1 DEF IInv, FirstRun
    <2>3. \A v \in Threads : thread'[v].pc = "run" => v # t /\ thread'[v] = thread[v]
      BY <1>6, <1>7
    <2> QED BY <1>2, <1>4, <1>5, <2>1, <2>2, <2>3 DEF IInv, FirstRun
  <1>11. LocalsOK'
    <2>1. \A u \in Threads \ {t} : ThreadRefs(thread[u])'
      BY <1>2, <1>5, <1>7 DEF IInv, LocalsOK, ThreadRefs, Linked
    <2>2. thread'[t] = after
      BY <1>7
    <2>3. ThreadRefs(thread[t])'
      BY <1>2, <1>5, <1>6, <2>2 DEF ThreadRefs, Unknown
    <2> QED BY <2>1, <2>3 DEF LocalsOK
  <1> QED BY <1>5, <1>8, <1>9, <1>10, <1>11 DEF IInv

\* A thread that is through with a trace.
LEMMA ContinueLocals ==
    ASSUME LoopAssumption, IInv, NEW t \in Threads, thread[t].buyer \in 0..Cohort, Continue(t)
    PROVE  \E n \in ThreadRecord : /\ thread' = [thread EXCEPT ![t] = n]
                                   /\ n.pc = "idle" \/ (n.pc = "cohort" /\ n.buyer \in 1..(Cohort + 1))
  <1> DEFINE n == IF thread[t].buyer = 0 THEN Idle ELSE Cohorting(thread[t].buyer + 1)
  <1>1. n \in ThreadRecord /\ (n.pc = "idle" \/ (n.pc = "cohort" /\ n.buyer \in 1..(Cohort + 1)))
    BY ThreadLocals DEF LoopAssumption
  <1> QED BY <1>1 DEF Continue

LEMMA CommitClusterIInv ==
    ASSUME LoopAssumption, IInv, NEW t \in Threads, CommitCluster(t) PROVE IInv'
  <1> DEFINE b == thread[t].buyer
             k == thread[t].trace
             c == Len(clusters) + 1
  <1>1. /\ thread[t].pc = "localize" /\ b \in 0..Cohort /\ k \in 1..Unknown
        /\ clusters \in Seq(Cluster) /\ Len(clusters) < MaxClusters
        /\ clusters' = Append(clusters, [trace |-> k, live |-> TRUE])
        /\ thread' = [thread EXCEPT ![t] = Synthesizing(b, k, c)]
        /\ thread \in [Threads -> ThreadRecord]
        /\ UNCHANGED <<products, traces, leak, repairs, results, told>>
    BY DEF CommitCluster, IInv, TypeOK, LocalsOK, ThreadRefs
  <1>2. [trace |-> k, live |-> TRUE] \in Cluster
    BY <1>1 DEF Cluster
  <1>3. /\ clusters' \in Seq(Cluster) /\ Len(clusters') = c /\ Len(clusters) \in Nat
        /\ DOMAIN clusters = 1..Len(clusters) /\ DOMAIN clusters' = 1..c
        /\ \A i \in DOMAIN clusters : i \in DOMAIN clusters' /\ clusters'[i] = clusters[i]
        /\ clusters'[c].trace = k
    BY <1>1, <1>2, Appended
  <1>4. /\ Synthesizing(b, k, c) \in ThreadRecord
        /\ Synthesizing(b, k, c).pc = "synthesize"
        /\ Synthesizing(b, k, c).buyer = b /\ Synthesizing(b, k, c).trace = k
        /\ Synthesizing(b, k, c).failure = c
    BY <1>1, <1>3, ThreadLocals DEF LoopAssumption
  <1>5. TypeOK'
    BY <1>1, <1>3, <1>4 DEF IInv, TypeOK, LoopAssumption
  <1>6. FirstRun'
    BY <1>1, <1>4 DEF IInv, FirstRun
  <1>7. LocalsOK'
    <2>1. \A u \in Threads \ {t} : ThreadRefs(thread[u])'
      BY <1>1, <1>3 DEF IInv, LocalsOK, ThreadRefs
    <2>2. thread'[t] = Synthesizing(b, k, c)
      BY <1>1
    <2>3. ThreadRefs(thread[t])'
      BY <1>1, <1>3, <1>4, <2>2 DEF ThreadRefs
    <2> QED BY <2>1, <2>3 DEF LocalsOK
  <1>8. (Owned /\ OneTracePerBuyer /\ Linked /\ Decided /\ Judged)'
    BY <1>1, <1>3 DEF IInv, Owned, OneTracePerBuyer, Linked, Decided, Judged
  <1> QED BY <1>5, <1>6, <1>7, <1>8 DEF IInv

LEMMA SynthesizeIInv ==
    ASSUME LoopAssumption, IInv, NEW t \in Threads, Synthesize(t) PROVE IInv'
  <1> DEFINE f == thread[t].failure
             k == thread[t].trace
             q == Len(repairs) + 1
  <1>1. /\ thread[t].pc = "synthesize" /\ thread[t].buyer \in 0..Cohort
        /\ f \in DOMAIN clusters /\ clusters[f].trace = k
        /\ k \in DOMAIN traces /\ Rejected(traces[k]) \in AttributeReasons
        /\ repairs \in Seq(Repair) /\ Len(repairs) < MaxRepairs
        /\ repairs' = Append(repairs, [failure |-> f, snapshot |-> k, status |-> "proposed"])
        /\ Continue(t) /\ thread \in [Threads -> ThreadRecord]
        /\ UNCHANGED <<products, traces, clusters, leak, results, told>>
    BY DEF Synthesize, HasEvidence, IInv, TypeOK, LocalsOK, ThreadRefs
  <1>2. PICK n \in ThreadRecord :
            /\ thread' = [thread EXCEPT ![t] = n]
            /\ n.pc = "idle" \/ (n.pc = "cohort" /\ n.buyer \in 1..(Cohort + 1))
    BY <1>1, ContinueLocals
  <1>3. /\ DOMAIN clusters = 1..Len(clusters) /\ DOMAIN traces = 1..Len(traces)
        /\ Len(clusters) \in 0..MaxClusters /\ Len(traces) \in 0..MaxTraces
    BY LenProperties DEF IInv, TypeOK, LoopAssumption
  <1>4. [failure |-> f, snapshot |-> k, status |-> "proposed"] \in Repair
    BY <1>1, <1>3 DEF Repair, LoopAssumption
  <1>5. /\ repairs' \in Seq(Repair) /\ Len(repairs') = q /\ Len(repairs) \in Nat
        /\ DOMAIN repairs = 1..Len(repairs) /\ DOMAIN repairs' = 1..q
        /\ \A r \in DOMAIN repairs : r \in DOMAIN repairs' /\ repairs'[r] = repairs[r]
        /\ repairs'[q] = [failure |-> f, snapshot |-> k, status |-> "proposed"]
    BY <1>1, <1>4, Appended
  <1>6. TypeOK'
    BY <1>1, <1>2, <1>5 DEF IInv, TypeOK, LoopAssumption
  <1>7. FirstRun'
    BY <1>1, <1>2 DEF IInv, FirstRun
  <1>8. LocalsOK'
    <2>1. \A u \in Threads \ {t} : ThreadRefs(thread[u])'
      BY <1>1, <1>2, <1>5 DEF IInv, LocalsOK, ThreadRefs
    <2>2. ThreadRefs(thread[t])'
      BY <1>1, <1>2 DEF ThreadRefs
    <2> QED BY <2>1, <2>2 DEF LocalsOK
  <1>9. Linked'
    BY <1>1, <1>5 DEF IInv, Linked
  <1>10. Decided'
    BY <1>1, <1>5 DEF IInv, Decided
  <1>11. Judged'
    BY <1>1, <1>5 DEF IInv, Judged
  <1>12. (Owned /\ OneTracePerBuyer)'
    BY <1>1 DEF IInv, Owned, OneTracePerBuyer
  <1> QED BY <1>6, <1>7, <1>8, <1>9, <1>10, <1>11, <1>12 DEF IInv

LEMMA ReplayIInv ==
    ASSUME LoopAssumption, IInv, NEW t \in Threads, Replay(t) PROVE IInv'
  <1> DEFINE r == thread[t].repair
             k == thread[t].trace
             row == ReplayOf(traces[k])
             p == Len(traces) + 1
  <1>1. /\ thread[t].pc = "replay" /\ Len(traces) < MaxTraces
        /\ r \in DOMAIN repairs /\ k = repairs[r].snapshot /\ k \in DOMAIN traces
        /\ traces' = Append(traces, row)
        /\ thread' = [thread EXCEPT ![t] = Recording(r, k, p)]
        /\ thread \in [Threads -> ThreadRecord] /\ traces \in Seq(Trace)
        /\ UNCHANGED <<products, clusters, leak, repairs, results, told>>
    BY DEF Replay, IInv, TypeOK, LocalsOK, ThreadRefs, Linked
  <1>2. traces[k] \in Trace /\ traces[k].buyer \in products
    BY <1>1, ElementOfSeq, LenProperties DEF IInv, Owned
  <1>3. /\ row = Replayed(traces[k]) /\ row \in Trace
        /\ row.buyer \in products /\ row.replay
    BY <1>2, ReplayIsReplayed
  <1> HIDE DEF row
  <1>4. /\ traces' \in Seq(Trace) /\ Len(traces') <= MaxTraces
        /\ DOMAIN traces' = 1..(Len(traces) + 1)
        /\ DOMAIN traces = 1..Len(traces) /\ Len(traces) \in Nat
        /\ \A n \in DOMAIN traces : n \in DOMAIN traces' /\ traces'[n] = traces[n]
        /\ traces'[Len(traces) + 1] = row
        /\ (Owned /\ Linked /\ Decided /\ Judged)'
    BY <1>1, <1>3, NewTrace
  <1>5. r \in 1..MaxRepairs /\ k \in 1..MaxTraces /\ p \in 1..MaxTraces
    BY <1>1, <1>4, LenProperties DEF IInv, TypeOK, LoopAssumption
  <1>6. /\ Recording(r, k, p) \in ThreadRecord /\ Recording(r, k, p).pc = "record"
        /\ Recording(r, k, p).repair = r /\ Recording(r, k, p).trace = k
        /\ Recording(r, k, p).replay = p
    BY <1>5, ThreadLocals
  <1>7. TypeOK'
    BY <1>1, <1>4, <1>6 DEF IInv, TypeOK
  <1>8. OneTracePerBuyer'
    BY <1>3, <1>4 DEF IInv, OneTracePerBuyer
  <1>9. FirstRun'
    BY <1>1, <1>3, <1>4, <1>6 DEF IInv, FirstRun
  <1>10. LocalsOK'
    <2>1. \A u \in Threads \ {t} : ThreadRefs(thread[u])'
      BY <1>1, <1>4 DEF IInv, LocalsOK, ThreadRefs, Linked
    <2>2. thread'[t] = Recording(r, k, p)
      BY <1>1
    <2>3. ThreadRefs(thread[t])'
      BY <1>1, <1>3, <1>4, <1>6, <2>2 DEF ThreadRefs
    <2> QED BY <2>1, <2>3 DEF LocalsOK
  <1> QED BY <1>4, <1>7, <1>8, <1>9, <1>10 DEF IInv

\* The status Record gives is the verdict of the snapshot, whoever records it.
LEMMA RecordedStatus ==
    ASSUME LoopAssumption, IInv, NEW t \in Threads, Record(t)
    PROVE  LET n == thread[t]
               verdict == Verdict(traces[n.trace])
           IN  /\ n.pc = "record" /\ Len(results) < MaxResults
               /\ n.repair \in DOMAIN repairs /\ n.trace = repairs[n.repair].snapshot
               /\ results' = Append(results, [repair |-> n.repair, trace |-> n.trace,
                                              success |-> verdict = "verified"])
               /\ repairs' = [repairs EXCEPT ![n.repair] =
                                [failure |-> repairs[n.repair].failure, snapshot |-> n.trace,
                                 status |-> verdict]]
               /\ told' = told \cup {<<n.repair, "VERIFIED">>}
               /\ thread' = [thread EXCEPT ![t] = Idle]
               /\ UNCHANGED <<products, traces, clusters, leak>>
  <1> DEFINE n == thread[t]
  <1>1. /\ n.pc = "record" /\ n.repair \in DOMAIN repairs
        /\ n.trace = repairs[n.repair].snapshot
        /\ traces[n.replay] = Replayed(traces[n.trace])
    BY DEF Record, IInv, LocalsOK, ThreadRefs
  <1>2. Verdict(traces[n.trace]) = IF final_classification(traces[n.replay]) = "READY_FOR_PAYMENT"
                                   THEN "verified" ELSE "failed"
    BY <1>1 DEF Verdict
  <1>3. (Verdict(traces[n.trace]) = "verified")
            = (final_classification(traces[n.replay]) = "READY_FOR_PAYMENT")
    BY <1>2
  <1> QED BY <1>1, <1>2, <1>3 DEF Record

LEMMA RecordIInv ==
    ASSUME LoopAssumption, IInv, NEW t \in Threads, Record(t) PROVE IInv'
  <1> DEFINE r == thread[t].repair
             k == thread[t].trace
             v == Verdict(traces[k])
             row == [failure |-> repairs[r].failure, snapshot |-> k, status |-> v]
             new == [repair |-> r, trace |-> k, success |-> v = "verified"]
             q == Len(results) + 1
  <1>1. /\ thread[t].pc = "record" /\ Len(results) < MaxResults
        /\ r \in DOMAIN repairs /\ k = repairs[r].snapshot
        /\ results' = Append(results, new)
        /\ repairs' = [repairs EXCEPT ![r] = row]
        /\ told' = told \cup {<<r, "VERIFIED">>}
        /\ thread' = [thread EXCEPT ![t] = Idle]
        /\ UNCHANGED <<products, traces, clusters, leak>>
    BY RecordedStatus
  <1>2. /\ repairs \in Seq(Repair) /\ results \in Seq(Result) /\ traces \in Seq(Trace)
        /\ Len(repairs) <= MaxRepairs /\ Len(traces) <= MaxTraces
        /\ thread \in [Threads -> ThreadRecord]
        /\ k \in DOMAIN traces /\ v \in {"verified", "failed"}
    BY <1>1 DEF IInv, TypeOK, Linked, Verdict
  <1>3. r \in 1..MaxRepairs /\ k \in 1..MaxTraces /\ repairs[r] \in Repair
    BY <1>1, <1>2, LenProperties, ElementOfSeq DEF LoopAssumption
  <1>4. row \in Repair /\ new \in Result
    BY <1>2, <1>3 DEF Repair, Result
  <1>5. /\ repairs' \in Seq(Repair) /\ Len(repairs') = Len(repairs)
        /\ DOMAIN repairs' = DOMAIN repairs
        /\ repairs'[r] = row
        /\ \A s \in DOMAIN repairs : s # r => repairs'[s] = repairs[s]
    BY <1>1, <1>2, <1>4, ExceptSeq
  <1>6. /\ results' \in Seq(Result) /\ Len(results') = q /\ Len(results) \in Nat
        /\ DOMAIN results = 1..Len(results) /\ DOMAIN results' = 1..q
        /\ \A i \in DOMAIN results : i \in DOMAIN results' /\ results'[i] = results[i]
        /\ results'[q] = new
    BY <1>1, <1>2, <1>4, Appended
  <1>7. Idle \in ThreadRecord /\ Idle.pc = "idle"
    BY ThreadLocals
  <1>8. \A s \in DOMAIN repairs : /\ repairs'[s].failure = repairs[s].failure
                                  /\ repairs'[s].snapshot = repairs[s].snapshot
    BY <1>1, <1>5
  <1>9. TypeOK'
    BY <1>1, <1>2, <1>3, <1>5, <1>6, <1>7 DEF IInv, TypeOK, LoopAssumption
  <1>10. (Owned /\ OneTracePerBuyer)' /\ FirstRun'
    BY <1>1, <1>2, <1>7 DEF IInv, Owned, OneTracePerBuyer, FirstRun
  <1>11. LocalsOK'
    <2>1. \A u \in Threads \ {t} : ThreadRefs(thread[u])'
      BY <1>1, <1>5, <1>8 DEF IInv, LocalsOK, ThreadRefs
    <2>2. ThreadRefs(thread[t])'
      BY <1>1, <1>2, <1>7 DEF ThreadRefs
    <2> QED BY <2>1, <2>2 DEF LocalsOK
  <1>12. Linked'
    BY <1>1, <1>5, <1>8 DEF IInv, Linked
  <1>13. Decided'
    <2>1. /\ repairs'[r].status = v /\ repairs'[r].snapshot = k
          /\ v # "proposed"
      BY <1>2, <1>5
    <2>2. ASSUME NEW i \in DOMAIN results
          PROVE  /\ results'[i].repair \in DOMAIN repairs'
                 /\ repairs'[results'[i].repair].status # "proposed"
                 /\ results'[i].trace = repairs'[results'[i].repair].snapshot
                 /\ results'[i].success <=> Verdict(traces'[results'[i].trace]) = "verified"
      BY <1>1, <1>5, <1>6, <1>8, <2>1 DEF IInv, Decided
    <2>3. /\ results'[q].repair \in DOMAIN repairs'
          /\ repairs'[results'[q].repair].status # "proposed"
          /\ results'[q].trace = repairs'[results'[q].repair].snapshot
          /\ results'[q].success <=> Verdict(traces'[results'[q].trace]) = "verified"
      <3>1. results'[q].repair = r /\ results'[q].trace = k
        BY <1>6
      <3>2. results'[q].success = (Verdict(traces[k]) = "verified")
        BY <1>6
      <3>3. results'[q].success <=> Verdict(traces'[results'[q].trace]) = "verified"
        BY <1>1, <3>1, <3>2, Zenon
      <3> QED BY <1>1, <1>5, <2>1, <3>1, <3>3
    <2>4. \A i \in DOMAIN results' : i \in DOMAIN results \/ i = q
      BY <1>6
    <2> HIDE DEF q
    <2> QED BY <2>2, <2>3, <2>4, Zenon DEF Decided
  <1>14. Judged'
    <2>1. repairs'[r].status = Verdict(traces'[repairs'[r].snapshot])
          /\ \E i \in DOMAIN results' : results'[i].repair = r
      BY <1>1, <1>5, <1>6
    <2>2. ASSUME NEW s \in DOMAIN repairs, s # r, repairs'[s].status # "proposed"
          PROVE  /\ repairs'[s].status = Verdict(traces'[repairs'[s].snapshot])
                 /\ \E i \in DOMAIN results' : results'[i].repair = s
      BY <1>1, <1>5, <1>6, <2>2 DEF IInv, Judged
    <2> QED BY <1>5, <2>1, <2>2 DEF Judged
  <1> QED BY <1>9, <1>10, <1>11, <1>12, <1>13, <1>14 DEF IInv

LEMMA LeakGraphIInv == ASSUME LoopAssumption, IInv, LeakGraph PROVE IInv'
  <1>1. /\ clusters' = [i \in DOMAIN clusters |-> [trace |-> clusters[i].trace, live |-> FALSE]]
        /\ leak' = {}
        /\ clusters \in Seq(Cluster) /\ DOMAIN clusters = 1..Len(clusters)
        /\ Len(clusters) \in Nat /\ Len(clusters) <= MaxClusters
        /\ UNCHANGED <<products, traces, repairs, results, thread, told>>
    BY NoLeak, LenProperties DEF LeakGraph, IInv, TypeOK
  <1>2. \A i \in 1..Len(clusters) : [trace |-> clusters[i].trace, live |-> FALSE] \in Cluster
    BY <1>1, ElementOfSeq DEF Cluster
  <1>3. /\ clusters' \in Seq(Cluster) /\ Len(clusters') = Len(clusters)
        /\ DOMAIN clusters' = DOMAIN clusters
        /\ \A i \in DOMAIN clusters : clusters'[i].trace = clusters[i].trace
    BY <1>1, <1>2, LenProperties
  <1>4. TypeOK'
    BY <1>1, <1>3 DEF IInv, TypeOK
  <1>5. FirstRun' /\ LocalsOK'
    BY <1>1, <1>3 DEF IInv, FirstRun, LocalsOK, ThreadRefs
  <1>6. (Owned /\ OneTracePerBuyer /\ Linked /\ Decided /\ Judged)'
    BY <1>1, <1>3 DEF IInv, Owned, OneTracePerBuyer, Linked, Decided, Judged
  <1> QED BY <1>4, <1>5, <1>6 DEF IInv

LEMMA RestartIInv == ASSUME LoopAssumption, IInv, Restart PROVE IInv'
  <1>1. Idle \in ThreadRecord /\ Idle.pc = "idle"
    BY ThreadLocals
  <1>2. /\ thread' = [t \in Threads |-> Idle]
        /\ UNCHANGED <<products, traces, clusters, leak, repairs, results, told>>
    BY DEF Restart
  <1>3. TypeOK'
    BY <1>1, <1>2 DEF IInv, TypeOK
  <1>4. FirstRun' /\ LocalsOK'
    BY <1>1, <1>2 DEF FirstRun, LocalsOK, ThreadRefs
  <1>5. (Owned /\ OneTracePerBuyer /\ Linked /\ Decided /\ Judged)'
    BY <1>2 DEF IInv, Owned, OneTracePerBuyer, Linked, Decided, Judged
  <1> QED BY <1>3, <1>4, <1>5 DEF IInv

\* The steps that change no table.
LEMMA MoveIInv ==
    ASSUME LoopAssumption, IInv, NEW t \in Threads,
           \/ Request(t) \/ CompileFails(t) \/ DuplicateProduct(t) \/ RunRaises(t)
           \/ EndCohort(t) \/ ManualReview(t)
    PROVE  IInv'
  <1> USE DEF IInv, TypeOK
  <1>1. CASE RunExperiment(t)
    <2>1. Cohorting(1) \in ThreadRecord /\ Cohorting(1).pc = "cohort" /\ Cohorting(1).buyer = 1
      BY ThreadLocals DEF LoopAssumption
    <2>2. ThreadRefs(Cohorting(1))
      BY <2>1 DEF ThreadRefs, LoopAssumption
    <2> QED BY <1>1, <2>1, <2>2, MoveThread DEF RunExperiment
  <1>2. CASE CompileFails(t) \/ DuplicateProduct(t) \/ EndCohort(t)
    <2>1. Idle \in ThreadRecord /\ Idle.pc = "idle" /\ ThreadRefs(Idle)
      BY ThreadLocals DEF ThreadRefs
    <2> QED BY <1>2, <2>1, MoveThread DEF CompileFails, DuplicateProduct, EndCohort
  <1>3. CASE RunRaises(t)
    <2> DEFINE n == Cohorting(thread[t].buyer + 1)
    <2>1. thread[t].buyer \in 1..Cohort
      BY <1>3 DEF RunRaises, LocalsOK, ThreadRefs
    <2>2. n \in ThreadRecord /\ n.pc = "cohort" /\ n.buyer = thread[t].buyer + 1
      BY <2>1, ThreadLocals DEF LoopAssumption
    <2>3. ThreadRefs(n)
      BY <2>1, <2>2 DEF ThreadRefs, LoopAssumption
    <2> QED BY <1>3, <2>2, <2>3, MoveThread DEF RunRaises
  <1>4. CASE ManualReview(t)
    <2>1. thread[t].buyer \in 0..Cohort /\ Continue(t)
      BY <1>4 DEF ManualReview, LocalsOK, ThreadRefs
    <2>2. PICK n \in ThreadRecord :
              /\ thread' = [thread EXCEPT ![t] = n]
              /\ n.pc = "idle" \/ (n.pc = "cohort" /\ n.buyer \in 1..(Cohort + 1))
      BY <2>1, ContinueLocals
    <2>3. ThreadRefs(n) /\ n.pc # "run"
      BY <2>2 DEF ThreadRefs
    <2> QED BY <1>4, <2>2, <2>3, MoveThread DEF ManualReview
  <1>5. CASE CreateFailureRepair(t)
    <2>1. PICK k \in DOMAIN traces \cup {Unknown} : thread' = [thread EXCEPT ![t] = Localizing(0, k)]
      BY <1>5 DEF CreateFailureRepair
    <2>2. k \in 1..Unknown
      BY <2>1, LenProperties DEF Unknown, LoopAssumption
    <2>3. /\ Localizing(0, k) \in ThreadRecord /\ Localizing(0, k).pc = "localize"
          /\ Localizing(0, k).buyer = 0 /\ Localizing(0, k).trace = k
      BY <2>2, ThreadLocals DEF LoopAssumption
    <2>4. ThreadRefs(Localizing(0, k))
      BY <2>2, <2>3 DEF ThreadRefs, LoopAssumption
    <2> QED BY <1>5, <2>1, <2>3, <2>4, MoveThread DEF CreateFailureRepair
  <1>6. CASE BeginVerify(t)
    <2>1. PICK r \in DOMAIN repairs :
              thread' = [thread EXCEPT ![t] = Replaying(r, clusters[repairs[r].failure].trace)]
      BY <1>6 DEF BeginVerify
    <2> DEFINE k == clusters[repairs[r].failure].trace
    <2>2. k = repairs[r].snapshot /\ k \in DOMAIN traces
      BY DEF Linked
    <2>3. r \in 1..MaxRepairs /\ k \in 1..MaxTraces
      BY <2>2, LenProperties DEF LoopAssumption
    <2>4. /\ Replaying(r, k) \in ThreadRecord /\ Replaying(r, k).pc = "replay"
          /\ Replaying(r, k).repair = r /\ Replaying(r, k).trace = k
      BY <2>3, ThreadLocals
    <2>5. ThreadRefs(Replaying(r, k))
      BY <2>2, <2>4 DEF ThreadRefs
    <2> QED BY <1>6, <2>1, <2>4, <2>5, MoveThread DEF BeginVerify
  <1>7. CASE RefuseVerify(t)
    <2>1. PICK r \in DOMAIN repairs : told' = told \cup {<<r, "FAILED">>}
      BY <1>7 DEF RefuseVerify
    <2>2. r \in 1..MaxRepairs
      BY LenProperties DEF LoopAssumption
    <2>3. TypeOK'
      BY <1>7, <2>1, <2>2 DEF RefuseVerify
    <2> QED BY <1>7, <2>3 DEF RefuseVerify, Owned, OneTracePerBuyer, FirstRun, LocalsOK,
                               ThreadRefs, Linked, Decided, Judged
  <1> QED BY <1>1, <1>2, <1>3, <1>4, <1>5, <1>6, <1>7 DEF Request

LEMMA NextIInv == ASSUME LoopAssumption, IInv, [Next]_vars PROVE IInv'
  <1>1. CASE UNCHANGED vars
    BY <1>1 DEF vars, IInv, TypeOK, Owned, OneTracePerBuyer, FirstRun, LocalsOK, ThreadRefs,
                Linked, Decided, Judged
  <1>2. ASSUME NEW t \in Threads, CohortStep(t) PROVE IInv'
    BY <1>2, AddProductIInv, RunBuyerIInv, MoveIInv DEF CohortStep
  <1>3. ASSUME NEW t \in Threads, RepairStep(t) PROVE IInv'
    BY <1>3, CommitClusterIInv, SynthesizeIInv, MoveIInv DEF RepairStep
  <1>4. ASSUME NEW t \in Threads, VerifyStep(t) PROVE IInv'
    BY <1>4, ReplayIInv, RecordIInv DEF VerifyStep
  <1>5. ASSUME NEW t \in Threads, Request(t) PROVE IInv'
    BY <1>5, MoveIInv
  <1> QED BY <1>1, <1>2, <1>3, <1>4, <1>5, LeakGraphIInv, RestartIInv DEF Next

\* The inductive invariant holds of every run.
THEOREM Inductive == Spec => []IInv
  <1>1. [Next]_vars /\ IInv => IInv'
    BY LoopAssumption, NextIInv
  <1> QED BY <1>1, LoopAssumption, InitIInv, PTL DEF Spec

-----------------------------------------------------------------------------
\* Rows and local variables have their types (models.py, the tables).
THEOREM TypeCorrect == Spec => []TypeOK
  BY Inductive, PTL DEF IInv

\* No experiment ever runs a buyer twice, however often run_experiment
\* (api/routers.py:86) is called, fails and is retried.
THEOREM BuyersRunOnce == Spec => []OneTracePerBuyer
  BY Inductive, PTL DEF IInv

\* The verdict of a proposal is that of every replay on record
\* (commerce_service.py:504-535), whatever the number of threads.
THEOREM VerdictsAgree == Spec => []VerdictHasReplay
  <1>1. IInv => VerdictHasReplay
    <2> SUFFICES ASSUME IInv, NEW r \in DOMAIN repairs
                 PROVE  LET replays == {i \in DOMAIN results : results[i].repair = r} IN
                        IF repairs[r].status = "proposed" THEN replays = {}
                        ELSE /\ replays # {}
                             /\ \A i \in replays :
                                   results[i].success <=> repairs[r].status = "verified"
      BY DEF VerdictHasReplay
    <2>1. CASE repairs[r].status = "proposed"
      BY <2>1 DEF IInv, Decided
    <2>2. CASE repairs[r].status # "proposed"
      <3>1. /\ repairs[r].status = Verdict(traces[repairs[r].snapshot])
            /\ \E i \in DOMAIN results : results[i].repair = r
        BY <2>2 DEF IInv, Judged
      <3>2. ASSUME NEW i \in DOMAIN results, results[i].repair = r
            PROVE  results[i].success <=> repairs[r].status = "verified"
        BY <3>1, <3>2, Zenon DEF IInv, Decided
      <3> QED BY <2>2, <3>1, <3>2
    <2> QED BY <2>1, <2>2
  <1> QED BY <1>1, Inductive, PTL

\* A proposal is judged by the snapshot it was made for
\* (commerce_service.py:338 and 412-427).
THEOREM JudgedByItsSnapshot == Spec => []ReplaysItsSnapshot
  <1>1. IInv => ReplaysItsSnapshot
    BY DEF IInv, Decided, ReplaysItsSnapshot
  <1> QED BY <1>1, Inductive, PTL

\* A verified proposal repaired a trace that was rejected for a missing
\* attribute, with evidence that satisfies the buyer (commerce_service.py:439-484).
THEOREM VerifiedRepairs == Spec => []VerifiedIsRepaired
  <1>1. IInv => VerifiedIsRepaired
    <2> SUFFICES ASSUME IInv, NEW r \in DOMAIN repairs, repairs[r].status = "verified"
                 PROVE  LET tr == traces[repairs[r].snapshot] IN
                        /\ final_classification(tr) = "ABORTED"
                        /\ tr.market.watts = 0 /\ Evidence >= tr.market.need
      BY DEF VerifiedIsRepaired
    <2> DEFINE tr == traces[repairs[r].snapshot]
    <2>1. /\ Verdict(tr) = "verified" /\ Rejected(tr) \in AttributeReasons
          /\ repairs[r].snapshot \in DOMAIN traces
      BY DEF IInv, Judged, Linked
    <2>2. tr \in Trace
      BY <2>1, ElementOfSeq, LenProperties DEF IInv, TypeOK
    <2>3. tr.market \in Market
      BY <2>2 DEF Trace
    <2>4. tr.market.watts \in Nat /\ tr.market.need \in Nat \ {0}
      BY <2>3 DEF Market
    <2> HIDE DEF tr
    <2>5. final_classification(tr) = "ABORTED"
      BY <2>1 DEF Rejected, AttributeReasons, final_classification
    <2>6. Rejection(Replayed(tr).market) = "none"
      BY <2>1 DEF Verdict, final_classification
    <2>7. /\ Replayed(tr).market.watts = IF tr.market.watts = 0 THEN Evidence ELSE tr.market.watts
          /\ Replayed(tr).market.need = tr.market.need
      BY DEF Replayed, StructuredTrace
    <2>8. Rejection(tr.market) # "none"
      BY <2>1 DEF Rejected, AttributeReasons
    <2> QED BY <2>4, <2>5, <2>6, <2>7, <2>8, LoopAssumption DEF Rejection, LoopAssumption, tr
  <1> QED BY <1>1, Inductive, PTL

\* A proposal's life is that of RepairLifecycle: the verdict of the first
\* verification stands, though commerce_service.py:532 overwrites the status
\* without reading it again.
THEOREM LifecycleImplemented == Spec => ImplementsLifecycle
  <1> USE DEF Lifecycle!Next, Lifecycle!Propose, Lifecycle!Decide, Lifecycle!Statuses
  <1>1. Init => Lifecycle!Init
    BY DEF Init, lifecycle, Lifecycle!Init
  <1>2. ASSUME IInv, IInv', [Next]_vars PROVE [Lifecycle!Next]_lifecycle
    <2> USE LoopAssumption DEF LoopAssumption
    <2>1. /\ repairs \in Seq(Repair) /\ Len(repairs) <= MaxRepairs
          /\ DOMAIN repairs = 1..Len(repairs) /\ Len(repairs) \in Nat
      BY <1>2, LenProperties DEF IInv, TypeOK
    <2>2. CASE repairs' = repairs
      BY <2>2 DEF lifecycle
    <2>3. ASSUME NEW t \in Threads, Synthesize(t) PROVE Lifecycle!Next
      <3> DEFINE q == Len(repairs) + 1
                 row == [failure |-> thread[t].failure, snapshot |-> thread[t].trace,
                         status |-> "proposed"]
      <3>1. repairs' = Append(repairs, row) /\ Len(repairs) < MaxRepairs
        BY <2>3 DEF Synthesize
      <3>2. repairs' \in Seq(Repair)
        BY <1>2 DEF IInv, TypeOK
      <3>3. /\ DOMAIN repairs' = 1..q /\ repairs'[q].status = "proposed"
            /\ \A r \in 1..Len(repairs) : repairs'[r] = repairs[r]
        BY <2>1, <3>1, AppendProperties, LenProperties
      <3>4. q \in 1..MaxRepairs /\ lifecycle[q] = "absent"
        BY <2>1, <3>1 DEF lifecycle
      <3>5. ASSUME NEW s \in 1..MaxRepairs
            PROVE  lifecycle'[s] = IF s = q THEN "proposed" ELSE lifecycle[s]
        <4>1. s \in DOMAIN repairs' <=> s \in DOMAIN repairs \/ s = q
          BY <2>1, <3>3
        <4>2. q \notin DOMAIN repairs
          BY <2>1
        <4> HIDE DEF q
        <4> QED BY <2>1, <3>3, <4>1, <4>2 DEF lifecycle
      <3>6. lifecycle' = [lifecycle EXCEPT ![q] = "proposed"]
        <4> HIDE DEF q
        <4> QED BY <3>5 DEF lifecycle
      <3> QED BY <3>4, <3>6
    <2>4. ASSUME NEW t \in Threads, Record(t) PROVE [Lifecycle!Next]_lifecycle
      <3> DEFINE r == thread[t].repair
                 v == Verdict(traces[thread[t].trace])
      <3>1. /\ r \in DOMAIN repairs /\ thread[t].trace = repairs[r].snapshot
            /\ repairs' = [repairs EXCEPT ![r] = [failure |-> repairs[r].failure,
                             snapshot |-> thread[t].trace, status |-> v]]
        BY <1>2, <2>4, RecordedStatus
      <3>2. v \in {"verified", "failed"}
        BY DEF Verdict
      <3>3. r \in 1..MaxRepairs /\ DOMAIN repairs' = DOMAIN repairs /\ repairs'[r].status = v
            /\ \A s \in DOMAIN repairs : s # r => repairs'[s] = repairs[s]
        BY <2>1, <3>1
      <3>4. lifecycle' = [lifecycle EXCEPT ![r] = v] /\ lifecycle[r] = repairs[r].status
        BY <3>1, <3>3 DEF lifecycle
      <3>5. CASE repairs[r].status = "proposed"
        BY <3>2, <3>3, <3>4, <3>5
      <3>6. CASE repairs[r].status # "proposed"
        <4>1. repairs[r].status = v
          BY <1>2, <3>1, <3>6 DEF IInv, Judged
        <4> QED BY <3>3, <3>4, <4>1 DEF lifecycle
      <3> QED BY <3>5, <3>6
    <2>5. \/ repairs' = repairs
          \/ \E t \in Threads : Synthesize(t) \/ Record(t)
      BY <1>2 DEF Next, Request, CohortStep, RepairStep, VerifyStep, RunExperiment,
         CreateFailureRepair, BeginVerify, RefuseVerify, CompileFails, AddProduct,
         DuplicateProduct, RunBuyer, RunRaises, EndCohort, CommitCluster, ManualReview,
         Replay, LeakGraph, Restart, vars
    <2> QED BY <2>2, <2>3, <2>4, <2>5
  <1> QED BY <1>1, <1>2, Inductive, PTL DEF Spec, ImplementsLifecycle, Lifecycle!Spec
=============================================================================
