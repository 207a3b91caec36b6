---------------------------- MODULE PaymentLifecycle ----------------------------
(***************************************************************************)
(* What the payment ledger promises about the state of one payment         *)
(* operation, whatever the order in which the webhooks, the checkout       *)
(* callback and the reconciliation endpoint touch it.                      *)
(*                                                                         *)
(* An operation is absent, then created, then advances through the ranks   *)
(* of STATE_HIERARCHY (webhook_handler.py:21-27) strictly upwards; the two *)
(* states of the last rank are final.  Reconciliation by an operator takes *)
(* the operation out of this regime, for good: afterwards the hierarchy    *)
(* promises nothing, since the state it writes has no rank.                *)
(***************************************************************************)
EXTENDS Integers

CONSTANT Operations

VARIABLE status

Statuses == {"absent", "created", "authorized", "captured", "failed", "reconciled"}

Rank == [absent |-> 0, created |-> 1, authorized |-> 2, captured |-> 3, failed |-> 3,
         reconciled |-> 4]

Init == status = [op \in Operations |-> "absent"]

Create(op) == /\ status[op] = "absent"
              /\ status' = [status EXCEPT ![op] = "created"]

\* A provider event or a checkout callback.
Advance(op, s) == /\ status[op] \in {"created", "authorized"}
                  /\ s \in {"authorized", "captured", "failed"}
                  /\ Rank[s] > Rank[status[op]]
                  /\ status' = [status EXCEPT ![op] = s]

Reconcile(op) == /\ status[op] \in Statuses \ {"absent", "reconciled"}
                 /\ status' = [status EXCEPT ![op] = "reconciled"]

Next == \E op \in Operations : \/ Create(op)
                               \/ \E s \in Statuses : Advance(op, s)
                               \/ Reconcile(op)

Spec == Init /\ [][Next]_status
=============================================================================
