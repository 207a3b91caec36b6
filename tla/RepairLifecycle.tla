----------------------------- MODULE RepairLifecycle ----------------------------
(***************************************************************************)
(* What the repair loop promises about one repair proposal (the status     *)
(* column of repair_proposals): it is proposed once, decided by a replay,  *)
(* and the decision is never taken back, whoever verifies it and how       *)
(* often.                                                                  *)
(***************************************************************************)
CONSTANT Repairs

VARIABLE status

Statuses == {"absent", "proposed", "verified", "failed"}

Init == status = [r \in Repairs |-> "absent"]

Propose(r) == /\ status[r] = "absent"
              /\ status' = [status EXCEPT ![r] = "proposed"]

Decide(r, s) == /\ status[r] = "proposed"
                /\ s \in {"verified", "failed"}
                /\ status' = [status EXCEPT ![r] = s]

Next == \E r \in Repairs : Propose(r) \/ \E s \in Statuses : Decide(r, s)

Spec == Init /\ [][Next]_status
=============================================================================
