---------------------------- MODULE MCPreparePayment ----------------------------
(* Instances of PreparePayment for TLC.                                    *)
EXTENDS PreparePayment, TLC

OrderSymmetry == Permutations(Orders)
=============================================================================
