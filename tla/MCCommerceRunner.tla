---------------------------- MODULE MCCommerceRunner ----------------------------
(* Instances of CommerceRunner for TLC.                                    *)
EXTENDS CommerceRunner, TLC

OrderSymmetry == Permutations(Orders)
=============================================================================
