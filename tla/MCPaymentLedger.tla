---------------------------- MODULE MCPaymentLedger ----------------------------
(* Instances of PaymentLedger for TLC.                                     *)
EXTENDS PaymentLedger, TLC

PaymentSymmetry == Permutations(Payments)
=============================================================================
