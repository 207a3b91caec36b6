------------------------------ MODULE MCRepairLoop ------------------------------
(* Instances of RepairLoop for TLC.                                        *)
EXTENDS RepairLoop, TLC

ThreadSymmetry == Permutations(Threads)

Offer(mapped, relevant, watts, need) ==
    [mapped |-> mapped, relevant |-> relevant, watts |-> watts, need |-> need]

\* No chaos; a text chaos made irrelevant; an attribute chaos dropped, alone, with
\* the category, or for a buyer who wants more than there is evidence for; and an
\* attribute that is too small.
TypicalMarkets ==
    {Offer(TRUE, TRUE, 1, 1), Offer(TRUE, FALSE, 0, 1), Offer(TRUE, TRUE, 0, 1),
     Offer(FALSE, TRUE, 0, 1), Offer(TRUE, TRUE, 0, 2), Offer(TRUE, TRUE, 1, 2)}
=============================================================================
