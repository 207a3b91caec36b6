SPECIFICATION Spec
CONSTANTS
    Threads = {t1, t2}
    Cohort = 2
    Markets <- TypicalMarkets
    Evidence = 1
    MaxTraces = 4
    MaxClusters = 2
    MaxRepairs = 2
    MaxResults = 3
CHECK_DEADLOCK FALSE
SYMMETRY ThreadSymmetry
INVARIANT
    VerifiedOnSnapshot
