SPECIFICATION Spec
CONSTANTS
    Products = 3
    Merchants <- MCMerchants
    MaxMutations = 2
    Intents <- MCIntents
    Systems = {"commercetwin", "keyword", "semantic", "drill"}
    Cohort = 2
INVARIANTS
    TypeOK
    RollbackRestores
    CartsHonourTruth
    StructuredFindsFeasible
    IntegrityIsReal
    NothingRecovers
CHECK_DEADLOCK FALSE
