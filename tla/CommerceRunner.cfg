SPECIFICATION FairSpec
CONSTANTS
    Skus = {s1, s2}
    Prices = {0, 2}
    NoPrice = NoPrice
    Fees = {0, 1}
    Budget = 2
    Orders = {o1, o2}
    NoOrder = NoOrder
    MockOrder = MockOrder
CHECK_DEADLOCK FALSE
INVARIANTS
    TypeOK
    OrderIsCanonical
    ReportedOrderMatches
    AtMostOneOrder
PROPERTIES
    FollowsStateMachine
    PaymentEnds
