SPECIFICATION PSpec
CONSTANTS
    Skus = {s1}
    Prices = {0, 2}
    NoPrice = NoPrice
    Fees = {0, 1}
    Budget = 3
    Orders = {o1, o2}
    NoOrder = NoOrder
    MockOrder = MockOrder
    MaxTrace = 1
CHECK_DEADLOCK FALSE
SYMMETRY OrderSymmetry
INVARIANT OneOrderPerOperation
