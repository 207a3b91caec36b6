SPECIFICATION Spec
CONSTANTS
    Skus = {s1}
    Prices = {0, 2}
    NoPrice = NoPrice
    Fees = {0, 1}
    Budget = 2
    Orders = {o1, o2}
    NoOrder = NoOrder
    MockOrder = MockOrder
CHECK_DEADLOCK FALSE
INVARIANT OrderWithinBudget
SYMMETRY OrderSymmetry
