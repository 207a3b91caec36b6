SPECIFICATION PSpec
CONSTANTS
    Skus = {s1}
    Prices = {2}
    NoPrice = NoPrice
    Fees = {0, 1}
    Budget = 2
    Orders = {o1, o2, o3}
    NoOrder = NoOrder
    MockOrder = MockOrder
    MaxTrace = 1
CHECK_DEADLOCK FALSE
SYMMETRY OrderSymmetry
INVARIANTS
    PrepareTypeOK
    OrdersAccountedFor
    InsertedOrdersOnce
    CreatedHasOrder
    AmountsDifferByFee
