SPECIFICATION Spec
CONSTANTS
    Traces = {t1}
    Amounts = {1, 2}
    Orders = {o1, o2}
    Payments = {p1, p2}
    Foreign = Foreign
    NoOrder = NoOrder
    NoPayment = NoPayment
INVARIANTS
    TypeOK
    OrderMatchesOperation
    OneOrderToPay
    QuarantineOnlyForeign
    ProcessedIsApplied
    PaymentEvidence
PROPERTY
    ImplementsLifecycle
SYMMETRY PaymentSymmetry
