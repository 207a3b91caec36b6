SPECIFICATION FairSpec
CONSTANTS
    Traces = {t1}
    Amounts = {1, 2}
    Orders = {o1}
    Payments = {p1, p2}
    Foreign = Foreign
    NoOrder = NoOrder
    NoPayment = NoPayment
PROPERTY
    CapturedIsRecorded
