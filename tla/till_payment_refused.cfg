SPECIFICATION FairSpec
CONSTANTS
    o1 = o1
    o2 = o2
    p1 = p1
    p2 = p2
    till = till
    s1 = s1
    OrderNos = {o1}
    Payments = {p1, p2}
    Till = till
    Syncers = {s1}
    NoOrder = NoOrder
    NoPayment = NoPayment
    Net = 2
    Amounts = {1, 2}
    Worlds <- MCStrict
    MaxDrops = 1
    MaxFaults = 0
    MaxCrashes = 0
PROPERTIES PaymentArrives
