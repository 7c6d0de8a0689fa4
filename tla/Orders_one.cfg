CONSTANTS
    v1 = v1
    v2 = v2
    p1 = p1
    p2 = p2
    Orders = {o1}
    Products = {p1, p2}
    Vendors = {v1, v2}
    VendorOf <- MCVendorOf
    Deletable = {p2}
    SameId = {o1}
    MaxQty = 1
    MaxInt = 2
    Total = 2
SPECIFICATION Spec
INVARIANTS
    TypeOK
    CalledOffHoldsNoStock
    PaymentMatchesStatus
    RefundsWerePaid
PROPERTIES
    StockNeverLost
CHECK_DEADLOCK FALSE
