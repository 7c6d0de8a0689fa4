CONSTANTS
    v1 = v1
    v2 = v2
    p1 = p1
    p2 = p2
    Orders = {o1}
    Products = {p1}
    Vendors = {v1}
    VendorOf <- MCVendorOf
    Deletable = {p1}
    SameId = {o1}
    MaxQty = 1
    MaxInt = 2
    Total = 2
SPECIFICATION Spec
PROPERTY CancelledIsFinal
CHECK_DEADLOCK FALSE
