CONSTANTS
    c1 = c1
    c2 = c2
    c3 = c3
    k1 = k1
    k2 = k2
    p1 = p1
    p2 = p2
    u1 = u1
    u2 = u2
    Checkouts = {c1, c2, c3}
    Customers = {u1, u2}
    CustomerOf <- MCCustomerOf
    Products = {p1, p2}
    StockAtStart <- MCStock
    Carts <- MCCarts
    Coupons = {k1, k2}
    UsageLimit <- MCUsageLimit
    PerUserLimit <- MCPerUserLimit
    FirstOrderOnly = {}
SPECIFICATION Spec
INVARIANTS
    TypeOK
    StockIsConserved
    CouponWithinLimits
    UsesAreCounted
SYMMETRY MCSymmetry
