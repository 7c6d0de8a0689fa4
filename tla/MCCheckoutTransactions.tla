----------------------- MODULE MCCheckoutTransactions -----------------------
(* Small instances of CheckoutTransactions for TLC.                        *)
EXTENDS CheckoutTransactions, TLC

CONSTANTS c1, c2, u1, u2, p1, k1

\* The first two checkouts are made by the first customer.
MCCustomerOf == [c \in Checkouts |-> IF c \in {c1, c2} THEN u1 ELSE u2]

\* One product, or one of each: carts that share no product meet only at the
\* coupon, carts of both can wait for each other in a circle.
MCCarts == {[p \in Products |-> IF p \in bought THEN 1 ELSE 0] :
                bought \in SUBSET Products \ {{}}}

\* Two units of one product and one of the other are left.
MCStock == [p \in Products |-> IF p = p1 THEN 2 ELSE 1]

\* One coupon has a single use, the other one use for each customer.
MCUsageLimit == [k \in Coupons |-> IF k = k1 THEN 1 ELSE 3]
MCPerUserLimit == [k \in Coupons |-> IF k = k1 THEN 2 ELSE 1]

\* The first two checkouts may change places.
MCSymmetry == Permutations({c1, c2})

\* Plenty of stock, for questions about coupons.
MCLargeStock == [p \in Products |-> 3]

\* Limits that two checkouts of one customer do not reach, but for the single use
\* of the second coupon.
MCPlentyOfFirst == [k \in Coupons |-> IF k = k1 THEN 3 ELSE 1]
=============================================================================
