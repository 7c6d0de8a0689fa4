---------------------------- MODULE SerialSales -----------------------------
(***************************************************************************)
(* What overlapping checkouts promise together: the outcome is one that    *)
(* serving them one after another can have.  A sale takes all its lines    *)
(* from the shelf and its coupon's use in one step, and only if the shelf  *)
(* and the coupon allow it at that moment (create_order of                 *)
(* apps/orders/services.py, apply_coupon of apps/marketing/coupons.py).    *)
(***************************************************************************)
EXTENDS Integers

CONSTANTS Checkouts, Customers, CustomerOf, Products, StockAtStart, Carts,
          Coupons, NoCoupon, UsageLimit, PerUserLimit, FirstOrderOnly

VARIABLES
    stock,   \* units on the shelf
    used,    \* how often each coupon was used
    uses,    \* how often by each customer
    outcome, \* "open", "placed" or "rejected"
    sold     \* what a placed checkout bought; nothing before

vars == <<stock, used, uses, outcome, sold>>

Nothing == [p \in Products |-> 0]

Init ==
    /\ stock = StockAtStart
    /\ used = [k \in Coupons |-> 0]
    /\ uses = [k \in Coupons |-> [u \in Customers |-> 0]]
    /\ outcome = [c \in Checkouts |-> "open"]
    /\ sold = [c \in Checkouts |-> Nothing]

\* The customer of c may have the discount of k now.  A first-order coupon is
\* promised once per customer; that the order is the customer's first is not.
MayUse(c, k) ==
    LET u == CustomerOf[c]
    IN  /\ used[k] < UsageLimit[k]
        /\ uses[k][u] < PerUserLimit[k]
        /\ k \in FirstOrderOnly => uses[k][u] = 0

Sell(c, basket, k) ==
    /\ outcome[c] = "open"
    /\ \A p \in Products : basket[p] <= stock[p]
    /\ outcome' = [outcome EXCEPT ![c] = "placed"]
    /\ stock' = [p \in Products |-> stock[p] - basket[p]]
    /\ sold' = [sold EXCEPT ![c] = basket]
    /\ IF k = NoCoupon
          THEN UNCHANGED <<used, uses>>
          ELSE /\ MayUse(c, k)
               /\ used' = [used EXCEPT ![k] = @ + 1]
               /\ uses' = [uses EXCEPT ![k][CustomerOf[c]] = @ + 1]

Refuse(c) ==
    /\ outcome[c] = "open"
    /\ outcome' = [outcome EXCEPT ![c] = "rejected"]
    /\ UNCHANGED <<stock, used, uses, sold>>

Next ==
    \E c \in Checkouts :
        \/ \E basket \in Carts, k \in Coupons \cup {NoCoupon} : Sell(c, basket, k)
        \/ Refuse(c)

Spec == Init /\ [][Next]_vars
=============================================================================
