------------------------ MODULE CheckoutTransactions ------------------------
(***************************************************************************)
(* Checkouts that run at the same time and compete for the last units and  *)
(* the last uses of a coupon: OrderService.create_order                    *)
(* (apps/orders/services.py) with the conditional UPDATE of                *)
(* ProductRepository.adjust_stock and the SELECT ... FOR UPDATE of         *)
(* CouponManager.apply_coupon (apps/marketing/coupons.py).                 *)
(*                                                                         *)
(* A checkout is one database transaction under READ COMMITTED: others see *)
(* what it wrote when it commits, and a row it wrote or selected FOR       *)
(* UPDATE stays locked until it ends.  The web checkout asks the payment   *)
(* provider before it commits; the bot commits first.                      *)
(***************************************************************************)
EXTENDS Integers, FiniteSets, FiniteSetsExt

CONSTANTS
    Checkouts,     \* checkout requests, each served once
    Customers,     \* customers
    CustomerOf,    \* who makes each checkout
    Products,      \* product ids
    StockAtStart,  \* products.stock_quantity before the checkouts
    Carts,         \* the carts customers may confirm: a quantity of every product
    Coupons,       \* coupon codes
    UsageLimit,    \* coupons.usage_limit
    PerUserLimit,  \* coupons.per_user_limit
    FirstOrderOnly \* the coupons that carry first_order_only

NoCoupon == "no coupon"

ASSUME FiniteAssumption   == IsFiniteSet(Checkouts)
ASSUME CustomerAssumption == CustomerOf \in [Checkouts -> Customers]
ASSUME StockAssumption    == StockAtStart \in [Products -> Nat]
ASSUME CartsAssumption    == Carts \subseteq [Products -> Nat]
ASSUME CouponAssumption   == /\ NoCoupon \notin Coupons
                             /\ FirstOrderOnly \subseteq Coupons
                             /\ UsageLimit \in [Coupons -> Nat]
                             /\ PerUserLimit \in [Coupons -> Nat]

VARIABLES
    stock,    \* products.stock_quantity, committed
    used,     \* coupons.used_count, committed
    uses,     \* rows of coupon_usage of each coupon and customer, committed
    pc,       \* what each checkout does next
    cart,     \* quantities the checkout asks for
    coupon,   \* the coupon it was given
    web,      \* checkouts made through the web app
    todo,     \* lines whose stock is still to be looked at
    rows,     \* product rows the checkout has decremented and keeps locked
    locked,   \* checkouts that keep their coupon's row locked
    discounted \* checkouts whose coupon was accepted

requestVars == <<cart, coupon, web>>
vars == <<stock, used, uses, pc, requestVars, todo, rows, locked, discounted>>

Lines(c) == {p \in Products : cart[c][p] > 0}
Ended == {"placed", "rejected"}
Steps == {"idle", "check", "reserve", "coupon", "provider", "commit"} \cup Ended

Placed == {c \in Checkouts : pc[c] = "placed"}

-----------------------------------------------------------------------------
Init ==
    /\ stock = StockAtStart
    /\ used = [k \in Coupons |-> 0]
    /\ uses = [k \in Coupons |-> [u \in Customers |-> 0]]
    /\ pc = [c \in Checkouts |-> "idle"]
    /\ cart = [c \in Checkouts |-> [p \in Products |-> 0]]
    /\ coupon = [c \in Checkouts |-> NoCoupon]
    /\ web = {}
    /\ todo = [c \in Checkouts |-> {}]
    /\ rows = [c \in Checkouts |-> {}]
    /\ locked = {}
    /\ discounted = {}

GoTo(c, step) == pc' = [pc EXCEPT ![c] = step]

\* A customer confirms a cart, with or without a coupon.
Confirm(c, basket, k, throughWeb) ==
    /\ pc[c] = "idle"
    /\ \E p \in Products : basket[p] > 0
    /\ GoTo(c, "check")
    /\ cart' = [cart EXCEPT ![c] = basket]
    /\ coupon' = [coupon EXCEPT ![c] = k]
    /\ web' = IF throughWeb THEN web \cup {c} ELSE web
    /\ todo' = [todo EXCEPT ![c] = {p \in Products : basket[p] > 0}]
    /\ UNCHANGED <<stock, used, uses, rows, locked, discounted>>

\* Mutant: the session is not closed when the handler fails.
RollbackKeepingLocks(c) ==
    /\ GoTo(c, "rejected")
    /\ UNCHANGED <<stock, used, uses, requestVars, todo, rows, locked, discounted>>

\* Mutant: the stock of a line is reserved in a transaction of its own.
RollbackKeepingStock(c) ==
    /\ GoTo(c, "rejected")
    /\ stock' = [p \in Products |->
                    IF p \in rows[c] THEN stock[p] - cart[c][p] ELSE stock[p]]
    /\ rows' = [rows EXCEPT ![c] = {}]
    /\ locked' = locked \ {c}
    /\ discounted' = discounted \ {c}
    /\ UNCHANGED <<used, uses, requestVars, todo>>

Rollback(c) ==
    /\ GoTo(c, "rejected")
    /\ rows' = [rows EXCEPT ![c] = {}]
    /\ locked' = locked \ {c}
    /\ discounted' = discounted \ {c}
    /\ UNCHANGED <<stock, used, uses, requestVars, todo>>

\* The first loop of create_order reads each product without a lock.
CheckLine(c, p) ==
    /\ pc[c] = "check"
    /\ p \in todo[c]
    /\ IF stock[p] >= cart[c][p]
          THEN /\ todo' = [todo EXCEPT ![c] = @ \ {p}]
               /\ GoTo(c, IF todo[c] = {p} THEN "reserve" ELSE "check")
               /\ UNCHANGED <<stock, used, uses, requestVars, rows, locked, discounted>>
          ELSE Rollback(c)

\* Product rows another checkout keeps locked.
LockedByOther(c) == UNION {rows[d] : d \in Checkouts \ {c}}

\* Mutant: the UPDATE has no condition and the row is not locked.
ReserveUnchecked(c, p) ==
    /\ pc[c] = "reserve"
    /\ p \in Lines(c) \ rows[c]
    /\ rows' = [rows EXCEPT ![c] = @ \cup {p}]
    /\ GoTo(c, IF rows[c] \cup {p} = Lines(c) THEN "coupon" ELSE "reserve")
    /\ UNCHANGED <<stock, used, uses, requestVars, todo, locked, discounted>>

\* The second loop writes the item and reserves its stock: the UPDATE waits for
\* the product row and then judges the committed quantity.
Reserve(c, p) ==
    /\ pc[c] = "reserve"
    /\ p \in Lines(c) \ rows[c]
    /\ p \notin LockedByOther(c)
    /\ IF stock[p] >= cart[c][p]
          THEN /\ rows' = [rows EXCEPT ![c] = @ \cup {p}]
               /\ GoTo(c, IF rows[c] \cup {p} = Lines(c) THEN "coupon" ELSE "reserve")
               /\ UNCHANGED <<stock, used, uses, requestVars, todo, locked, discounted>>
          ELSE Rollback(c)

\* Committed orders of the customer of c.
EarlierOrders(c) == {d \in Placed : CustomerOf[d] = CustomerOf[c]}

\* validate_coupon, for the row that apply_coupon has locked.
CouponIsValid(c) ==
    LET k == coupon[c]
    IN  /\ used[k] < UsageLimit[k]
        /\ uses[k][CustomerOf[c]] < PerUserLimit[k]
        /\ k \in FirstOrderOnly => EarlierOrders(c) = {}

\* What follows create_order: the web app asks the provider, the bot commits.
AfterOrder(c) == IF c \in web THEN "provider" ELSE "commit"

NoCouponGiven(c) ==
    /\ pc[c] = "coupon"
    /\ coupon[c] = NoCoupon
    /\ GoTo(c, AfterOrder(c))
    /\ UNCHANGED <<stock, used, uses, requestVars, todo, rows, locked, discounted>>

\* Mutant: the coupon is selected without FOR UPDATE.
ApplyCouponUnlocked(c) ==
    /\ pc[c] = "coupon"
    /\ coupon[c] # NoCoupon
    /\ IF CouponIsValid(c)
          THEN /\ discounted' = discounted \cup {c}
               /\ GoTo(c, AfterOrder(c))
               /\ UNCHANGED <<stock, used, uses, requestVars, todo, rows, locked>>
          ELSE Rollback(c)

\* apply_coupon, which waits for the coupon's row.  A refusal rolls the web
\* checkout back; the bot's is committed without the discount.
ApplyCoupon(c) ==
    /\ pc[c] = "coupon"
    /\ coupon[c] # NoCoupon
    /\ \A d \in locked : coupon[d] # coupon[c]
    /\ \/ /\ CouponIsValid(c)
          /\ locked' = locked \cup {c}
          /\ discounted' = discounted \cup {c}
          /\ GoTo(c, AfterOrder(c))
          /\ UNCHANGED <<stock, used, uses, requestVars, todo, rows>>
       \/ /\ ~ CouponIsValid(c)
          /\ c \in web
          /\ Rollback(c)
       \/ /\ ~ CouponIsValid(c)
          /\ c \notin web
          /\ locked' = locked \cup {c}
          /\ GoTo(c, "commit")
          /\ UNCHANGED <<stock, used, uses, requestVars, todo, rows, discounted>>

\* process_payment of the web checkout, with every lock held.
AskProvider(c) ==
    /\ pc[c] = "provider"
    /\ \/ /\ GoTo(c, "commit")
          /\ UNCHANGED <<stock, used, uses, requestVars, todo, rows, locked, discounted>>
       \/ Rollback(c)

\* Mutant: the use is recorded and the coupon's counter is not written.
CommitWithoutUse(c) ==
    /\ pc[c] = "commit"
    /\ GoTo(c, "placed")
    /\ stock' = [p \in Products |->
                    IF p \in rows[c] THEN stock[p] - cart[c][p] ELSE stock[p]]
    /\ uses' = IF c \in discounted
                   THEN [uses EXCEPT ![coupon[c]][CustomerOf[c]] = @ + 1]
                   ELSE uses
    /\ rows' = [rows EXCEPT ![c] = {}]
    /\ locked' = locked \ {c}
    /\ UNCHANGED <<used, requestVars, todo, discounted>>

\* The decrements and the coupon's use become visible together.
Commit(c) ==
    /\ pc[c] = "commit"
    /\ GoTo(c, "placed")
    /\ stock' = [p \in Products |->
                    IF p \in rows[c] THEN stock[p] - cart[c][p] ELSE stock[p]]
    /\ IF c \in discounted
          THEN /\ used' = [used EXCEPT ![coupon[c]] = @ + 1]
               /\ uses' = [uses EXCEPT ![coupon[c]][CustomerOf[c]] = @ + 1]
          ELSE UNCHANGED <<used, uses>>
    /\ rows' = [rows EXCEPT ![c] = {}]
    /\ locked' = locked \ {c}
    /\ UNCHANGED <<requestVars, todo, discounted>>

\* An exception: the connection or the worker is lost before the commit.
Fail(c) ==
    /\ pc[c] \notin {"idle"} \cup Ended
    /\ Rollback(c)

\* c waits for a product row that d keeps locked.
WaitsFor(c, d) ==
    /\ pc[c] = "reserve"
    /\ rows[d] \cap (Lines(c) \ rows[c]) # {}

\* External: the database aborts a checkout of a circle of checkouts that wait
\* for each other; carts may list the same products in different orders.
DeadlockVictim(c) ==
    /\ \E circle \in SUBSET Checkouts :
          /\ c \in circle
          /\ \A d \in circle : \E e \in circle \ {d} : WaitsFor(d, e)
          /\ \A d \in circle : \E e \in circle \ {d} : WaitsFor(e, d)
    /\ Rollback(c)

-----------------------------------------------------------------------------
Serve(c) ==
    \/ \E p \in Products : CheckLine(c, p) \/ Reserve(c, p)
    \/ NoCouponGiven(c)
    \/ ApplyCoupon(c)
    \/ AskProvider(c)
    \/ Commit(c)
    \/ DeadlockVictim(c)

\* Nothing is left to serve.
Finished ==
    /\ \A c \in Checkouts : pc[c] \in Ended
    /\ UNCHANGED vars

Next ==
    \/ \E c \in Checkouts :
          \/ \E basket \in Carts, k \in Coupons \cup {NoCoupon}, throughWeb \in BOOLEAN :
                Confirm(c, basket, k, throughWeb)
          \/ Serve(c)
          \/ Fail(c)
    \/ Finished

Spec == Init /\ [][Next]_vars

\* The provider is called with a timeout and the database detects deadlocks,
\* so a checkout that was confirmed is served.
FairSpec == Spec /\ \A c \in Checkouts : WF_vars(Serve(c))

-----------------------------------------------------------------------------
(* Properties                                                              *)

\* Every variable holds a value of its type; whatever checkouts overlap, no
\* committed stock quantity is negative (adjust_stock).
TypeOK ==
    /\ stock \in [Products -> Nat]
    /\ used \in [Coupons -> Nat]
    /\ uses \in [Coupons -> [Customers -> Nat]]
    /\ pc \in [Checkouts -> Steps]
    /\ cart \in [Checkouts -> [Products -> Nat]]
    /\ coupon \in [Checkouts -> Coupons \cup {NoCoupon}]
    /\ web \subseteq Checkouts
    /\ todo \in [Checkouts -> SUBSET Products]
    /\ rows \in [Checkouts -> SUBSET Products]
    /\ locked \subseteq Checkouts
    /\ discounted \subseteq Checkouts

\* The sum of f over S, and what each checkout asks for of p.
SumOver(f, S) == MapThenSumSet(LAMBDA c : f[c], S)
Asked(p) == [c \in Checkouts |-> cart[c][p]]

\* Stock is neither lost nor invented: what is on the shelf and what the placed
\* orders took add up to what there was, after any mix of placed, refused,
\* failed and deadlocked checkouts (create_order, get_transaction_session).
StockIsConserved ==
    \A p \in Products :
        stock[p] + SumOver(Asked(p), Placed) = StockAtStart[p]

\* Checkouts that compete for the last use of a coupon never exceed its limits,
\* neither in total nor for one customer (apply_coupon).
CouponWithinLimits ==
    \A k \in Coupons :
        /\ used[k] <= UsageLimit[k]
        /\ \A u \in Customers : uses[k][u] <= PerUserLimit[k]

\* A discount and a use of its coupon are committed together, so the counter of
\* a coupon counts the placed orders that have its discount (apply_coupon).
UsesAreCounted ==
    \A k \in Coupons :
        used[k] = Cardinality({c \in Placed \cap discounted : coupon[c] = k})

\* Every confirmed checkout is placed or refused, none waits forever for a row
\* that another one keeps: at the end only checkouts nobody confirmed are left.
EveryCheckoutEnds == <>[](\A c \in Checkouts : pc[c] \in {"idle"} \cup Ended)

\* Two checkouts of one customer that overlap do not both get the discount of the
\* same first_order_only coupon: the second waits for the coupon's row and then
\* counts the first one's order (apply_coupon).
FirstOrderCouponOnce ==
    \A k \in FirstOrderOnly, u \in Customers :
        Cardinality({c \in Placed \cap discounted :
                        CustomerOf[c] = u /\ coupon[c] = k}) <= 1

\* How a checkout looks from outside its transaction.
Outcome(c) == IF pc[c] \in Ended THEN pc[c] ELSE "open"
Sold(c) == IF pc[c] = "placed" THEN cart[c] ELSE [p \in Products |-> 0]

Serial == INSTANCE SerialSales
            WITH outcome <- [c \in Checkouts |-> Outcome(c)],
                 sold    <- [c \in Checkouts |-> Sold(c)]

\* Overlapping checkouts have an outcome they could have had one after another:
\* at its commit each takes all its lines and its coupon's use from what is
\* committed, and one that is refused or fails leaves nothing (create_order,
\* adjust_stock, apply_coupon, DatabaseSessionManager.transaction).
SalesAreSerial == Serial!Spec

-----------------------------------------------------------------------------
(* Claims of the repository that the code does not keep                    *)

\* apps/marketing/schemas.py: a first_order_only coupon is for the first order
\* only, so a customer gets one such discount.
OneFirstOrder ==
    \A u \in Customers :
        Cardinality({c \in Placed \cap discounted :
                        CustomerOf[c] = u /\ coupon[c] \in FirstOrderOnly}) <= 1
=============================================================================
