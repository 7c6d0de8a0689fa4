--------------------------- MODULE OrderFulfilment ---------------------------
(***************************************************************************)
(* Customer orders, the product stock they hold and the money paid for     *)
(* them: OrderService (apps/orders/services.py), the payment endpoints     *)
(* (infrastructure/api/v1/endpoints/payments.py), the bot's checkout       *)
(* (bot/handlers/checkout.py) and the stock column of ProductService.      *)
(*                                                                         *)
(* Every handler runs in one database transaction, so one action is one    *)
(* committed transaction; a handler that raises is rolled back and leaves  *)
(* no step.  The payment provider is external: it takes the money of a     *)
(* transaction reference, says so when asked, and pays refunds back.       *)
(***************************************************************************)
EXTENDS OrderConstants, Integers, FiniteSets, FiniteSetsExt

CONSTANTS
    Orders,    \* order ids
    Products,  \* product ids
    Vendors,   \* vendors that log in and work on their items
    VendorOf,  \* the vendor of each product
    Deletable, \* products a vendor may delete
    SameId,    \* orders whose customer's Telegram id is also their users.id
    MaxQty,    \* largest quantity of one order item
    MaxInt,    \* largest value of the INTEGER column products.stock_quantity
    Total      \* amount of every order, in refundable units

ASSUME OrdersAssumption   == IsFiniteSet(Orders)
ASSUME VendorOfAssumption == VendorOf \in [Products -> Vendors]
ASSUME DeletableAssumption == Deletable \subseteq Products
ASSUME SameIdAssumption    == SameId \subseteq Orders
ASSUME MaxQtyAssumption   == MaxQty \in Nat \ {0}
ASSUME MaxIntAssumption   == MaxInt \in Nat
ASSUME TotalAssumption    == Total \in Nat \ {0}

VARIABLES
    stock,         \* products.stock_quantity
    removed,       \* products with is_deleted set
    status,        \* orders.status, or "absent" before the order exists
    payment,       \* orders.payment_status
    txn,           \* orders that have a payment_transaction_id
    refunded,      \* orders.refunded_amount
    lines,         \* order_items.quantity, 0 for a product not ordered
    vendorStatus,  \* order_items.vendor_status
    checkout,      \* the order's bot conversation: asks the provider ("paying"),
                   \* offers a retry, or is over
    captured,      \* external: orders whose current transaction was paid
    paidBack,      \* external: units the provider has paid back
    returned,      \* history: items whose units went back to stock
    told           \* history: what the customer heard about the checkout

orderVars   == <<status, payment, txn, refunded, lines, vendorStatus>>
stockVars   == <<stock, removed>>
gatewayVars == <<captured, paidBack>>
vars == <<stockVars, orderVars, gatewayVars, checkout, returned, told>>

Exists(o) == status[o] # "absent"
Items(o)  == {p \in Products : lines[o][p] > 0}

\* Order.can_cancel and Order.can_refund.
CanCancel(o) == status[o] \in {"pending", "confirmed"} /\ payment[o] # "paid"
CanRefund(o) == payment[o] = "paid" /\ status[o] # "refunded"

-----------------------------------------------------------------------------
Init ==
    /\ stock \in [Products -> 0..MaxInt]
    /\ removed = {}
    /\ status = [o \in Orders |-> "absent"]
    /\ payment = [o \in Orders |-> "pending"]
    /\ txn = {}
    /\ refunded = [o \in Orders |-> 0]
    /\ lines = [o \in Orders |-> [p \in Products |-> 0]]
    /\ vendorStatus = [o \in Orders |-> [p \in Products |-> "pending"]]
    /\ checkout = [o \in Orders |-> "over"]
    /\ captured = {}
    /\ paidBack = [o \in Orders |-> 0]
    /\ returned = [o \in Orders |-> {}]
    /\ told = [o \in Orders |-> "nothing"]

-----------------------------------------------------------------------------
(* Stock                                                                   *)

\* A deleted product makes release_stock raise NotFoundError; a sum that the
\* INTEGER column cannot hold is refused by the database.
Releasable(o, ps) ==
    /\ ps \cap removed = {}
    /\ \A p \in ps : stock[p] + lines[o][p] <= MaxInt

\* release_stock for the items ps of o; when it raises, the caller's
\* transaction is rolled back.
ReleaseStock(o, ps) ==
    /\ Releasable(o, ps)
    /\ stock' = [p \in Products |->
                    IF p \in ps THEN stock[p] + lines[o][p] ELSE stock[p]]
    /\ returned' = [returned EXCEPT ![o] = @ \cup ps]

\* update_stock, and the absolute write of update_product ("set").
UpdateStock(p, n, operation) ==
    /\ p \notin removed
    /\ \/ operation = "set" /\ stock' = [stock EXCEPT ![p] = n]
       \/ /\ operation = "add" /\ n > 0
          /\ stock[p] + n <= MaxInt
          /\ stock' = [stock EXCEPT ![p] = @ + n]
       \/ /\ operation = "subtract" /\ n > 0
          /\ stock[p] >= n
          /\ stock' = [stock EXCEPT ![p] = @ - n]
    /\ UNCHANGED <<removed, orderVars, gatewayVars, checkout, returned, told>>

\* delete_product: a soft delete, whatever orders hold the product.
DeleteProduct(p) ==
    /\ p \in Deletable \ removed
    /\ removed' = removed \cup {p}
    /\ UNCHANGED <<stock, orderVars, gatewayVars, checkout, returned, told>>

-----------------------------------------------------------------------------
(* Checkout                                                                *)

\* Mutant: the stock comparison and the condition of the UPDATE are missing.
PlaceOrderUnchecked(o, cart) ==
    /\ ~ Exists(o)
    /\ \E p \in Products : cart[p] > 0
    /\ stock' = [p \in Products |-> stock[p] - cart[p]]
    /\ status' = [status EXCEPT ![o] = "pending"]
    /\ lines' = [lines EXCEPT ![o] = cart]
    /\ UNCHANGED <<removed, payment, refunded, vendorStatus,
                   gatewayVars, returned>>

\* Mutant: the stock is written as an absolute value read too early.
PlaceOrderAbsolute(o, cart) ==
    /\ ~ Exists(o)
    /\ \E p \in Products : cart[p] > 0
    /\ \A p \in Products : cart[p] > 0 => p \notin removed /\ stock[p] >= cart[p]
    /\ stock' = [p \in Products |-> IF cart[p] > 0 THEN 0 ELSE stock[p]]
    /\ status' = [status EXCEPT ![o] = "pending"]
    /\ lines' = [lines EXCEPT ![o] = cart]
    /\ UNCHANGED <<removed, payment, refunded, vendorStatus,
                   gatewayVars, returned>>

\* The rows create_order writes: the order, its items, and the decrement of
\* every product's stock, which adjust_stock refuses below zero.
PlaceOrder(o, cart) ==
    /\ ~ Exists(o)
    /\ \E p \in Products : cart[p] > 0
    /\ \A p \in Products : cart[p] > 0 => p \notin removed /\ stock[p] >= cart[p]
    /\ stock' = [p \in Products |-> stock[p] - cart[p]]
    /\ status' = [status EXCEPT ![o] = "pending"]
    /\ lines' = [lines EXCEPT ![o] = cart]
    /\ UNCHANGED <<removed, payment, refunded, vendorStatus,
                   gatewayVars, returned>>

\* The web app's checkout: the order, the provider's reference and the
\* payment status are committed together; cash on delivery has no reference.
WebCheckout(o, cart, online) ==
    /\ PlaceOrder(o, cart)
    /\ txn' = IF online THEN txn \cup {o} ELSE txn
    /\ told' = [told EXCEPT ![o] = "accepted"]
    /\ UNCHANGED checkout

\* The bot commits the order first and asks the provider afterwards.
BotCheckout(o, cart, online) ==
    /\ PlaceOrder(o, cart)
    /\ checkout' = [checkout EXCEPT ![o] = IF online THEN "paying" ELSE "over"]
    /\ told' = [told EXCEPT ![o] = "accepted"]
    /\ UNCHANGED txn

\* The coupon was used up or expired since the customer entered it, so
\* apply_coupon raises ValidationError after the rows were written.  The bot
\* catches the error inside the transaction scope and returns, which commits.
BotCheckoutRejected(o, cart) ==
    /\ PlaceOrder(o, cart)
    /\ told' = [told EXCEPT ![o] = "rejected"]
    /\ UNCHANGED <<txn, checkout>>

-----------------------------------------------------------------------------
(* Order status                                                            *)

\* update_order_status, called by administrators.
UpdateOrderStatus(o, s) ==
    /\ Exists(o)
    /\ s \in ValidTransitions[status[o]]
    /\ status' = [status EXCEPT ![o] = s]
    /\ IF s = "cancelled"
          THEN ReleaseStock(o, Items(o))
          ELSE UNCHANGED <<stock, returned>>
    /\ UNCHANGED <<removed, payment, txn, refunded, lines, vendorStatus,
                   gatewayVars, told>>

AdminUpdateOrderStatus(o, s) == UpdateOrderStatus(o, s) /\ UNCHANGED checkout

\* cancel_order, called by the customer through the API.
CancelOrder(o) ==
    /\ CanCancel(o)
    /\ UpdateOrderStatus(o, "cancelled")
    /\ UNCHANGED checkout

\* cancel_checkout in the bot, once it offers the retry: try cancel_order,
\* ignore its failure, and forget the conversation.
CancelCheckout(o) ==
    /\ checkout[o] = "retry"
    /\ checkout' = [checkout EXCEPT ![o] = "over"]
    /\ \/ CanCancel(o) /\ UpdateOrderStatus(o, "cancelled")
       \/ /\ ~ CanCancel(o) \/ ~ Releasable(o, Items(o))
          /\ UNCHANGED <<stockVars, orderVars, gatewayVars, returned, told>>

\* Mutant: one cancelled item is enough to cancel the order.
DerivedStatusAnyCancelled(all, current) ==
    IF "cancelled" \in all THEN "cancelled" ELSE current

\* The order status derived from the statuses of all its items.
DerivedStatus(all, current) ==
    CASE all = {"delivered"} -> "delivered"
      [] "shipped" \in all /\ all \subseteq {"shipped", "delivered"} -> "shipped"
      [] "processing" \in all -> "processing"
      [] all = {"confirmed"} -> "confirmed"
      [] all = {"cancelled"} -> "cancelled"
      [] OTHER -> current

\* update_vendor_order_status: one vendor moves its own items.
UpdateVendorOrderStatus(o, v, s) ==
    LET mine == {p \in Items(o) : VendorOf[p] = v}
        moved == [p \in Products |->
                     IF p \in mine THEN s ELSE vendorStatus[o][p]]
    IN  /\ Exists(o)
        /\ mine # {}
        /\ \A p \in mine : s \in ValidTransitions[vendorStatus[o][p]]
        /\ vendorStatus' = [vendorStatus EXCEPT ![o] = moved]
        /\ status' = [status EXCEPT ![o] =
                         DerivedStatus({moved[p] : p \in Items(o)}, @)]
        /\ IF s = "cancelled" /\ status[o] # "cancelled"
              THEN ReleaseStock(o, mine)
              ELSE UNCHANGED <<stock, returned>>
        /\ UNCHANGED <<removed, payment, txn, refunded, lines,
                       gatewayVars, checkout, told>>

-----------------------------------------------------------------------------
(* Payment                                                                 *)

\* update_payment_status("pending", reference).  A provider that is asked twice
\* may answer with the same reference, which may be paid, or with a new one.
RecordReference(o) ==
    /\ payment' = [payment EXCEPT ![o] = "pending"]
    /\ txn' = txn \cup {o}
    /\ captured' \in {captured, captured \ {o}}
    /\ UNCHANGED <<stockVars, status, refunded, lines, vendorStatus,
                   paidBack, returned, told>>

\* POST /payments/initiate.
InitiatePayment(o) ==
    /\ Exists(o)
    /\ payment[o] # "paid"
    /\ ~ (payment[o] = "pending" /\ o \in txn)
    /\ RecordReference(o)
    /\ UNCHANGED checkout

\* The bot's second transaction, after the provider answered.
BotPaymentStarted(o) ==
    /\ RecordReference(o)
    /\ checkout' = [checkout EXCEPT ![o] = "over"]

\* The provider refused or raised; the conversation offers a retry.
BotPaymentFailed(o) ==
    /\ payment' = [payment EXCEPT ![o] = "failed"]
    /\ checkout' = [checkout EXCEPT ![o] = "retry"]
    /\ UNCHANGED <<stockVars, status, txn, refunded, lines, vendorStatus,
                   gatewayVars, returned, told>>

BotPayment(o) ==
    /\ checkout[o] = "paying"
    /\ BotPaymentStarted(o) \/ BotPaymentFailed(o)

\* The retry button asks get_order for the order with the Telegram id, which
\* raises PermissionError unless that number is the customer's users.id too.
BotRetryPayment(o) ==
    /\ checkout[o] = "retry"
    /\ o \in SameId
    /\ BotPaymentStarted(o) \/ BotPaymentFailed(o)

\* External: the customer pays the current reference.
GatewayCapture(o) ==
    /\ o \in txn \ captured
    /\ captured' = captured \cup {o}
    /\ UNCHANGED <<stockVars, orderVars, paidBack, checkout, returned, told>>

\* Mutant: the payment is recorded and the order is not confirmed.
VerifyPaymentOnly(o) ==
    /\ o \in txn \cap captured
    /\ payment' = [payment EXCEPT ![o] = "paid"]
    /\ UNCHANGED <<stockVars, status, txn, refunded, lines, vendorStatus,
                   gatewayVars, checkout, returned, told>>

\* GET /payments/verify: update_payment_status("paid") confirms the order
\* whatever its status is.
VerifyPayment(o) ==
    /\ o \in txn \cap captured
    /\ payment' = [payment EXCEPT ![o] = "paid"]
    /\ status' = [status EXCEPT ![o] = "confirmed"]
    /\ UNCHANGED <<stockVars, txn, refunded, lines, vendorStatus,
                   gatewayVars, checkout, returned, told>>

\* Mutant: the provider's refusal is not looked at.
GatewayRefundIgnored(o, amount) ==
    /\ paidBack[o] + amount <= Total
    /\ UNCHANGED paidBack

\* External part of a refund: the provider pays back no more than it took.
GatewayRefund(o, amount) ==
    /\ paidBack[o] + amount <= Total
    /\ paidBack' = [paidBack EXCEPT ![o] = @ + amount]

RefundGuard(o, amount) ==
    /\ o \in txn
    /\ CanRefund(o)
    /\ amount <= Total - refunded[o]

\* POST /payments/refund, partial: only the refunded amount changes.
PartialRefund(o, amount) ==
    /\ RefundGuard(o, amount)
    /\ refunded[o] + amount < Total
    /\ GatewayRefund(o, amount)
    /\ refunded' = [refunded EXCEPT ![o] = @ + amount]
    /\ UNCHANGED <<stockVars, status, payment, txn, lines, vendorStatus,
                   captured, checkout, returned, told>>

\* POST /payments/refund, completing the total: the order is closed and every
\* item restocked.  The provider no longer reports the payment as successful.
FullRefund(o, amount) ==
    /\ RefundGuard(o, amount)
    /\ refunded[o] + amount = Total
    /\ GatewayRefund(o, amount)
    /\ refunded' = [refunded EXCEPT ![o] = Total]
    /\ payment' = [payment EXCEPT ![o] = "refunded"]
    /\ status' = [status EXCEPT ![o] = "refunded"]
    /\ captured' = captured \ {o}
    /\ ReleaseStock(o, Items(o))
    /\ UNCHANGED <<removed, txn, lines, vendorStatus, checkout, told>>

\* The same request when an item cannot be restocked: the provider pays, the
\* restock raises, and the database transaction is rolled back.
FullRefundRolledBack(o, amount) ==
    /\ RefundGuard(o, amount)
    /\ refunded[o] + amount = Total
    /\ ~ Releasable(o, Items(o))
    /\ GatewayRefund(o, amount)
    /\ UNCHANGED <<stockVars, orderVars, captured, checkout, returned, told>>

-----------------------------------------------------------------------------
Carts == [Products -> 0..MaxQty]

Checkout(o) ==
    \E cart \in Carts :
        \/ \E online \in BOOLEAN : WebCheckout(o, cart, online)
        \/ \E online \in BOOLEAN : BotCheckout(o, cart, online)
        \/ BotCheckoutRejected(o, cart)

ChangeStatus(o) ==
    \/ \E s \in OrderStatus : AdminUpdateOrderStatus(o, s)
    \/ CancelOrder(o)
    \/ CancelCheckout(o)
    \/ \E v \in Vendors, s \in OrderStatus : UpdateVendorOrderStatus(o, v, s)

Pay(o) ==
    \/ InitiatePayment(o)
    \/ BotPayment(o)
    \/ BotRetryPayment(o)
    \/ GatewayCapture(o)
    \/ VerifyPayment(o)

Refund(o) ==
    \E amount \in 1..Total :
        \/ PartialRefund(o, amount)
        \/ FullRefund(o, amount)
        \/ FullRefundRolledBack(o, amount)

StockTake ==
    \E p \in Products, n \in 0..MaxInt, operation \in {"set", "add", "subtract"} :
        UpdateStock(p, n, operation)

Next ==
    \/ \E o \in Orders : Checkout(o) \/ ChangeStatus(o) \/ Pay(o) \/ Refund(o)
    \/ StockTake
    \/ \E p \in Products : DeleteProduct(p)

Spec == Init /\ [][Next]_vars

-----------------------------------------------------------------------------
(* Properties                                                              *)

\* Every column holds a value of its type; the stock column, which UPDATEs
\* change by relative amounts, never leaves 0..MaxInt (adjust_stock).
TypeOK ==
    /\ stock \in [Products -> 0..MaxInt]
    /\ removed \subseteq Products
    /\ status \in [Orders -> OrderStatus \cup {"absent"}]
    /\ payment \in [Orders -> PaymentStatus]
    /\ txn \subseteq Orders
    /\ refunded \in [Orders -> 0..Total]
    /\ lines \in [Orders -> Carts]
    /\ vendorStatus \in [Orders -> [Products -> OrderStatus]]
    /\ checkout \in [Orders -> {"paying", "retry", "over"}]
    /\ captured \subseteq txn
    /\ paidBack \in [Orders -> 0..Total]
    /\ returned \in [Orders -> SUBSET Products]
    /\ told \in [Orders -> {"nothing", "accepted", "rejected"}]

\* An order that was called off holds no stock: whichever of the customer, the
\* vendors or an administrator cancelled it, or a refund closed it, every unit
\* it took went back; and so did the units of an item its vendor cancelled,
\* whatever the rest of the order does.
CalledOffHoldsNoStock ==
    \A o \in Orders :
        /\ status[o] \in {"cancelled", "refunded"} => Items(o) \subseteq returned[o]
        /\ \A p \in Items(o) : vendorStatus[o][p] = "cancelled" => p \in returned[o]

\* The payment and the fulfilment side of an order agree: a paid order is
\* neither waiting for confirmation nor closed as refunded, and an order is
\* closed as refunded only once the whole total went back to the customer,
\* however many partial refunds that took.
PaymentMatchesStatus ==
    \A o \in Orders :
        /\ payment[o] = "paid" => status[o] \notin {"absent", "pending", "refunded"}
        /\ "refunded" \in {status[o], payment[o]} =>
              refunded[o] = Total /\ paidBack[o] = Total

\* No order claims a refund the provider did not make.
RefundsWerePaid == \A o \in Orders : refunded[o] <= paidBack[o]

SumOver(f, S) == MapThenSumSet(LAMBDA x : f[x], S)

\* Units of p that an order, and that all orders, took and did not return.
HeldBy(o, p) == IF p \in returned[o] THEN 0 ELSE lines[o][p]
Held(p)      == SumOver([o \in Orders |-> HeldBy(o, p)], Orders)

\* Apart from a stock take, units on the shelf and units held by orders never
\* shrink together: no path of an order loses stock.
StockNeverLost ==
    [][StockTake \/ \A p \in Products : stock'[p] + Held(p)' >= stock[p] + Held(p)]_vars

-----------------------------------------------------------------------------
(* Claims of the repository that the code does not keep                    *)

\* core/constants.py: no status follows "cancelled" in ORDER_STATUS_FLOW.
CancelledIsFinal ==
    [][\A o \in Orders : status[o] = "cancelled" => status'[o] = "cancelled"]_vars

\* core/constants.py: ORDER_STATUS_FLOW lists the valid transitions; the status
\* a recorded payment gives the order is one of them.
FlowOf == [ValidTransitions EXCEPT !["shipped"] = {"delivered", "cancelled"},
                                   !["delivered"] = {"refunded"}]

PaymentRespectsFlow ==
    [][\A o \in Orders : payment'[o] = "paid" /\ status'[o] # status[o] =>
          status'[o] \in FlowOf[status[o]]]_vars

\* apps/orders/services.py: a cancellation releases reserved stock, so it never
\* returns units that are already back.
ReleasesReservedStock ==
    [][\A o \in Orders : status'[o] = "cancelled" /\ status[o] # "cancelled" =>
          \A p \in Items(o) :
              p \in returned[o] => stock'[p] <= stock[p]]_vars

\* apps/orders/models.py: can_cancel says that the order can be cancelled.
CancellableCanBeCancelled ==
    \A o \in Orders :
        CanCancel(o) /\ (\A p \in Products : stock[p] + lines[o][p] <= MaxInt)
            => ENABLED CancelOrder(o)

\* bot/handlers/checkout.py: a checkout reported as rejected left no order.
RejectedLeavesNoOrder ==
    \A o \in Orders : told[o] = "rejected" => ~ Exists(o)

\* bot/localization.py: the customer who is offered a retry can retry.
RetryIsPossible ==
    \A o \in Orders : checkout[o] = "retry" => ENABLED BotRetryPayment(o)

\* docs/security_audit.md: the remaining refundable balance counts every refund
\* the provider made.
RefundBalanceIsTrue ==
    \A o \in Orders :
        (\A p \in Products : stock[p] + lines[o][p] <= MaxInt)
            => refunded[o] = paidBack[o]
=============================================================================
