------------------------ MODULE OrderFulfilment_proofs ------------------------
(***************************************************************************)
(* Proofs about OrderFulfilment, for every set of orders, products and     *)
(* vendors, every column width and every order total.                      *)
(***************************************************************************)
EXTENDS OrderFulfilment, FiniteSetTheorems, TLAPS

-------------------------------------------------------------------------------
(* Type correctness                                                          *)

\* Returning the items ps of an order keeps the stock column in its range.
LEMMA ReleaseStockType ==
    ASSUME TypeOK, NEW o \in Orders, NEW ps \in SUBSET Products, ReleaseStock(o, ps)
    PROVE  /\ stock' \in [Products -> 0..MaxInt]
           /\ returned' \in [Orders -> SUBSET Products]
<1>1. \A p \in Products : stock[p] \in 0..MaxInt /\ lines[o][p] \in 0..MaxQty
  BY DEF TypeOK, Carts
<1>2. ASSUME NEW p \in ps
      PROVE  stock[p] + lines[o][p] \in 0..MaxInt
  BY <1>1, MaxIntAssumption, MaxQtyAssumption DEF ReleaseStock, Releasable
<1>3. stock' \in [Products -> 0..MaxInt]
  BY <1>1, <1>2 DEF ReleaseStock
<1>4. returned' \in [Orders -> SUBSET Products]
  BY DEF ReleaseStock, TypeOK
<1> QED BY <1>3, <1>4

\* Placing an order keeps the stock column in its range.
LEMMA PlaceOrderType ==
    ASSUME TypeOK, NEW o \in Orders, NEW cart \in Carts, PlaceOrder(o, cart)
    PROVE  /\ stock' \in [Products -> 0..MaxInt]
           /\ status' \in [Orders -> OrderStatus \cup {"absent"}]
           /\ lines' \in [Orders -> Carts]
<1>1. \A p \in Products : stock[p] \in 0..MaxInt /\ cart[p] \in 0..MaxQty
  BY DEF TypeOK, Carts
<1>2. ASSUME NEW p \in Products
      PROVE  stock[p] - cart[p] \in 0..MaxInt
  BY <1>1, MaxIntAssumption, MaxQtyAssumption DEF PlaceOrder
<1>3. stock' \in [Products -> 0..MaxInt]
  BY <1>2 DEF PlaceOrder
<1>4. /\ status' \in [Orders -> OrderStatus \cup {"absent"}]
      /\ lines' \in [Orders -> Carts]
  BY DEF PlaceOrder, TypeOK, OrderStatus
<1> QED BY <1>3, <1>4

\* A status that update_order_status accepts is one of the order statuses, and
\* neither "pending" nor "refunded".
LEMMA TransitionsAreStatuses ==
    ASSUME NEW s \in OrderStatus, NEW t \in ValidTransitions[s]
    PROVE  t \in OrderStatus \ {"pending", "refunded"}
BY DEF ValidTransitions, OrderStatus

\* The derived status is one a vendor can reach, or the current one.
LEMMA DerivedStatusRange ==
    ASSUME NEW all, NEW current
    PROVE  \/ DerivedStatus(all, current) = current
           \/ DerivedStatus(all, current) \in
                 {"confirmed", "processing", "shipped", "delivered"}
           \/ all = {"cancelled"} /\ DerivedStatus(all, current) = "cancelled"
BY DEF DerivedStatus

LEMMA UpdateOrderStatusType ==
    ASSUME TypeOK, NEW o \in Orders, NEW s, UpdateOrderStatus(o, s)
    PROVE  /\ stock' \in [Products -> 0..MaxInt]
           /\ returned' \in [Orders -> SUBSET Products]
           /\ status' \in [Orders -> OrderStatus \cup {"absent"}]
<1>1. status[o] \in OrderStatus /\ s \in OrderStatus
  BY TransitionsAreStatuses DEF UpdateOrderStatus, Exists, TypeOK
<1>2. status' \in [Orders -> OrderStatus \cup {"absent"}]
  BY <1>1 DEF UpdateOrderStatus, TypeOK
<1>3. CASE s = "cancelled"
  BY <1>2, <1>3, ReleaseStockType DEF UpdateOrderStatus, Items
<1>4. CASE s # "cancelled"
  BY <1>2, <1>4 DEF UpdateOrderStatus, TypeOK
<1> QED BY <1>3, <1>4

LEMMA UpdateVendorOrderStatusType ==
    ASSUME TypeOK, NEW o \in Orders, NEW v \in Vendors, NEW s \in OrderStatus,
           UpdateVendorOrderStatus(o, v, s)
    PROVE  /\ stock' \in [Products -> 0..MaxInt]
           /\ returned' \in [Orders -> SUBSET Products]
           /\ status' \in [Orders -> OrderStatus \cup {"absent"}]
           /\ vendorStatus' \in [Orders -> [Products -> OrderStatus]]
<1> DEFINE mine == {p \in Items(o) : VendorOf[p] = v}
           moved == [p \in Products |->
                        IF p \in mine THEN s ELSE vendorStatus[o][p]]
           derived == DerivedStatus({moved[p] : p \in Items(o)}, status[o])
<1>1. moved \in [Products -> OrderStatus]
  BY DEF TypeOK
<1>2. derived \in OrderStatus \cup {"absent"}
  <2> HIDE DEF moved
  <2> QED BY DerivedStatusRange DEF TypeOK, OrderStatus
<1>3. /\ vendorStatus' = [vendorStatus EXCEPT ![o] = moved]
      /\ status' = [status EXCEPT ![o] = derived]
      /\ IF s = "cancelled" /\ status[o] # "cancelled"
            THEN ReleaseStock(o, mine)
            ELSE UNCHANGED <<stock, returned>>
  BY DEF UpdateVendorOrderStatus, TypeOK
<1>4. mine \in SUBSET Products
  BY DEF Items
<1> HIDE DEF mine, moved, derived
<1>5. /\ stock' \in [Products -> 0..MaxInt]
      /\ returned' \in [Orders -> SUBSET Products]
  BY <1>3, <1>4, ReleaseStockType DEF TypeOK
<1> QED BY <1>1, <1>2, <1>3, <1>5 DEF TypeOK

THEOREM InitType == Init => TypeOK
BY MaxIntAssumption, MaxQtyAssumption, TotalAssumption
   DEF Init, TypeOK, Carts, OrderStatus, PaymentStatus

THEOREM StepType == TypeOK /\ [Next]_vars => TypeOK'
<1> SUFFICES ASSUME TypeOK, [Next]_vars PROVE TypeOK'
  OBVIOUS
<1> USE DEF orderVars, stockVars, gatewayVars
<1>1. ASSUME NEW o \in Orders, Checkout(o) PROVE TypeOK'
  <2>1. PICK cart \in Carts :
           /\ PlaceOrder(o, cart)
           /\ txn' = txn \/ txn' = txn \cup {o}
           /\ checkout' \in {checkout, [checkout EXCEPT ![o] = "paying"],
                             [checkout EXCEPT ![o] = "over"]}
           /\ told' = [told EXCEPT ![o] = "accepted"] \/ told' = [told EXCEPT ![o] = "rejected"]
    BY <1>1 DEF Checkout, WebCheckout, BotCheckout, BotCheckoutRejected
  <2> QED BY <2>1, PlaceOrderType DEF PlaceOrder, TypeOK
<1>2. ASSUME NEW o \in Orders, NEW s \in OrderStatus, AdminUpdateOrderStatus(o, s)
      PROVE  TypeOK'
  BY <1>2, UpdateOrderStatusType DEF AdminUpdateOrderStatus, UpdateOrderStatus, TypeOK
<1>3. ASSUME NEW o \in Orders, CancelOrder(o) PROVE TypeOK'
  BY <1>3, UpdateOrderStatusType DEF CancelOrder, UpdateOrderStatus, TypeOK
<1>4. ASSUME NEW o \in Orders, CancelCheckout(o) PROVE TypeOK'
  <2>1. CASE UpdateOrderStatus(o, "cancelled")
    BY <1>4, <2>1, UpdateOrderStatusType DEF CancelCheckout, UpdateOrderStatus, TypeOK
  <2>2. CASE UNCHANGED <<stockVars, orderVars, gatewayVars, returned, told>>
    BY <1>4, <2>2 DEF CancelCheckout, TypeOK
  <2> QED BY <1>4, <2>1, <2>2 DEF CancelCheckout
<1>5. ASSUME NEW o \in Orders, NEW v \in Vendors, NEW s \in OrderStatus,
             UpdateVendorOrderStatus(o, v, s)
      PROVE  TypeOK'
  <2>1. UNCHANGED <<removed, payment, txn, refunded, lines, captured, paidBack,
                    checkout, told>>
    BY <1>5 DEF UpdateVendorOrderStatus
  <2>2. /\ stock' \in [Products -> 0..MaxInt]
        /\ returned' \in [Orders -> SUBSET Products]
        /\ status' \in [Orders -> OrderStatus \cup {"absent"}]
        /\ vendorStatus' \in [Orders -> [Products -> OrderStatus]]
    BY <1>5, UpdateVendorOrderStatusType
  <2> QED BY <2>1, <2>2 DEF TypeOK
<1>6. ASSUME NEW o \in Orders, Pay(o) PROVE TypeOK'
  <2>1. CASE InitiatePayment(o)
    BY <2>1 DEF InitiatePayment, RecordReference, TypeOK, PaymentStatus
  <2>2. CASE BotPaymentStarted(o)
    BY <2>2 DEF BotPaymentStarted, RecordReference, TypeOK, PaymentStatus
  <2>3. CASE BotPaymentFailed(o)
    BY <2>3 DEF BotPaymentFailed, TypeOK, PaymentStatus
  <2>4. CASE GatewayCapture(o)
    BY <2>4 DEF GatewayCapture, TypeOK
  <2>5. CASE VerifyPayment(o)
    BY <2>5 DEF VerifyPayment, TypeOK, PaymentStatus, OrderStatus
  <2> QED BY <1>6, <2>1, <2>2, <2>3, <2>4, <2>5 DEF Pay, BotPayment, BotRetryPayment
<1>7. ASSUME NEW o \in Orders, Refund(o) PROVE TypeOK'
  <2>1. PICK amount \in 1..Total :
           \/ PartialRefund(o, amount)
           \/ FullRefund(o, amount)
           \/ FullRefundRolledBack(o, amount)
    BY <1>7 DEF Refund
  <2>2. GatewayRefund(o, amount) => paidBack' \in [Orders -> 0..Total]
    BY TotalAssumption DEF GatewayRefund, TypeOK
  <2>3. CASE PartialRefund(o, amount)
    BY <2>2, <2>3, TotalAssumption DEF PartialRefund, TypeOK
  <2>4. CASE FullRefund(o, amount)
    <3>1. Items(o) \in SUBSET Products
      BY DEF Items
    <3> QED BY <2>2, <2>4, <3>1, ReleaseStockType, TotalAssumption
            DEF FullRefund, TypeOK, PaymentStatus, OrderStatus
  <2>5. CASE FullRefundRolledBack(o, amount)
    BY <2>2, <2>5 DEF FullRefundRolledBack, TypeOK
  <2> QED BY <2>1, <2>3, <2>4, <2>5
<1>8. CASE StockTake
  <2>1. PICK p \in Products, n \in 0..MaxInt, operation \in {"set", "add", "subtract"} :
           UpdateStock(p, n, operation)
    BY <1>8 DEF StockTake
  <2>2. stock' \in [Products -> 0..MaxInt]
    BY <2>1, MaxIntAssumption DEF UpdateStock, TypeOK
  <2> QED BY <2>1, <2>2 DEF UpdateStock, TypeOK
<1>9. CASE \E p \in Products : DeleteProduct(p)
  BY <1>9 DEF DeleteProduct, TypeOK
<1>10. CASE UNCHANGED vars
  BY <1>10 DEF vars, TypeOK
<1> QED BY <1>1, <1>2, <1>3, <1>4, <1>5, <1>6, <1>7, <1>8, <1>9, <1>10
        DEF Next, ChangeStatus

\* Every reachable state has well-typed columns; in particular no order ever
\* takes the stock of a product below zero.
THEOREM TypeCorrect == Spec => []TypeOK
BY InitType, StepType, PTL DEF Spec
-------------------------------------------------------------------------------
(* Safety.  The properties are inductive together once AbsentIsBlank joins     *)
(* them: an id that is not in use yet carries no item status and no payment    *)
(* that the order placed under it would inherit.                               *)

AbsentIsBlank ==
    \A o \in Orders :
        status[o] = "absent" =>
            /\ payment[o] # "paid"
            /\ \A p \in Products : vendorStatus[o][p] = "pending"

Safe ==
    /\ AbsentIsBlank
    /\ CalledOffHoldsNoStock
    /\ PaymentMatchesStatus
    /\ RefundsWerePaid

IInv == TypeOK /\ Safe

\* A step that leaves every column Safe reads as it is preserves Safe.
LEMMA FrameSafe ==
    ASSUME Safe,
           UNCHANGED <<status, payment, refunded, lines, vendorStatus, paidBack, returned>>
    PROVE  Safe'
BY DEF Safe, AbsentIsBlank, CalledOffHoldsNoStock, PaymentMatchesStatus,
       RefundsWerePaid, Items

THEOREM InitSafe == Init => Safe
BY DEF Init, Safe, AbsentIsBlank, CalledOffHoldsNoStock, PaymentMatchesStatus,
       RefundsWerePaid, Items

\* A new order starts pending, with pending items and no payment.
LEMMA PlaceOrderSafe ==
    ASSUME TypeOK, Safe, NEW o \in Orders, NEW cart \in Carts, PlaceOrder(o, cart)
    PROVE  Safe'
<1>1. status[o] = "absent" /\ status' = [status EXCEPT ![o] = "pending"]
  BY DEF PlaceOrder, Exists
<1>2. UNCHANGED <<payment, refunded, vendorStatus, paidBack, returned>>
  BY DEF PlaceOrder, gatewayVars
<1>3. lines' = [lines EXCEPT ![o] = cart]
  BY DEF PlaceOrder
<1>4. \A q \in Orders \ {o} : Items(q)' = Items(q) /\ status'[q] = status[q]
  BY <1>1, <1>3 DEF TypeOK, Items
<1>5. status'[o] = "pending"
  BY <1>1 DEF TypeOK
<1>6. AbsentIsBlank'
  BY <1>2, <1>4, <1>5 DEF Safe, AbsentIsBlank
<1>7. CalledOffHoldsNoStock'
  BY <1>1, <1>2, <1>4, <1>5 DEF Safe, AbsentIsBlank, CalledOffHoldsNoStock, Items
<1>8. PaymentMatchesStatus'
  BY <1>1, <1>2, <1>4, <1>5 DEF Safe, AbsentIsBlank, PaymentMatchesStatus
<1>9. RefundsWerePaid'
  BY <1>2 DEF Safe, RefundsWerePaid
<1> QED BY <1>6, <1>7, <1>8, <1>9 DEF Safe

\* update_order_status never leaves the pending or the refunded state behind,
\* and a cancellation returns every item.
LEMMA UpdateOrderStatusSafe ==
    ASSUME TypeOK, Safe, NEW o \in Orders, NEW s, UpdateOrderStatus(o, s)
    PROVE  Safe'
<1>1. /\ status[o] \in OrderStatus
      /\ s \in OrderStatus \ {"pending", "refunded"}
  BY TransitionsAreStatuses DEF UpdateOrderStatus, Exists, TypeOK
<1>2. status' = [status EXCEPT ![o] = s]
  BY DEF UpdateOrderStatus
<1>3. UNCHANGED <<payment, refunded, lines, vendorStatus, paidBack>>
  BY DEF UpdateOrderStatus, gatewayVars
<1>4. /\ \A q \in Orders : returned[q] \subseteq returned'[q]
      /\ s = "cancelled" => Items(o) \subseteq returned'[o]
  <2>1. CASE s = "cancelled"
    <3>1. ReleaseStock(o, Items(o))
      BY <2>1 DEF UpdateOrderStatus
    <3>2. returned' = [returned EXCEPT ![o] = returned[o] \cup Items(o)]
      BY <3>1 DEF ReleaseStock
    <3> QED BY <3>2 DEF TypeOK
  <2>2. CASE s # "cancelled"
    BY <2>2 DEF UpdateOrderStatus
  <2> QED BY <2>1, <2>2
<1>5. \A q \in Orders : status'[q] = IF q = o THEN s ELSE status[q]
  BY <1>2 DEF TypeOK
<1>6. AbsentIsBlank'
  BY <1>1, <1>3, <1>5 DEF Safe, AbsentIsBlank, OrderStatus
<1>7. CalledOffHoldsNoStock'
  BY <1>1, <1>3, <1>4, <1>5 DEF Safe, CalledOffHoldsNoStock, Items
<1>8. PaymentMatchesStatus'
  BY <1>1, <1>3, <1>5 DEF Safe, PaymentMatchesStatus, OrderStatus
<1>9. RefundsWerePaid'
  BY <1>3 DEF Safe, RefundsWerePaid
<1> QED BY <1>6, <1>7, <1>8, <1>9 DEF Safe

\* A vendor's cancellation returns the vendor's items unless the whole order
\* had returned everything before; an order derived as cancelled has only
\* cancelled items.
LEMMA UpdateVendorOrderStatusSafe ==
    ASSUME TypeOK, Safe, NEW o \in Orders, NEW v \in Vendors, NEW s \in OrderStatus,
           UpdateVendorOrderStatus(o, v, s)
    PROVE  Safe'
<1> DEFINE mine == {p \in Items(o) : VendorOf[p] = v}
           moved == [p \in Products |->
                        IF p \in mine THEN s ELSE vendorStatus[o][p]]
           all == {moved[p] : p \in Items(o)}
           derived == DerivedStatus(all, status[o])
<1>1. /\ status[o] # "absent"
      /\ mine # {}
      /\ vendorStatus' = [vendorStatus EXCEPT ![o] = moved]
      /\ status' = [status EXCEPT ![o] = derived]
      /\ UNCHANGED <<payment, refunded, lines, paidBack>>
  BY DEF UpdateVendorOrderStatus, Exists, gatewayVars
<1>2. /\ \A q \in Orders : returned[q] \subseteq returned'[q]
      /\ s = "cancelled" /\ status[o] # "cancelled" => mine \subseteq returned'[o]
  <2>1. returned \in [Orders -> SUBSET Products]
    BY DEF TypeOK
  <2>2. CASE s = "cancelled" /\ status[o] # "cancelled"
    <3>1. returned' = [returned EXCEPT ![o] = @ \cup mine]
      BY <2>2 DEF UpdateVendorOrderStatus, ReleaseStock
    <3> QED BY <2>1, <3>1
  <2>3. CASE ~ (s = "cancelled" /\ status[o] # "cancelled")
    BY <2>3 DEF UpdateVendorOrderStatus
  <2> QED BY <2>2, <2>3
<1>3. \A p \in Items(o) : moved[p] = "cancelled" => p \in returned'[o]
  <2> SUFFICES ASSUME NEW p \in Items(o), moved[p] = "cancelled"
               PROVE  p \in returned'[o]
    OBVIOUS
  <2>1. p \in Products
    BY DEF Items
  <2>2. CASE p \notin mine
    BY <1>2, <2>1, <2>2 DEF Safe, CalledOffHoldsNoStock
  <2>3. CASE p \in mine /\ status[o] # "cancelled"
    BY <1>2, <2>1, <2>3
  <2>4. CASE p \in mine /\ status[o] = "cancelled"
    BY <1>2, <2>4 DEF Safe, CalledOffHoldsNoStock
  <2> QED BY <2>2, <2>3, <2>4
<1>4. \/ derived = status[o]
      \/ derived \in {"confirmed", "processing", "shipped", "delivered"}
      \/ all = {"cancelled"} /\ derived = "cancelled"
  <2> HIDE DEF all
  <2> QED BY DerivedStatusRange
<1>5. derived \in {"cancelled", "refunded"} => Items(o) \subseteq returned'[o]
  <2>1. CASE derived = status[o]
    BY <1>2, <2>1 DEF Safe, CalledOffHoldsNoStock
  <2>2. CASE all = {"cancelled"}
    <3>1. \A p \in Items(o) : moved[p] = "cancelled"
      BY <2>2
    <3> QED BY <1>3, <3>1
  <2> QED BY <1>4, <2>1, <2>2
<1>6. /\ \A q \in Orders : status'[q] = IF q = o THEN derived ELSE status[q]
      /\ \A q \in Orders : vendorStatus'[q] = IF q = o THEN moved ELSE vendorStatus[q]
      /\ \A q \in Orders : Items(q)' = Items(q)
  BY <1>1 DEF TypeOK, Items
<1> HIDE DEF mine, moved, all, derived
<1>7. AbsentIsBlank'
  BY <1>1, <1>4, <1>6 DEF Safe, AbsentIsBlank
<1>8. CalledOffHoldsNoStock'
  BY <1>2, <1>3, <1>5, <1>6 DEF Safe, CalledOffHoldsNoStock
<1>9. PaymentMatchesStatus'
  BY <1>1, <1>4, <1>6 DEF Safe, PaymentMatchesStatus
<1>10. RefundsWerePaid'
  BY <1>1 DEF Safe, RefundsWerePaid
<1> QED BY <1>7, <1>8, <1>9, <1>10 DEF Safe

\* Payment steps: a payment that is not "paid" constrains nothing, and a
\* verified one confirms the order.
LEMMA PaySafe ==
    ASSUME TypeOK, Safe, NEW o \in Orders, Pay(o)
    PROVE  Safe'
<1> USE DEF orderVars, stockVars, gatewayVars
<1>1. ASSUME NEW new \in {"pending", "failed"},
             payment' = [payment EXCEPT ![o] = new],
             UNCHANGED <<status, refunded, lines, vendorStatus, paidBack, returned>>
      PROVE  Safe'
  BY <1>1 DEF TypeOK, Safe, AbsentIsBlank, CalledOffHoldsNoStock,
              PaymentMatchesStatus, RefundsWerePaid, Items
<1>2. CASE InitiatePayment(o) \/ BotPaymentStarted(o)
  BY <1>1, <1>2 DEF InitiatePayment, BotPaymentStarted, RecordReference
<1>3. CASE BotPaymentFailed(o)
  BY <1>1, <1>3 DEF BotPaymentFailed
<1>4. CASE GatewayCapture(o)
  BY <1>4, FrameSafe DEF GatewayCapture
<1>5. CASE VerifyPayment(o)
  BY <1>5 DEF VerifyPayment, TypeOK, Safe, AbsentIsBlank, CalledOffHoldsNoStock,
              PaymentMatchesStatus, RefundsWerePaid, Items
<1> QED BY <1>2, <1>3, <1>4, <1>5 DEF Pay, BotPayment, BotRetryPayment

\* Refund steps: the amount is recorded only together with the payback, and
\* the order is closed with all of its items returned.
LEMMA RefundSafe ==
    ASSUME TypeOK, Safe, NEW o \in Orders, Refund(o)
    PROVE  Safe'
<1> USE DEF orderVars, stockVars, gatewayVars
<1>1. PICK amount \in 1..Total :
         \/ PartialRefund(o, amount)
         \/ FullRefund(o, amount)
         \/ FullRefundRolledBack(o, amount)
  BY DEF Refund
<1>2. /\ refunded \in [Orders -> Int] /\ paidBack \in [Orders -> Int]
      /\ refunded[o] <= paidBack[o]
      /\ amount \in Int /\ Total \in Int
  BY TotalAssumption DEF TypeOK, Safe, RefundsWerePaid
<1>3. /\ paidBack' = [paidBack EXCEPT ![o] = @ + amount]
      /\ paidBack[o] + amount <= Total
      /\ payment[o] = "paid" /\ status[o] # "refunded"
  BY <1>1 DEF PartialRefund, FullRefund, FullRefundRolledBack, GatewayRefund,
              RefundGuard, CanRefund
<1>4. CASE PartialRefund(o, amount)
  BY <1>2, <1>3, <1>4
     DEF PartialRefund, TypeOK, Safe, AbsentIsBlank, CalledOffHoldsNoStock,
         PaymentMatchesStatus, RefundsWerePaid, Items
<1>5. CASE FullRefund(o, amount)
  <2>1. /\ refunded' = [refunded EXCEPT ![o] = Total]
        /\ payment' = [payment EXCEPT ![o] = "refunded"]
        /\ status' = [status EXCEPT ![o] = "refunded"]
        /\ refunded[o] + amount = Total
        /\ returned' = [returned EXCEPT ![o] = @ \cup Items(o)]
        /\ UNCHANGED <<lines, vendorStatus>>
    BY <1>5 DEF FullRefund, ReleaseStock
  <2>2. paidBack'[o] = Total
    BY <1>2, <1>3, <2>1
  <2>3. AbsentIsBlank' /\ RefundsWerePaid'
    BY <1>2, <1>3, <2>1, <2>2 DEF TypeOK, Safe, AbsentIsBlank, RefundsWerePaid
  <2>4. CalledOffHoldsNoStock'
    BY <2>1 DEF TypeOK, Safe, CalledOffHoldsNoStock, Items
  <2>5. PaymentMatchesStatus'
    BY <1>2, <1>3, <2>1, <2>2 DEF TypeOK, Safe, PaymentMatchesStatus
  <2> QED BY <2>3, <2>4, <2>5 DEF Safe
<1>6. CASE FullRefundRolledBack(o, amount)
  BY <1>2, <1>3, <1>6
     DEF FullRefundRolledBack, TypeOK, Safe, AbsentIsBlank, CalledOffHoldsNoStock,
         PaymentMatchesStatus, RefundsWerePaid, Items
<1> QED BY <1>1, <1>4, <1>5, <1>6

THEOREM StepSafe == TypeOK /\ Safe /\ [Next]_vars => Safe'
<1> SUFFICES ASSUME TypeOK, Safe, [Next]_vars PROVE Safe'
  OBVIOUS
<1> USE DEF orderVars, stockVars, gatewayVars
<1>1. ASSUME NEW o \in Orders, Checkout(o) PROVE Safe'
  BY <1>1, PlaceOrderSafe
     DEF Checkout, WebCheckout, BotCheckout, BotCheckoutRejected
<1>2. ASSUME NEW o \in Orders, ChangeStatus(o) PROVE Safe'
  <2>1. CASE \E s \in OrderStatus : AdminUpdateOrderStatus(o, s)
    BY <2>1, UpdateOrderStatusSafe DEF AdminUpdateOrderStatus
  <2>2. CASE CancelOrder(o)
    BY <2>2, UpdateOrderStatusSafe DEF CancelOrder
  <2>3. CASE CancelCheckout(o)
    BY <2>3, UpdateOrderStatusSafe, FrameSafe DEF CancelCheckout
  <2>4. CASE \E v \in Vendors, s \in OrderStatus : UpdateVendorOrderStatus(o, v, s)
    BY <2>4, UpdateVendorOrderStatusSafe
  <2> QED BY <1>2, <2>1, <2>2, <2>3, <2>4 DEF ChangeStatus
<1>3. ASSUME NEW o \in Orders, Pay(o) PROVE Safe'
  BY <1>3, PaySafe
<1>4. ASSUME NEW o \in Orders, Refund(o) PROVE Safe'
  BY <1>4, RefundSafe
<1>5. CASE StockTake
  BY <1>5, FrameSafe DEF StockTake, UpdateStock
<1>6. CASE \E p \in Products : DeleteProduct(p)
  BY <1>6, FrameSafe DEF DeleteProduct
<1>7. CASE UNCHANGED vars
  BY <1>7, FrameSafe DEF vars
<1> QED BY <1>1, <1>2, <1>3, <1>4, <1>5, <1>6, <1>7 DEF Next

LEMMA IInvHolds == Spec => []IInv
<1>1. Init => IInv
  BY InitType, InitSafe DEF IInv
<1>2. IInv /\ [Next]_vars => IInv'
  BY StepType, StepSafe DEF IInv
<1> QED BY <1>1, <1>2, PTL DEF Spec

\* Whoever calls an order or an item off, its units are back on the shelf.
THEOREM CalledOffOrdersReturnStock == Spec => []CalledOffHoldsNoStock
<1>1. IInv => CalledOffHoldsNoStock
  BY DEF IInv, Safe
<1> QED BY <1>1, IInvHolds, PTL

\* A paid order is neither absent, nor waiting for confirmation, nor closed as refunded;
\* an order closed as refunded was refunded in full.  A paid order may be cancelled.
THEOREM PaymentAgreesWithStatus == Spec => []PaymentMatchesStatus
<1>1. IInv => PaymentMatchesStatus
  BY DEF IInv, Safe
<1> QED BY <1>1, IInvHolds, PTL

\* No refund is recorded that the provider did not pay.
THEOREM RecordedRefundsWerePaid == Spec => []RefundsWerePaid
<1>1. IInv => RefundsWerePaid
  BY DEF IInv, Safe
<1> QED BY <1>1, IInvHolds, PTL

-------------------------------------------------------------------------------
(* Sums over a set.  SumOver folds a set one chosen element at a time; the     *)
(* smallest subset at which a claim fails stands in for induction.             *)

Pick(s) == CHOOSE x \in s : TRUE
Unfold(f, S, g) == [s \in SUBSET S |-> IF s = {} THEN 0 ELSE f[Pick(s)] + g[s \ {Pick(s)}]]

LEMMA SubsetMinimum ==
    ASSUME NEW S, IsFiniteSet(S), NEW B, B \subseteq SUBSET S, B # {}
    PROVE  \E b \in B : \A t \in SUBSET b : t # b => t \notin B
<1>1. IsWellFoundedOn(StrictSubsetOrdering(S), SUBSET S)
  BY FS_StrictSubsetOrderingWellFounded, FS_FiniteSubsetsOfFinite
<1>2. PICK b \in B : \A t \in B : <<t, b>> \notin StrictSubsetOrdering(S)
  BY <1>1, WFMin
<1>3. ASSUME NEW t \in SUBSET b, t # b, t \in B PROVE FALSE
  <2>1. <<t, b>> \in (SUBSET S) \X (SUBSET S)
    OBVIOUS
  <2> QED BY <1>2, <1>3, <2>1 DEF StrictSubsetOrdering
<1> QED BY <1>3

LEMMA SumUnfolds ==
    ASSUME NEW f, NEW S
    PROVE  SumOver(f, S) = (CHOOSE g : g = Unfold(f, S, g))[S]
BY DEF SumOver, MapThenSumSet, MapThenFoldSet, Unfold, Pick

\* The recursion of a sum over S has a solution.
Solves(g, f, S) == g = Unfold(f, S, g)

LEMMA SolutionIsUnique ==
    ASSUME NEW f, NEW S, IsFiniteSet(S), NEW T \in SUBSET S, NEW g, NEW h,
           Solves(g, f, S), Solves(h, f, T)
    PROVE  \A u \in SUBSET T : g[u] = h[u]
<1> DEFINE Bad == {u \in SUBSET T : g[u] # h[u]}
<1> SUFFICES ASSUME Bad # {} PROVE FALSE
  OBVIOUS
<1>1. IsFiniteSet(T)
  BY FS_Subset
<1>0. Bad \subseteq SUBSET T
  OBVIOUS
<1>2. PICK b \in Bad : \A t \in SUBSET b : t # b => t \notin Bad
  <2> HIDE DEF Bad
  <2> QED BY <1>0, <1>1, SubsetMinimum
<1>3. /\ g[b] = IF b = {} THEN 0 ELSE f[Pick(b)] + g[b \ {Pick(b)}]
      /\ h[b] = IF b = {} THEN 0 ELSE f[Pick(b)] + h[b \ {Pick(b)}]
  BY DEF Solves, Unfold
<1>4. b # {}
  BY <1>3
<1>5. Pick(b) \in b
  BY <1>4 DEF Pick
<1>6. b \ {Pick(b)} \in SUBSET b /\ b \ {Pick(b)} # b
  BY <1>5
<1>7. g[b \ {Pick(b)}] = h[b \ {Pick(b)}]
  BY <1>2, <1>6
<1> QED BY <1>3, <1>7

LEMMA SolutionExists ==
    ASSUME NEW f, NEW S, IsFiniteSet(S)
    PROVE  \E g : Solves(g, f, S)
<1> DEFINE Bad == {T \in SUBSET S : ~ \E g : Solves(g, f, T)}
<1> SUFFICES ASSUME Bad # {} PROVE FALSE
  OBVIOUS
<1>0. Bad \subseteq SUBSET S
  OBVIOUS
<1>1. PICK T \in Bad : \A t \in SUBSET T : t # T => t \notin Bad
  <2> HIDE DEF Bad
  <2> QED BY <1>0, SubsetMinimum
<1>2. IsFiniteSet(T)
  BY FS_Subset
<1> DEFINE part == [t \in SUBSET T |-> CHOOSE g : Solves(g, f, t)]
           all  == [s \in SUBSET T |->
                      IF s = {} THEN 0
                      ELSE f[Pick(s)] + part[s \ {Pick(s)}][s \ {Pick(s)}]]
<1>3. ASSUME NEW t \in SUBSET T, t # T PROVE Solves(part[t], f, t)
  BY <1>1, <1>3
<1>4. \A s \in SUBSET T : all[s] =
         IF s = {} THEN 0 ELSE f[Pick(s)] + part[s \ {Pick(s)}][s \ {Pick(s)}]
  OBVIOUS
<1>5. all = [s \in SUBSET T |-> all[s]]
  OBVIOUS
<1> HIDE DEF part, all
<1>6. ASSUME NEW r \in SUBSET T, r # T PROVE all[r] = part[r][r]
  <2> DEFINE q == r \ {Pick(r)}
  <2>1. Solves(part[r], f, r)
    BY <1>3, <1>6
  <2>2. part[r][r] = IF r = {} THEN 0 ELSE f[Pick(r)] + part[r][q]
    BY <2>1 DEF Solves, Unfold
  <2>3. all[r] = IF r = {} THEN 0 ELSE f[Pick(r)] + part[q][q]
    BY <1>4
  <2>4. q \in SUBSET T /\ q # T
    BY <1>6
  <2>7. q \in SUBSET r
    OBVIOUS
  <2>8. IsFiniteSet(r)
    BY <1>2, FS_Subset
  <2> HIDE DEF q
  <2>5. Solves(part[q], f, q)
    BY <1>3, <2>4
  <2>6. \A u \in SUBSET q : part[r][u] = part[q][u]
    <3> HIDE DEF Bad
    <3>1. \A t \in SUBSET r : \A g, h : Solves(g, f, r) /\ Solves(h, f, t)
             => \A u \in SUBSET t : g[u] = h[u]
      BY <2>8, SolutionIsUnique
    <3> QED BY <2>1, <2>5, <2>7, <3>1
  <2> QED BY <2>2, <2>3, <2>6
<1>7. ASSUME NEW s \in SUBSET T
      PROVE  all[s] = IF s = {} THEN 0 ELSE f[Pick(s)] + all[s \ {Pick(s)}]
  <2>1. CASE s = {}
    BY <1>4, <2>1
  <2>2. CASE s # {}
    <3>1. Pick(s) \in s
      BY <2>2 DEF Pick
    <3>2. s \ {Pick(s)} \in SUBSET T /\ s \ {Pick(s)} # T
      BY <3>1
    <3>3. all[s \ {Pick(s)}] = part[s \ {Pick(s)}][s \ {Pick(s)}]
      BY <1>6, <3>2
    <3> QED BY <1>4, <2>2, <3>3
  <2> QED BY <2>1, <2>2
<1>8. Solves(all, f, T)
  BY <1>5, <1>7 DEF Solves, Unfold
<1> QED BY <1>8

LEMMA SumIsSolution ==
    ASSUME NEW f, NEW S, IsFiniteSet(S)
    PROVE  \E g : Solves(g, f, S) /\ SumOver(f, S) = g[S]
<1> DEFINE g == CHOOSE g : Solves(g, f, S)
<1>1. Solves(g, f, S)
  BY SolutionExists
<1>2. SumOver(f, S) = g[S]
  BY SumUnfolds DEF Solves
<1> QED BY <1>1, <1>2

LEMMA SumOfNone == ASSUME NEW f PROVE SumOver(f, {}) = 0
<1>1. PICK g : Solves(g, f, {}) /\ SumOver(f, {}) = g[{}]
  BY SumIsSolution, FS_EmptySet
<1> QED BY <1>1 DEF Solves, Unfold

\* One step of the recursion, whatever set it started from.
LEMMA SumSteps ==
    ASSUME NEW f, NEW S, IsFiniteSet(S), S # {}
    PROVE  SumOver(f, S) = f[Pick(S)] + SumOver(f, S \ {Pick(S)})
<1> DEFINE R == S \ {Pick(S)}
<1>1. IsFiniteSet(R) /\ R \in SUBSET S
  BY FS_Subset
<1>2. PICK g : Solves(g, f, S) /\ SumOver(f, S) = g[S]
  BY SumIsSolution
<1>3. g[S] = f[Pick(S)] + g[R]
  BY <1>2 DEF Solves, Unfold
<1> HIDE DEF R
<1>4. PICK h : Solves(h, f, R) /\ SumOver(f, R) = h[R]
  BY <1>1, SumIsSolution
<1>5. \A u \in SUBSET R : g[u] = h[u]
  BY <1>1, <1>2, <1>4, SolutionIsUnique
<1>6. SumOver(f, S) = f[Pick(S)] + SumOver(f, R)
  BY <1>2, <1>3, <1>4, <1>5
<1> QED BY <1>6 DEF R

\* A sum changes by what one of its summands changes.
LEMMA SumMoves ==
    ASSUME NEW S, IsFiniteSet(S), NEW f \in [S -> Int], NEW g \in [S -> Int],
           NEW x \in S, \A y \in S \ {x} : g[y] = f[y]
    PROVE  /\ SumOver(f, S) \in Int
           /\ SumOver(g, S) = SumOver(f, S) + g[x] - f[x]
<1> DEFINE Right(T) == /\ SumOver(f, T) \in Int
                       /\ SumOver(g, T) = IF x \in T THEN SumOver(f, T) + g[x] - f[x]
                                                    ELSE SumOver(f, T)
           Bad == {T \in SUBSET S : ~ Right(T)}
<1> SUFFICES ASSUME Bad # {} PROVE FALSE
  OBVIOUS
<1>0. Bad \subseteq SUBSET S
  OBVIOUS
<1>1. PICK T \in Bad : \A t \in SUBSET T : t # T => t \notin Bad
  <2> HIDE DEF Bad
  <2> QED BY <1>0, SubsetMinimum
<1>2. CASE T = {}
  BY <1>2, SumOfNone
<1>3. CASE T # {}
  <2> DEFINE z == Pick(T)
             R == T \ {z}
  <2>1. z \in T
    BY <1>3 DEF Pick
  <2>2. Right(R)
    BY <1>1, <2>1
  <2>3. /\ SumOver(f, T) = f[z] + SumOver(f, R)
        /\ SumOver(g, T) = g[z] + SumOver(g, R)
    BY <1>3, FS_Subset, SumSteps
  <2>4. f[z] \in Int /\ g[z] \in Int /\ f[x] \in Int /\ g[x] \in Int
    BY <2>1
  <2>5. x \in R <=> x \in T /\ x # z
    OBVIOUS
  <2>6. z # x => g[z] = f[z]
    BY <2>1
  <2> HIDE DEF z, R
  <2>7. CASE x = z
    BY <2>1, <2>2, <2>3, <2>4, <2>5, <2>7
  <2>8. CASE x # z
    BY <2>2, <2>3, <2>4, <2>5, <2>6, <2>8
  <2> QED BY <2>7, <2>8
<1> QED BY <1>2, <1>3

-------------------------------------------------------------------------------
(* Stock and held units together                                             *)

\* An id that is not in use yet has neither taken nor returned anything, which
\* the order placed under it would otherwise overwrite.
AbsentTookNothing ==
    \A o \in Orders :
        status[o] = "absent" =>
            returned[o] = {} /\ \A p \in Products : lines[o][p] = 0

Keeps == \A p \in Products : stock'[p] + Held(p)' >= stock[p] + Held(p)

\* When one order's units move, the held units move by as much.
LEMMA HeldMoves ==
    ASSUME TypeOK, TypeOK', NEW o \in Orders, NEW p \in Products,
           \A q \in Orders \ {o} : HeldBy(q, p)' = HeldBy(q, p)
    PROVE  /\ Held(p) \in Int /\ HeldBy(o, p) \in Int /\ HeldBy(o, p)' \in Int
           /\ Held(p)' = Held(p) + HeldBy(o, p)' - HeldBy(o, p)
<1> DEFINE f == [q \in Orders |-> HeldBy(q, p)]
           g == [q \in Orders |-> HeldBy(q, p)']
<1>1. \A q \in Orders : HeldBy(q, p) \in Int /\ HeldBy(q, p)' \in Int
  BY MaxQtyAssumption DEF TypeOK, Carts, HeldBy
<1>2. f \in [Orders -> Int] /\ g \in [Orders -> Int]
  BY <1>1
<1>3. \A q \in Orders \ {o} : g[q] = f[q]
  OBVIOUS
<1>4. Held(p) = SumOver(f, Orders) /\ Held(p)' = SumOver(g, Orders)
  BY DEF Held
<1>5. f[o] = HeldBy(o, p) /\ g[o] = HeldBy(o, p)'
  OBVIOUS
<1> HIDE DEF f, g
<1>6. /\ SumOver(f, Orders) \in Int
      /\ SumOver(g, Orders) = SumOver(f, Orders) + g[o] - f[o]
  BY <1>2, <1>3, OrdersAssumption, SumMoves
<1> QED BY <1>1, <1>4, <1>5, <1>6

\* So nothing is lost if no product's stock and the order's units shrink together.
LEMMA KeepsByOne ==
    ASSUME TypeOK, TypeOK', NEW o \in Orders,
           \A p \in Products :
              /\ \A q \in Orders \ {o} : HeldBy(q, p)' = HeldBy(q, p)
              /\ stock'[p] + HeldBy(o, p)' >= stock[p] + HeldBy(o, p)
    PROVE  Keeps
<1> SUFFICES ASSUME NEW p \in Products
             PROVE  stock'[p] + Held(p)' >= stock[p] + Held(p)
  BY DEF Keeps
<1>1. /\ Held(p) \in Int /\ HeldBy(o, p) \in Int /\ HeldBy(o, p)' \in Int
      /\ Held(p)' = Held(p) + HeldBy(o, p)' - HeldBy(o, p)
  BY HeldMoves
<1>2. stock[p] \in Int /\ stock'[p] \in Int
  BY MaxIntAssumption DEF TypeOK
<1>3. stock'[p] + HeldBy(o, p)' >= stock[p] + HeldBy(o, p)
  OBVIOUS
<1> QED BY <1>1, <1>2, <1>3

LEMMA FrameKeeps ==
    ASSUME TypeOK, TypeOK', UNCHANGED <<stock, lines, returned>>
    PROVE  Keeps
<1>1. ASSUME NEW p \in Products PROVE Held(p)' = Held(p)
  BY DEF Held, HeldBy
<1>2. ASSUME NEW p \in Products PROVE Held(p) \in Int
  <2>1. CASE Orders = {}
    BY <2>1, SumOfNone DEF Held
  <2>2. ASSUME NEW o \in Orders PROVE Held(p) \in Int
    <3>1. \A q \in Orders \ {o} : HeldBy(q, p)' = HeldBy(q, p)
      BY DEF HeldBy
    <3> QED BY <3>1, HeldMoves
  <2> QED BY <2>1, <2>2
<1>3. \A p \in Products : stock[p] \in Int
  BY MaxIntAssumption DEF TypeOK
<1> QED BY <1>1, <1>2, <1>3 DEF Keeps

\* A new order holds exactly what leaves the shelf.
LEMMA PlaceOrderKeeps ==
    ASSUME TypeOK, TypeOK', AbsentTookNothing,
           NEW o \in Orders, NEW cart \in Carts, PlaceOrder(o, cart)
    PROVE  Keeps
<1>1. /\ stock' = [p \in Products |-> stock[p] - cart[p]]
      /\ lines' = [lines EXCEPT ![o] = cart]
      /\ returned' = returned
  BY DEF PlaceOrder
<1>2. returned[o] = {} /\ \A p \in Products : lines[o][p] = 0
  BY DEF PlaceOrder, Exists, AbsentTookNothing
<1>3. ASSUME NEW p \in Products
      PROVE  /\ \A q \in Orders \ {o} : HeldBy(q, p)' = HeldBy(q, p)
             /\ stock'[p] + HeldBy(o, p)' >= stock[p] + HeldBy(o, p)
  <2>1. HeldBy(o, p) = 0 /\ HeldBy(o, p)' = cart[p]
    BY <1>1, <1>2 DEF TypeOK, HeldBy
  <2>2. \A q \in Orders \ {o} : HeldBy(q, p)' = HeldBy(q, p)
    BY <1>1 DEF TypeOK, HeldBy
  <2>3. stock[p] \in Int /\ cart[p] \in Int /\ stock'[p] = stock[p] - cart[p]
    BY <1>1, MaxIntAssumption, MaxQtyAssumption DEF TypeOK, Carts
  <2> QED BY <2>1, <2>2, <2>3
<1> QED BY <1>3, KeepsByOne

\* Released items go back to the shelf in full, even those already back.
LEMMA ReleaseStockKeeps ==
    ASSUME TypeOK, TypeOK', NEW o \in Orders, NEW ps \in SUBSET Products,
           ReleaseStock(o, ps), lines' = lines
    PROVE  Keeps
<1>1. /\ stock' = [p \in Products |->
                      IF p \in ps THEN stock[p] + lines[o][p] ELSE stock[p]]
      /\ returned' = [returned EXCEPT ![o] = @ \cup ps]
  BY DEF ReleaseStock
<1>2. ASSUME NEW p \in Products
      PROVE  /\ \A q \in Orders \ {o} : HeldBy(q, p)' = HeldBy(q, p)
             /\ stock'[p] + HeldBy(o, p)' >= stock[p] + HeldBy(o, p)
  <2>1. \A q \in Orders \ {o} : HeldBy(q, p)' = HeldBy(q, p)
    BY <1>1 DEF TypeOK, HeldBy
  <2>2. /\ stock[p] \in Int /\ lines[o][p] \in Int /\ lines[o][p] >= 0
        /\ stock'[p] = IF p \in ps THEN stock[p] + lines[o][p] ELSE stock[p]
    BY <1>1, MaxIntAssumption, MaxQtyAssumption DEF TypeOK, Carts
  <2>3. /\ HeldBy(o, p) = IF p \in returned[o] THEN 0 ELSE lines[o][p]
        /\ HeldBy(o, p)' = IF p \in returned[o] \cup ps THEN 0 ELSE lines[o][p]
    BY <1>1 DEF TypeOK, HeldBy
  <2> QED BY <2>1, <2>2, <2>3
<1> QED BY <1>2, KeepsByOne

LEMMA UpdateOrderStatusKeeps ==
    ASSUME TypeOK, TypeOK', NEW o \in Orders, NEW s, UpdateOrderStatus(o, s)
    PROVE  Keeps
<1>1. CASE s = "cancelled"
  <2>1. ReleaseStock(o, Items(o)) /\ lines' = lines /\ Items(o) \in SUBSET Products
    BY <1>1 DEF UpdateOrderStatus, Items
  <2> QED BY <2>1, ReleaseStockKeeps
<1>2. CASE s # "cancelled"
  BY <1>2, FrameKeeps DEF UpdateOrderStatus
<1> QED BY <1>1, <1>2

LEMMA UpdateVendorOrderStatusKeeps ==
    ASSUME TypeOK, TypeOK', NEW o \in Orders, NEW v \in Vendors, NEW s \in OrderStatus,
           UpdateVendorOrderStatus(o, v, s)
    PROVE  Keeps
<1> DEFINE mine == {p \in Items(o) : VendorOf[p] = v}
<1>1. /\ mine \in SUBSET Products /\ lines' = lines
      /\ IF s = "cancelled" /\ status[o] # "cancelled"
            THEN ReleaseStock(o, mine)
            ELSE UNCHANGED <<stock, returned>>
  BY DEF UpdateVendorOrderStatus, Items
<1> HIDE DEF mine
<1>2. CASE s = "cancelled" /\ status[o] # "cancelled"
  BY <1>1, <1>2, ReleaseStockKeeps
<1>3. CASE ~ (s = "cancelled" /\ status[o] # "cancelled")
  BY <1>1, <1>3, FrameKeeps
<1> QED BY <1>2, <1>3

LEMMA StepKeeps ==
    TypeOK /\ TypeOK' /\ AbsentTookNothing /\ [Next]_vars => [StockTake \/ Keeps]_vars
<1> SUFFICES ASSUME TypeOK, TypeOK', AbsentTookNothing, Next PROVE StockTake \/ Keeps
  OBVIOUS
<1> USE DEF orderVars, stockVars, gatewayVars
<1>1. ASSUME NEW o \in Orders, Checkout(o) PROVE Keeps
  BY <1>1, PlaceOrderKeeps DEF Checkout, WebCheckout, BotCheckout, BotCheckoutRejected
<1>2. ASSUME NEW o \in Orders, ChangeStatus(o) PROVE Keeps
  <2>1. CASE \E s \in OrderStatus : AdminUpdateOrderStatus(o, s)
    BY <2>1, UpdateOrderStatusKeeps DEF AdminUpdateOrderStatus
  <2>2. CASE CancelOrder(o)
    BY <2>2, UpdateOrderStatusKeeps DEF CancelOrder
  <2>3. CASE CancelCheckout(o)
    BY <2>3, UpdateOrderStatusKeeps, FrameKeeps DEF CancelCheckout
  <2>4. CASE \E v \in Vendors, s \in OrderStatus : UpdateVendorOrderStatus(o, v, s)
    BY <2>4, UpdateVendorOrderStatusKeeps
  <2> QED BY <1>2, <2>1, <2>2, <2>3, <2>4 DEF ChangeStatus
<1>3. ASSUME NEW o \in Orders, Pay(o) PROVE Keeps
  BY <1>3, FrameKeeps DEF Pay, InitiatePayment, RecordReference, BotPayment,
        BotRetryPayment, BotPaymentStarted, BotPaymentFailed, GatewayCapture, VerifyPayment
<1>4. ASSUME NEW o \in Orders, NEW amount \in 1..Total, PartialRefund(o, amount)
      PROVE  Keeps
  BY <1>4, FrameKeeps DEF PartialRefund
<1>5. ASSUME NEW o \in Orders, NEW amount \in 1..Total, FullRefund(o, amount)
      PROVE  Keeps
  <2>1. ReleaseStock(o, Items(o)) /\ lines' = lines /\ Items(o) \in SUBSET Products
    BY <1>5 DEF FullRefund, Items
  <2> QED BY <2>1, ReleaseStockKeeps
<1>6. ASSUME NEW o \in Orders, NEW amount \in 1..Total, FullRefundRolledBack(o, amount)
      PROVE  Keeps
  BY <1>6, FrameKeeps DEF FullRefundRolledBack
<1>7. CASE \E p \in Products : DeleteProduct(p)
  BY <1>7, FrameKeeps DEF DeleteProduct
<1> QED BY <1>1, <1>2, <1>3, <1>4, <1>5, <1>6, <1>7 DEF Next, Refund

\* Ids that are not in use stay untouched: only orders that exist release stock.
LEMMA StepAbsent == IInv /\ AbsentTookNothing /\ [Next]_vars => AbsentTookNothing'
<1> SUFFICES ASSUME IInv, AbsentTookNothing, [Next]_vars PROVE AbsentTookNothing'
  OBVIOUS
<1> USE DEF orderVars, stockVars, gatewayVars
<1>1. TypeOK /\ Safe
  BY DEF IInv
<1>2. ASSUME NEW o \in Orders,
             \A q \in Orders \ {o} :
                /\ status'[q] = "absent" => status[q] = "absent"
                /\ returned'[q] = returned[q] /\ lines'[q] = lines[q],
             status'[o] # "absent"
      PROVE  AbsentTookNothing'
  BY <1>2 DEF AbsentTookNothing
<1>3. ASSUME UNCHANGED <<lines, returned>>,
             \A q \in Orders : status'[q] = "absent" => status[q] = "absent"
      PROVE  AbsentTookNothing'
  BY <1>3 DEF AbsentTookNothing
<1>4. ASSUME NEW o \in Orders, Checkout(o) PROVE AbsentTookNothing'
  <2>1. PICK cart \in Carts : PlaceOrder(o, cart)
    BY <1>4 DEF Checkout, WebCheckout, BotCheckout, BotCheckoutRejected
  <2> QED BY <1>1, <1>2, <2>1 DEF PlaceOrder, TypeOK
<1>5. ASSUME NEW o \in Orders, NEW s, UpdateOrderStatus(o, s) PROVE AbsentTookNothing'
  <2>1. status[o] \in OrderStatus /\ s \in OrderStatus
    BY <1>1, <1>5, TransitionsAreStatuses DEF UpdateOrderStatus, Exists, TypeOK
  <2>2. /\ status' = [status EXCEPT ![o] = s]
        /\ lines' = lines
        /\ returned' = returned \/ returned' = [returned EXCEPT ![o] = @ \cup Items(o)]
    BY <1>5 DEF UpdateOrderStatus, ReleaseStock
  <2> QED BY <1>1, <1>2, <2>1, <2>2 DEF TypeOK, OrderStatus
<1>6. ASSUME NEW o \in Orders, NEW v \in Vendors, NEW s \in OrderStatus,
             UpdateVendorOrderStatus(o, v, s)
      PROVE  AbsentTookNothing'
  <2> DEFINE mine == {p \in Items(o) : VendorOf[p] = v}
             moved == [p \in Products |->
                          IF p \in mine THEN s ELSE vendorStatus[o][p]]
             derived == DerivedStatus({moved[p] : p \in Items(o)}, status[o])
  <2>1. /\ status[o] # "absent"
        /\ status' = [status EXCEPT ![o] = derived]
        /\ lines' = lines
        /\ returned' = returned \/ returned' = [returned EXCEPT ![o] = @ \cup mine]
    BY <1>6 DEF UpdateVendorOrderStatus, ReleaseStock, Exists
  <2>2. derived # "absent"
    <3> HIDE DEF moved
    <3> QED BY <2>1, DerivedStatusRange
  <2> HIDE DEF mine, moved, derived
  <2> QED BY <1>1, <1>2, <2>1, <2>2 DEF TypeOK
<1>7. ASSUME NEW o \in Orders, ChangeStatus(o) PROVE AbsentTookNothing'
  <2>1. CASE UNCHANGED <<stockVars, orderVars, gatewayVars, returned, told>>
    BY <1>3, <2>1
  <2> QED BY <1>5, <1>6, <1>7, <2>1
          DEF ChangeStatus, AdminUpdateOrderStatus, CancelOrder, CancelCheckout
<1>8. ASSUME NEW o \in Orders, Pay(o) PROVE AbsentTookNothing'
  <2>1. CASE VerifyPayment(o)
    BY <1>1, <1>3, <2>1 DEF VerifyPayment, TypeOK
  <2>2. CASE UNCHANGED <<status, lines, returned>>
    BY <1>3, <2>2
  <2> QED BY <1>8, <2>1, <2>2 DEF Pay, InitiatePayment, RecordReference, BotPayment,
            BotRetryPayment, BotPaymentStarted, BotPaymentFailed, GatewayCapture
<1>9. ASSUME NEW o \in Orders, NEW amount \in 1..Total, FullRefund(o, amount)
      PROVE  AbsentTookNothing'
  BY <1>1, <1>2, <1>9 DEF FullRefund, ReleaseStock, TypeOK
<1>10. CASE UNCHANGED <<status, lines, returned>>
  BY <1>3, <1>10
<1>11. ASSUME NEW o \in Orders, Refund(o) PROVE AbsentTookNothing'
  BY <1>9, <1>10, <1>11 DEF Refund, PartialRefund, FullRefundRolledBack
<1>12. CASE StockTake \/ \E p \in Products : DeleteProduct(p)
  BY <1>10, <1>12 DEF StockTake, UpdateStock, DeleteProduct
<1>13. CASE UNCHANGED vars
  BY <1>10, <1>13 DEF vars
<1> QED BY <1>4, <1>7, <1>8, <1>11, <1>12, <1>13 DEF Next

\* Apart from a stock take, no step of any order loses a unit of any product:
\* what leaves the shelf is held by an order until it is back on the shelf.
THEOREM StockIsNeverLost == Spec => StockNeverLost
<1>1. Init => AbsentTookNothing
  BY DEF Init, AbsentTookNothing
<1>2. IInv /\ IInv' /\ AbsentTookNothing /\ [Next]_vars => [StockTake \/ Keeps]_vars
  BY StepKeeps DEF IInv
<1>3. Spec => [][StockTake \/ Keeps]_vars
  BY <1>1, <1>2, StepAbsent, IInvHolds, PTL DEF Spec
<1> QED BY <1>3 DEF StockNeverLost, Keeps
===============================================================================
