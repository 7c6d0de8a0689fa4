--------------------------- MODULE OrderConstants ---------------------------
(***************************************************************************)
(* The statuses of an order and of its payment (core/constants.py), and    *)
(* the status changes OrderService accepts (apps/orders/services.py).      *)
(***************************************************************************)

OrderStatus == {"pending", "confirmed", "processing", "shipped",
                "delivered", "cancelled", "refunded"}

PaymentStatus == {"pending", "paid", "failed", "refunded", "partial"}

\* The transitions _is_valid_transition accepts.
ValidTransitions ==
    [s \in OrderStatus |->
        CASE s = "pending"    -> {"confirmed", "cancelled"}
          [] s = "confirmed"  -> {"processing", "cancelled"}
          [] s = "processing" -> {"shipped", "cancelled"}
          [] s = "shipped"    -> {"delivered"}
          [] OTHER            -> {}]
=============================================================================
