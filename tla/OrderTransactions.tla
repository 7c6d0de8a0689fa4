-------------------------- MODULE OrderTransactions --------------------------
(***************************************************************************)
(* The handlers of one order running at the same time.  OrderFulfilment    *)
(* makes a handler one step; here a handler is the steps of its database   *)
(* transaction (get_transaction_session, READ COMMITTED, no version        *)
(* column): it reads the order without a lock, may call the payment        *)
(* provider, writes values computed from what it read, and commits.  An    *)
(* UPDATE locks its row until the transaction ends.                        *)
(*                                                                         *)
(* The order's product rows are one row here: cancelling releases the      *)
(* stock before it updates the order, a full refund updates the order      *)
(* first, so the two may wait for each other and the database aborts one.  *)
(***************************************************************************)
EXTENDS OrderConstants, Integers, FiniteSets

CONSTANTS
    Requests,      \* HTTP requests, each served once
    Total,         \* amount of the order, in refundable units
    AmountIgnored, \* the provider refunds everything, whatever is asked
    AnswersLost    \* the provider's answer to a refund may not arrive

ASSUME TotalAssumption == Total \in Nat \ {0}
ASSUME ProviderAssumption == AmountIgnored \in BOOLEAN /\ AnswersLost \in BOOLEAN

VARIABLES
    row,       \* the committed row of orders
    restocked, \* how often the order's units were put back on the shelf
    pc,        \* what each request does next
    kind,      \* which handler serves it
    target,    \* status the request asks for
    amount,    \* amount the refund request asks for
    seen,      \* the row as the request read it
    written,   \* the row as the request's UPDATE leaves it
    rowLock,   \* requests that hold the lock on the order
    stockLock, \* requests that hold the lock on its products
    captured,  \* external: the customer has paid the reference
    paidBack   \* external: units the provider has paid back

requestVars == <<pc, kind, target, amount, seen, written>>
lockVars    == <<rowLock, stockLock>>
gatewayVars == <<captured, paidBack>>
vars == <<row, restocked, requestVars, lockVars, gatewayVars>>

Kinds == {"none", "initiate", "verify", "refund", "status"}
Steps == {"idle", "provider", "restock", "update", "commit", "end"}

Rows == [status : OrderStatus, payment : PaymentStatus, txn : BOOLEAN,
         refunded : 0..Total]

-----------------------------------------------------------------------------
\* The order after checkout, and at each stage after its payment was verified.
Init ==
    /\ row \in {r \in Rows :
                  /\ r.refunded = 0
                  /\ \/ r.status = "pending" /\ r.payment = "pending"
                     \/ /\ r.status \in {"confirmed", "processing", "shipped", "delivered"}
                        /\ r.payment = "paid" /\ r.txn}
    /\ captured \in BOOLEAN
    /\ (row.payment = "paid") => captured
    /\ captured => row.txn
    /\ restocked = 0
    /\ pc = [r \in Requests |-> "idle"]
    /\ kind = [r \in Requests |-> "none"]
    /\ target = [r \in Requests |-> "pending"]
    /\ amount = [r \in Requests |-> 0]
    /\ seen = [r \in Requests |-> row]
    /\ written = [r \in Requests |-> row]
    /\ rowLock = {}
    /\ stockLock = {}
    /\ paidBack = 0

GoTo(r, step) == pc' = [pc EXCEPT ![r] = step]

\* A handler's first SELECT; its guards are judged on the row it returns.
Read(r, k, step) ==
    /\ pc[r] = "idle"
    /\ GoTo(r, step)
    /\ kind' = [kind EXCEPT ![r] = k]
    /\ seen' = [seen EXCEPT ![r] = row]
    /\ UNCHANGED <<row, restocked, written, lockVars, gatewayVars>>

-----------------------------------------------------------------------------
(* POST /payments/initiate and GET /payments/verify                        *)

InitiatePayment(r) ==
    /\ row.payment # "paid"
    /\ ~ (row.payment = "pending" /\ row.txn)
    /\ Read(r, "initiate", "provider")
    /\ UNCHANGED <<target, amount>>

\* The order is found by the reference of an earlier, committed initiation.
VerifyPayment(r) ==
    /\ row.txn
    /\ Read(r, "verify", "provider")
    /\ UNCHANGED <<target, amount>>

\* Mutant: the answer of the provider is not looked at.
AskProviderUnchecked(r) ==
    /\ pc[r] = "provider"
    /\ kind[r] \in {"initiate", "verify"}
    /\ GoTo(r, "update")
    /\ UNCHANGED <<row, restocked, kind, target, amount, seen, written,
                   lockVars, gatewayVars>>

\* The provider registers the payment or declines; a reference is verified
\* once the customer paid it.
AskProvider(r) ==
    /\ pc[r] = "provider"
    /\ \/ kind[r] = "initiate" /\ (GoTo(r, "update") \/ GoTo(r, "end"))
       \/ kind[r] = "verify" /\ GoTo(r, IF captured THEN "update" ELSE "end")
    /\ UNCHANGED <<row, restocked, kind, target, amount, seen, written,
                   lockVars, gatewayVars>>

\* External: the customer pays.
GatewayCapture ==
    /\ row.txn /\ ~ captured
    /\ captured' = TRUE
    /\ UNCHANGED <<row, restocked, requestVars, lockVars, paidBack>>

-----------------------------------------------------------------------------
(* POST /payments/refund                                                   *)

\* The checks of process_refund and request_refund.
RequestRefund(r, a) ==
    /\ row.txn
    /\ row.payment = "paid" /\ row.status # "refunded"
    /\ a <= Total - row.refunded
    /\ Read(r, "refund", "provider")
    /\ amount' = [amount EXCEPT ![r] = a]
    /\ UNCHANGED target

\* Mutant: the request goes on when the provider refused.
RefundAtProviderUnchecked(r) ==
    /\ pc[r] = "provider" /\ kind[r] = "refund"
    /\ \/ GoTo(r, "update") /\ UNCHANGED paidBack
       \/ /\ paidBack + amount[r] <= Total
          /\ paidBack' = paidBack + amount[r]
          /\ GoTo(r, "update")
    /\ UNCHANGED <<row, restocked, kind, target, amount, seen, written,
                   lockVars, captured>>

\* refund_payment: the provider pays back no more than it took.  It may refuse;
\* when its answer is lost, the exception is caught and reported as a refusal.
RefundAtProvider(r) ==
    /\ pc[r] = "provider" /\ kind[r] = "refund"
    /\ \/ GoTo(r, "end") /\ UNCHANGED paidBack
       \/ /\ paidBack + amount[r] <= Total
          /\ paidBack' = IF AmountIgnored THEN Total ELSE paidBack + amount[r]
          /\ \/ GoTo(r, "update")
             \/ AnswersLost /\ GoTo(r, "end")
    /\ UNCHANGED <<row, restocked, kind, target, amount, seen, written,
                   lockVars, captured>>

-----------------------------------------------------------------------------
(* PUT /orders/{id}/cancel and the administrator's status change           *)

ReadForStatus(r, s) ==
    /\ s \in ValidTransitions[row.status]
    /\ Read(r, "status", IF s = "cancelled" THEN "restock" ELSE "update")
    /\ target' = [target EXCEPT ![r] = s]
    /\ UNCHANGED amount

CancelOrder(r) ==
    /\ row.status \in {"pending", "confirmed"} /\ row.payment # "paid"
    /\ ReadForStatus(r, "cancelled")

UpdateOrderStatus(r, s) == ReadForStatus(r, s)

-----------------------------------------------------------------------------
(* Writes                                                                  *)

\* Refunded units the request's UPDATE records, from the row it had read.
RefundedTotal(r) == seen[r].refunded + amount[r]

\* Mutant: the amount is added to the current row and to the remembered one.
NewRowTwice(r) ==
    CASE kind[r] = "initiate" -> [row EXCEPT !.payment = "pending", !.txn = TRUE]
      [] kind[r] = "verify"   -> [row EXCEPT !.payment = "paid", !.status = "confirmed"]
      [] kind[r] = "status"   -> [row EXCEPT !.status = target[r]]
      [] OTHER                -> [row EXCEPT !.refunded = @ + RefundedTotal(r)]

\* The columns each handler sets; the others keep the current row's values.
NewRow(r) ==
    CASE kind[r] = "initiate" -> [row EXCEPT !.payment = "pending", !.txn = TRUE]
      [] kind[r] = "verify"   -> [row EXCEPT !.payment = "paid", !.status = "confirmed"]
      [] kind[r] = "status"   -> [row EXCEPT !.status = target[r]]
      [] kind[r] = "refund" /\ RefundedTotal(r) >= Total ->
            [row EXCEPT !.refunded = RefundedTotal(r),
                        !.payment = "refunded", !.status = "refunded"]
      [] OTHER ->
            [row EXCEPT !.refunded = RefundedTotal(r),
                        !.payment = "paid", !.status = seen[r].status]

\* The UPDATE of the order, which waits for the lock.
Update(r) ==
    /\ pc[r] = "update"
    /\ rowLock = {}
    /\ rowLock' = {r}
    /\ written' = [written EXCEPT ![r] = NewRow(r)]
    /\ GoTo(r, IF kind[r] = "refund" /\ RefundedTotal(r) >= Total
                  THEN "restock" ELSE "commit")
    /\ UNCHANGED <<row, restocked, kind, target, amount, seen,
                   stockLock, gatewayVars>>

\* Mutant: the stock is released in a transaction of its own.
RestockAlone(r) ==
    /\ pc[r] = "restock"
    /\ restocked' = restocked + 1
    /\ GoTo(r, IF kind[r] = "refund" THEN "commit" ELSE "update")
    /\ UNCHANGED <<row, kind, target, amount, seen, written,
                   lockVars, gatewayVars>>

\* release_stock for the order's items, which waits for the lock.
Restock(r) ==
    /\ pc[r] = "restock"
    /\ stockLock = {}
    /\ stockLock' = {r}
    /\ GoTo(r, IF kind[r] = "refund" THEN "commit" ELSE "update")
    /\ UNCHANGED <<row, restocked, kind, target, amount, seen, written,
                   rowLock, gatewayVars>>

ReleaseLocks(r) ==
    /\ rowLock' = rowLock \ {r}
    /\ stockLock' = stockLock \ {r}

Commit(r) ==
    /\ pc[r] = "commit"
    /\ row' = written[r]
    /\ restocked' = IF r \in stockLock THEN restocked + 1 ELSE restocked
    /\ ReleaseLocks(r)
    /\ GoTo(r, "end")
    /\ UNCHANGED <<kind, target, amount, seen, written, gatewayVars>>

\* Mutant: the session is not closed when the handler fails.
RollbackKeepingLocks(r) ==
    /\ GoTo(r, "end")
    /\ UNCHANGED <<row, restocked, kind, target, amount, seen, written,
                   lockVars, gatewayVars>>

Rollback(r) ==
    /\ GoTo(r, "end")
    /\ ReleaseLocks(r)
    /\ UNCHANGED <<row, restocked, kind, target, amount, seen, written, gatewayVars>>

\* An exception: the connection or the worker is lost before the commit.
Fail(r) ==
    /\ pc[r] \notin {"idle", "end"}
    /\ Rollback(r)

\* External: the database aborts a request that waits for a lock whose holder
\* waits for a lock of this request.
DeadlockVictim(r) ==
    /\ \/ pc[r] = "update" /\ r \in stockLock
          /\ \E q \in rowLock : pc[q] = "restock"
       \/ pc[r] = "restock" /\ r \in rowLock
          /\ \E q \in stockLock : pc[q] = "update"
    /\ Rollback(r)

-----------------------------------------------------------------------------
Arrive(r) ==
    \/ InitiatePayment(r)
    \/ VerifyPayment(r)
    \/ \E a \in 1..Total : RequestRefund(r, a)
    \/ CancelOrder(r)
    \/ \E s \in OrderStatus : UpdateOrderStatus(r, s)

Serve(r) ==
    \/ AskProvider(r)
    \/ RefundAtProvider(r)
    \/ Update(r)
    \/ Restock(r)
    \/ Commit(r)
    \/ DeadlockVictim(r)

\* Nothing is left to serve.
Finished ==
    /\ \A r \in Requests : pc[r] = "end"
    /\ UNCHANGED vars

Next ==
    \/ \E r \in Requests : Arrive(r) \/ Serve(r) \/ Fail(r)
    \/ GatewayCapture
    \/ Finished

Spec == Init /\ [][Next]_vars

\* The provider is called with a timeout and the database detects deadlocks,
\* so a request that was accepted is served; requests need not arrive.
FairSpec == Spec /\ \A r \in Requests : WF_vars(Serve(r))

-----------------------------------------------------------------------------
(* Properties                                                              *)

\* Every variable holds a value of its type, the amounts within the total.
TypeOK ==
    /\ row \in Rows
    /\ restocked \in Nat
    /\ pc \in [Requests -> Steps]
    /\ kind \in [Requests -> Kinds]
    /\ target \in [Requests -> OrderStatus]
    /\ amount \in [Requests -> 0..Total]
    /\ seen \in [Requests -> Rows]
    /\ written \in [Requests -> Rows]
    /\ rowLock \subseteq Requests
    /\ stockLock \subseteq Requests
    /\ captured \in BOOLEAN
    /\ paidBack \in 0..Total

\* However refunds, verifications and status changes overlap, the order never
\* claims a refund the provider did not make, and is closed as refunded only
\* when the whole total went back (process_refund).
RefundsWerePaid ==
    /\ row.refunded <= paidBack
    /\ "refunded" \in {row.status, row.payment} => paidBack = Total

\* However requests overlap, an order is recorded as paid only when the
\* customer's money was taken (verify_payment, process_refund).
PaidWasCaptured == row.payment \in {"paid", "refunded"} => captured

\* The stock goes back together with the order row that explains it: shelf and
\* order never change apart, whoever is aborted (get_transaction_session).
RestockedWithOrder ==
    [][restocked' # restocked =>
          restocked' = restocked + 1 /\ row'.status \in {"cancelled", "refunded"}]_vars

\* No set of requests keeps each other waiting: each one is answered.
EveryRequestEnds ==
    \A r \in Requests : (pc[r] # "idle") ~> (pc[r] = "end")

-----------------------------------------------------------------------------
(* Claims of the repository that the code does not keep                    *)

\* apps/orders/services.py: a cancellation releases reserved stock, so the
\* units of an order are put back at most once.
ReleasedOnce == restocked <= 1

\* docs/security_audit.md: refunds are validated against the remaining balance,
\* which therefore shrinks by every refund that is reported as successful.
RefundsAddUp ==
    [][\A r \in Requests : Commit(r) /\ kind[r] = "refund" =>
          row'.refunded = row.refunded + amount[r]]_vars

\* docs/security_audit.md: "Refund validation uses the remaining refundable balance",
\* so while no request is under way an order knows what the provider paid back.
BalanceIsKnown ==
    (\A r \in Requests : pc[r] \in {"idle", "end"}) => row.refunded = paidBack

\* docs/security_audit.md: partial refunds are supported, so a partial refund
\* that meets no other one records what the provider paid back.
PartialRefundsRecorded ==
    [][\A r \in Requests : Commit(r) /\ kind[r] = "refund" =>
          row'.refunded = paidBack]_vars

\* infrastructure/api/v1/endpoints/payments.py: no payment is initiated for an
\* order that is already paid.
PaidStaysPaid ==
    [][row.payment = "paid" => row'.payment \in {"paid", "refunded"}]_vars

\* apps/orders/refunds.py: the order is closed only by a full refund; a partial
\* one leaves its status alone.
PartialRefundKeepsStatus ==
    [][\A r \in Requests :
          Commit(r) /\ kind[r] = "refund" /\ RefundedTotal(r) < Total =>
              row'.status = row.status]_vars
=============================================================================
