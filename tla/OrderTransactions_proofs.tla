---------------------- MODULE OrderTransactions_proofs ----------------------
(***************************************************************************)
(* Proofs about OrderTransactions, for any number of overlapping requests. *)
(* The invariant follows every copy of the order row (the committed one,   *)
(* what each request read and what it wrote): a copy never claims more     *)
(* than the provider did, because what the provider did only grows.        *)
(***************************************************************************)
EXTENDS OrderTransactions, TLAPS

\* A copy of the order row agrees with the payment provider.
RowHonest(w) ==
    /\ w.refunded <= paidBack
    /\ "refunded" \in {w.status, w.payment} => paidBack = Total
    /\ w.payment \in {"paid", "refunded"} => captured

RowsHonest ==
    /\ RowHonest(row)
    /\ \A r \in Requests : RowHonest(seen[r]) /\ RowHonest(written[r])

\* What a request knows at the point it has reached.
Progressed(r) ==
    /\ pc[r] # "idle" => kind[r] # "none"
    /\ kind[r] = "refund" => /\ seen[r].payment = "paid"
                             /\ seen[r].status # "refunded"
                             /\ RefundedTotal(r) <= Total
    /\ pc[r] = "restock" => kind[r] # "verify"
    /\ pc[r] = "update" /\ kind[r] = "verify" => captured
    /\ pc[r] = "update" /\ kind[r] = "refund" => RefundedTotal(r) <= paidBack
    /\ target[r] # "refunded"

IInv == TypeOK /\ RowsHonest /\ (\A r \in Requests : Progressed(r))

-----------------------------------------------------------------------------
LEMMA InitIInv == Init => IInv
<1> SUFFICES ASSUME Init PROVE IInv
  OBVIOUS
<1>1. row \in Rows /\ row.refunded = 0 /\ row.status # "refunded" /\ row.payment # "refunded"
  BY DEF Init, Rows
<1>2. TypeOK
  BY <1>1, TotalAssumption DEF Init, TypeOK, Steps, Kinds, OrderStatus
<1>3. RowsHonest
  BY <1>1 DEF Init, RowsHonest, RowHonest
<1>4. \A r \in Requests : Progressed(r)
  BY DEF Init, Progressed
<1> QED BY <1>2, <1>3, <1>4 DEF IInv

\* A request that arrives remembers the committed row.
LEMMA ReadIInv ==
    ASSUME IInv, NEW r \in Requests, NEW k \in Kinds \ {"none"},
           NEW step \in {"provider", "restock", "update"}, Read(r, k, step),
           \/ k \in {"initiate", "verify"} /\ step = "provider" /\ UNCHANGED <<target, amount>>
           \/ /\ k = "refund" /\ step = "provider" /\ target' = target
              /\ row.payment = "paid" /\ row.status # "refunded"
              /\ \E a \in 1..Total : /\ a <= Total - row.refunded
                                     /\ amount' = [amount EXCEPT ![r] = a]
           \/ /\ k = "status" /\ amount' = amount
              /\ \E s \in OrderStatus \ {"refunded"} : target' = [target EXCEPT ![r] = s]
    PROVE  IInv'
<1> USE DEF lockVars, gatewayVars
<1>1. /\ pc \in [Requests -> Steps] /\ kind \in [Requests -> Kinds]
      /\ target \in [Requests -> OrderStatus] /\ amount \in [Requests -> 0..Total]
      /\ seen \in [Requests -> Rows] /\ row \in Rows
      /\ row.refunded \in 0..Total
  BY DEF IInv, TypeOK, Rows
<1>2. /\ pc' = [pc EXCEPT ![r] = step] /\ kind' = [kind EXCEPT ![r] = k]
      /\ seen' = [seen EXCEPT ![r] = row]
      /\ UNCHANGED <<row, restocked, written, rowLock, stockLock, captured, paidBack>>
  BY DEF Read, GoTo
<1>3. /\ target' \in [Requests -> OrderStatus]
      /\ amount' \in [Requests -> 0..Total]
      /\ \A q \in Requests \ {r} : target'[q] = target[q] /\ amount'[q] = amount[q]
      /\ target'[r] # "refunded"
  BY <1>1, TotalAssumption DEF IInv, Progressed
<1>4. TypeOK'
  BY <1>1, <1>2, <1>3 DEF IInv, TypeOK, Steps
<1>5. RowsHonest'
  BY <1>1, <1>2 DEF IInv, RowsHonest, RowHonest
<1>6. ASSUME NEW q \in Requests PROVE Progressed(q)'
  <2>1. CASE q # r
    BY <1>1, <1>2, <1>3, <2>1 DEF IInv, Progressed, RefundedTotal
  <2>2. CASE q = r
    <3>1. pc'[r] = step /\ kind'[r] = k /\ seen'[r] = row
      BY <1>1, <1>2
    <3>2. k = "refund" => /\ row.payment = "paid" /\ row.status # "refunded"
                          /\ step = "provider"
                          /\ row.refunded + amount'[r] <= Total
      BY <1>1, TotalAssumption
    <3>3. k = "verify" => step = "provider"
      OBVIOUS
    <3> QED BY <1>3, <2>2, <3>1, <3>2, <3>3 DEF Progressed, RefundedTotal
  <2> QED BY <2>1, <2>2
<1> QED BY <1>4, <1>5, <1>6 DEF IInv

LEMMA ArriveIInv == ASSUME IInv, NEW r \in Requests, Arrive(r) PROVE IInv'
<1>1. CASE InitiatePayment(r) \/ VerifyPayment(r)
  BY <1>1, ReadIInv DEF InitiatePayment, VerifyPayment, Kinds
<1>2. CASE \E a \in 1..Total : RequestRefund(r, a)
  BY <1>2, ReadIInv DEF RequestRefund, Kinds
<1>3. ASSUME NEW s \in OrderStatus, ReadForStatus(r, s) PROVE IInv'
  <2>1. s # "refunded"
    <3>1. row.status \in OrderStatus
      BY DEF IInv, TypeOK, Rows
    <3> QED BY <1>3, <3>1 DEF ReadForStatus, ValidTransitions
  <2>2. (IF s = "cancelled" THEN "restock" ELSE "update") \in {"provider", "restock", "update"}
    OBVIOUS
  <2> QED BY <1>3, <2>1, <2>2, ReadIInv DEF ReadForStatus, Kinds
<1>4. CASE CancelOrder(r) \/ \E s \in OrderStatus : UpdateOrderStatus(r, s)
  BY <1>3, <1>4 DEF CancelOrder, UpdateOrderStatus, OrderStatus
<1> QED BY <1>1, <1>2, <1>4 DEF Arrive

\* What the provider did grows, so every copy of the row stays honest.
LEMMA ProviderGrows ==
    ASSUME IInv, UNCHANGED <<row, seen, written>>,
           paidBack <= paidBack', paidBack' \in 0..Total, captured => captured'
    PROVE  RowsHonest'
<1>1. ASSUME NEW w \in Rows, RowHonest(w) PROVE RowHonest(w)'
  <2>1. w.refunded \in 0..Total /\ paidBack \in 0..Total
    BY <1>1 DEF IInv, TypeOK, Rows
  <2> QED BY <1>1, <2>1, TotalAssumption DEF RowHonest
<1>2. row \in Rows /\ \A r \in Requests : seen[r] \in Rows /\ written[r] \in Rows
  BY DEF IInv, TypeOK
<1> QED BY <1>1, <1>2 DEF IInv, RowsHonest, RowHonest

\* A request moves to another step and leaves what it knows alone.
LEMMA MoveProgressed ==
    ASSUME IInv, NEW r \in Requests, NEW step \in Steps \ {"idle"}, GoTo(r, step),
           pc[r] # "idle", UNCHANGED <<kind, target, amount, seen>>,
           paidBack <= paidBack', paidBack' \in 0..Total, captured => captured',
           step = "restock" => kind[r] # "verify",
           step = "update" /\ kind[r] = "verify" => captured',
           step = "update" /\ kind[r] = "refund" => RefundedTotal(r) <= paidBack'
    PROVE  \A q \in Requests : Progressed(q)'
<1> SUFFICES ASSUME NEW q \in Requests PROVE Progressed(q)'
  OBVIOUS
<1>1. /\ pc \in [Requests -> Steps] /\ pc' = [pc EXCEPT ![r] = step]
      /\ paidBack \in 0..Total
  BY DEF IInv, TypeOK, GoTo
<1>2. /\ seen[q].refunded \in 0..Total /\ amount[q] \in 0..Total
  BY DEF IInv, TypeOK, Rows
<1>3. Progressed(q)
  BY DEF IInv
<1>4. CASE q = r
  BY <1>1, <1>3, <1>4 DEF Progressed, RefundedTotal
<1>5. CASE q # r
  BY <1>1, <1>2, <1>3, <1>5, TotalAssumption DEF Progressed, RefundedTotal
<1> QED BY <1>4, <1>5

\* The row an UPDATE leaves is a row, and honest.
LEMMA NewRowHonest ==
    ASSUME IInv, NEW r \in Requests, pc[r] = "update"
    PROVE  NewRow(r) \in Rows /\ RowHonest(NewRow(r))
<1>1. /\ row \in Rows /\ RowHonest(row)
      /\ seen[r] \in Rows /\ RowHonest(seen[r]) /\ amount[r] \in 0..Total
      /\ target[r] \in OrderStatus /\ kind[r] \in Kinds /\ paidBack \in 0..Total
      /\ Progressed(r)
  BY DEF IInv, TypeOK, RowsHonest
<1>2. seen[r].refunded \in 0..Total /\ row.refunded \in 0..Total
  BY <1>1 DEF Rows
<1>3. CASE kind[r] = "initiate"
  <2>1. NewRow(r) = [row EXCEPT !.payment = "pending", !.txn = TRUE]
    BY <1>3 DEF NewRow
  <2> QED BY <1>1, <2>1 DEF Rows, RowHonest, PaymentStatus
<1>4. CASE kind[r] = "verify"
  <2>1. NewRow(r) = [row EXCEPT !.payment = "paid", !.status = "confirmed"]
    BY <1>4 DEF NewRow
  <2>2. captured
    BY <1>1, <1>4 DEF Progressed
  <2> QED BY <1>1, <2>1, <2>2 DEF Rows, RowHonest, PaymentStatus, OrderStatus
<1>5. CASE kind[r] = "status"
  <2>1. NewRow(r) = [row EXCEPT !.status = target[r]]
    BY <1>5 DEF NewRow
  <2>2. target[r] # "refunded"
    BY <1>1 DEF Progressed
  <2> QED BY <1>1, <2>1, <2>2 DEF Rows, RowHonest
<1>6. CASE kind[r] = "refund"
  <2>1. /\ seen[r].payment = "paid" /\ seen[r].status # "refunded" /\ captured
        /\ RefundedTotal(r) <= Total /\ RefundedTotal(r) <= paidBack
        /\ seen[r].status \in OrderStatus
    BY <1>1, <1>6 DEF Progressed, RowHonest, Rows
  <2>2. RefundedTotal(r) \in 0..Total
    BY <1>1, <1>2, <2>1, TotalAssumption DEF RefundedTotal
  <2>3. CASE RefundedTotal(r) >= Total
    <3>1. NewRow(r) = [row EXCEPT !.refunded = RefundedTotal(r),
                                  !.payment = "refunded", !.status = "refunded"]
      BY <1>6, <2>3 DEF NewRow
    <3>2. paidBack = Total
      BY <1>1, <2>1, <2>2, <2>3, TotalAssumption
    <3> QED BY <1>1, <2>1, <2>2, <3>1, <3>2 DEF Rows, RowHonest, PaymentStatus, OrderStatus
  <2>4. CASE ~ (RefundedTotal(r) >= Total)
    <3>1. NewRow(r) = [row EXCEPT !.refunded = RefundedTotal(r),
                                  !.payment = "paid", !.status = seen[r].status]
      BY <1>6, <2>4 DEF NewRow
    <3> QED BY <1>1, <2>1, <2>2, <3>1 DEF Rows, RowHonest, PaymentStatus
  <2> QED BY <2>3, <2>4
<1>7. kind[r] # "none"
  BY <1>1 DEF Progressed
<1> QED BY <1>1, <1>3, <1>4, <1>5, <1>6, <1>7 DEF Kinds

-----------------------------------------------------------------------------
LEMMA ServeIInv == ASSUME IInv, NEW r \in Requests, Serve(r) \/ Fail(r) PROVE IInv'
<1> USE DEF lockVars, gatewayVars
<1>1. /\ pc \in [Requests -> Steps] /\ kind \in [Requests -> Kinds]
      /\ paidBack \in 0..Total /\ amount[r] \in 0..Total /\ captured \in BOOLEAN
      /\ written \in [Requests -> Rows] /\ restocked \in Nat
      /\ RowsHonest /\ Progressed(r)
  BY DEF IInv, TypeOK
<1>2. CASE AskProvider(r)
  <2>1. PICK step \in {"update", "end"} :
          /\ GoTo(r, step)
          /\ kind[r] = "verify" /\ step = "update" => captured
          /\ kind[r] # "refund"
    BY <1>2 DEF AskProvider
  <2>2. /\ pc[r] = "provider"
        /\ UNCHANGED <<row, restocked, kind, target, amount, seen, written,
                       rowLock, stockLock, captured, paidBack>>
    BY <1>2 DEF AskProvider
  <2>3. TypeOK'
    BY <1>1, <2>1, <2>2 DEF IInv, TypeOK, Steps, GoTo
  <2>4. paidBack <= paidBack' /\ paidBack' \in 0..Total
    BY <1>1, <2>2
  <2>5. RowsHonest'
    BY <2>2, <2>4, ProviderGrows
  <2>6. \A q \in Requests : Progressed(q)'
    BY <2>1, <2>2, <2>4, MoveProgressed DEF Steps
  <2> QED BY <2>3, <2>5, <2>6 DEF IInv
<1>3. CASE RefundAtProvider(r)
  <2>1. PICK step \in {"update", "end"} :
          /\ GoTo(r, step)
          /\ \/ step = "end" /\ paidBack' = paidBack
             \/ /\ paidBack + amount[r] <= Total
                /\ paidBack' = IF AmountIgnored THEN Total ELSE paidBack + amount[r]
    BY <1>3 DEF RefundAtProvider
  <2>2. /\ pc[r] = "provider" /\ kind[r] = "refund"
        /\ UNCHANGED <<row, restocked, kind, target, amount, seen, written,
                       rowLock, stockLock, captured>>
    BY <1>3 DEF RefundAtProvider
  <2>3. /\ paidBack' \in 0..Total /\ paidBack <= paidBack'
        /\ step = "update" => paidBack + amount[r] <= paidBack'
    BY <1>1, <2>1, TotalAssumption
  <2>4. step = "update" => RefundedTotal(r) <= paidBack'
    <3>1. seen[r].refunded <= paidBack /\ seen[r].refunded \in 0..Total
      BY DEF IInv, TypeOK, Rows, RowsHonest, RowHonest
    <3> QED BY <1>1, <2>3, <3>1 DEF RefundedTotal
  <2>5. TypeOK'
    BY <1>1, <2>1, <2>2, <2>3 DEF IInv, TypeOK, Steps, GoTo
  <2>6. RowsHonest'
    BY <2>2, <2>3, ProviderGrows
  <2>7. \A q \in Requests : Progressed(q)'
    BY <2>1, <2>2, <2>3, <2>4, MoveProgressed DEF Steps
  <2> QED BY <2>5, <2>6, <2>7 DEF IInv
<1>4. CASE Update(r)
  <2>1. PICK step \in {"restock", "commit"} :
          GoTo(r, step) /\ (step = "restock" => kind[r] = "refund")
    BY <1>4 DEF Update
  <2>2. /\ pc[r] = "update" /\ rowLock' = {r}
        /\ written' = [written EXCEPT ![r] = NewRow(r)]
        /\ UNCHANGED <<row, restocked, kind, target, amount, seen,
                       stockLock, captured, paidBack>>
    BY <1>4 DEF Update
  <2>3. NewRow(r) \in Rows /\ RowHonest(NewRow(r))
    BY <2>2, NewRowHonest
  <2>4. TypeOK'
    BY <1>1, <2>1, <2>2, <2>3 DEF IInv, TypeOK, Steps, GoTo
  <2>5. RowsHonest'
    BY <1>1, <2>2, <2>3 DEF RowsHonest, RowHonest
  <2>6. paidBack <= paidBack' /\ paidBack' \in 0..Total
    BY <1>1, <2>2
  <2>7. \A q \in Requests : Progressed(q)'
    BY <2>1, <2>2, <2>6, MoveProgressed DEF Steps
  <2> QED BY <2>4, <2>5, <2>7 DEF IInv
<1>5. CASE Restock(r)
  <2>1. PICK step \in {"update", "commit"} :
          GoTo(r, step) /\ (step = "update" => kind[r] \notin {"refund", "verify"})
    BY <1>1, <1>5 DEF Restock, Progressed
  <2>2. /\ pc[r] = "restock" /\ stockLock' = {r}
        /\ UNCHANGED <<row, restocked, kind, target, amount, seen, written,
                       rowLock, captured, paidBack>>
    BY <1>5 DEF Restock
  <2>3. TypeOK'
    BY <1>1, <2>1, <2>2 DEF IInv, TypeOK, Steps, GoTo
  <2>4. paidBack <= paidBack' /\ paidBack' \in 0..Total
    BY <1>1, <2>2
  <2>5. RowsHonest'
    BY <2>2, <2>4, ProviderGrows
  <2>6. \A q \in Requests : Progressed(q)'
    BY <2>1, <2>2, <2>4, MoveProgressed DEF Steps
  <2> QED BY <2>3, <2>5, <2>6 DEF IInv
<1>6. CASE Commit(r)
  <2>1. /\ pc[r] = "commit" /\ GoTo(r, "end") /\ row' = written[r]
        /\ restocked' \in {restocked, restocked + 1}
        /\ rowLock' \subseteq rowLock /\ stockLock' \subseteq stockLock
        /\ UNCHANGED <<kind, target, amount, seen, written, captured, paidBack>>
    BY <1>6 DEF Commit, ReleaseLocks
  <2>2. TypeOK'
    BY <1>1, <2>1 DEF IInv, TypeOK, Steps, GoTo
  <2>3. RowsHonest'
    BY <1>1, <2>1 DEF RowsHonest, RowHonest
  <2>4. paidBack <= paidBack' /\ paidBack' \in 0..Total
    BY <1>1, <2>1
  <2>5. \A q \in Requests : Progressed(q)'
    BY <2>1, <2>4, MoveProgressed DEF Steps
  <2> QED BY <2>2, <2>3, <2>5 DEF IInv
<1>7. CASE DeadlockVictim(r) \/ Fail(r)
  <2>1. /\ pc[r] # "idle" /\ GoTo(r, "end")
        /\ rowLock' \subseteq rowLock /\ stockLock' \subseteq stockLock
        /\ UNCHANGED <<row, restocked, kind, target, amount, seen, written,
                       captured, paidBack>>
    BY <1>7 DEF DeadlockVictim, Fail, Rollback, ReleaseLocks
  <2>2. TypeOK'
    BY <1>1, <2>1 DEF IInv, TypeOK, Steps, GoTo
  <2>3. paidBack <= paidBack' /\ paidBack' \in 0..Total
    BY <1>1, <2>1
  <2>4. RowsHonest'
    BY <2>1, <2>3, ProviderGrows
  <2>5. \A q \in Requests : Progressed(q)'
    BY <2>1, <2>3, MoveProgressed DEF Steps
  <2> QED BY <2>2, <2>4, <2>5 DEF IInv
<1> QED BY <1>2, <1>3, <1>4, <1>5, <1>6, <1>7 DEF Serve

LEMMA StepIInv == IInv /\ [Next]_vars => IInv'
<1> SUFFICES ASSUME IInv, [Next]_vars PROVE IInv'
  OBVIOUS
<1> USE DEF requestVars, lockVars, gatewayVars
<1>1. CASE \E r \in Requests : Arrive(r) \/ Serve(r) \/ Fail(r)
  BY <1>1, ArriveIInv, ServeIInv
<1>2. CASE GatewayCapture
  <2>0. captured' = TRUE
    BY <1>2 DEF GatewayCapture
  <2>1. UNCHANGED <<row, restocked, pc, kind, target, amount, seen, written,
                    rowLock, stockLock, paidBack>>
    BY <1>2 DEF GatewayCapture
  <2>2. paidBack \in 0..Total
    BY DEF IInv, TypeOK
  <2>3. captured' \in BOOLEAN
    BY <2>0, Zenon
  <2>4. TypeOK'
    BY <2>1, <2>3 DEF IInv, TypeOK
  <2>5. RowsHonest'
    BY <2>0, <2>1, <2>2, ProviderGrows
  <2>6. \A q \in Requests : Progressed(q)'
    BY <2>0, <2>1 DEF IInv, Progressed, RefundedTotal
  <2> QED BY <2>4, <2>5, <2>6 DEF IInv
<1>3. CASE UNCHANGED vars
  BY <1>3 DEF vars, IInv, TypeOK, RowsHonest, RowHonest, Progressed, RefundedTotal
<1> QED BY <1>1, <1>2, <1>3 DEF Next, Finished

-----------------------------------------------------------------------------
\* Every variable keeps its type; a refund recorded on the order never exceeds
\* its total, whatever requests overlap.
THEOREM TypeCorrect == Spec => []TypeOK
<1>1. IInv => TypeOK
  BY DEF IInv
<1> QED BY <1>1, InitIInv, StepIInv, PTL DEF Spec

\* No overlap of handlers makes the order claim a refund the provider did not
\* make, or be closed as refunded before the whole total went back.
THEOREM OverlappingRefundsWerePaid == Spec => []RefundsWerePaid
<1>1. IInv => RefundsWerePaid
  BY DEF IInv, RowsHonest, RowHonest, RefundsWerePaid
<1> QED BY <1>1, InitIInv, StepIInv, PTL DEF Spec

\* No overlap of handlers makes an order paid whose money was never taken.
THEOREM OverlappingPaymentsWereCaptured == Spec => []PaidWasCaptured
<1>1. IInv => PaidWasCaptured
  BY DEF IInv, RowsHonest, RowHonest, PaidWasCaptured
<1> QED BY <1>1, InitIInv, StepIInv, PTL DEF Spec
-----------------------------------------------------------------------------
(* The stock and the order change together                                 *)

\* A request that is about to release the stock, or holds its lock, ends in an
\* order that is called off: a cancellation releases before it writes the order,
\* a full refund after.
Restocking(r) ==
    /\ pc[r] = "restock" =>
          \/ kind[r] = "status" /\ target[r] = "cancelled"
          \/ kind[r] = "refund" /\ written[r].status = "refunded"
    /\ r \in stockLock =>
          \/ pc[r] = "update" /\ kind[r] = "status" /\ target[r] = "cancelled"
          \/ pc[r] = "commit" /\ written[r].status \in {"cancelled", "refunded"}

StockInv == \A r \in Requests : Restocking(r)

\* A step of one request tells the others nothing about the stock.
LEMMA OthersRestock ==
    ASSUME StockInv, NEW r \in Requests, NEW q \in Requests \ {r},
           pc'[q] = pc[q], kind'[q] = kind[q], target'[q] = target[q],
           written'[q] = written[q], q \in stockLock' => q \in stockLock
    PROVE  Restocking(q)'
BY DEF StockInv, Restocking

LEMMA ReadStock ==
    ASSUME TypeOK, StockInv, NEW r \in Requests, NEW k, NEW step, Read(r, k, step),
           \/ step # "restock" /\ target' = target
           \/ /\ k = "status"
              /\ \E s \in OrderStatus : /\ step = IF s = "cancelled" THEN "restock" ELSE "update"
                                        /\ target' = [target EXCEPT ![r] = s]
    PROVE  StockInv'
<1>1. /\ pc \in [Requests -> Steps] /\ kind \in [Requests -> Kinds]
      /\ target \in [Requests -> OrderStatus]
  BY DEF TypeOK
<1>2. /\ pc[r] = "idle" /\ pc' = [pc EXCEPT ![r] = step] /\ kind' = [kind EXCEPT ![r] = k]
      /\ UNCHANGED <<written, stockLock>>
  BY DEF Read, GoTo, lockVars
<1>3. Restocking(r)'
  <2>1. r \notin stockLock'
    BY <1>2 DEF StockInv, Restocking
  <2> QED BY <1>1, <1>2, <2>1 DEF Restocking
<1>4. ASSUME NEW q \in Requests \ {r} PROVE Restocking(q)'
  BY <1>1, <1>2, OthersRestock
<1> QED BY <1>3, <1>4 DEF StockInv

LEMMA ArriveStock == ASSUME TypeOK, StockInv, NEW r \in Requests, Arrive(r) PROVE StockInv'
<1>1. CASE InitiatePayment(r) \/ VerifyPayment(r)
  BY <1>1, ReadStock DEF InitiatePayment, VerifyPayment
<1>2. CASE \E a \in 1..Total : RequestRefund(r, a)
  BY <1>2, ReadStock DEF RequestRefund
<1>3. ASSUME NEW s \in OrderStatus, ReadForStatus(r, s) PROVE StockInv'
  BY <1>3, ReadStock DEF ReadForStatus
<1>4. CASE CancelOrder(r) \/ \E s \in OrderStatus : UpdateOrderStatus(r, s)
  BY <1>3, <1>4 DEF CancelOrder, UpdateOrderStatus, OrderStatus
<1> QED BY <1>1, <1>2, <1>4 DEF Arrive

LEMMA ServeStock ==
    ASSUME TypeOK, StockInv, NEW r \in Requests, Serve(r) \/ Fail(r) PROVE StockInv'
<1> USE DEF lockVars, gatewayVars
<1>1. /\ pc \in [Requests -> Steps] /\ written \in [Requests -> Rows] /\ Restocking(r)
      /\ row \in Rows
  BY DEF TypeOK, StockInv
<1>2. CASE AskProvider(r) \/ RefundAtProvider(r)
  <2>1. PICK step \in {"update", "end"} : GoTo(r, step)
    BY <1>2 DEF AskProvider, RefundAtProvider
  <2>2. pc[r] = "provider" /\ UNCHANGED <<kind, target, written, stockLock>>
    BY <1>2 DEF AskProvider, RefundAtProvider
  <2>3. Restocking(r)'
    BY <1>1, <2>1, <2>2 DEF Restocking, GoTo
  <2>4. ASSUME NEW q \in Requests \ {r} PROVE Restocking(q)'
    BY <1>1, <2>1, <2>2, OthersRestock DEF GoTo
  <2> QED BY <2>3, <2>4 DEF StockInv
<1>3. CASE Update(r)
  <2> DEFINE full == kind[r] = "refund" /\ RefundedTotal(r) >= Total
  <2>1. /\ pc[r] = "update" /\ GoTo(r, IF full THEN "restock" ELSE "commit")
        /\ written' = [written EXCEPT ![r] = NewRow(r)]
        /\ UNCHANGED <<kind, target, stockLock>>
    BY <1>3 DEF Update
  <2>2. full => NewRow(r).status = "refunded"
    <3> SUFFICES ASSUME full PROVE NewRow(r).status = "refunded"
      OBVIOUS
    <3>1. NewRow(r) = [row EXCEPT !.refunded = RefundedTotal(r),
                                  !.payment = "refunded", !.status = "refunded"]
      BY DEF NewRow
    <3> QED BY <1>1, <3>1 DEF Rows
  <2>3. kind[r] = "status" => NewRow(r).status = target[r]
    <3> SUFFICES ASSUME kind[r] = "status" PROVE NewRow(r).status = target[r]
      OBVIOUS
    <3>1. NewRow(r) = [row EXCEPT !.status = target[r]]
      BY DEF NewRow
    <3> QED BY <1>1, <3>1 DEF Rows
  <2>4. full => kind[r] = "refund"
    OBVIOUS
  <2> HIDE DEF full
  <2>5. written'[r] = NewRow(r) /\ pc'[r] = IF full THEN "restock" ELSE "commit"
    BY <1>1, <2>1 DEF GoTo
  <2>6. Restocking(r)'
    BY <1>1, <2>1, <2>2, <2>3, <2>4, <2>5 DEF Restocking
  <2>7. ASSUME NEW q \in Requests \ {r} PROVE Restocking(q)'
    BY <1>1, <2>1, OthersRestock DEF GoTo
  <2> QED BY <2>6, <2>7 DEF StockInv
<1>4. CASE Restock(r)
  <2>1. /\ pc[r] = "restock" /\ GoTo(r, IF kind[r] = "refund" THEN "commit" ELSE "update")
        /\ stockLock' = {r} /\ UNCHANGED <<kind, target, written>>
    BY <1>4 DEF Restock
  <2>2. Restocking(r)'
    BY <1>1, <2>1 DEF Restocking, GoTo
  <2>3. ASSUME NEW q \in Requests \ {r} PROVE Restocking(q)'
    BY <1>1, <2>1, OthersRestock DEF GoTo
  <2> QED BY <2>2, <2>3 DEF StockInv
<1>5. CASE Commit(r) \/ DeadlockVictim(r) \/ Fail(r)
  <2>1. /\ GoTo(r, "end") /\ stockLock' = stockLock \ {r}
        /\ UNCHANGED <<kind, target, written>>
    BY <1>5 DEF Commit, DeadlockVictim, Fail, Rollback, ReleaseLocks
  <2>2. Restocking(r)'
    BY <1>1, <2>1 DEF Restocking, GoTo
  <2>3. ASSUME NEW q \in Requests \ {r} PROVE Restocking(q)'
    BY <1>1, <2>1, OthersRestock DEF GoTo
  <2> QED BY <2>2, <2>3 DEF StockInv
<1> QED BY <1>2, <1>3, <1>4, <1>5 DEF Serve

LEMMA StepStock == TypeOK /\ StockInv /\ [Next]_vars => StockInv'
<1> SUFFICES ASSUME TypeOK, StockInv, [Next]_vars PROVE StockInv'
  OBVIOUS
<1>1. CASE \E r \in Requests : Arrive(r) \/ Serve(r) \/ Fail(r)
  BY <1>1, ArriveStock, ServeStock
<1>2. CASE GatewayCapture \/ UNCHANGED vars
  BY <1>2 DEF GatewayCapture, vars, requestVars, lockVars, StockInv, Restocking
<1> QED BY <1>1, <1>2 DEF Next, Finished

\* Only a commit puts units back, and with them it stores an order that is called
\* off: no abort, deadlock or overlap lets the shelf and the order change apart.
THEOREM StockMovesWithOrder == Spec => RestockedWithOrder
<1>1. Init => StockInv
  BY DEF Init, StockInv, Restocking
<1>2. TypeOK /\ StockInv /\ [Next]_vars =>
         [restocked' # restocked =>
             restocked' = restocked + 1 /\ row'.status \in {"cancelled", "refunded"}]_vars
  <2> SUFFICES ASSUME TypeOK, StockInv, Next, restocked' # restocked
               PROVE  restocked' = restocked + 1 /\ row'.status \in {"cancelled", "refunded"}
    BY DEF vars
  <2>1. PICK r \in Requests : Commit(r)
    BY DEF Next, Finished, vars, GatewayCapture, Arrive, InitiatePayment, VerifyPayment,
           RequestRefund, CancelOrder, UpdateOrderStatus, ReadForStatus, Read, Serve,
           AskProvider, RefundAtProvider, Update, Restock, DeadlockVictim, Fail, Rollback
  <2>2. /\ pc[r] = "commit" /\ row' = written[r]
        /\ restocked' = IF r \in stockLock THEN restocked + 1 ELSE restocked
    BY <2>1 DEF Commit
  <2> QED BY <2>2 DEF StockInv, Restocking
<1> QED BY <1>1, <1>2, TypeCorrect, StepStock, PTL DEF Spec, RestockedWithOrder
=============================================================================
