--------------------- MODULE CheckoutTransactions_proofs ---------------------
(***************************************************************************)
(* Proofs about CheckoutTransactions, for any number of checkouts, carts   *)
(* and coupons.  What a checkout has judged stays true until it ends,      *)
(* because the row it judged is locked: that is the inductive invariant.   *)
(* What the placed orders took adds up by facts about sums over a set, and *)
(* every step is a step of SerialSales or changes nothing of it.           *)
(***************************************************************************)
EXTENDS CheckoutTransactions, FiniteSetTheorems, TLAPS

\* A reserved line fits the committed stock, and nobody else holds its row.
RowsFit ==
    \A c \in Checkouts : \A p \in rows[c] :
        /\ cart[c][p] <= stock[p]
        /\ \A d \in Checkouts \ {c} : p \notin rows[d]

\* A locked coupon has one holder; an accepted one has uses left until its
\* checkout ends.
CouponsFit ==
    /\ \A c \in locked : pc[c] \in {"provider", "commit"}
    /\ \A c, d \in locked : coupon[c] = coupon[d] => c = d
    /\ \A c \in discounted : pc[c] \in {"provider", "commit", "placed"}
    /\ \A c \in discounted : pc[c] # "placed" =>
          /\ c \in locked /\ coupon[c] \in Coupons
          /\ used[coupon[c]] < UsageLimit[coupon[c]]
          /\ uses[coupon[c]][CustomerOf[c]] < PerUserLimit[coupon[c]]

IdleIsEmpty == \A c \in Checkouts : pc[c] \in {"idle", "check"} => rows[c] = {}

IInv == TypeOK /\ RowsFit /\ CouponsFit /\ CouponWithinLimits /\ IdleIsEmpty

-----------------------------------------------------------------------------
LEMMA InitIInv == Init => IInv
<1> SUFFICES ASSUME Init PROVE IInv
  OBVIOUS
<1>1. TypeOK
  BY StockAssumption, CartsAssumption, CouponAssumption
     DEF Init, TypeOK, Steps, Ended
<1>2. RowsFit /\ CouponsFit /\ IdleIsEmpty
  BY DEF Init, RowsFit, CouponsFit, IdleIsEmpty
<1>3. CouponWithinLimits
  BY CouponAssumption DEF Init, CouponWithinLimits
<1> QED BY <1>1, <1>2, <1>3 DEF IInv

\* A step that only moves a checkout that holds no accepted coupon, and may
\* forget lines it has looked at.
LEMMA MoveIInv ==
    ASSUME IInv, NEW c \in Checkouts, NEW step \in Steps, GoTo(c, step),
           \/ pc[c] = "check" /\ step \in {"check", "reserve"}
           \/ pc[c] = "coupon" /\ step \in {"provider", "commit"}
           \/ pc[c] = "provider" /\ step = "commit",
           todo' \in [Checkouts -> SUBSET Products],
           UNCHANGED <<stock, used, uses, requestVars, rows, locked, discounted>>
    PROVE  IInv'
<1> USE DEF requestVars
<1>1. pc \in [Checkouts -> Steps] /\ pc' = [pc EXCEPT ![c] = step]
  BY DEF IInv, TypeOK, GoTo
<1>2. TypeOK'
  BY <1>1 DEF IInv, TypeOK
<1>3. RowsFit' /\ CouponWithinLimits'
  BY DEF IInv, RowsFit, CouponWithinLimits
<1>4. locked \subseteq Checkouts /\ discounted \subseteq Checkouts
  BY DEF IInv, TypeOK
<1>5. CouponsFit'
  BY <1>1, <1>4 DEF IInv, CouponsFit
<1>6. IdleIsEmpty'
  BY <1>1 DEF IInv, IdleIsEmpty
<1> QED BY <1>2, <1>3, <1>5, <1>6 DEF IInv

\* A transaction that is rolled back leaves its locks and nothing else.
LEMMA RollbackIInv ==
    ASSUME IInv, NEW c \in Checkouts, Rollback(c), pc[c] # "placed"
    PROVE  IInv'
<1> USE DEF requestVars
<1>1. /\ pc \in [Checkouts -> Steps] /\ rows \in [Checkouts -> SUBSET Products]
      /\ pc' = [pc EXCEPT ![c] = "rejected"] /\ rows' = [rows EXCEPT ![c] = {}]
      /\ locked' = locked \ {c} /\ discounted' = discounted \ {c}
      /\ UNCHANGED <<stock, used, uses, cart, coupon, web, todo>>
      /\ locked \subseteq Checkouts /\ discounted \subseteq Checkouts
  BY DEF IInv, TypeOK, Rollback, GoTo
<1>2. TypeOK'
  BY <1>1 DEF IInv, TypeOK, Steps, Ended
<1>3. RowsFit' /\ CouponWithinLimits'
  BY <1>1 DEF IInv, RowsFit, CouponWithinLimits
<1>4. CouponsFit'
  BY <1>1 DEF IInv, CouponsFit
<1>5. IdleIsEmpty'
  BY <1>1 DEF IInv, IdleIsEmpty
<1> QED BY <1>2, <1>3, <1>4, <1>5 DEF IInv

LEMMA ConfirmIInv ==
    ASSUME IInv, NEW c \in Checkouts, NEW basket \in Carts,
           NEW k \in Coupons \cup {NoCoupon}, NEW throughWeb \in BOOLEAN,
           Confirm(c, basket, k, throughWeb)
    PROVE  IInv'
<1>1. /\ pc \in [Checkouts -> Steps] /\ cart \in [Checkouts -> [Products -> Nat]]
      /\ coupon \in [Checkouts -> Coupons \cup {NoCoupon}]
      /\ todo \in [Checkouts -> SUBSET Products]
      /\ locked \subseteq Checkouts /\ discounted \subseteq Checkouts
  BY DEF IInv, TypeOK
<1>2. /\ pc[c] = "idle" /\ pc' = [pc EXCEPT ![c] = "check"]
      /\ cart' = [cart EXCEPT ![c] = basket] /\ coupon' = [coupon EXCEPT ![c] = k]
      /\ web' \in {web, web \cup {c}}
      /\ todo' = [todo EXCEPT ![c] = {p \in Products : basket[p] > 0}]
      /\ UNCHANGED <<stock, used, uses, rows, locked, discounted>>
  BY DEF Confirm, GoTo
<1>3. TypeOK'
  <2>1. basket \in [Products -> Nat]
    BY CartsAssumption
  <2>2. cart' \in [Checkouts -> [Products -> Nat]]
    BY <1>1, <1>2, <2>1
  <2>3. todo' \in [Checkouts -> SUBSET Products]
    BY <1>1, <1>2
  <2> QED BY <1>1, <1>2, <2>2, <2>3 DEF IInv, TypeOK, Steps
<1>4. rows[c] = {} /\ c \notin locked /\ c \notin discounted
  BY <1>2 DEF IInv, IdleIsEmpty, CouponsFit
<1>5. RowsFit' /\ CouponWithinLimits'
  BY <1>1, <1>2, <1>4 DEF IInv, RowsFit, CouponWithinLimits
<1>6. CouponsFit'
  BY <1>1, <1>2, <1>4 DEF IInv, CouponsFit
<1>7. IdleIsEmpty'
  BY <1>1, <1>2, <1>4 DEF IInv, IdleIsEmpty
<1> QED BY <1>3, <1>5, <1>6, <1>7 DEF IInv

LEMMA CheckLineIInv ==
    ASSUME IInv, NEW c \in Checkouts, NEW p \in Products, CheckLine(c, p)
    PROVE  IInv'
<1>1. CASE stock[p] >= cart[c][p]
  <2>1. PICK step \in {"check", "reserve"} : GoTo(c, step)
    BY <1>1 DEF CheckLine
  <2>2. /\ pc[c] = "check" /\ todo' = [todo EXCEPT ![c] = @ \ {p}]
        /\ UNCHANGED <<stock, used, uses, requestVars, rows, locked, discounted>>
    BY <1>1 DEF CheckLine
  <2>3. todo' \in [Checkouts -> SUBSET Products]
    BY <2>2 DEF IInv, TypeOK
  <2> QED BY <2>1, <2>2, <2>3, MoveIInv DEF Steps
<1>2. CASE ~ (stock[p] >= cart[c][p])
  BY <1>2, RollbackIInv DEF CheckLine
<1> QED BY <1>1, <1>2

LEMMA ReserveIInv ==
    ASSUME IInv, NEW c \in Checkouts, NEW p \in Products, Reserve(c, p)
    PROVE  IInv'
<1> USE DEF requestVars
<1>1. CASE stock[p] >= cart[c][p]
  <2>1. PICK step \in {"reserve", "coupon"} : GoTo(c, step)
    BY <1>1 DEF Reserve
  <2>2. /\ pc[c] = "reserve" /\ p \notin LockedByOther(c)
        /\ rows' = [rows EXCEPT ![c] = @ \cup {p}]
        /\ pc' = [pc EXCEPT ![c] = step]
        /\ UNCHANGED <<stock, used, uses, cart, coupon, web, todo, locked, discounted>>
    BY <1>1, <2>1 DEF Reserve, GoTo
  <2>3. /\ pc \in [Checkouts -> Steps] /\ rows \in [Checkouts -> SUBSET Products]
        /\ locked \subseteq Checkouts /\ discounted \subseteq Checkouts
        /\ stock[p] \in Nat /\ cart[c][p] \in Nat
    BY CartsAssumption DEF IInv, TypeOK
  <2>4. TypeOK'
    BY <2>2, <2>3 DEF IInv, TypeOK, Steps
  <2>5. \A d \in Checkouts \ {c} : p \notin rows[d]
    BY <2>2 DEF LockedByOther
  <2>6. RowsFit'
    BY <1>1, <2>2, <2>3, <2>5 DEF IInv, RowsFit
  <2>7. CouponsFit' /\ CouponWithinLimits'
    BY <2>2, <2>3 DEF IInv, CouponsFit, CouponWithinLimits
  <2>8. IdleIsEmpty'
    BY <2>2, <2>3 DEF IInv, IdleIsEmpty
  <2> QED BY <2>4, <2>6, <2>7, <2>8 DEF IInv
<1>2. CASE ~ (stock[p] >= cart[c][p])
  BY <1>2, RollbackIInv DEF Reserve
<1> QED BY <1>1, <1>2

LEMMA ApplyCouponIInv ==
    ASSUME IInv, NEW c \in Checkouts, ApplyCoupon(c) PROVE IInv'
<1> USE DEF requestVars
<1>1. /\ pc \in [Checkouts -> Steps] /\ coupon \in [Checkouts -> Coupons \cup {NoCoupon}]
      /\ locked \subseteq Checkouts /\ discounted \subseteq Checkouts
  BY DEF IInv, TypeOK
<1>2. /\ pc[c] = "coupon" /\ coupon[c] \in Coupons
      /\ \A d \in locked : coupon[d] # coupon[c]
      /\ c \notin locked /\ c \notin discounted
  BY <1>1 DEF ApplyCoupon, IInv, CouponsFit
<1>3. CASE ~ CouponIsValid(c) /\ c \in web
  BY <1>2, <1>3, RollbackIInv DEF ApplyCoupon
<1>4. ASSUME NEW step \in {"provider", "commit"}, pc' = [pc EXCEPT ![c] = step],
             locked' = locked \cup {c},
             \/ discounted' = discounted
             \/ discounted' = discounted \cup {c} /\ CouponIsValid(c),
             UNCHANGED <<stock, used, uses, cart, coupon, web, todo, rows>>
      PROVE  IInv'
  <2>1. TypeOK'
    BY <1>1, <1>4 DEF IInv, TypeOK, Steps
  <2>2. RowsFit' /\ CouponWithinLimits'
    BY <1>4 DEF IInv, RowsFit, CouponWithinLimits
  <2>3. CouponsFit'
    BY <1>1, <1>2, <1>4 DEF IInv, CouponsFit, CouponIsValid
  <2>4. IdleIsEmpty'
    BY <1>1, <1>4 DEF IInv, IdleIsEmpty
  <2> QED BY <2>1, <2>2, <2>3, <2>4 DEF IInv
<1>5. CASE CouponIsValid(c)
  BY <1>4, <1>5 DEF ApplyCoupon, GoTo, AfterOrder
<1>6. CASE ~ CouponIsValid(c) /\ c \notin web
  BY <1>4, <1>6 DEF ApplyCoupon, GoTo
<1> QED BY <1>3, <1>5, <1>6

LEMMA CommitIInv == ASSUME IInv, NEW c \in Checkouts, Commit(c) PROVE IInv'
<1> USE DEF requestVars
<1>1. /\ pc \in [Checkouts -> Steps] /\ rows \in [Checkouts -> SUBSET Products]
      /\ stock \in [Products -> Nat] /\ cart \in [Checkouts -> [Products -> Nat]]
      /\ used \in [Coupons -> Nat] /\ uses \in [Coupons -> [Customers -> Nat]]
      /\ coupon \in [Checkouts -> Coupons \cup {NoCoupon}]
      /\ locked \subseteq Checkouts /\ discounted \subseteq Checkouts
      /\ CustomerOf[c] \in Customers
  BY CustomerAssumption DEF IInv, TypeOK
<1>2. /\ pc[c] = "commit" /\ pc' = [pc EXCEPT ![c] = "placed"]
      /\ stock' = [p \in Products |->
                      IF p \in rows[c] THEN stock[p] - cart[c][p] ELSE stock[p]]
      /\ rows' = [rows EXCEPT ![c] = {}] /\ locked' = locked \ {c}
      /\ UNCHANGED <<cart, coupon, web, todo, discounted>>
  BY DEF Commit, GoTo
<1>3. \A p \in Products : /\ stock'[p] \in Nat
                          /\ p \notin rows[c] => stock'[p] = stock[p]
  <2> SUFFICES ASSUME NEW p \in Products
               PROVE  stock'[p] \in Nat /\ (p \notin rows[c] => stock'[p] = stock[p])
    OBVIOUS
  <2>1. p \in rows[c] => cart[c][p] <= stock[p]
    BY DEF IInv, RowsFit
  <2>2. stock[p] \in Nat /\ cart[c][p] \in Nat
    BY <1>1, CartsAssumption
  <2> QED BY <1>2, <2>1, <2>2
<1>4. stock' \in [Products -> Nat]
  BY <1>2, <1>3
<1>5. RowsFit'
  <2> SUFFICES ASSUME NEW d \in Checkouts, NEW p \in rows'[d]
               PROVE  /\ cart[d][p] <= stock'[p]
                      /\ \A e \in Checkouts \ {d} : p \notin rows'[e]
    BY <1>2 DEF RowsFit
  <2>1. d # c /\ p \in rows[d] /\ p \in Products
    BY <1>1, <1>2
  <2>2. cart[d][p] <= stock[p] /\ \A e \in Checkouts \ {d} : p \notin rows[e]
    BY <2>1 DEF IInv, RowsFit
  <2> QED BY <1>1, <1>2, <1>3, <2>1, <2>2
<1>6. IdleIsEmpty'
  BY <1>1, <1>2 DEF IInv, IdleIsEmpty
<1>7. CASE c \notin discounted
  <2>1. UNCHANGED <<used, uses>>
    BY <1>7 DEF Commit
  <2>2. TypeOK'
    BY <1>1, <1>2, <1>4, <2>1 DEF IInv, TypeOK, Steps, Ended
  <2>3. CouponWithinLimits'
    BY <2>1 DEF IInv, CouponWithinLimits
  <2>4. CouponsFit'
    BY <1>1, <1>2, <1>7, <2>1 DEF IInv, CouponsFit
  <2> QED BY <1>5, <1>6, <2>2, <2>3, <2>4 DEF IInv
<1>8. CASE c \in discounted
  <2> DEFINE k == coupon[c]
             u == CustomerOf[c]
  <2>1. /\ used' = [used EXCEPT ![k] = @ + 1]
        /\ uses' = [uses EXCEPT ![k][u] = @ + 1]
    BY <1>8 DEF Commit
  <2>2. /\ k \in Coupons /\ c \in locked
        /\ used[k] < UsageLimit[k] /\ uses[k][u] < PerUserLimit[k]
    BY <1>2, <1>8 DEF IInv, CouponsFit
  <2>3. used' \in [Coupons -> Nat] /\ uses' \in [Coupons -> [Customers -> Nat]]
    BY <1>1, <2>1, <2>2
  <2>4. TypeOK'
    BY <1>1, <1>2, <1>4, <2>3 DEF IInv, TypeOK, Steps, Ended
  <2>5. \A j \in Coupons \ {k} : used'[j] = used[j] /\ uses'[j] = uses[j]
    BY <1>1, <2>1
  <2>6. /\ used'[k] = used[k] + 1 /\ uses'[k][u] = uses[k][u] + 1
        /\ \A v \in Customers \ {u} : uses'[k][v] = uses[k][v]
    BY <1>1, <2>1, <2>2
  <2>7. UsageLimit[k] \in Nat /\ PerUserLimit[k] \in Nat /\ used[k] \in Nat
        /\ uses[k][u] \in Nat
    BY <1>1, <2>2, CouponAssumption
  <2>8. used'[k] <= UsageLimit[k] /\ uses'[k][u] <= PerUserLimit[k]
    BY <2>2, <2>6, <2>7
  <2>9. CouponWithinLimits'
    BY <2>5, <2>6, <2>8 DEF IInv, CouponWithinLimits
  <2>10. \A d \in locked \ {c} : coupon[d] # k
    BY <2>2 DEF IInv, CouponsFit
  <2>11. CouponsFit'
    BY <1>1, <1>2, <2>5, <2>10 DEF IInv, CouponsFit
  <2> QED BY <1>5, <1>6, <2>4, <2>9, <2>11 DEF IInv
<1> QED BY <1>7, <1>8

LEMMA StepIInv == IInv /\ [Next]_vars => IInv'
<1> SUFFICES ASSUME IInv, [Next]_vars PROVE IInv'
  OBVIOUS
<1>1. ASSUME NEW c \in Checkouts, Serve(c) PROVE IInv'
  <2>1. CASE \E p \in Products : CheckLine(c, p) \/ Reserve(c, p)
    BY <2>1, CheckLineIInv, ReserveIInv
  <2>2. CASE NoCouponGiven(c)
    <3>1. PICK step \in {"provider", "commit"} : GoTo(c, step)
      BY <2>2 DEF NoCouponGiven, AfterOrder
    <3>2. todo' \in [Checkouts -> SUBSET Products]
      BY <2>2 DEF NoCouponGiven, IInv, TypeOK
    <3> QED BY <2>2, <3>1, <3>2, MoveIInv DEF NoCouponGiven, Steps
  <2>3. CASE ApplyCoupon(c)
    BY <2>3, ApplyCouponIInv
  <2>4. CASE AskProvider(c)
    <3>1. CASE Rollback(c)
      BY <2>4, <3>1, RollbackIInv DEF AskProvider
    <3>2. CASE ~ Rollback(c)
      <4>1. todo' \in [Checkouts -> SUBSET Products]
        BY <2>4, <3>2 DEF AskProvider, IInv, TypeOK
      <4> QED BY <2>4, <3>2, <4>1, MoveIInv DEF AskProvider, Steps
    <3> QED BY <3>1, <3>2
  <2>5. CASE Commit(c)
    BY <2>5, CommitIInv
  <2>6. CASE DeadlockVictim(c)
    <3>1. pc[c] # "placed" /\ Rollback(c)
      BY <2>6 DEF DeadlockVictim, WaitsFor
    <3> QED BY <3>1, RollbackIInv
  <2> QED BY <1>1, <2>1, <2>2, <2>3, <2>4, <2>5, <2>6 DEF Serve
<1>2. ASSUME NEW c \in Checkouts, Fail(c) PROVE IInv'
  BY <1>2, RollbackIInv DEF Fail, Ended
<1>3. CASE UNCHANGED vars
  BY <1>3 DEF vars, requestVars, IInv, TypeOK, RowsFit, CouponsFit,
              CouponWithinLimits, IdleIsEmpty
<1> QED BY <1>1, <1>2, <1>3, ConfirmIInv DEF Next, Finished

-----------------------------------------------------------------------------
\* Whatever checkouts overlap, no committed stock quantity is ever negative and
\* every variable keeps its type.
THEOREM TypeCorrect == Spec => []TypeOK
<1>1. IInv => TypeOK
  BY DEF IInv
<1> QED BY <1>1, InitIInv, StepIInv, PTL DEF Spec

\* Any number of checkouts that compete for a coupon stay within its limits.
THEOREM CouponsAreNotOverused == Spec => []CouponWithinLimits
<1>1. IInv => CouponWithinLimits
  BY DEF IInv
<1> QED BY <1>1, InitIInv, StepIInv, PTL DEF Spec

-----------------------------------------------------------------------------
(* Sums over a set.  SumOver folds a set one chosen element at a time; the *)
(* smallest subset at which a claim fails stands in for induction.         *)

Pick(s) == CHOOSE x \in s : TRUE
Unfold(f, S, g) == [s \in SUBSET S |-> IF s = {} THEN 0 ELSE f[Pick(s)] + g[s \ {Pick(s)}]]

LEMMA SubsetMinimum ==
    ASSUME NEW S, IsFiniteSet(S), NEW B, B \subseteq SUBSET S, B # {}
    PROVE  \E b \in B : \A t \in SUBSET b : t # b => t \notin B
<1>1. IsWellFoundedOn(StrictSubsetOrdering(S), SUBSET S)
  BY FS_StrictSubsetOrderingWellFounded, FS_FiniteSubsetsOfFinite
<1>2. PICK b \in B : \A t \in B : <<t, b>> \notin StrictSubsetOrdering(S)
  BY <1>1, WFMin
<1>3. ASSUME NEW t \in SUBSET b, t # b, t \in B PROVE FALSE
  <2>1. <<t, b>> \in (SUBSET S) \X (SUBSET S)
    OBVIOUS
  <2> QED BY <1>2, <1>3, <2>1 DEF StrictSubsetOrdering
<1> QED BY <1>3

LEMMA SumUnfolds ==
    ASSUME NEW f, NEW S
    PROVE  SumOver(f, S) = (CHOOSE g : g = Unfold(f, S, g))[S]
BY DEF SumOver, MapThenSumSet, MapThenFoldSet, Unfold, Pick

\* The recursion of a sum over S has a solution.
Solves(g, f, S) == g = Unfold(f, S, g)

LEMMA SolutionIsUnique ==
    ASSUME NEW f, NEW S, IsFiniteSet(S), NEW T \in SUBSET S, NEW g, NEW h,
           Solves(g, f, S), Solves(h, f, T)
    PROVE  \A u \in SUBSET T : g[u] = h[u]
<1> DEFINE Bad == {u \in SUBSET T : g[u] # h[u]}
<1> SUFFICES ASSUME Bad # {} PROVE FALSE
  OBVIOUS
<1>1. IsFiniteSet(T)
  BY FS_Subset
<1>0. Bad \subseteq SUBSET T
  OBVIOUS
<1>2. PICK b \in Bad : \A t \in SUBSET b : t # b => t \notin Bad
  <2> HIDE DEF Bad
  <2> QED BY <1>0, <1>1, SubsetMinimum
<1>3. /\ g[b] = IF b = {} THEN 0 ELSE f[Pick(b)] + g[b \ {Pick(b)}]
      /\ h[b] = IF b = {} THEN 0 ELSE f[Pick(b)] + h[b \ {Pick(b)}]
  BY DEF Solves, Unfold
<1>4. b # {}
  BY <1>3
<1>5. Pick(b) \in b
  BY <1>4 DEF Pick
<1>6. b \ {Pick(b)} \in SUBSET b /\ b \ {Pick(b)} # b
  BY <1>5
<1>7. g[b \ {Pick(b)}] = h[b \ {Pick(b)}]
  BY <1>2, <1>6
<1> QED BY <1>3, <1>7

LEMMA SolutionExists ==
    ASSUME NEW f, NEW S, IsFiniteSet(S)
    PROVE  \E g : Solves(g, f, S)
<1> DEFINE Bad == {T \in SUBSET S : ~ \E g : Solves(g, f, T)}
<1> SUFFICES ASSUME Bad # {} PROVE FALSE
  OBVIOUS
<1>0. Bad \subseteq SUBSET S
  OBVIOUS
<1>1. PICK T \in Bad : \A t \in SUBSET T : t # T => t \notin Bad
  <2> HIDE DEF Bad
  <2> QED BY <1>0, SubsetMinimum
<1>2. IsFiniteSet(T)
  BY FS_Subset
<1> DEFINE part == [t \in SUBSET T |-> CHOOSE g : Solves(g, f, t)]
           all  == [s \in SUBSET T |->
                      IF s = {} THEN 0
                      ELSE f[Pick(s)] + part[s \ {Pick(s)}][s \ {Pick(s)}]]
<1>3. ASSUME NEW t \in SUBSET T, t # T PROVE Solves(part[t], f, t)
  BY <1>1, <1>3
<1>4. \A s \in SUBSET T : all[s] =
         IF s = {} THEN 0 ELSE f[Pick(s)] + part[s \ {Pick(s)}][s \ {Pick(s)}]
  OBVIOUS
<1>5. all = [s \in SUBSET T |-> all[s]]
  OBVIOUS
<1> HIDE DEF part, all
<1>6. ASSUME NEW r \in SUBSET T, r # T PROVE all[r] = part[r][r]
  <2> DEFINE q == r \ {Pick(r)}
  <2>1. Solves(part[r], f, r)
    BY <1>3, <1>6
  <2>2. part[r][r] = IF r = {} THEN 0 ELSE f[Pick(r)] + part[r][q]
    BY <2>1 DEF Solves, Unfold
  <2>3. all[r] = IF r = {} THEN 0 ELSE f[Pick(r)] + part[q][q]
    BY <1>4
  <2>4. q \in SUBSET T /\ q # T
    BY <1>6
  <2>7. q \in SUBSET r
    OBVIOUS
  <2>8. IsFiniteSet(r)
    BY <1>2, FS_Subset
  <2> HIDE DEF q
  <2>5. Solves(part[q], f, q)
    BY <1>3, <2>4
  <2>6. \A u \in SUBSET q : part[r][u] = part[q][u]
    <3> HIDE DEF Bad
    <3>1. \A t \in SUBSET r : \A g, h : Solves(g, f, r) /\ Solves(h, f, t)
             => \A u \in SUBSET t : g[u] = h[u]
      BY <2>8, SolutionIsUnique
    <3> QED BY <2>1, <2>5, <2>7, <3>1
  <2> QED BY <2>2, <2>3, <2>6
<1>7. ASSUME NEW s \in SUBSET T
      PROVE  all[s] = IF s = {} THEN 0 ELSE f[Pick(s)] + all[s \ {Pick(s)}]
  <2>1. CASE s = {}
    BY <1>4, <2>1
  <2>2. CASE s # {}
    <3>1. Pick(s) \in s
      BY <2>2 DEF Pick
    <3>2. s \ {Pick(s)} \in SUBSET T /\ s \ {Pick(s)} # T
      BY <3>1
    <3>3. all[s \ {Pick(s)}] = part[s \ {Pick(s)}][s \ {Pick(s)}]
      BY <1>6, <3>2
    <3> QED BY <1>4, <2>2, <3>3
  <2> QED BY <2>1, <2>2
<1>8. Solves(all, f, T)
  BY <1>5, <1>7 DEF Solves, Unfold
<1> QED BY <1>8

LEMMA SumIsSolution ==
    ASSUME NEW f, NEW S, IsFiniteSet(S)
    PROVE  \E g : Solves(g, f, S) /\ SumOver(f, S) = g[S]
<1> DEFINE g == CHOOSE g : Solves(g, f, S)
<1>1. Solves(g, f, S)
  BY SolutionExists
<1>2. SumOver(f, S) = g[S]
  BY SumUnfolds DEF Solves
<1> QED BY <1>1, <1>2

LEMMA SumOfNone == ASSUME NEW f PROVE SumOver(f, {}) = 0
<1>1. PICK g : Solves(g, f, {}) /\ SumOver(f, {}) = g[{}]
  BY SumIsSolution, FS_EmptySet
<1> QED BY <1>1 DEF Solves, Unfold

\* One step of the recursion, whatever set it started from.
LEMMA SumSteps ==
    ASSUME NEW f, NEW S, IsFiniteSet(S), S # {}
    PROVE  SumOver(f, S) = f[Pick(S)] + SumOver(f, S \ {Pick(S)})
<1> DEFINE R == S \ {Pick(S)}
<1>1. IsFiniteSet(R) /\ R \in SUBSET S
  BY FS_Subset
<1>2. PICK g : Solves(g, f, S) /\ SumOver(f, S) = g[S]
  BY SumIsSolution
<1>3. g[S] = f[Pick(S)] + g[R]
  BY <1>2 DEF Solves, Unfold
<1> HIDE DEF R
<1>4. PICK h : Solves(h, f, R) /\ SumOver(f, R) = h[R]
  BY <1>1, SumIsSolution
<1>5. \A u \in SUBSET R : g[u] = h[u]
  BY <1>1, <1>2, <1>4, SolutionIsUnique
<1>6. SumOver(f, S) = f[Pick(S)] + SumOver(f, R)
  BY <1>2, <1>3, <1>4, <1>5
<1> QED BY <1>6 DEF R

LEMMA SumIsInt ==
    ASSUME NEW S, IsFiniteSet(S), NEW f, \A c \in S : f[c] \in Int
    PROVE  SumOver(f, S) \in Int
<1> DEFINE Bad == {T \in SUBSET S : SumOver(f, T) \notin Int}
<1> SUFFICES ASSUME Bad # {} PROVE FALSE
  OBVIOUS
<1>0. Bad \subseteq SUBSET S
  OBVIOUS
<1>1. PICK T \in Bad : \A t \in SUBSET T : t # T => t \notin Bad
  <2> HIDE DEF Bad
  <2> QED BY <1>0, SubsetMinimum
<1>2. CASE T = {}
  BY <1>2, SumOfNone
<1>3. CASE T # {}
  <2>1. Pick(T) \in T
    BY <1>3 DEF Pick
  <2>2. SumOver(f, T \ {Pick(T)}) \in Int
    BY <1>1, <2>1
  <2>3. SumOver(f, T) = f[Pick(T)] + SumOver(f, T \ {Pick(T)})
    BY <1>3, FS_Subset, SumSteps
  <2> QED BY <2>1, <2>2, <2>3
<1> QED BY <1>2, <1>3

\* Which element is taken first does not matter.
LEMMA SumWithout ==
    ASSUME NEW S, IsFiniteSet(S), NEW f, \A c \in S : f[c] \in Int, NEW x \in S
    PROVE  SumOver(f, S) = f[x] + SumOver(f, S \ {x})
<1> DEFINE Bad == {T \in SUBSET S : \E y \in T :
                     SumOver(f, T) # f[y] + SumOver(f, T \ {y})}
<1> SUFFICES ASSUME Bad # {} PROVE FALSE
  OBVIOUS
<1>0. Bad \subseteq SUBSET S
  OBVIOUS
<1>1. PICK T \in Bad : \A t \in SUBSET T : t # T => t \notin Bad
  <2> HIDE DEF Bad
  <2> QED BY <1>0, SubsetMinimum
<1>2. PICK y \in T : SumOver(f, T) # f[y] + SumOver(f, T \ {y})
  OBVIOUS
<1> DEFINE z == Pick(T)
<1>3. z \in T
  BY DEF Pick
<1>4. \A t \in SUBSET S : IsFiniteSet(t) /\ SumOver(f, t) \in Int
  BY FS_Subset, SumIsInt
<1>5. SumOver(f, T) = f[z] + SumOver(f, T \ {z})
  BY <1>3, <1>4, SumSteps
<1> HIDE DEF z
<1>6. y # z
  BY <1>2, <1>5
<1>7. /\ T \ {z} \notin Bad /\ T \ {y} \notin Bad
      /\ y \in T \ {z} /\ z \in T \ {y}
  BY <1>1, <1>3, <1>6
<1>8. /\ SumOver(f, T \ {z}) = f[y] + SumOver(f, (T \ {z}) \ {y})
      /\ SumOver(f, T \ {y}) = f[z] + SumOver(f, (T \ {y}) \ {z})
  BY <1>7
<1>9. (T \ {z}) \ {y} = (T \ {y}) \ {z}
  OBVIOUS
<1>10. /\ f[y] \in Int /\ f[z] \in Int
       /\ SumOver(f, (T \ {z}) \ {y}) \in Int
  BY <1>3, <1>4
<1> DEFINE rest == SumOver(f, (T \ {z}) \ {y})
<1>11. SumOver(f, T) = f[z] + (f[y] + rest)
  BY <1>5, <1>8
<1>12. SumOver(f, T \ {y}) = f[z] + rest
  BY <1>8, <1>9
<1> HIDE DEF Bad, rest
<1> QED BY <1>2, <1>10, <1>11, <1>12 DEF rest

LEMMA SumWithOneMore ==
    ASSUME NEW S, IsFiniteSet(S), NEW x, x \notin S, NEW f,
           \A c \in S \cup {x} : f[c] \in Int
    PROVE  SumOver(f, S \cup {x}) = SumOver(f, S) + f[x]
<1>1. (S \cup {x}) \ {x} = S /\ IsFiniteSet(S \cup {x})
  BY FS_AddElement
<1>2. SumOver(f, S \cup {x}) = f[x] + SumOver(f, S)
  BY <1>1, SumWithout
<1> QED BY <1>2, SumIsInt

\* A sum depends on the summands of its own set only.
LEMMA SumOfSame ==
    ASSUME NEW S, IsFiniteSet(S), NEW f, NEW g, \A c \in S : f[c] = g[c]
    PROVE  SumOver(f, S) = SumOver(g, S)
<1> DEFINE Bad == {T \in SUBSET S : SumOver(f, T) # SumOver(g, T)}
<1> SUFFICES ASSUME Bad # {} PROVE FALSE
  OBVIOUS
<1>0. Bad \subseteq SUBSET S
  OBVIOUS
<1>1. PICK T \in Bad : \A t \in SUBSET T : t # T => t \notin Bad
  <2> HIDE DEF Bad
  <2> QED BY <1>0, SubsetMinimum
<1>2. CASE T = {}
  BY <1>2, SumOfNone
<1>3. CASE T # {}
  <2>1. Pick(T) \in T
    BY <1>3 DEF Pick
  <2>2. SumOver(f, T \ {Pick(T)}) = SumOver(g, T \ {Pick(T)})
    BY <1>1, <2>1
  <2>3. /\ SumOver(f, T) = f[Pick(T)] + SumOver(f, T \ {Pick(T)})
        /\ SumOver(g, T) = g[Pick(T)] + SumOver(g, T \ {Pick(T)})
    BY <1>3, FS_Subset, SumSteps
  <2> QED BY <2>1, <2>2, <2>3
<1> QED BY <1>2, <1>3

-----------------------------------------------------------------------------
(* What the placed orders took, and which discounts they have              *)

\* A checkout that has reserved its stock keeps the rows of all its lines.
KeepsItsLines ==
    \A c \in Checkouts :
        /\ pc[c] \in {"coupon", "provider", "commit"} => rows[c] = Lines(c)
        /\ pc[c] # "idle" => cart[c] \in Carts

\* The discount of a first_order_only coupon has no earlier one of its customer.
FirstUses ==
    \A c, d \in discounted :
        /\ CustomerOf[c] = CustomerOf[d] /\ coupon[c] = coupon[d]
        /\ coupon[c] \in FirstOrderOnly /\ pc[d] = "placed"
        => c = d

\* A recorded use comes with an order; an accepted first-order coupon has none.
UsesAreFresh ==
    /\ \A k \in Coupons, u \in Customers :
          uses[k][u] > 0 => \E d \in Placed : CustomerOf[d] = u
    /\ \A c \in discounted :
          pc[c] # "placed" /\ coupon[c] \in FirstOrderOnly =>
              uses[coupon[c]][CustomerOf[c]] = 0

SInv == /\ IInv /\ KeepsItsLines /\ FirstUses /\ UsesAreFresh
        /\ UsesAreCounted /\ StockIsConserved

\* What a step is to the other checkouts: one is confirmed, moves on, takes a
\* row, has its coupon judged, is rolled back or is committed.
Starts(c) ==
    \E basket \in Carts, k \in Coupons \cup {NoCoupon}, throughWeb \in BOOLEAN :
        Confirm(c, basket, k, throughWeb)

Moves(c) ==
    /\ \/ pc[c] = "check" /\ \E step \in {"check", "reserve"} : GoTo(c, step)
       \/ pc[c] = "coupon" /\ \E step \in {"provider", "commit"} : GoTo(c, step)
       \/ pc[c] = "provider" /\ GoTo(c, "commit")
    /\ UNCHANGED <<stock, used, uses, cart, coupon, web, rows, locked, discounted>>

Takes(c) ==
    /\ pc[c] = "reserve"
    /\ \E p \in Products :
          /\ rows' = [rows EXCEPT ![c] = @ \cup {p}]
          /\ GoTo(c, IF rows[c] \cup {p} = Lines(c) THEN "coupon" ELSE "reserve")
    /\ UNCHANGED <<stock, used, uses, cart, coupon, web, locked, discounted>>

Judges(c) ==
    /\ pc[c] = "coupon" /\ coupon[c] \in Coupons
    /\ \E step \in {"provider", "commit"} : GoTo(c, step)
    /\ locked' = locked \cup {c}
    /\ \/ discounted' = discounted
       \/ discounted' = discounted \cup {c} /\ CouponIsValid(c)
    /\ UNCHANGED <<stock, used, uses, cart, coupon, web, rows>>

Abandons(c) == pc[c] \notin {"idle"} \cup Ended /\ Rollback(c)

OneStep(c) == Starts(c) \/ Moves(c) \/ Takes(c) \/ Judges(c) \/ Abandons(c) \/ Commit(c)

LEMMA StepIsOneOf ==
    ASSUME IInv, [Next]_vars
    PROVE  (\E c \in Checkouts : OneStep(c)) \/ UNCHANGED vars
<1> USE DEF requestVars
<1>1. ASSUME NEW c \in Checkouts, Serve(c) PROVE OneStep(c)
  <2>1. ASSUME NEW p \in Products, CheckLine(c, p) PROVE OneStep(c)
    BY <2>1 DEF CheckLine, OneStep, Moves, Abandons, Ended
  <2>2. ASSUME NEW p \in Products, Reserve(c, p) PROVE OneStep(c)
    BY <2>2 DEF Reserve, OneStep, Takes, Abandons, Ended
  <2>3. CASE NoCouponGiven(c)
    BY <2>3 DEF NoCouponGiven, AfterOrder, OneStep, Moves
  <2>4. CASE ApplyCoupon(c)
    <3>1. coupon[c] \in Coupons
      BY <2>4 DEF ApplyCoupon, IInv, TypeOK
    <3> QED BY <2>4, <3>1 DEF ApplyCoupon, AfterOrder, OneStep, Judges, Abandons, Ended
  <2>5. CASE AskProvider(c)
    BY <2>5 DEF AskProvider, OneStep, Moves, Abandons, Ended
  <2>6. CASE DeadlockVictim(c)
    BY <2>6 DEF DeadlockVictim, WaitsFor, OneStep, Abandons, Ended
  <2> QED BY <1>1, <2>1, <2>2, <2>3, <2>4, <2>5, <2>6 DEF Serve, OneStep
<1>2. ASSUME NEW c \in Checkouts, Fail(c) PROVE OneStep(c)
  BY <1>2 DEF Fail, OneStep, Abandons
<1> QED BY <1>1, <1>2 DEF Next, Finished, OneStep, Starts

\* What every step leaves alone: other checkouts, and carts once confirmed.
LEMMA OthersAreLeftAlone ==
    ASSUME IInv, NEW c \in Checkouts, OneStep(c)
    PROVE  /\ pc \in [Checkouts -> Steps] /\ pc' \in [Checkouts -> Steps]
           /\ \A d \in Checkouts \ {c} :
                 /\ pc'[d] = pc[d] /\ rows'[d] = rows[d] /\ cart'[d] = cart[d]
                 /\ coupon'[d] = coupon[d]
                 /\ d \in discounted' <=> d \in discounted
           /\ pc[c] # "idle" => cart'[c] = cart[c] /\ coupon'[c] = coupon[c]
           /\ pc[c] \notin Ended /\ pc'[c] # "idle"
           /\ ~ Commit(c) => UNCHANGED <<stock, used, uses>> /\ pc'[c] # "placed"
<1> USE DEF requestVars
<1>1. /\ pc \in [Checkouts -> Steps] /\ rows \in [Checkouts -> SUBSET Products]
      /\ cart \in [Checkouts -> [Products -> Nat]]
      /\ coupon \in [Checkouts -> Coupons \cup {NoCoupon}]
  BY DEF IInv, TypeOK
<1>2. CASE Starts(c)
  BY <1>1, <1>2 DEF Starts, Confirm, GoTo, Steps, Ended
<1>3. CASE Moves(c)
  BY <1>1, <1>3 DEF Moves, GoTo, Steps, Ended
<1>4. CASE Takes(c)
  BY <1>1, <1>4 DEF Takes, GoTo, Steps, Ended
<1>5. CASE Judges(c)
  BY <1>1, <1>5 DEF Judges, GoTo, Steps, Ended
<1>6. CASE Abandons(c)
  BY <1>1, <1>6 DEF Abandons, Rollback, GoTo, Steps, Ended
<1>7. CASE Commit(c)
  BY <1>1, <1>7 DEF Commit, GoTo, Steps, Ended
<1> QED BY <1>2, <1>3, <1>4, <1>5, <1>6, <1>7 DEF OneStep

LEMMA CommitFacts ==
    ASSUME SInv, NEW c \in Checkouts, Commit(c)
    PROVE  /\ pc[c] = "commit" /\ pc'[c] = "placed" /\ c \notin Placed
           /\ Placed' = Placed \cup {c}
           /\ UNCHANGED <<cart, coupon, discounted>>
           /\ rows[c] = Lines(c)
           /\ stock' = [p \in Products |-> stock[p] - cart[c][p]]
<1>1. /\ pc \in [Checkouts -> Steps] /\ cart[c] \in [Products -> Nat]
      /\ stock \in [Products -> Nat] /\ rows[c] = Lines(c)
  BY DEF SInv, IInv, TypeOK, KeepsItsLines, Commit
<1>2. \A p \in Products \ Lines(c) : cart[c][p] = 0
  BY <1>1 DEF Lines
<1>3. stock' = [p \in Products |->
                   IF p \in Lines(c) THEN stock[p] - cart[c][p] ELSE stock[p]]
  BY <1>1 DEF Commit
<1>4. \A p \in Products :
         (IF p \in Lines(c) THEN stock[p] - cart[c][p] ELSE stock[p]) = stock[p] - cart[c][p]
  BY <1>1, <1>2
<1>5. stock' = [p \in Products |-> stock[p] - cart[c][p]]
  BY <1>3, <1>4
<1> QED BY <1>1, <1>5 DEF Commit, GoTo, Placed, requestVars

LEMMA OtherStepsPlaceNothing ==
    ASSUME IInv, NEW c \in Checkouts, OneStep(c), ~ Commit(c)
    PROVE  /\ Placed' = Placed /\ UNCHANGED <<stock, used, uses>>
           /\ \A d \in Placed : /\ cart'[d] = cart[d] /\ coupon'[d] = coupon[d]
                                /\ d \in discounted' <=> d \in discounted
<1>1. c \notin Placed /\ c \notin Placed'
  BY OthersAreLeftAlone DEF Placed, Ended
<1> QED BY <1>1, OthersAreLeftAlone DEF Placed

LEMMA KeepsItsLinesStep ==
    ASSUME SInv, NEW c \in Checkouts, OneStep(c) PROVE KeepsItsLines'
<1> USE DEF requestVars
<1>1. IInv /\ KeepsItsLines /\ rows \in [Checkouts -> SUBSET Products]
      /\ cart \in [Checkouts -> [Products -> Nat]] /\ pc \in [Checkouts -> Steps]
  BY DEF SInv, IInv, TypeOK
<1>2. ASSUME NEW d \in Checkouts \ {c}
      PROVE  /\ pc'[d] \in {"coupon", "provider", "commit"} => rows'[d] = Lines(d)'
             /\ pc'[d] # "idle" => cart'[d] \in Carts
  BY <1>1, OthersAreLeftAlone DEF KeepsItsLines, Lines
<1>3. /\ pc'[c] \in {"coupon", "provider", "commit"} => rows'[c] = Lines(c)'
      /\ cart'[c] \in Carts
  <2>1. CASE Starts(c)
    BY <1>1, <2>1 DEF Starts, Confirm, GoTo
  <2>2. CASE Moves(c)
    BY <1>1, <2>2 DEF Moves, GoTo, KeepsItsLines, Lines
  <2>3. CASE Takes(c)
    BY <1>1, <2>3 DEF Takes, GoTo, KeepsItsLines, Lines
  <2>4. CASE Judges(c)
    BY <1>1, <2>4 DEF Judges, GoTo, KeepsItsLines, Lines
  <2>5. CASE Abandons(c)
    BY <1>1, <2>5 DEF Abandons, Rollback, GoTo, KeepsItsLines
  <2>6. CASE Commit(c)
    BY <1>1, <2>6 DEF Commit, GoTo, KeepsItsLines
  <2> QED BY <2>1, <2>2, <2>3, <2>4, <2>5, <2>6 DEF OneStep
<1> QED BY <1>2, <1>3 DEF KeepsItsLines

\* Only the accepted judgement adds a discount, and it saw no earlier order.
LEMMA DiscountFacts ==
    ASSUME SInv, NEW c \in Checkouts, OneStep(c), c \in discounted'
    PROVE  /\ UNCHANGED coupon /\ coupon[c] \in Coupons
           /\ c \notin discounted => /\ pc'[c] # "placed" /\ UNCHANGED uses
                                    /\ CouponIsValid(c)
<1> USE DEF requestVars
<1>1. /\ c \in discounted => pc[c] \in {"provider", "commit"} \/ pc[c] = "placed"
      /\ c \in discounted /\ pc[c] # "placed" => coupon[c] \in Coupons
      /\ pc \in [Checkouts -> Steps] /\ pc[c] \notin Ended
  BY OthersAreLeftAlone DEF SInv, IInv, CouponsFit, TypeOK
<1>2. CASE Starts(c)
  BY <1>1, <1>2 DEF Starts, Confirm
<1>3. CASE Moves(c) \/ Takes(c)
  BY <1>1, <1>3 DEF Moves, Takes, Ended
<1>4. CASE Judges(c)
  BY <1>1, <1>4 DEF Judges, GoTo
<1>5. CASE Abandons(c)
  BY <1>5 DEF Abandons, Rollback
<1>6. CASE Commit(c)
  BY <1>1, <1>6 DEF Commit, Ended
<1> QED BY <1>2, <1>3, <1>4, <1>5, <1>6 DEF OneStep

LEMMA FirstUsesStep ==
    ASSUME SInv, NEW c \in Checkouts, OneStep(c) PROVE FirstUses'
<1>1. discounted \subseteq Checkouts /\ discounted' \subseteq Checkouts
  BY OthersAreLeftAlone, StepIInv DEF SInv, IInv, TypeOK, OneStep, Starts, Moves,
     Takes, Judges, Abandons, Rollback, Commit, Confirm, requestVars
<1> SUFFICES ASSUME NEW a \in discounted', NEW b \in discounted',
                    CustomerOf[a] = CustomerOf[b], coupon'[a] = coupon'[b],
                    coupon'[a] \in FirstOrderOnly, pc'[b] = "placed", a # b
             PROVE  FALSE
  BY DEF FirstUses
<1>2. UNCHANGED coupon \/ (a # c /\ b # c)
  BY DiscountFacts
<1>3. coupon[a] = coupon[b] /\ coupon[a] \in FirstOrderOnly
  BY <1>1, <1>2, OthersAreLeftAlone DEF SInv
<1>4. CASE a \notin discounted
  <2>1. a = c /\ CouponIsValid(c)
    BY <1>1, <1>4, OthersAreLeftAlone, DiscountFacts DEF SInv
  <2>2. b \in Placed
    BY <1>1, <2>1, OthersAreLeftAlone DEF SInv, Placed
  <2> QED BY <1>3, <2>1, <2>2 DEF CouponIsValid, EarlierOrders
<1>5. CASE b \notin discounted
  BY <1>1, <1>5, OthersAreLeftAlone, DiscountFacts DEF SInv
<1>6. CASE a \in discounted /\ b \in discounted
  <2>1. pc[b] # "placed" /\ pc[a] # "placed"
    BY <1>3, <1>6 DEF SInv, FirstUses
  <2>2. a \in locked /\ b \in locked
    BY <1>6, <2>1 DEF SInv, IInv, CouponsFit
  <2> QED BY <1>3, <2>2 DEF SInv, IInv, CouponsFit
<1> QED BY <1>4, <1>5, <1>6

LEMMA UsesAreFreshStep ==
    ASSUME SInv, NEW c \in Checkouts, OneStep(c) PROVE UsesAreFresh'
<1>1. /\ discounted \subseteq Checkouts /\ uses \in [Coupons -> [Customers -> Nat]]
      /\ CustomerOf \in [Checkouts -> Customers] /\ FirstOrderOnly \subseteq Coupons
      /\ IInv
  BY CustomerAssumption, CouponAssumption DEF SInv, IInv, TypeOK
<1>2. CASE ~ Commit(c)
  <2>1. Placed' = Placed /\ UNCHANGED uses
    BY <1>1, <1>2, OtherStepsPlaceNothing
  <2>2. \A k \in Coupons, u \in Customers :
           uses'[k][u] > 0 => \E d \in Placed' : CustomerOf[d] = u
    BY <2>1 DEF SInv, UsesAreFresh
  <2>3. ASSUME NEW d \in discounted', pc'[d] # "placed", coupon'[d] \in FirstOrderOnly
        PROVE  uses'[coupon'[d]][CustomerOf[d]] = 0
    <3>1. CASE d \in discounted
      <4>1. coupon'[d] = coupon[d] /\ pc[d] # "placed"
        BY <1>1, <2>3, <3>1, DiscountFacts, OthersAreLeftAlone DEF Ended
      <4> QED BY <2>1, <2>3, <3>1, <4>1 DEF SInv, UsesAreFresh
    <3>2. CASE d \notin discounted
      <4>1. d = c
        <5>1. discounted' \subseteq discounted \cup {c}
          BY DEF OneStep, Starts, Confirm, Moves, Takes, Judges, Abandons, Rollback,
                 Commit, requestVars
        <5> QED BY <3>2, <5>1
      <4>2. CouponIsValid(c) /\ coupon'[c] = coupon[c] /\ coupon[c] \in Coupons
        BY <2>3, <3>2, <4>1, DiscountFacts
      <4>3. \A e \in Placed : CustomerOf[e] # CustomerOf[c]
        BY <2>3, <4>1, <4>2 DEF CouponIsValid, EarlierOrders
      <4>4. ~ (uses[coupon[c]][CustomerOf[c]] > 0)
        BY <1>1, <4>2, <4>3 DEF SInv, UsesAreFresh
      <4> QED BY <1>1, <2>1, <4>1, <4>2, <4>4
    <3> QED BY <3>1, <3>2
  <2> QED BY <2>2, <2>3 DEF UsesAreFresh
<1>3. CASE Commit(c)
  <2>1. /\ Placed' = Placed \cup {c} /\ UNCHANGED <<coupon, discounted>>
        /\ pc[c] = "commit" /\ pc'[c] = "placed"
    BY <1>3, CommitFacts
  <2>2. CASE c \notin discounted
    <3>1. UNCHANGED uses
      BY <1>3, <2>2 DEF Commit
    <3>2. \A d \in discounted : pc'[d] = pc[d]
      BY <1>1, <2>2, OthersAreLeftAlone
    <3> QED BY <2>1, <3>1, <3>2 DEF SInv, UsesAreFresh
  <2>3. CASE c \in discounted
    <3> DEFINE k == coupon[c]
               u == CustomerOf[c]
    <3>1. uses' = [uses EXCEPT ![k][u] = @ + 1] /\ k \in Coupons /\ u \in Customers
      BY <1>1, <1>3, <2>3, DiscountFacts, <2>1 DEF Commit
    <3>2. \A j \in Coupons, v \in Customers :
             j # k \/ v # u => uses'[j][v] = uses[j][v]
      BY <1>1, <3>1
    <3>3. \A j \in Coupons, v \in Customers :
             uses'[j][v] > 0 => \E d \in Placed' : CustomerOf[d] = v
      BY <2>1, <3>2 DEF SInv, UsesAreFresh
    <3>4. ASSUME NEW d \in discounted, pc'[d] # "placed", coupon[d] \in FirstOrderOnly
          PROVE  uses'[coupon[d]][CustomerOf[d]] = 0
      <4>1. d # c /\ pc[d] # "placed"
        BY <1>1, <2>1, <3>4, OthersAreLeftAlone
      <4>2. coupon[d] # k
        BY <2>1, <2>3, <4>1 DEF SInv, IInv, CouponsFit
      <4>3. coupon[d] \in Coupons /\ CustomerOf[d] \in Customers
        BY <1>1, <3>4
      <4> QED BY <3>2, <3>4, <4>1, <4>2, <4>3 DEF SInv, UsesAreFresh
    <3> QED BY <2>1, <3>3, <3>4 DEF UsesAreFresh
  <2> QED BY <2>2, <2>3
<1> QED BY <1>2, <1>3

\* The placed orders that have the discount of k.
Discounts(k) == {c \in Placed \cap discounted : coupon[c] = k}

LEMMA UsesAreCountedStep ==
    ASSUME SInv, NEW c \in Checkouts, OneStep(c) PROVE UsesAreCounted'
<1>1. IInv /\ used \in [Coupons -> Nat] /\ discounted \subseteq Checkouts
  BY DEF SInv, IInv, TypeOK
<1>2. \A k \in Coupons : used[k] = Cardinality(Discounts(k)) /\ IsFiniteSet(Discounts(k))
  <2>1. \A k \in Coupons : Discounts(k) \in SUBSET Checkouts
    BY DEF Discounts, Placed
  <2> QED BY <2>1, FiniteAssumption, FS_Subset DEF SInv, UsesAreCounted, Discounts
<1> SUFFICES ASSUME NEW k \in Coupons
             PROVE  used'[k] = Cardinality(Discounts(k)')
  BY DEF UsesAreCounted, Discounts
<1>3. CASE ~ Commit(c)
  <2>1. Placed' = Placed /\ UNCHANGED used
        /\ \A d \in Placed : coupon'[d] = coupon[d] /\ (d \in discounted' <=> d \in discounted)
    BY <1>1, <1>3, OtherStepsPlaceNothing
  <2>2. Discounts(k)' = Discounts(k)
    BY <2>1 DEF Discounts
  <2> QED BY <1>2, <2>1, <2>2
<1>4. CASE Commit(c) /\ c \in discounted /\ coupon[c] = k
  <2>1. Placed' = Placed \cup {c} /\ c \notin Placed /\ UNCHANGED <<coupon, discounted>>
    BY <1>4, CommitFacts
  <2>2. Discounts(k)' = Discounts(k) \cup {c} /\ c \notin Discounts(k)
    BY <1>4, <2>1 DEF Discounts
  <2>3. used'[k] = used[k] + 1
    BY <1>1, <1>4 DEF Commit
  <2> QED BY <1>2, <2>2, <2>3, FS_AddElement
<1>5. CASE Commit(c) /\ ~ (c \in discounted /\ coupon[c] = k)
  <2>1. Placed' = Placed \cup {c} /\ UNCHANGED <<coupon, discounted>>
    BY <1>5, CommitFacts
  <2>2. Discounts(k)' = Discounts(k)
    BY <1>5, <2>1 DEF Discounts
  <2>3. used'[k] = used[k]
    BY <1>1, <1>5 DEF Commit
  <2> QED BY <1>2, <2>2, <2>3
<1> QED BY <1>3, <1>4, <1>5

LEMMA StockIsConservedStep ==
    ASSUME SInv, NEW c \in Checkouts, OneStep(c) PROVE StockIsConserved'
<1>1. /\ IInv /\ stock \in [Products -> Nat] /\ cart \in [Checkouts -> [Products -> Nat]]
      /\ IsFiniteSet(Placed) /\ Placed \subseteq Checkouts
  <2>1. Placed \in SUBSET Checkouts
    BY DEF Placed
  <2> QED BY <2>1, FiniteAssumption, FS_Subset DEF SInv, IInv, TypeOK
<1> SUFFICES ASSUME NEW p \in Products
             PROVE  stock'[p] + SumOver(Asked(p)', Placed') = StockAtStart[p]
  BY DEF StockIsConserved
<1>2. stock[p] + SumOver(Asked(p), Placed) = StockAtStart[p]
  BY DEF SInv, StockIsConserved
<1>3. CASE ~ Commit(c)
  <2>1. Placed' = Placed /\ UNCHANGED stock /\ \A d \in Placed : cart'[d] = cart[d]
    BY <1>1, <1>3, OtherStepsPlaceNothing
  <2>2. \A d \in Placed : Asked(p)[d] = Asked(p)'[d]
    BY <1>1, <2>1 DEF Asked
  <2>3. SumOver(Asked(p), Placed) = SumOver(Asked(p)', Placed)
    BY <1>1, <2>2, SumOfSame
  <2> QED BY <1>2, <2>1, <2>3
<1>4. CASE Commit(c)
  <2>1. /\ Placed' = Placed \cup {c} /\ c \notin Placed /\ UNCHANGED cart
        /\ stock' = [q \in Products |-> stock[q] - cart[c][q]]
    BY <1>4, CommitFacts
  <2>2. Asked(p)' = Asked(p)
    BY <2>1 DEF Asked
  <2>3. \A d \in Checkouts : Asked(p)[d] \in Int /\ Asked(p)[d] = cart[d][p]
    BY <1>1 DEF Asked
  <2>4. SumOver(Asked(p), Placed \cup {c}) = SumOver(Asked(p), Placed) + cart[c][p]
    <3>1. \A d \in Placed \cup {c} : Asked(p)[d] \in Int
      BY <1>1, <2>3
    <3>2. SumOver(Asked(p), Placed \cup {c}) = SumOver(Asked(p), Placed) + Asked(p)[c]
      BY <1>1, <2>1, <3>1, SumWithOneMore
    <3> QED BY <2>3, <3>2
  <2>5. SumOver(Asked(p), Placed) \in Int
    BY <1>1, <2>3, SumIsInt
  <2>6. stock'[p] = stock[p] - cart[c][p]
    BY <2>1
  <2>7. stock[p] \in Int /\ cart[c][p] \in Int
    BY <1>1
  <2> QED BY <1>2, <2>1, <2>2, <2>4, <2>5, <2>6, <2>7
<1> QED BY <1>3, <1>4

LEMMA InitSInv == Init => SInv
<1> SUFFICES ASSUME Init PROVE SInv
  OBVIOUS
<1>1. Placed = {} /\ discounted = {}
  BY DEF Init, Placed
<1>2. KeepsItsLines /\ FirstUses
  BY DEF Init, KeepsItsLines, FirstUses
<1>3. UsesAreFresh
  BY DEF Init, UsesAreFresh
<1>4. UsesAreCounted
  <2>1. \A k \in Coupons : {c \in Placed \cap discounted : coupon[c] = k} = {}
    BY <1>1
  <2> QED BY <2>1, FS_EmptySet DEF Init, UsesAreCounted
<1>5. StockIsConserved
  BY <1>1, SumOfNone, StockAssumption DEF Init, StockIsConserved
<1> QED BY <1>2, <1>3, <1>4, <1>5, InitIInv DEF SInv

LEMMA StepSInv == SInv /\ [Next]_vars => SInv'
<1> SUFFICES ASSUME SInv, [Next]_vars PROVE SInv'
  OBVIOUS
<1>1. IInv'
  BY StepIInv DEF SInv
<1>2. ASSUME NEW c \in Checkouts, OneStep(c) PROVE SInv'
  BY <1>1, <1>2, KeepsItsLinesStep, FirstUsesStep, UsesAreFreshStep,
     UsesAreCountedStep, StockIsConservedStep DEF SInv
<1>3. CASE UNCHANGED vars
  <2>1. UNCHANGED <<stock, used, uses, pc, cart, coupon, rows, discounted, Placed>>
    BY <1>3 DEF vars, requestVars, Placed
  <2>2. KeepsItsLines' /\ FirstUses' /\ UsesAreFresh'
    BY <2>1 DEF SInv, KeepsItsLines, Lines, FirstUses, UsesAreFresh
  <2>3. UsesAreCounted'
    BY <2>1 DEF SInv, UsesAreCounted
  <2>4. \A p : Asked(p)' = Asked(p)
    BY <2>1 DEF Asked
  <2>5. StockIsConserved'
    BY <2>1, <2>4 DEF SInv, StockIsConserved
  <2> QED BY <1>1, <2>2, <2>3, <2>5 DEF SInv
<1> QED BY <1>2, <1>3, StepIsOneOf DEF SInv

\* Whatever checkouts overlap, are refused, fail or are aborted, what is on the
\* shelf and what the placed orders took add up to what there was.
THEOREM StockAddsUp == Spec => []StockIsConserved
<1>1. SInv => StockIsConserved
  BY DEF SInv
<1> QED BY <1>1, InitSInv, StepSInv, PTL DEF Spec

\* The counter of a coupon counts the placed orders that have its discount.
THEOREM CountersAgree == Spec => []UsesAreCounted
<1>1. SInv => UsesAreCounted
  BY DEF SInv
<1> QED BY <1>1, InitSInv, StepSInv, PTL DEF Spec

\* A customer gets the discount of a first_order_only coupon once at most.
THEOREM FirstOrderDiscountIsUnique == Spec => []FirstOrderCouponOnce
<1>1. SInv => FirstOrderCouponOnce
  <2> SUFFICES ASSUME SInv, NEW k \in FirstOrderOnly, NEW u \in Customers
               PROVE  Cardinality({c \in Placed \cap discounted :
                                      CustomerOf[c] = u /\ coupon[c] = k}) <= 1
    BY DEF FirstOrderCouponOnce
  <2> DEFINE D == {c \in Placed \cap discounted : CustomerOf[c] = u /\ coupon[c] = k}
  <2> SUFFICES Cardinality(D) <= 1
    OBVIOUS
  <2>1. \A c, d \in D : c = d
    BY DEF SInv, FirstUses, Placed
  <2>2. CASE D = {}
    BY <2>2, FS_EmptySet
  <2>3. CASE D # {}
    <3> HIDE DEF D
    <3>1. PICK c : D = {c}
      BY <2>1, <2>3
    <3>2. Cardinality({c}) = 1
      BY FS_Singleton
    <3> QED BY <3>1, <3>2
  <2> QED BY <2>2, <2>3
<1> QED BY <1>1, InitSInv, StepSInv, PTL DEF Spec

-----------------------------------------------------------------------------
(* Overlapping checkouts implement SerialSales                             *)

\* From outside a transaction only the checkout that ends changes its look.
LEMMA OutsideView ==
    ASSUME IInv, NEW c \in Checkouts, OneStep(c)
    PROVE  /\ Outcome(c) = "open" /\ Sold(c) = [p \in Products |-> 0]
           /\ \A d \in Checkouts \ {c} : Outcome(d)' = Outcome(d) /\ Sold(d)' = Sold(d)
<1>1. ASSUME NEW d \in Checkouts \ {c}
      PROVE  Outcome(d)' = Outcome(d) /\ Sold(d)' = Sold(d)
  <2>1. pc'[d] = pc[d] /\ cart'[d] = cart[d]
    BY OthersAreLeftAlone
  <2> QED BY <2>1 DEF Outcome, Sold
<1>2. pc[c] \notin Ended
  BY OthersAreLeftAlone
<1> QED BY <1>1, <1>2 DEF Outcome, Sold, Ended

LEMMA InitSerial == Init => Serial!Init
<1> SUFFICES ASSUME Init PROVE Serial!Init
  OBVIOUS
<1>1. \A c \in Checkouts : Outcome(c) = "open" /\ Sold(c) = [p \in Products |-> 0]
  BY DEF Init, Outcome, Sold, Ended
<1>2. [c \in Checkouts |-> Outcome(c)] = [c \in Checkouts |-> "open"]
  BY <1>1
<1>3. [c \in Checkouts |-> Sold(c)] = [c \in Checkouts |-> [p \in Products |-> 0]]
  BY <1>1
<1> QED BY <1>2, <1>3 DEF Init, Serial!Init, Serial!Nothing

\* A commit is a sale: every line and the coupon's use are still there.
LEMMA CommitIsSale ==
    ASSUME SInv, NEW c \in Checkouts, Commit(c)
    PROVE  Serial!Next
<1>1. /\ pc'[c] = "placed" /\ pc[c] = "commit" /\ UNCHANGED <<cart, coupon, discounted>>
      /\ rows[c] = Lines(c)
      /\ stock' = [p \in Products |-> stock[p] - cart[c][p]]
  BY CommitFacts
<1>2. /\ IInv /\ cart[c] \in Carts /\ cart[c] \in [Products -> Nat]
      /\ stock \in [Products -> Nat]
  BY <1>1 DEF SInv, IInv, TypeOK, KeepsItsLines
<1>3. \A p \in Products : cart[c][p] <= stock[p]
  <2> TAKE p \in Products
  <2>1. CASE p \in Lines(c)
    BY <1>1, <2>1 DEF SInv, IInv, RowsFit
  <2>2. CASE p \notin Lines(c)
    BY <1>2, <2>2 DEF Lines
  <2> QED BY <2>1, <2>2
<1>4. /\ Outcome(c) = "open" /\ Outcome(c)' = "placed" /\ Sold(c)' = cart[c]
      /\ \A d \in Checkouts \ {c} : Outcome(d)' = Outcome(d) /\ Sold(d)' = Sold(d)
  <2>1. Outcome(c)' = "placed" /\ Sold(c)' = cart[c]
    BY <1>1 DEF Outcome, Sold, Ended
  <2> QED BY <1>2, <2>1, OutsideView DEF OneStep
<1> DEFINE oc == [d \in Checkouts |-> Outcome(d)]
           so == [d \in Checkouts |-> Sold(d)]
<1>5. oc' = [oc EXCEPT ![c] = "placed"] /\ so' = [so EXCEPT ![c] = cart[c]] /\ oc[c] = "open"
  BY <1>4
<1>6. CASE c \notin discounted
  <2>1. UNCHANGED <<used, uses>>
    BY <1>6 DEF Commit
  <2>2. Serial!Sell(c, cart[c], NoCoupon)
    BY <1>1, <1>3, <1>5, <2>1 DEF Serial!Sell
  <2> QED BY <1>2, <2>2 DEF Serial!Next
<1>7. CASE c \in discounted
  <2> DEFINE k == coupon[c]
             u == CustomerOf[c]
  <2>1. /\ used' = [used EXCEPT ![k] = @ + 1]
        /\ uses' = [uses EXCEPT ![k][u] = @ + 1]
    BY <1>7 DEF Commit
  <2>2. k \in Coupons /\ k # NoCoupon
    BY <1>1, <1>7, CouponAssumption DEF SInv, IInv, CouponsFit
  <2>3. Serial!MayUse(c, k)
    BY <1>1, <1>7 DEF SInv, IInv, CouponsFit, UsesAreFresh, Serial!MayUse
  <2>4. Serial!Sell(c, cart[c], k)
    BY <1>1, <1>3, <1>5, <2>1, <2>2, <2>3 DEF Serial!Sell
  <2> QED BY <1>2, <2>2, <2>4 DEF Serial!Next
<1> QED BY <1>6, <1>7

LEMMA StepSerial == SInv /\ [Next]_vars => [Serial!Next]_(Serial!vars)
<1> SUFFICES ASSUME SInv, [Next]_vars PROVE [Serial!Next]_(Serial!vars)
  OBVIOUS
<1> DEFINE oc == [d \in Checkouts |-> Outcome(d)]
           so == [d \in Checkouts |-> Sold(d)]
<1>1. ASSUME NEW c \in Checkouts, OneStep(c), ~ Commit(c)
      PROVE  [Serial!Next]_(Serial!vars)
  <2>1. IInv /\ UNCHANGED <<stock, used, uses>> /\ pc'[c] # "placed"
    BY <1>1, OthersAreLeftAlone DEF SInv
  <2>2. Sold(c)' = [p \in Products |-> 0]
    BY <2>1 DEF Sold
  <2>3. so' = so
    BY <1>1, <2>1, <2>2, OutsideView
  <2>4. CASE pc'[c] = "rejected"
    <3>1. Outcome(c)' = "rejected"
      BY <2>4 DEF Outcome, Ended
    <3>2. oc' = [oc EXCEPT ![c] = "rejected"] /\ oc[c] = "open"
      BY <1>1, <2>1, <3>1, OutsideView
    <3>3. Serial!Refuse(c)
      BY <2>1, <2>3, <3>2 DEF Serial!Refuse
    <3> QED BY <3>3 DEF Serial!Next
  <2>5. CASE pc'[c] # "rejected"
    <3>1. Outcome(c)' = "open"
      BY <2>1, <2>5 DEF Outcome, Ended
    <3>2. oc' = oc
      BY <1>1, <2>1, <3>1, OutsideView
    <3> QED BY <2>1, <2>3, <3>2 DEF Serial!vars
  <2> QED BY <2>4, <2>5
<1>2. ASSUME NEW c \in Checkouts, Commit(c) PROVE Serial!Next
  BY <1>2, CommitIsSale
<1>3. CASE UNCHANGED vars
  BY <1>3 DEF vars, requestVars, Serial!vars, Outcome, Sold
<1> QED BY <1>1, <1>2, <1>3, StepIsOneOf DEF SInv

\* Whatever checkouts overlap, the outcome is one that serving them one after
\* another can have: every step is a sale, a refusal or nothing of SerialSales.
THEOREM CheckoutsImplementSerialSales == Spec => SalesAreSerial
BY InitSerial, StepSerial, InitSInv, StepSInv, PTL DEF Spec, SalesAreSerial, Serial!Spec
=============================================================================
