------------------------ MODULE EventDelivery_proofs ------------------------
(***************************************************************************)
(* Proofs about EventDelivery, for any set of requests, any retry limit    *)
(* and any combination of faults.                                          *)
(***************************************************************************)
EXTENDS EventDelivery, TLAPS

\* What handing an event on may do: it leaves the queue for the broker, for the
\* fallback, or for both.
LEMMA EnqueueNotificationType ==
    ASSUME TypeOK, NEW t \in Changes, EnqueueNotification(t)
    PROVE  /\ celery' \subseteq Changes /\ fallback' \subseteq Changes
           /\ repeats' \in [Changes -> Nat]
           /\ celery \subseteq celery' /\ fallback \subseteq fallback'
           /\ t \in celery' \cup fallback'
<1>1. /\ celery' = celery \/ celery' = celery \cup {t}
      /\ fallback' = fallback \/ fallback' = fallback \cup {t}
      /\ t \in celery' \cup fallback'
  BY DEF EnqueueNotification, ToCelery, ToFallback
<1>2. repeats' = repeats \/ repeats' = [repeats EXCEPT ![t] = repeats[t] + 1]
  BY DEF EnqueueNotification
<1>3. celery \subseteq Changes /\ fallback \subseteq Changes /\ repeats \in [Changes -> Nat]
  BY DEF TypeOK
<1>4. repeats' \in [Changes -> Nat]
  BY <1>2, <1>3
<1> QED BY <1>1, <1>3, <1>4

\* A dispatch sends one message of a visible change, or gives the change up.
LEMMA SendType ==
    ASSUME TypeOK, NEW t \in Changes, Send(t)
    PROVE  /\ Visible(t)
           /\ delivered' \in [Changes -> Nat] /\ excused' \subseteq Changes
           /\ excused \subseteq excused'
           /\ \A u \in Changes : delivered'[u] >= delivered[u]
           /\ \A u \in Changes \ {t} : delivered'[u] = delivered[u]
           /\ delivered'[t] > 0 \/ t \in excused'
<1>1. delivered \in [Changes -> Nat] /\ excused \subseteq Changes
  BY DEF TypeOK
<1>2. CASE delivered' = [delivered EXCEPT ![t] = delivered[t] + 1] /\ UNCHANGED excused
  BY <1>1, <1>2 DEF Send
<1>3. CASE excused' = excused \cup {t} /\ UNCHANGED delivered
  BY <1>1, <1>3 DEF Send
<1> QED BY <1>2, <1>3 DEF Send

THEOREM InitType == Init => TypeOK
BY RetriesAssumption DEF Init, TypeOK

THEOREM StepType == TypeOK /\ [Next]_vars => TypeOK'
<1> SUFFICES ASSUME TypeOK, [Next]_vars PROVE TypeOK'
  OBVIOUS
<1> USE DEF busVars, celeryVars, history
<1>1. ASSUME NEW t \in Changes, Emit(t) PROVE TypeOK'
  BY <1>1 DEF Emit, TypeOK
<1>2. ASSUME NEW t \in Changes, Commit(t) \/ RollBack(t) PROVE TypeOK'
  BY <1>2 DEF Commit, RollBack, TypeOK
<1>3. CASE ProcessEvent
  <2>1. Head(queue) \in Changes /\ queue' \in Seq(Changes)
    BY <1>3 DEF ProcessEvent, TypeOK
  <2> QED BY <1>3, <2>1, EnqueueNotificationType DEF ProcessEvent, TypeOK
<1>4. ASSUME NEW t \in Changes, CeleryDelivers(t) PROVE TypeOK'
  BY <1>4, SendType DEF CeleryDelivers, TypeOK
<1>5. ASSUME NEW t \in Changes, CeleryRetries(t) PROVE TypeOK'
  <2>1. outrun' \subseteq Changes /\ excused' \subseteq Changes /\ celery' \subseteq Changes
    BY <1>5 DEF CeleryRetries, TypeOK
  <2>2. retries' = retries
        \/ (retries[t] < MaxRetries /\ retries' = [retries EXCEPT ![t] = retries[t] + 1])
    BY <1>5 DEF CeleryRetries
  <2>3. retries \in [Changes -> 0..MaxRetries] /\ MaxRetries \in Nat
    BY RetriesAssumption DEF TypeOK
  <2>4. retries' \in [Changes -> 0..MaxRetries]
    BY <2>2, <2>3
  <2> QED BY <1>5, <2>1, <2>4 DEF CeleryRetries, TypeOK
<1>6. ASSUME NEW t \in Changes, FallbackRuns(t) PROVE TypeOK'
  BY <1>6, SendType DEF FallbackRuns, TypeOK
<1>7. ASSUME NEW t \in Changes, WorkerLost(t) PROVE TypeOK'
  <2>1. losses' \in 0..MaxLosses
    BY <1>7, RetriesAssumption DEF WorkerLost, TypeOK
  <2>2. delivered' = delivered \/ delivered' = [delivered EXCEPT ![t] = delivered[t] + 1]
    BY <1>7 DEF WorkerLost
  <2>3. repeats' = repeats \/ repeats' = [repeats EXCEPT ![t] = repeats[t] + 1]
    BY <1>7 DEF WorkerLost
  <2>4. delivered \in [Changes -> Nat] /\ repeats \in [Changes -> Nat]
    BY DEF TypeOK
  <2>5. delivered' \in [Changes -> Nat] /\ repeats' \in [Changes -> Nat]
    BY <2>2, <2>3, <2>4
  <2> QED BY <1>7, <2>1, <2>5 DEF WorkerLost, TypeOK
<1>8. CASE StopBus \/ Start
  BY <1>8 DEF StopBus, Start, TypeOK
<1>9. CASE Exit
  <2>1. InMemory \subseteq Changes
    BY DEF InMemory, TypeOK
  <2> QED BY <1>9, <2>1 DEF Exit, TypeOK
<1>10. CASE UNCHANGED vars
  BY <1>10 DEF vars, TypeOK
<1> QED BY <1>1, <1>2, <1>3, <1>4, <1>5, <1>6, <1>7, <1>8, <1>9, <1>10
        DEF Next, Dispatch

\* Every variable keeps its type.
THEOREM TypeCorrect == Spec => []TypeOK
BY InitType, StepType, PTL DEF Spec

-----------------------------------------------------------------------------
(* No message about an order that does not exist                           *)

\* A committed transaction stays committed.
LEMMA CommitIsFinal ==
    ASSUME TypeOK, Next, NEW t \in Changes, tx[t] = "committed"
    PROVE  tx'[t] = "committed"
<1> USE DEF TypeOK
<1>1. ASSUME NEW u \in Changes, Emit(u) \/ Commit(u) \/ RollBack(u)
      PROVE  tx'[t] = "committed"
  BY <1>1 DEF Emit, Commit, RollBack
<1>2. CASE Exit
  BY <1>2 DEF Exit
<1>3. CASE ProcessEvent \/ StopBus \/ Start
           \/ \E u \in Changes : Dispatch(u) \/ WorkerLost(u)
  BY <1>3 DEF ProcessEvent, StopBus, Start, Dispatch, CeleryDelivers,
              CeleryRetries, FallbackRuns, WorkerLost
<1> QED BY <1>1, <1>2, <1>3 DEF Next

\* Only a visible change is sent.
LEMMA OnlyVisibleIsSent ==
    ASSUME TypeOK, Next, NEW t \in Changes, delivered'[t] # delivered[t]
    PROVE  Visible(t)
<1> USE DEF history
<1>1. ASSUME NEW u \in Changes, Dispatch(u) PROVE Visible(t)
  <2>1. CASE Send(u)
    BY <2>1, SendType
  <2>2. CASE UNCHANGED delivered
    BY <2>2
  <2> QED BY <1>1, <2>1, <2>2 DEF Dispatch, CeleryDelivers, CeleryRetries, FallbackRuns
<1>2. ASSUME NEW u \in Changes, WorkerLost(u) PROVE Visible(t)
  BY <1>2 DEF WorkerLost, TypeOK
<1>3. CASE UNCHANGED delivered
  BY <1>3
<1>4. ASSUME NEW u \in Changes, Emit(u) \/ Commit(u) \/ RollBack(u)
      PROVE  UNCHANGED delivered
  BY <1>4 DEF Emit, Commit, RollBack
<1>5. ASSUME ProcessEvent \/ StopBus \/ Exit \/ Start PROVE UNCHANGED delivered
  BY <1>5 DEF ProcessEvent, StopBus, Exit, Start
<1> QED BY <1>1, <1>2, <1>3, <1>4, <1>5 DEF Next

LEMMA StepNoGhost == TypeOK /\ NoGhostOrders /\ [Next]_vars => NoGhostOrders'
<1> SUFFICES ASSUME TypeOK, NoGhostOrders, [Next]_vars,
                    NEW t \in Creations, delivered'[t] > 0
             PROVE  tx'[t] = "committed"
  BY DEF NoGhostOrders
<1>1. t \in Changes
  BY DEF Changes
<1>2. CASE UNCHANGED vars
  BY <1>2 DEF vars, NoGhostOrders
<1>3. CASE Next /\ delivered'[t] = delivered[t]
  BY <1>1, <1>3, CommitIsFinal DEF NoGhostOrders
<1>4. CASE Next /\ delivered'[t] # delivered[t]
  BY <1>1, <1>4, CommitIsFinal, OnlyVisibleIsSent DEF Visible
<1> QED BY <1>2, <1>3, <1>4

\* Whatever fails in between, nobody hears of an order that was not committed.
THEOREM GhostOrdersAreNeverAnnounced == Spec => []NoGhostOrders
<1>1. Init => NoGhostOrders
  BY DEF Init, NoGhostOrders, Changes
<1> QED BY <1>1, TypeCorrect, StepNoGhost, PTL DEF Spec
-----------------------------------------------------------------------------
(* No announcement vanishes                                                 *)

\* Where the announcement of t is accounted for.
Accounted(t) == t \in InMemory \cup celery \cup excused \/ delivered[t] > 0

LEMMA AppendKeeps ==
    ASSUME NEW q \in Seq(Changes), NEW t \in Changes
    PROVE  /\ \A i \in DOMAIN q : \E j \in DOMAIN Append(q, t) : Append(q, t)[j] = q[i]
           /\ \E j \in DOMAIN Append(q, t) : Append(q, t)[j] = t
<1>1. Len(q) + 1 \in DOMAIN Append(q, t) /\ Append(q, t)[Len(q) + 1] = t
  OBVIOUS
<1>2. \A i \in DOMAIN q : i \in DOMAIN Append(q, t) /\ Append(q, t)[i] = q[i]
  OBVIOUS
<1> QED BY <1>1, <1>2

LEMMA TailKeeps ==
    ASSUME NEW q \in Seq(Changes), q # <<>>, NEW i \in DOMAIN q
    PROVE  q[i] = Head(q) \/ \E j \in DOMAIN Tail(q) : Tail(q)[j] = q[i]
<1>1. CASE i = 1
  BY <1>1
<1>2. CASE i # 1
  <2>1. i - 1 \in DOMAIN Tail(q) /\ Tail(q)[i - 1] = q[i]
    BY <1>2
  <2> QED BY <2>1
<1> QED BY <1>1, <1>2

\* A change stays accounted for across every step.
LEMMA StaysAccounted ==
    ASSUME TypeOK, Next, NEW t \in Changes, Accounted(t)
    PROVE  Accounted(t)'
<1> USE DEF busVars, celeryVars, history, Accounted
<1>1. ASSUME NEW u \in Changes, Emit(u) PROVE Accounted(t)'
  <2>1. queue' = Append(queue, u) /\ UNCHANGED <<fallback, celery, excused, delivered>>
    BY <1>1 DEF Emit
  <2>2. queue \in Seq(Changes)
    BY DEF TypeOK
  <2>3. \A i \in DOMAIN queue : \E j \in DOMAIN queue' : queue'[j] = queue[i]
    BY <2>1, <2>2, AppendKeeps
  <2>4. InMemory \subseteq InMemory'
    BY <2>1, <2>3 DEF InMemory
  <2> QED BY <2>1, <2>4
<1>2. ASSUME NEW u \in Changes, Commit(u) \/ RollBack(u) PROVE Accounted(t)'
  BY <1>2 DEF Commit, RollBack, InMemory
<1>3. CASE ProcessEvent
  <2>1. Head(queue) \in Changes
    BY <1>3 DEF ProcessEvent, TypeOK
  <2>2. /\ celery \subseteq celery' /\ fallback \subseteq fallback'
        /\ Head(queue) \in celery' \cup fallback'
        /\ UNCHANGED <<excused, delivered>>
    BY <1>3, <2>1, EnqueueNotificationType DEF ProcessEvent
  <2>3. \A i \in DOMAIN queue :
           queue[i] = Head(queue) \/ \E j \in DOMAIN queue' : queue'[j] = queue[i]
    BY <1>3, TailKeeps DEF ProcessEvent, TypeOK
  <2> QED BY <2>2, <2>3 DEF InMemory
<1>4. ASSUME NEW u \in Changes, CeleryDelivers(u) \/ FallbackRuns(u)
      PROVE  Accounted(t)'
  <2>1. /\ celery \ {u} \subseteq celery' /\ fallback \ {u} \subseteq fallback'
        /\ UNCHANGED queue
    BY <1>4 DEF CeleryDelivers, FallbackRuns
  <2>2. /\ excused \subseteq excused'
        /\ \A v \in Changes : delivered'[v] >= delivered[v]
        /\ delivered'[u] > 0 \/ u \in excused'
    <3>1. CASE Send(u)
      BY <3>1, SendType
    <3>2. CASE excused' = excused \cup {u} /\ UNCHANGED delivered
      BY <3>2 DEF TypeOK
    <3> QED BY <1>4, <3>1, <3>2 DEF CeleryDelivers, FallbackRuns
  <2>3. delivered \in [Changes -> Nat]
    BY DEF TypeOK
  <2>4. CASE t = u
    BY <2>2, <2>4
  <2>5. CASE t # u /\ t \in InMemory \cup celery \cup excused
    BY <2>1, <2>2, <2>5 DEF InMemory
  <2>6. CASE delivered[t] > 0
    <3>1. delivered'[t] > 0 \/ ~ (delivered'[t] >= delivered[t])
      <4>1. delivered[t] \in Nat
        BY <2>3
      <4>2. CASE delivered'[t] \in Nat
        BY <2>6, <4>1, <4>2
      <4> QED BY <1>4, <2>3, <2>6, <4>2, SendType DEF CeleryDelivers, FallbackRuns
    <3> QED BY <2>2, <3>1
  <2> QED BY <2>4, <2>5, <2>6
<1>5. ASSUME NEW u \in Changes, CeleryRetries(u) PROVE Accounted(t)'
  BY <1>5 DEF CeleryRetries, InMemory
<1>6. ASSUME NEW u \in Changes, WorkerLost(u) PROVE Accounted(t)'
  <2>1. UNCHANGED <<queue, fallback, celery, excused>>
    BY <1>6 DEF WorkerLost
  <2>2. delivered' = delivered \/ delivered' = [delivered EXCEPT ![u] = delivered[u] + 1]
    BY <1>6 DEF WorkerLost
  <2>3. delivered \in [Changes -> Nat]
    BY DEF TypeOK
  <2>4. delivered[t] > 0 => delivered'[t] > 0
    BY <2>2, <2>3
  <2> QED BY <2>1, <2>4 DEF InMemory
<1>7. CASE StopBus \/ Start
  BY <1>7 DEF StopBus, Start, InMemory
<1>8. CASE Exit
  BY <1>8 DEF Exit
<1> QED BY <1>1, <1>2, <1>3, <1>4, <1>5, <1>6, <1>7, <1>8 DEF Next, Dispatch

\* A step that begins a change puts its event into the queue.
LEMMA BeginsAccounted ==
    ASSUME TypeOK, Next, NEW t \in Changes, tx[t] = "idle", tx'[t] # "idle"
    PROVE  Accounted(t)'
<1>1. ASSUME NEW u \in Changes, Emit(u) PROVE Accounted(t)'
  <2>1. u = t /\ queue' = Append(queue, t)
    BY <1>1 DEF Emit, TypeOK
  <2>2. queue \in Seq(Changes)
    BY DEF TypeOK
  <2>3. \E j \in DOMAIN queue' : queue'[j] = t
    BY <2>1, <2>2, AppendKeeps
  <2>4. t \in InMemory'
    BY <2>3 DEF InMemory
  <2> QED BY <2>4 DEF Accounted
<1>2. ASSUME NEW u \in Changes, Commit(u) \/ RollBack(u) PROVE FALSE
  BY <1>2 DEF Commit, RollBack, TypeOK
<1>3. CASE Exit
  BY <1>3 DEF Exit, TypeOK
<1>4. ASSUME ProcessEvent \/ StopBus \/ Start
             \/ \E u \in Changes : Dispatch(u) \/ WorkerLost(u)
      PROVE  FALSE
  BY <1>4 DEF ProcessEvent, StopBus, Start, Dispatch, CeleryDelivers,
              CeleryRetries, FallbackRuns, WorkerLost
<1> QED BY <1>1, <1>2, <1>3, <1>4 DEF Next

LEMMA StepNothingVanishes == TypeOK /\ NothingVanishes /\ [Next]_vars => NothingVanishes'
<1> SUFFICES ASSUME TypeOK, NothingVanishes, [Next]_vars,
                    NEW t \in Changes, tx'[t] # "idle"
             PROVE  Accounted(t)'
  BY DEF NothingVanishes, Accounted
<1>1. tx[t] # "idle" => Accounted(t)
  BY DEF NothingVanishes, Accounted
<1>2. CASE UNCHANGED vars
  BY <1>1, <1>2 DEF vars, busVars, celeryVars, history, Accounted, InMemory
<1>3. CASE Next
  BY <1>1, <1>3, StaysAccounted, BeginsAccounted
<1> QED BY <1>2, <1>3

\* An event that was emitted is on its way, sent, or given up for a reason.
THEOREM EventsDoNotVanish == Spec => []NothingVanishes
<1>1. Init => NothingVanishes
  BY DEF Init, NothingVanishes
<1> QED BY <1>1, TypeCorrect, StepNothingVanishes, PTL DEF Spec
-----------------------------------------------------------------------------
(* No announcement is repeated without a reason                            *)

Elements(q) == {q[i] : i \in DOMAIN q}
Distinct(q) == \A i, j \in DOMAIN q : q[i] = q[j] => i = j
One(held) == IF held THEN 1 ELSE 0

\* The messages about t that are still to be sent, at most one in each place.
Copies(t) == One(t \in Elements(queue)) + One(t \in celery) + One(t \in fallback)

\* What was sent and what is on its way are covered together: one message of the
\* change itself and one more for each reason to repeat it.
CopiesAreCovered ==
    /\ Distinct(queue)
    /\ \A t \in Changes :
          /\ tx[t] = "idle" => delivered[t] = 0 /\ Copies(t) = 0
          /\ delivered[t] + Copies(t) <= 1 + repeats[t]

LEMMA CopiesType == \A t \in Changes : Copies(t) \in Nat
BY DEF Copies, One

LEMMA AppendElements ==
    ASSUME NEW q \in Seq(Changes), NEW t \in Changes, Distinct(q), t \notin Elements(q)
    PROVE  Elements(Append(q, t)) = Elements(q) \cup {t} /\ Distinct(Append(q, t))
<1> DEFINE r == Append(q, t)
<1>1. /\ DOMAIN q = 1 .. Len(q) /\ DOMAIN r = 1 .. (Len(q) + 1) /\ Len(q) \in Nat
      /\ r[Len(q) + 1] = t /\ \A i \in DOMAIN q : r[i] = q[i]
  OBVIOUS
<1> HIDE DEF r
<1>2. DOMAIN r = DOMAIN q \cup {Len(q) + 1} /\ Len(q) + 1 \notin DOMAIN q
  BY <1>1
<1>3. Elements(r) = Elements(q) \cup {t}
  BY <1>1, <1>2 DEF Elements
<1>4. Distinct(r)
  BY <1>1, <1>2 DEF Elements, Distinct
<1> QED BY <1>3, <1>4 DEF r

LEMMA TailElements ==
    ASSUME NEW q \in Seq(Changes), q # <<>>, Distinct(q)
    PROVE  /\ Head(q) \in Elements(q) /\ Head(q) \in Changes
           /\ Elements(Tail(q)) = Elements(q) \ {Head(q)} /\ Distinct(Tail(q))
<1> DEFINE r == Tail(q)
<1>1. /\ DOMAIN q = 1 .. Len(q) /\ Len(q) \in Nat /\ Len(q) >= 1
      /\ Head(q) = q[1] /\ q[1] \in Changes
  OBVIOUS
<1>2. /\ DOMAIN r = 1 .. (Len(q) - 1)
      /\ \A i \in DOMAIN r : r[i] = q[i + 1]
  OBVIOUS
<1> HIDE DEF r
<1>3. Distinct(r)
  BY <1>1, <1>2 DEF Distinct
<1>4. Elements(r) \subseteq Elements(q) \ {q[1]}
  BY <1>1, <1>2 DEF Elements, Distinct
<1>5. ASSUME NEW i \in DOMAIN q, q[i] # q[1] PROVE q[i] \in Elements(r)
  <2>1. i - 1 \in DOMAIN r /\ r[i - 1] = q[i]
    BY <1>1, <1>2, <1>5
  <2> QED BY <2>1 DEF Elements
<1>6. Elements(q) \ {q[1]} \subseteq Elements(r) /\ q[1] \in Elements(q)
  BY <1>1, <1>5 DEF Elements
<1> QED BY <1>1, <1>3, <1>4, <1>6 DEF r

\* A step that touches no queue and no transaction of an idle change needs only
\* to account for what it sends.
LEMMA DispatchCovered ==
    ASSUME TypeOK, CopiesAreCovered, NEW t \in Changes, tx[t] # "idle", UNCHANGED <<tx, queue>>,
           \A u \in Changes : /\ delivered'[u] \in Nat /\ repeats'[u] \in Nat
                              /\ u # t => /\ delivered'[u] = delivered[u]
                                          /\ repeats'[u] = repeats[u]
                                          /\ u \in celery' <=> u \in celery
                                          /\ u \in fallback' <=> u \in fallback,
           delivered'[t] + One(t \in celery') + One(t \in fallback') - repeats'[t]
               <= delivered[t] + One(t \in celery) + One(t \in fallback) - repeats[t]
    PROVE  CopiesAreCovered'
<1>1. ASSUME NEW u \in Changes
      PROVE  /\ tx'[u] = "idle" => delivered'[u] = 0 /\ Copies(u)' = 0
             /\ delivered'[u] + Copies(u)' <= 1 + repeats'[u]
  <2>1. /\ tx[u] = "idle" => delivered[u] = 0 /\ Copies(u) = 0
        /\ delivered[u] + Copies(u) <= 1 + repeats[u]
        /\ delivered[u] \in Nat /\ repeats[u] \in Nat
    BY DEF CopiesAreCovered, TypeOK
  <2>2. CASE u # t
    <3>1. Copies(u)' = Copies(u)
      BY <2>2 DEF Copies, One
    <3> QED BY <2>1, <2>2, <3>1
  <2>3. CASE u = t
    BY <2>1, <2>3 DEF Copies, One
  <2> QED BY <2>2, <2>3
<1> QED BY <1>1 DEF CopiesAreCovered, Distinct

\* Nothing that is on its way belongs to a change that has not begun.
LEMMA HeldIsBegun ==
    ASSUME CopiesAreCovered, NEW t \in Changes, t \in celery \cup fallback \cup Elements(queue)
    PROVE  tx[t] # "idle"
BY DEF CopiesAreCovered, Copies, One

LEMMA EmitCovered ==
    ASSUME TypeOK, CopiesAreCovered, NEW t \in Changes, Emit(t) PROVE CopiesAreCovered'
<1>1. /\ tx[t] = "idle" /\ tx' = [tx EXCEPT ![t] = "open"] /\ queue' = Append(queue, t)
      /\ UNCHANGED <<fallback, celery, delivered, repeats>>
  BY DEF Emit, celeryVars, history
<1>2. queue \in Seq(Changes) /\ Distinct(queue) /\ t \notin Elements(queue)
  BY <1>1, HeldIsBegun DEF CopiesAreCovered, TypeOK
<1>3. Elements(queue)' = Elements(queue) \cup {t} /\ Distinct(queue')
  BY <1>1, <1>2, AppendElements
<1>4. ASSUME NEW u \in Changes
      PROVE  /\ tx'[u] = "idle" => delivered'[u] = 0 /\ Copies(u)' = 0
             /\ delivered'[u] + Copies(u)' <= 1 + repeats'[u]
  <2>1. /\ tx[u] = "idle" => delivered[u] = 0 /\ Copies(u) = 0
        /\ delivered[u] + Copies(u) <= 1 + repeats[u]
        /\ delivered[u] \in Nat /\ repeats[u] \in Nat
    BY DEF CopiesAreCovered, TypeOK
  <2>2. CASE u # t
    <3>1. Copies(u)' = Copies(u) /\ tx'[u] = tx[u]
      BY <1>1, <1>3, <2>2 DEF Copies, One, TypeOK
    <3> QED BY <1>1, <2>1, <3>1
  <2>3. CASE u = t
    <3>1. t \notin celery /\ t \notin fallback
      BY <1>1, HeldIsBegun
    <3>2. Copies(t)' = 1 /\ delivered[t] = 0 /\ tx'[t] = "open"
      BY <1>1, <1>3, <2>1, <2>3, <3>1 DEF Copies, One, TypeOK
    <3> QED BY <1>1, <2>1, <2>3, <3>2
  <2> QED BY <2>2, <2>3
<1> QED BY <1>3, <1>4 DEF CopiesAreCovered

LEMMA ProcessCovered ==
    ASSUME TypeOK, CopiesAreCovered, ProcessEvent PROVE CopiesAreCovered'
<1> DEFINE t == Head(queue)
<1>1. /\ queue' = Tail(queue) /\ queue # <<>> /\ EnqueueNotification(t)
      /\ UNCHANGED <<tx, delivered>>
  BY DEF ProcessEvent
<1>2. /\ t \in Elements(queue) /\ t \in Changes
      /\ Elements(queue)' = Elements(queue) \ {t} /\ Distinct(queue')
  BY <1>1, TailElements DEF TypeOK, CopiesAreCovered
<1>3. tx[t] # "idle"
  BY <1>2, HeldIsBegun
<1>4. /\ repeats \in [Changes -> Nat] /\ delivered \in [Changes -> Nat]
  BY DEF TypeOK
<1> HIDE DEF t
<1>5. /\ \A u \in Changes \ {t} : /\ repeats'[u] = repeats[u]
                                  /\ u \in celery' <=> u \in celery
                                  /\ u \in fallback' <=> u \in fallback
      /\ One(t \in celery') + One(t \in fallback') - repeats'[t]
            <= 1 + One(t \in celery) + One(t \in fallback) - repeats[t]
  <2>1. CASE ToCelery(t) /\ UNCHANGED <<fallback, repeats>>
    BY <1>2, <1>4, <2>1 DEF ToCelery, One
  <2>2. CASE ToFallback(t) /\ UNCHANGED <<celery, repeats>>
    BY <1>2, <1>4, <2>2 DEF ToFallback, One
  <2>3. CASE ToCelery(t) /\ ToFallback(t) /\ repeats' = [repeats EXCEPT ![t] = repeats[t] + 1]
    <3>1. /\ celery' = celery \cup {t} /\ fallback' = fallback \cup {t}
          /\ repeats'[t] = repeats[t] + 1 /\ repeats[t] \in Nat
          /\ \A u \in Changes \ {t} : repeats'[u] = repeats[u]
      BY <1>2, <1>4, <2>3 DEF ToCelery, ToFallback
    <3>2. t \in celery' /\ t \in fallback'
      BY <3>1
    <3> QED BY <3>1, <3>2 DEF One
  <2> QED BY <1>1, <2>1, <2>2, <2>3 DEF EnqueueNotification
<1>6. ASSUME NEW u \in Changes
      PROVE  /\ tx'[u] = "idle" => delivered'[u] = 0 /\ Copies(u)' = 0
             /\ delivered'[u] + Copies(u)' <= 1 + repeats'[u]
  <2>1. /\ tx[u] = "idle" => delivered[u] = 0 /\ Copies(u) = 0
        /\ delivered[u] + Copies(u) <= 1 + repeats[u]
        /\ delivered[u] \in Nat /\ repeats[u] \in Nat
    BY DEF CopiesAreCovered, TypeOK
  <2>2. CASE u # t
    <3>1. Copies(u)' = Copies(u) /\ repeats'[u] = repeats[u]
      BY <1>2, <1>5, <2>2 DEF Copies, One
    <3> QED BY <1>1, <2>1, <3>1
  <2>3. CASE u = t
    <3>1. repeats'[u] \in Nat
      BY <1>1, <1>2, <2>3, EnqueueNotificationType
    <3>2. One(u \in Elements(queue)) = 1 /\ One(u \in Elements(queue')) = 0
      BY <1>2, <2>3 DEF One
    <3>3. /\ One(u \in celery) \in Nat /\ One(u \in fallback) \in Nat
          /\ One(u \in celery') \in Nat /\ One(u \in fallback') \in Nat
      BY DEF One
    <3>4. Copies(u)' = One(u \in celery') + One(u \in fallback')
      BY <3>2, <3>3 DEF Copies
    <3>5. Copies(u) = 1 + One(u \in celery) + One(u \in fallback)
      BY <3>2, <3>3 DEF Copies
    <3>6. One(u \in celery') + One(u \in fallback') - repeats'[u]
             <= 1 + One(u \in celery) + One(u \in fallback) - repeats[u]
      BY <1>5, <2>3
    <3>7. delivered'[u] = delivered[u] /\ tx'[u] # "idle"
      BY <1>1, <1>3, <2>3
    <3>8. delivered[u] + Copies(u)' <= 1 + repeats'[u]
      BY <2>1, <3>1, <3>3, <3>4, <3>5, <3>6 DEF One
    <3> QED BY <3>7, <3>8
  <2> QED BY <2>2, <2>3
<1> QED BY <1>2, <1>6 DEF CopiesAreCovered

\* A message leaves the broker or the fallback at the moment it is sent.
LEMMA SendCovered ==
    ASSUME TypeOK, CopiesAreCovered, NEW t \in Changes,
           CeleryDelivers(t) \/ CeleryRetries(t) \/ FallbackRuns(t)
    PROVE  CopiesAreCovered'
<1>1. delivered \in [Changes -> Nat] /\ repeats \in [Changes -> Nat]
  BY DEF TypeOK
<1>2. UNCHANGED <<tx, queue, repeats>> /\ t \in celery \cup fallback
  BY DEF CeleryDelivers, CeleryRetries, FallbackRuns, busVars, history
<1>3. tx[t] # "idle"
  BY <1>2, HeldIsBegun
<1>4. delivered' = delivered \/ delivered' = [delivered EXCEPT ![t] = delivered[t] + 1]
  BY DEF CeleryDelivers, CeleryRetries, FallbackRuns, Send, history
<1>5. /\ delivered' \in [Changes -> Nat] /\ delivered'[t] <= delivered[t] + 1
      /\ delivered' = delivered \/ delivered'[t] = delivered[t] + 1
      /\ \A u \in Changes \ {t} : delivered'[u] = delivered[u]
  BY <1>1, <1>4
<1>6. \/ t \in celery /\ celery' = celery \ {t} /\ fallback' = fallback
      \/ t \in fallback /\ fallback' = fallback \ {t} /\ celery' = celery
      \/ UNCHANGED <<celery, fallback, delivered>>
  BY DEF CeleryDelivers, CeleryRetries, FallbackRuns, busVars, celeryVars, history
<1>7. delivered'[t] + One(t \in celery') + One(t \in fallback') - repeats'[t]
         <= delivered[t] + One(t \in celery) + One(t \in fallback) - repeats[t]
  <2>1. delivered'[t] \in Nat /\ delivered[t] \in Nat /\ repeats'[t] = repeats[t]
        /\ repeats[t] \in Nat
    BY <1>1, <1>2, <1>5
  <2>2. CASE t \in celery /\ celery' = celery \ {t} /\ fallback' = fallback
    <3>1. One(t \in celery) = 1 /\ One(t \in celery') = 0
          /\ One(t \in fallback') = One(t \in fallback) /\ One(t \in fallback) \in Nat
      BY <2>2 DEF One
    <3> QED BY <1>5, <2>1, <3>1
  <2>3. CASE t \in fallback /\ fallback' = fallback \ {t} /\ celery' = celery
    <3>1. One(t \in fallback) = 1 /\ One(t \in fallback') = 0
          /\ One(t \in celery') = One(t \in celery) /\ One(t \in celery) \in Nat
      BY <2>3 DEF One
    <3> QED BY <1>5, <2>1, <3>1
  <2>4. CASE UNCHANGED <<celery, fallback, delivered>>
    <3>1. One(t \in celery) \in Nat /\ One(t \in fallback) \in Nat
      BY DEF One
    <3> QED BY <2>1, <2>4, <3>1
  <2> QED BY <1>6, <2>2, <2>3, <2>4
<1>8. \A u \in Changes \ {t} : u \in celery' <=> u \in celery
  BY <1>6
<1>9. \A u \in Changes \ {t} : u \in fallback' <=> u \in fallback
  BY <1>6
<1> QED BY <1>1, <1>2, <1>3, <1>5, <1>7, <1>8, <1>9, DispatchCovered

LEMMA LossCovered ==
    ASSUME TypeOK, CopiesAreCovered, NEW t \in Changes, WorkerLost(t)
    PROVE  CopiesAreCovered'
<1>1. delivered \in [Changes -> Nat] /\ repeats \in [Changes -> Nat]
  BY DEF TypeOK
<1>2. UNCHANGED <<tx, queue, celery, fallback>> /\ t \in celery
  BY DEF WorkerLost, busVars
<1>3. tx[t] # "idle"
  BY <1>2, HeldIsBegun
<1>4. \/ /\ delivered' = [delivered EXCEPT ![t] = delivered[t] + 1]
         /\ repeats' = [repeats EXCEPT ![t] = repeats[t] + 1]
      \/ UNCHANGED <<delivered, repeats>>
  BY DEF WorkerLost
<1>5. /\ delivered' \in [Changes -> Nat] /\ repeats' \in [Changes -> Nat]
      /\ delivered'[t] - repeats'[t] = delivered[t] - repeats[t]
      /\ \A u \in Changes \ {t} : delivered'[u] = delivered[u] /\ repeats'[u] = repeats[u]
  BY <1>1, <1>4
<1>6. /\ One(t \in celery') = One(t \in celery) /\ One(t \in celery) \in Nat
      /\ One(t \in fallback') = One(t \in fallback) /\ One(t \in fallback) \in Nat
  BY <1>2 DEF One
<1>7. delivered'[t] + One(t \in celery') + One(t \in fallback') - repeats'[t]
         <= delivered[t] + One(t \in celery) + One(t \in fallback) - repeats[t]
  BY <1>1, <1>5, <1>6
<1> QED BY <1>1, <1>2, <1>3, <1>5, <1>7, DispatchCovered

\* Steps that send nothing and put nothing on its way.
LEMMA QuietCovered ==
    ASSUME TypeOK, CopiesAreCovered, UNCHANGED <<celery, delivered, repeats>>,
           \/ queue' = queue /\ fallback' = fallback
           \/ queue' = <<>> /\ fallback' = {},
           \A u \in Changes : tx'[u] = "idle" => tx[u] = "idle"
    PROVE  CopiesAreCovered'
<1>1. Elements(queue)' \subseteq Elements(queue) /\ fallback' \subseteq fallback
  BY DEF Elements
<1>2. Distinct(queue')
  BY DEF Distinct, CopiesAreCovered
<1>3. ASSUME NEW u \in Changes
      PROVE  /\ tx'[u] = "idle" => delivered'[u] = 0 /\ Copies(u)' = 0
             /\ delivered'[u] + Copies(u)' <= 1 + repeats'[u]
  <2>1. /\ tx[u] = "idle" => delivered[u] = 0 /\ Copies(u) = 0
        /\ delivered[u] + Copies(u) <= 1 + repeats[u]
        /\ delivered[u] \in Nat /\ repeats[u] \in Nat
    BY DEF CopiesAreCovered, TypeOK
  <2>2. Copies(u)' <= Copies(u) /\ Copies(u)' \in Nat /\ Copies(u) \in Nat
    BY <1>1 DEF Copies, One
  <2> QED BY <2>1, <2>2
<1> QED BY <1>2, <1>3 DEF CopiesAreCovered

LEMMA StepCovered == TypeOK /\ CopiesAreCovered /\ [Next]_vars => CopiesAreCovered'
<1> SUFFICES ASSUME TypeOK, CopiesAreCovered, [Next]_vars PROVE CopiesAreCovered'
  OBVIOUS
<1>1. ASSUME NEW t \in Changes, Emit(t) PROVE CopiesAreCovered'
  BY <1>1, EmitCovered
<1>2. ASSUME NEW t \in Changes, Commit(t) \/ RollBack(t) PROVE CopiesAreCovered'
  <2>1. UNCHANGED <<celery, delivered, repeats>> /\ UNCHANGED <<queue, fallback>>
        /\ \A u \in Changes : tx'[u] = "idle" => tx[u] = "idle"
    BY <1>2 DEF Commit, RollBack, busVars, celeryVars, history, TypeOK
  <2> QED BY <2>1, QuietCovered
<1>3. CASE ProcessEvent
  BY <1>3, ProcessCovered
<1>4. ASSUME NEW t \in Changes, Dispatch(t) \/ WorkerLost(t) PROVE CopiesAreCovered'
  BY <1>4, SendCovered, LossCovered DEF Dispatch
<1>5. CASE StopBus \/ Start \/ UNCHANGED vars
  <2>1. UNCHANGED <<celery, delivered, repeats>> /\ UNCHANGED <<queue, fallback>>
        /\ tx' = tx
    BY <1>5 DEF StopBus, Start, vars, busVars, celeryVars, history
  <2> QED BY <2>1, QuietCovered
<1>6. CASE Exit
  <2>1. /\ UNCHANGED <<celery, delivered, repeats>> /\ queue' = <<>> /\ fallback' = {}
        /\ \A u \in Changes : tx'[u] = "idle" => tx[u] = "idle"
    BY <1>6 DEF Exit, celeryVars
  <2> QED BY <2>1, QuietCovered
<1> QED BY <1>1, <1>2, <1>3, <1>4, <1>5, <1>6 DEF Next

\* However often the broker loses an answer, a worker dies, a task is retried or the
\* application restarts, a change is announced at most once more than there were
\* reasons for.
THEOREM RepeatsHaveReasons == Spec => []RepeatsAreExplained
<1>1. Init => CopiesAreCovered
  BY DEF Init, CopiesAreCovered, Copies, One, Elements, Distinct
<1>2. TypeOK /\ CopiesAreCovered => RepeatsAreExplained
  <2> SUFFICES ASSUME TypeOK, CopiesAreCovered, NEW t \in Changes
               PROVE  delivered[t] <= 1 + repeats[t]
    BY DEF RepeatsAreExplained
  <2>1. delivered[t] \in Nat /\ repeats[t] \in Nat /\ delivered[t] + Copies(t) <= 1 + repeats[t]
    BY DEF TypeOK, CopiesAreCovered
  <2> QED BY <2>1, CopiesType
<1> QED BY <1>1, <1>2, TypeCorrect, StepCovered, PTL DEF Spec
=============================================================================
