-------------------- MODULE CheckoutConversation_proofs --------------------
(***************************************************************************)
(* Proofs about CheckoutConversation, for any number of handlers at work   *)
(* at once, orders, writes of user_data and restarts.  As long as nothing  *)
(* was merged back, no two updates overlapped and no handler failed, the   *)
(* keys of user_data agree with the customer's answers but for what the    *)
(* handler at work is still to write; and the order nobody decided about   *)
(* is the one that user_data names.                                        *)
(***************************************************************************)
EXTENDS CheckoutConversation, TLAPS

Orders == [status : {"pending", "cancelled"}, reported : BOOLEAN]
Answers == [address : Addresses \cup {NoAnswer, "typed"},
            method : Methods \cup {NoAnswer}, coupon : {NoAnswer, "given"}]

\* What user_data and its persisted copy have in common.
Sound(d) ==
    /\ DOMAIN d \subseteq CheckoutKeys
    /\ Has(d, "address") => d["address"] \in Addresses
    /\ Has(d, "method") => d["method"] \in Methods
    /\ Has(d, "order") => d["order"] \in DOMAIN orders

\* A handler that waits for the provider, or for Telegram to report its order.
Flying(u) == task[u].do \in {"provider", "report"}

StateInv ==
    /\ conv \in States /\ answers \in Answers
    /\ orders \in Seq(Orders)
    /\ Sound(data) /\ Sound(saved)
    /\ DOMAIN task = Updates /\ \A u \in Updates : TaskOK(task[u])
    /\ \A u \in Updates : Flying(u) => ~ orders[task[u].order].reported
    /\ \A u, v \in Updates :
          Flying(u) /\ Flying(v) /\ u # v => task[u].order # task[v].order
    /\ stranded \subseteq DOMAIN orders

OneAtATime == ~ disturbed => \A u, v \in Updates : Busy(u) /\ Busy(v) => u = v

\* The keys d has are what was answered.
AddressAgrees(d, given) ==
    /\ Has(d, "address") => d["address"] = given.address
    /\ Has(d, "pending") => given.address = "typed" /\ ~ Has(d, "address")
MethodAgrees(d, given) == Has(d, "method") => d["method"] = given.method
CouponAgrees(d, given) == Has(d, "coupon") <=> given.coupon = "given"
Answered(d, given) ==
    AddressAgrees(d, given) /\ MethodAgrees(d, given) /\ CouponAgrees(d, given)

\* So they are, but for what a handler at t is still to write; and its local
\* variables are what was answered.
Agrees(t, d, given) ==
    /\ t.do \notin {"choose", "locate"} => AddressAgrees(d, given)
    /\ t.do # "method" => MethodAgrees(d, given)
    /\ t.do # "skip" => CouponAgrees(d, given)
    /\ t.do = "choose" => t.address = given.address /\ ~ Has(d, "pending")
    /\ t.do \in {"locate", "save", "saved"} => given.address = "typed"
    /\ t.do = "method" => t.method = given.method
    /\ t.do = "skip" => given.coupon # "given"
    /\ t.do = "create" => t.address = given.address /\ t.method = given.method
    /\ t.do = "return" => (t.to = "address" => ~ Has(d, "pending"))

AnswersAgree ==
    ~ mixed /\ ~ disturbed =>
        /\ \A u \in Updates : Busy(u) => Agrees(task[u], data, answers)
        /\ (\A u \in Updates : ~ Busy(u)) =>
              Answered(data, answers) /\ (conv = "address" => ~ Has(data, "pending"))

NamedIsUnreported == ~ mixed => \A o \in Named(data) : ~ orders[o].reported

\* An order that was neither paid for nor let go of, and that nobody cancels.
Open(o) ==
    /\ o \in DOMAIN orders \ stranded
    /\ Pending(o) /\ ~ orders[o].reported
    /\ \A u \in Updates : task[u].do = "cancel" => task[u].order # o

\* The steps that the confirmation's buttons lead to first; all but the last belong
\* to the confirmation alone.
Deciding == {"confirm", "create", "retry", "leave"}
Ordering == {"confirm", "create", "retry"}

OpenIsNamed ==
    /\ \A o \in DOMAIN orders : Open(o) => Named(data) = {o}
    /\ ~ disturbed =>
          /\ \A o \in DOMAIN orders : Open(o) =>
                conv = "confirm" /\ \A u \in Updates : Busy(u) => task[u].do \in Deciding
          /\ \A u \in Updates : task[u].do \in Ordering => conv = "confirm"

IInv == StateInv /\ OneAtATime /\ AnswersAgree /\ NamedIsUnreported /\ OpenIsNamed

-----------------------------------------------------------------------------
(* user_data                                                               *)

LEMMA KeysAreKeys ==
    /\ {"address", "pending", "name", "phone", "resume", "method", "order", "coupon",
        "checked"} = AnswerKeys
    /\ AnswerKeys \subseteq CheckoutKeys /\ "active" \in CheckoutKeys
    /\ "active" \notin AnswerKeys
BY DEF AnswerKeys, CheckoutKeys

LEMMA RefreshedFacts ==
    /\ DOMAIN Refreshed = DOMAIN data \cup DOMAIN saved
    /\ \A x \in DOMAIN data : Refreshed[x] = data[x]
    /\ \A x \in DOMAIN saved \ DOMAIN data : Refreshed[x] = saved[x]
BY DEF Refreshed

\* A key that is set or removed leaves user_data sound and names the same order.
LEMMA PutSound ==
    ASSUME NEW d, Sound(d), NEW k \in CheckoutKeys, NEW v,
           k = "address" => v \in Addresses, k = "method" => v \in Methods,
           k = "order" => v \in DOMAIN orders
    PROVE  Sound(Put(d, k, v)) /\ (k # "order" => Named(Put(d, k, v)) = Named(d))
<1> DEFINE e == Put(d, k, v)
<1>1. DOMAIN e = DOMAIN d \cup {k}
  BY DEF Put
<1>2. e[k] = v
  BY DEF Put
<1>3. \A x \in DOMAIN d \ {k} : e[x] = d[x]
  BY DEF Put
<1> HIDE DEF e
<1>4. DOMAIN e \subseteq CheckoutKeys
  BY <1>1 DEF Sound
<1>5. /\ Has(e, "address") => e["address"] \in Addresses
      /\ Has(e, "method") => e["method"] \in Methods
      /\ Has(e, "order") => e["order"] \in DOMAIN orders
  BY <1>1, <1>2, <1>3 DEF Sound, Has
<1>6. k # "order" => Named(e) = Named(d)
  BY <1>1, <1>3 DEF Named, Has
<1> QED BY <1>4, <1>5, <1>6 DEF e, Sound

LEMMA PopSound ==
    ASSUME NEW d, Sound(d), NEW K
    PROVE  Sound(Pop(d, K)) /\ ("order" \notin K => Named(Pop(d, K)) = Named(d))
<1>1. /\ DOMAIN Pop(d, K) = DOMAIN d \ K
      /\ \A x \in DOMAIN d \ K : Pop(d, K)[x] = d[x]
  BY DEF Pop, Restrict
<1>2. Sound(Pop(d, K))
  BY <1>1 DEF Sound, Has
<1>3. "order" \notin K => Named(Pop(d, K)) = Named(d)
  BY <1>1 DEF Named, Has
<1> QED BY <1>2, <1>3

LEMMA PutHas ==
    ASSUME NEW d, NEW k, NEW v, NEW x
    PROVE  /\ Has(Put(d, k, v), x) <=> (x = k \/ Has(d, x))
           /\ Has(Put(d, k, v), x) => Put(d, k, v)[x] = IF x = k THEN v ELSE d[x]
BY DEF Put, Has

LEMMA PopHas ==
    ASSUME NEW d, NEW K, NEW x
    PROVE  /\ Has(Pop(d, K), x) <=> (x \notin K /\ Has(d, x))
           /\ Has(Pop(d, K), x) => Pop(d, K)[x] = d[x]
BY DEF Pop, Restrict, Has

LEMMA NoAnswersFacts ==
    /\ NoAnswers \in Answers
    /\ NoAnswers.coupon # "given"
BY DEF NoAnswers, NoAnswer, Answers

\* A checkout that was just cleared has no answers.
LEMMA ClearFacts ==
    ASSUME NEW d, Sound(d)
    PROVE  /\ Sound(Clear(d)) /\ DOMAIN Clear(d) = {} /\ Named(Clear(d)) = {}
           /\ Answered(Clear(d), NoAnswers)
<1>1. DOMAIN Clear(d) = {}
  <2>1. DOMAIN Clear(d) = DOMAIN d \ CheckoutKeys
    BY DEF Clear, Pop, Restrict
  <2> QED BY <2>1 DEF Sound
<1>2. Sound(Clear(d))
  BY <1>1 DEF Sound, Has
<1>3. Named(Clear(d)) = {}
  BY <1>1 DEF Named, Has
<1>4. Answered(Clear(d), NoAnswers)
  BY <1>1, NoAnswersFacts DEF Answered, AddressAgrees, MethodAgrees, CouponAgrees, Has
<1> QED BY <1>1, <1>2, <1>3, <1>4

\* The keys that answers are read from.
SameAnswers(e, d) ==
    \A key \in {"address", "pending", "method", "coupon"} :
        /\ Has(e, key) <=> Has(d, key)
        /\ Has(e, key) => e[key] = d[key]

LEMMA SameAgrees ==
    ASSUME NEW d, NEW e, SameAnswers(e, d), NEW t, NEW given
    PROVE  /\ Agrees(t, d, given) => Agrees(t, e, given)
           /\ Answered(d, given) => Answered(e, given)
           /\ Has(e, "pending") <=> Has(d, "pending")
<1>1. /\ AddressAgrees(d, given) => AddressAgrees(e, given)
      /\ MethodAgrees(d, given) => MethodAgrees(e, given)
      /\ CouponAgrees(d, given) => CouponAgrees(e, given)
      /\ Has(e, "pending") <=> Has(d, "pending")
  BY DEF SameAnswers, AddressAgrees, MethodAgrees, CouponAgrees
<1>2. Agrees(t, d, given) => Agrees(t, e, given)
  BY <1>1 DEF Agrees
<1> QED BY <1>1, <1>2 DEF Answered

LEMMA PutOther ==
    ASSUME NEW d, NEW k, NEW v, k \notin {"address", "pending", "method", "coupon"}
    PROVE  SameAnswers(Put(d, k, v), d)
BY PutHas DEF SameAnswers

LEMMA PopOther ==
    ASSUME NEW d, NEW K, K \cap {"address", "pending", "method", "coupon"} = {}
    PROVE  SameAnswers(Pop(d, K), d)
BY PopHas DEF SameAnswers

\* Most handlers have written all that was answered.
Writing == {"choose", "locate", "save", "saved", "method", "skip", "create", "return"}

LEMMA AgreesIsAnswered ==
    ASSUME NEW t, NEW d, NEW given
    PROVE  /\ t.do \notin Writing => (Agrees(t, d, given) <=> Answered(d, given))
           /\ t.do = "return" => (Agrees(t, d, given) <=>
                 Answered(d, given) /\ (t.to = "address" => ~ Has(d, "pending")))
BY DEF Agrees, Answered, Writing

-----------------------------------------------------------------------------
(* What a handler finds after the refresh                                  *)

LEMMA RefreshedIsSound ==
    ASSUME StateInv
    PROVE  /\ Sound(Refreshed)
           /\ Has(data, "order") => Named(Refreshed) = Named(data)
           /\ ~ MergesBack => /\ Named(Refreshed) = Named(data)
                              /\ SameAnswers(Refreshed, data)
<1>1. Sound(data) /\ Sound(saved)
  BY DEF StateInv
<1>2. Sound(Refreshed)
  BY <1>1, RefreshedFacts DEF Sound, Has
<1>3. Has(data, "order") => Named(Refreshed) = Named(data)
  BY RefreshedFacts DEF Has, Named
<1>4. ASSUME ~ MergesBack
      PROVE  Named(Refreshed) = Named(data) /\ SameAnswers(Refreshed, data)
  <2>1. \A key \in AnswerKeys :
           /\ Has(Refreshed, key) <=> Has(data, key)
           /\ Has(data, key) => Refreshed[key] = data[key]
    BY <1>4, RefreshedFacts DEF MergesBack, Has
  <2>2. {"address", "pending", "method", "coupon", "order"} \subseteq AnswerKeys
    BY DEF AnswerKeys
  <2> QED BY <2>1, <2>2 DEF SameAnswers, Named
<1> QED BY <1>2, <1>3, <1>4

\* Most handlers begin with the checkout marked as active.
LEMMA ActivatedFacts ==
    ASSUME NEW d, Sound(d)
    PROVE  /\ Sound(Activated(d)) /\ Named(Activated(d)) = Named(d)
           /\ SameAnswers(Activated(d), d)
<1>1. Sound(Activated(d)) /\ Named(Activated(d)) = Named(d)
  BY PutSound, KeysAreKeys DEF Activated
<1>2. SameAnswers(Activated(d), d)
  BY PutOther DEF Activated
<1> QED BY <1>1, <1>2

-----------------------------------------------------------------------------
(* What a step of one handler leaves alone                                 *)

LEMMA TaskFacts ==
    ASSUME StateInv, NEW u \in Updates, NEW todo, task' = [task EXCEPT ![u] = todo]
    PROVE  /\ DOMAIN task' = Updates /\ task'[u] = todo
           /\ \A v \in Updates \ {u} : task'[v] = task[v]
BY DEF StateInv

\* The state stays sound when a handler goes on that has no order in flight.
LEMMA StateKept ==
    ASSUME StateInv, NEW u \in Updates, NEW todo, task' = [task EXCEPT ![u] = todo],
           todo.do \notin {"provider", "report"}, TaskOK(todo),
           NEW d, data' = d, Sound(d), UNCHANGED <<saved, orders>>,
           conv' \in States, answers' \in Answers, stranded' \subseteq DOMAIN orders
    PROVE  StateInv'
<1>1. /\ DOMAIN task' = Updates /\ task'[u] = todo
      /\ \A v \in Updates \ {u} : task'[v] = task[v]
  BY TaskFacts
<1>2. Sound(data)' /\ Sound(saved)'
  BY DEF StateInv, Sound
<1>3. (DOMAIN task = Updates /\ \A v \in Updates : TaskOK(task[v]))'
  BY <1>1 DEF StateInv, TaskOK
<1>4. \A v \in Updates : Flying(v)' => v # u /\ Flying(v)
  BY <1>1 DEF Flying
<1>5. (\A v \in Updates : Flying(v) => ~ orders[task[v].order].reported)'
  BY <1>1, <1>4 DEF StateInv
<1>6. (\A v, w \in Updates :
          Flying(v) /\ Flying(w) /\ v # w => task[v].order # task[w].order)'
  BY <1>1, <1>4 DEF StateInv
<1>7. (orders \in Seq(Orders))' /\ (stranded \subseteq DOMAIN orders)'
  BY DEF StateInv
<1> QED BY <1>2, <1>3, <1>5, <1>6, <1>7 DEF StateInv

\* An order that is still open was open before.
LEMMA OpenKept ==
    ASSUME StateInv, NEW u \in Updates, NEW todo, task' = [task EXCEPT ![u] = todo],
           task[u].do # "cancel", UNCHANGED orders, stranded \subseteq stranded',
           NEW o, Open(o)'
    PROVE  Open(o) /\ o \notin stranded' /\ ~ (todo.do = "cancel" /\ todo.order = o)
<1>1. /\ task'[u] = todo /\ \A v \in Updates \ {u} : task'[v] = task[v]
  BY TaskFacts
<1>2. o \in DOMAIN orders \ stranded' /\ Pending(o) /\ ~ orders[o].reported
  BY DEF Open, Pending
<1>3. \A v \in Updates : task'[v].do = "cancel" => task'[v].order # o
  BY DEF Open
<1>4. \A v \in Updates : task[v].do = "cancel" => task[v].order # o
  BY <1>1, <1>3
<1> QED BY <1>1, <1>2, <1>3, <1>4 DEF Open

\* Nobody else is at work when one handler is and nothing was disturbed.
LEMMA Alone ==
    ASSUME OneAtATime, NEW u \in Updates, Busy(u), ~ disturbed
    PROVE  \A v \in Updates \ {u} : ~ Busy(v)
BY DEF OneAtATime

-----------------------------------------------------------------------------
(* The kinds of steps                                                      *)

\* An update arrives.
LEMMA ReceiveIInv ==
    ASSUME IInv, NEW u \in Updates, NEW d, NEW todo, NEW given \in Answers,
           Receive(u, d, todo, given),
           Sound(d), Named(d) = Named(Refreshed), TaskOK(todo),
           todo.do \notin {"none", "provider", "report", "cancel"},
           conv = "confirm" => todo.do \in Deciding,
           todo.do \in Ordering => conv = "confirm",
           Answered(Refreshed, answers) /\ (conv = "address" => ~ Has(Refreshed, "pending"))
               => Agrees(todo, d, given)
    PROVE  IInv'
<1>1. /\ task[u] = Idle /\ data' = d /\ task' = [task EXCEPT ![u] = todo]
      /\ answers' = given /\ UNCHANGED <<conv, saved, orders, stranded>>
  BY DEF Receive
<1>2. /\ ~ mixed' => ~ mixed /\ ~ MergesBack
      /\ ~ disturbed' => ~ disturbed /\ ~ Overlaps(u)
  BY DEF Receive
<1>3. StateInv
  BY DEF IInv
<1>4. /\ DOMAIN task' = Updates /\ task'[u] = todo
      /\ \A v \in Updates \ {u} : task'[v] = task[v]
  BY <1>1, <1>3, TaskFacts
<1>5. StateInv'
  <2>1. conv' \in States /\ answers' \in Answers /\ stranded' \subseteq DOMAIN orders
    BY <1>1, <1>3 DEF StateInv
  <2> QED BY <1>1, <1>3, <2>1, StateKept
<1>6. \A v \in Updates \ {u} : Busy(v)' <=> Busy(v)
  BY <1>4 DEF Busy
<1>7. ~ disturbed' => \A v \in Updates \ {u} : ~ Busy(v)'
  BY <1>2, <1>6 DEF Overlaps
<1>8. ~ Busy(u) /\ task[u].do # "cancel"
  BY <1>1 DEF Busy, Idle, Do
<1>9. Busy(u)'
  BY <1>4 DEF Busy
<1>10. OneAtATime'
  BY <1>7 DEF OneAtATime
<1>11. AnswersAgree'
  <2> SUFFICES ASSUME ~ mixed', ~ disturbed' PROVE Agrees(todo, d, given)
    BY <1>1, <1>4, <1>7, <1>9 DEF AnswersAgree
  <2>1. \A v \in Updates : ~ Busy(v)
    BY <1>2, <1>8 DEF Overlaps
  <2>2. Answered(data, answers) /\ (conv = "address" => ~ Has(data, "pending"))
    BY <1>2, <2>1 DEF IInv, AnswersAgree
  <2>3. SameAnswers(Refreshed, data)
    BY <1>2, <1>3, RefreshedIsSound
  <2>4. Answered(Refreshed, answers)
        /\ (conv = "address" => ~ Has(Refreshed, "pending"))
    BY <2>2, <2>3, SameAgrees
  <2> QED BY <2>4
<1>12. NamedIsUnreported'
  <2>1. ~ mixed' => Named(d) = Named(data) /\ \A o \in Named(data) : ~ orders[o].reported
    BY <1>2, <1>3, RefreshedIsSound DEF IInv, NamedIsUnreported
  <2> QED BY <1>1, <2>1 DEF NamedIsUnreported, Named, Has
<1>13. OpenIsNamed'
  <2>1. ASSUME NEW o \in DOMAIN orders, Open(o)' PROVE Open(o)
    BY <1>1, <1>3, <1>8, <2>1, OpenKept
  <2>2. ASSUME NEW o \in DOMAIN orders, Open(o)' PROVE Named(data)' = {o}
    <3>1. Named(data) = {o}
      BY <2>1, <2>2 DEF IInv, OpenIsNamed
    <3>2. Has(data, "order")
      BY <3>1 DEF Named
    <3>3. Named(d) = {o}
      BY <1>3, <3>1, <3>2, RefreshedIsSound
    <3> QED BY <1>1, <3>3 DEF Named, Has
  <2>3. ASSUME ~ disturbed', NEW o \in DOMAIN orders, Open(o)'
        PROVE  conv' = "confirm" /\ \A v \in Updates : Busy(v)' => task'[v].do \in Deciding
    <3>1. conv = "confirm"
      BY <1>2, <2>1, <2>3 DEF IInv, OpenIsNamed
    <3> QED BY <1>1, <1>4, <1>7, <2>3, <3>1
  <2>4. ASSUME ~ disturbed', NEW v \in Updates, task'[v].do \in Ordering
        PROVE  conv' = "confirm"
    <3>1. v = u
      BY <1>7, <2>4 DEF Busy, Ordering
    <3> QED BY <1>1, <1>4, <2>4, <3>1
  <2>5. DOMAIN orders' = DOMAIN orders
    BY <1>1
  <2> QED BY <2>2, <2>3, <2>4, <2>5 DEF OpenIsNamed
<1> QED BY <1>5, <1>10, <1>11, <1>12, <1>13 DEF IInv

\* A handler goes on after an await.
LEMMA ProceedIInv ==
    ASSUME IInv, NEW u \in Updates, Busy(u), task[u].do # "cancel",
           NEW d, NEW todo, Proceed(u, d, todo), UNCHANGED orders,
           stranded \subseteq stranded', stranded' \subseteq DOMAIN orders,
           answers' \in Answers, Sound(d), Named(d) = Named(data), TaskOK(todo),
           todo.do \notin {"provider", "report"},
           \/ task[u].do \in Deciding => todo.do \in Deciding \cup {"none"}
           \/ \A o \in Named(data) :
                 o \in stranded' \/ (todo.do = "cancel" /\ todo.order = o),
           todo.do \in Ordering => task[u].do \in Ordering,
           todo.do = "none" => task[u].do \in Ordering,
           Agrees(task[u], data, answers) => Agrees(todo, d, answers')
    PROVE  IInv'
<1>1. /\ data' = d /\ task' = [task EXCEPT ![u] = todo]
      /\ conv' = conv /\ saved' = saved
      /\ ~ mixed' => ~ mixed
      /\ ~ disturbed' => ~ disturbed
  BY DEF Proceed
<1>2. StateInv
  BY DEF IInv
<1>3. /\ DOMAIN task' = Updates /\ task'[u] = todo
      /\ \A v \in Updates \ {u} : task'[v] = task[v]
  BY <1>1, <1>2, TaskFacts
<1>4. StateInv'
  <2>1. conv' \in States
    BY <1>1, <1>2 DEF StateInv
  <2> QED BY <1>1, <1>2, <2>1, StateKept
<1>5. ~ disturbed' => \A v \in Updates \ {u} : ~ Busy(v)'
  <2>1. ~ disturbed' => \A v \in Updates \ {u} : ~ Busy(v)
    BY <1>1, Alone DEF IInv
  <2> QED BY <1>3, <2>1 DEF Busy
<1>6. OneAtATime'
  BY <1>5 DEF OneAtATime
<1>7. AnswersAgree'
  <2> SUFFICES ASSUME ~ mixed', ~ disturbed' PROVE AnswersAgree'
    BY DEF AnswersAgree
  <2>1. Agrees(todo, d, answers')
    BY <1>1 DEF IInv, AnswersAgree
  <2>2. CASE todo.do = "none"
    <3>1. conv = "confirm"
      BY <1>1, <2>2 DEF IInv, OpenIsNamed
    <3>2. Answered(d, answers')
      BY <2>1, <2>2, AgreesIsAnswered DEF Writing
    <3>3. \A v \in Updates : ~ Busy(v)'
      BY <1>3, <1>5, <2>2 DEF Busy
    <3> QED BY <1>1, <3>1, <3>2, <3>3 DEF AnswersAgree
  <2>3. CASE todo.do # "none"
    <3>1. Busy(u)'
      BY <1>3, <2>3 DEF Busy
    <3> QED BY <1>1, <1>3, <1>5, <2>1, <3>1 DEF AnswersAgree
  <2> QED BY <2>2, <2>3
<1>8. NamedIsUnreported'
  <2>1. ~ mixed' => \A o \in Named(d) : ~ orders[o].reported
    BY <1>1 DEF IInv, NamedIsUnreported
  <2> QED BY <1>1, <2>1 DEF NamedIsUnreported, Named, Has
<1>9. OpenIsNamed'
  <2>1. ASSUME NEW o \in DOMAIN orders, Open(o)'
        PROVE  /\ Open(o) /\ Named(data) = {o}
               /\ o \notin stranded' /\ ~ (todo.do = "cancel" /\ todo.order = o)
    <3>1. Open(o) /\ o \notin stranded' /\ ~ (todo.do = "cancel" /\ todo.order = o)
      BY <1>1, <1>2, <2>1, OpenKept
    <3> QED BY <3>1 DEF IInv, OpenIsNamed
  <2>2. ASSUME NEW o \in DOMAIN orders, Open(o)' PROVE Named(data)' = {o}
    <3>1. Named(d) = {o}
      BY <2>1, <2>2
    <3> QED BY <1>1, <3>1 DEF Named, Has
  <2>3. ASSUME ~ disturbed', NEW o \in DOMAIN orders, Open(o)'
        PROVE  conv' = "confirm" /\ \A v \in Updates : Busy(v)' => task'[v].do \in Deciding
    <3>1. /\ conv = "confirm" /\ task[u].do \in Deciding
      BY <1>1, <2>1, <2>3 DEF IInv, OpenIsNamed
    <3>2. todo.do \in Deciding \cup {"none"}
      BY <2>1, <2>3, <3>1
    <3>3. Busy(u)' => task'[u].do \in Deciding
      BY <1>3, <3>2 DEF Busy
    <3> QED BY <1>1, <1>5, <2>3, <3>1, <3>3
  <2>4. ASSUME ~ disturbed', NEW v \in Updates, task'[v].do \in Ordering
        PROVE  conv' = "confirm"
    <3>1. task[v].do \in Ordering
      BY <1>3, <2>4
    <3> QED BY <1>1, <2>4, <3>1 DEF IInv, OpenIsNamed
  <2> QED BY <2>2, <2>3, <2>4 DEF OpenIsNamed
<1> QED BY <1>4, <1>6, <1>7, <1>8, <1>9 DEF IInv

\* A handler removes the keys of the checkout.
LEMMA WipeIInv ==
    ASSUME IInv, NEW u \in Updates, NEW d, NEW todo, Wipe(u, d, todo),
           Sound(d), Named(d) = {}, Agrees(todo, d, NoAnswers), TaskOK(todo),
           todo.do \notin {"none", "provider", "report", "cancel"} \cup Deciding,
           orders' \in Seq(Orders), DOMAIN orders' = DOMAIN orders,
           stranded' \subseteq DOMAIN orders,
           \A v \in Updates \ {u} :
               Flying(v) => orders'[task[v].order].reported = orders[task[v].order].reported,
           \A o \in DOMAIN orders : ~ Open(o)'
    PROVE  IInv'
<1>1. /\ data' = d /\ task' = [task EXCEPT ![u] = todo]
      /\ answers' = NoAnswers /\ UNCHANGED <<conv, saved>>
      /\ ~ disturbed' => ~ Overlaps(u)
  BY DEF Wipe
<1>2. StateInv
  BY DEF IInv
<1>3. /\ DOMAIN task' = Updates /\ task'[u] = todo
      /\ \A v \in Updates \ {u} : task'[v] = task[v]
  BY <1>1, <1>2, TaskFacts
<1>4. StateInv'
  <2>1. Sound(data)' /\ Sound(saved)'
    BY <1>1, <1>2 DEF StateInv, Sound
  <2>2. (DOMAIN task = Updates /\ \A v \in Updates : TaskOK(task[v]))'
    BY <1>2, <1>3 DEF StateInv, TaskOK
  <2>3. \A v \in Updates : Flying(v)' => v # u /\ Flying(v)
    BY <1>3 DEF Flying
  <2>4. (\A v \in Updates : Flying(v) => ~ orders[task[v].order].reported)'
    BY <1>2, <1>3, <2>3 DEF StateInv
  <2>5. (\A v, w \in Updates :
            Flying(v) /\ Flying(w) /\ v # w => task[v].order # task[w].order)'
    BY <1>2, <1>3, <2>3 DEF StateInv
  <2>6. conv' \in States /\ answers' \in Answers
    BY <1>1, <1>2, NoAnswersFacts DEF StateInv
  <2> QED BY <2>1, <2>2, <2>4, <2>5, <2>6 DEF StateInv
<1>5. ~ disturbed' => \A v \in Updates \ {u} : ~ Busy(v)'
  BY <1>1, <1>3 DEF Overlaps, Busy
<1>6. Busy(u)'
  BY <1>3 DEF Busy
<1>7. OneAtATime'
  BY <1>5 DEF OneAtATime
<1>8. AnswersAgree'
  BY <1>1, <1>3, <1>5, <1>6 DEF AnswersAgree
<1>9. NamedIsUnreported'
  BY <1>1 DEF NamedIsUnreported, Named, Has
<1>10. OpenIsNamed'
  <2>1. ~ disturbed' => \A v \in Updates : task'[v].do \notin Ordering
    BY <1>3, <1>5 DEF Busy, Ordering, Deciding
  <2> QED BY <2>1 DEF OpenIsNamed
<1> QED BY <1>4, <1>7, <1>8, <1>9, <1>10 DEF IInv

\* A handler returns, or fails.
LEMMA ReturnIInv ==
    ASSUME IInv, NEW u \in Updates, Busy(u), task[u].do # "cancel",
           NEW state \in States, Return(u, state), UNCHANGED <<data, orders, stranded>>,
           ~ disturbed' => ~ disturbed /\ task[u].do \notin (Writing \cup Deciding) \ {"return"}
                           /\ (state = "address" => task[u].do = "return" /\ task[u].to = state)
    PROVE  IInv'
<1>1. /\ conv' = state /\ task' = [task EXCEPT ![u] = Idle]
      /\ UNCHANGED <<saved, answers, mixed>>
  BY DEF Return
<1>2. StateInv /\ Idle.do = "none"
  BY DEF IInv, Idle, Do
<1>3. /\ DOMAIN task' = Updates /\ task'[u] = Idle
      /\ \A v \in Updates \ {u} : task'[v] = task[v]
  BY <1>1, <1>2, TaskFacts
<1>4. StateInv'
  <2>1. Sound(data) /\ answers' \in Answers /\ stranded' \subseteq DOMAIN orders
    BY <1>1, <1>2 DEF StateInv
  <2>2. TaskOK(Idle)
    BY <1>2 DEF TaskOK
  <2> QED BY <1>1, <1>2, <2>1, <2>2, StateKept
<1>5. ~ disturbed' => \A v \in Updates : ~ Busy(v)'
  <2>1. ~ disturbed' => \A v \in Updates \ {u} : ~ Busy(v)
    BY Alone DEF IInv
  <2> QED BY <1>2, <1>3, <2>1 DEF Busy
<1>6. OneAtATime'
  BY <1>5 DEF OneAtATime
<1>7. AnswersAgree'
  <2> SUFFICES ASSUME ~ mixed', ~ disturbed'
               PROVE  Answered(data, answers) /\ (state = "address" => ~ Has(data, "pending"))
    BY <1>1, <1>5 DEF AnswersAgree
  <2>1. Agrees(task[u], data, answers)
    BY <1>1 DEF IInv, AnswersAgree
  <2> QED BY <2>1, AgreesIsAnswered DEF Writing
<1>8. NamedIsUnreported'
  BY <1>1 DEF IInv, NamedIsUnreported, Named, Has
<1>9. OpenIsNamed'
  <2>1. ASSUME NEW o \in DOMAIN orders, Open(o)' PROVE Open(o)
    BY <1>1, <1>2, <2>1, OpenKept
  <2>2. ASSUME NEW o \in DOMAIN orders, Open(o)' PROVE Named(data)' = {o}
    BY <2>1, <2>2 DEF IInv, OpenIsNamed, Named, Has
  <2>3. ASSUME ~ disturbed', NEW o \in DOMAIN orders, Open(o)' PROVE FALSE
    <3>1. task[u].do \in Deciding
      BY <2>1, <2>3 DEF IInv, OpenIsNamed
    <3> QED BY <2>3, <3>1 DEF Deciding
  <2>4. ASSUME ~ disturbed' PROVE \A v \in Updates : task'[v].do \notin Ordering
    BY <1>5, <2>4 DEF Busy, Ordering
  <2> QED BY <2>2, <2>3, <2>4 DEF OpenIsNamed
<1> QED BY <1>4, <1>6, <1>7, <1>8, <1>9 DEF IInv

-----------------------------------------------------------------------------
(* The way to the confirmation: updates that arrive                        *)

\* Several handlers find no more than the answers that were there.
Quiet == {"start", "coupon", "back", "quit", "show", "clear", "ask"}

LEMMA QuietAgrees ==
    ASSUME NEW todo, NEW d, NEW e, NEW given,
           todo.do \in Quiet \cup (Deciding \ {"create"}), SameAnswers(e, d), Answered(d, given)
    PROVE  Agrees(todo, e, given)
<1>1. todo.do \notin Writing
  BY DEF Quiet, Deciding, Writing
<1>2. Answered(e, given)
  BY SameAgrees
<1> QED BY <1>1, <1>2, AgreesIsAnswered

LEMMA SelfSame == \A d : SameAnswers(d, d)
BY DEF SameAnswers

\* The buttons whose handlers wait for Telegram first.
LEMMA ButtonIInv ==
    ASSUME IInv, NEW u \in Updates, NEW todo, Receive(u, Refreshed, todo, answers),
           todo.do \in {"start", "coupon", "back", "quit", "confirm", "retry", "leave"},
           todo.do = "quit" => todo.screen \in States,
           conv = "confirm" => todo.do \in Deciding,
           todo.do \in Ordering => conv = "confirm"
    PROVE  IInv'
<1>1. StateInv /\ answers \in Answers
  BY DEF IInv, StateInv
<1>2. Sound(Refreshed) /\ TaskOK(todo)
  BY <1>1, RefreshedIsSound DEF TaskOK
<1>3. Answered(Refreshed, answers) => Agrees(todo, Refreshed, answers)
  BY QuietAgrees, SelfSame DEF Quiet, Deciding
<1> QED BY <1>1, <1>2, <1>3, ReceiveIInv

LEMMA AskAgainIInv ==
    ASSUME IInv, NEW u \in Updates, AskAgain(u) PROVE IInv'
<1> DEFINE todo == ReturnTo(conv)
<1>1. conv \in {"address", "name", "phone"}
      /\ Receive(u, Activated(Refreshed), todo, answers)
  BY DEF AskAgain
<1>2. todo.do = "return" /\ todo.to = conv
  BY DEF ReturnTo
<1>3. StateInv /\ answers \in Answers /\ conv \in States
  BY DEF IInv, StateInv
<1>4. Sound(Activated(Refreshed)) /\ Named(Activated(Refreshed)) = Named(Refreshed)
      /\ SameAnswers(Activated(Refreshed), Refreshed)
  BY <1>3, RefreshedIsSound, ActivatedFacts
<1> HIDE DEF todo
<1>5. TaskOK(todo)
  BY <1>2, <1>3 DEF TaskOK
<1>6. Answered(Refreshed, answers) /\ (conv = "address" => ~ Has(Refreshed, "pending"))
         => Agrees(todo, Activated(Refreshed), answers)
  BY <1>2, <1>4, SameAgrees, AgreesIsAnswered
<1>7. conv # "confirm" /\ todo.do \notin Ordering
  BY <1>1, <1>2 DEF Ordering
<1> QED BY <1>1, <1>2, <1>3, <1>4, <1>5, <1>6, <1>7, ReceiveIInv

LEMMA ChooseAddressIInv ==
    ASSUME IInv, NEW u \in Updates, NEW a \in Addresses, ChooseAddress(u, a) PROVE IInv'
<1> DEFINE todo == [do |-> "choose", address |-> a]
           g == [answers EXCEPT !.address = a]
<1>1. conv = "address" /\ Receive(u, Refreshed, todo, g)
  BY DEF ChooseAddress
<1>2. todo.do = "choose" /\ todo.address = a
  OBVIOUS
<1>3. StateInv /\ answers \in Answers
  BY DEF IInv, StateInv
<1>4. g \in Answers /\ g.address = a /\ g.method = answers.method
      /\ g.coupon = answers.coupon
  BY <1>3 DEF Answers
<1> HIDE DEF todo, g
<1>5. Sound(Refreshed) /\ TaskOK(todo)
  BY <1>2, <1>3, RefreshedIsSound DEF TaskOK
<1>6. Answered(Refreshed, answers) /\ (conv = "address" => ~ Has(Refreshed, "pending"))
         => Agrees(todo, Refreshed, g)
  BY <1>1, <1>2, <1>4 DEF Agrees, Answered, AddressAgrees, MethodAgrees, CouponAgrees
<1>7. conv # "confirm" /\ todo.do \notin Ordering
  BY <1>1, <1>2 DEF Ordering
<1> QED BY <1>1, <1>2, <1>3, <1>4, <1>5, <1>6, <1>7, ReceiveIInv

\* What new_address_handler makes of the keys.
LEMMA UnsavedFacts ==
    ASSUME NEW d, Sound(d)
    PROVE  /\ Sound(Unsaved(d)) /\ Named(Unsaved(d)) = Named(d)
           /\ \A given : /\ given.address = "typed" => AddressAgrees(Unsaved(d), given)
                         /\ MethodAgrees(d, given) => MethodAgrees(Unsaved(d), given)
                         /\ CouponAgrees(d, given) => CouponAgrees(Unsaved(d), given)
<1> DEFINE p == Pop(d, {"address"})
           e == Put(p, "pending", TRUE)
<1>1. Sound(p) /\ Named(p) = Named(d)
  BY PopSound, "order" \notin {"address"}
<1>2. \A key : /\ Has(p, key) <=> (key # "address" /\ Has(d, key))
               /\ Has(p, key) => p[key] = d[key]
  BY PopHas
<1> HIDE DEF p
<1>3. Sound(e) /\ Named(e) = Named(p)
  BY <1>1, PutSound, KeysAreKeys
<1>4. \A key : /\ Has(e, key) <=> (key = "pending" \/ Has(p, key))
               /\ key # "pending" /\ Has(e, key) => e[key] = p[key]
  BY PutHas
<1>5. e = Unsaved(d)
  BY DEF Unsaved, p
<1> HIDE DEF e
<1>6. ASSUME NEW given
      PROVE  /\ given.address = "typed" => AddressAgrees(e, given)
             /\ MethodAgrees(d, given) => MethodAgrees(e, given)
             /\ CouponAgrees(d, given) => CouponAgrees(e, given)
  BY <1>2, <1>4 DEF AddressAgrees, MethodAgrees, CouponAgrees
<1> QED BY <1>1, <1>3, <1>5, <1>6

LEMMA TypeAddressIInv ==
    ASSUME IInv, NEW u \in Updates, TypeAddress(u) \/ ShareLocation(u) PROVE IInv'
<1> DEFINE g == [answers EXCEPT !.address = "typed"]
           act == Activated(Refreshed)
           todo == ReturnTo("name")
           wait == Do("locate")
<1>1. /\ conv = "address"
      /\ Receive(u, Unsaved(act), todo, g) \/ Receive(u, act, wait, g)
  BY DEF TypeAddress, ShareLocation
<1>2. StateInv /\ answers \in Answers
  BY DEF IInv, StateInv
<1>3. g \in Answers /\ g.address = "typed" /\ g.method = answers.method
      /\ g.coupon = answers.coupon
  BY <1>2 DEF Answers
<1>4. Sound(act) /\ Named(act) = Named(Refreshed) /\ SameAnswers(act, Refreshed)
  BY <1>2, RefreshedIsSound, ActivatedFacts
<1>5. todo.do = "return" /\ todo.to = "name" /\ wait.do = "locate"
  BY DEF ReturnTo, Do
<1> HIDE DEF g, act, todo, wait
<1>6. Answered(Refreshed, answers) => MethodAgrees(act, g) /\ CouponAgrees(act, g)
  BY <1>3, <1>4 DEF SameAnswers, Answered, MethodAgrees, CouponAgrees
<1>7. Sound(Unsaved(act)) /\ Named(Unsaved(act)) = Named(Refreshed)
      /\ (Answered(Refreshed, answers) => Answered(Unsaved(act), g))
  <2>1. Sound(Unsaved(act)) /\ Named(Unsaved(act)) = Named(Refreshed)
    BY <1>4, UnsavedFacts
  <2>2. /\ AddressAgrees(Unsaved(act), g)
        /\ MethodAgrees(act, g) => MethodAgrees(Unsaved(act), g)
        /\ CouponAgrees(act, g) => CouponAgrees(Unsaved(act), g)
    BY <1>3, <1>4, UnsavedFacts
  <2> QED BY <1>6, <2>1, <2>2 DEF Answered
<1>8. TaskOK(todo) /\ TaskOK(wait)
  BY <1>5 DEF TaskOK, States
<1>9. conv # "confirm" /\ todo.do \notin Ordering /\ wait.do \notin Ordering
  BY <1>1, <1>5 DEF Ordering
<1>10. CASE Receive(u, Unsaved(act), todo, g)
  <2>1. Answered(Refreshed, answers) => Agrees(todo, Unsaved(act), g)
    BY <1>5, <1>7, AgreesIsAnswered
  <2> QED BY <1>3, <1>5, <1>7, <1>8, <1>9, <1>10, <2>1, ReceiveIInv
<1>11. CASE Receive(u, act, wait, g)
  <2>1. Answered(Refreshed, answers) => Agrees(wait, act, g)
    BY <1>3, <1>5, <1>6 DEF Agrees
  <2> QED BY <1>3, <1>4, <1>5, <1>8, <1>9, <1>11, <2>1, ReceiveIInv
<1> QED BY <1>1, <1>10, <1>11

LEMMA GiveNameIInv ==
    ASSUME IInv, NEW u \in Updates, GiveName(u) PROVE IInv'
<1> DEFINE act == Activated(Refreshed)
           d == Put(act, "name", TRUE)
           e == Pop(d, {"resume"})
           next == ReturnTo("phone")
<1>1. /\ conv = "name"
      /\ \/ \E todo \in AfterDetails : Receive(u, e, todo, answers)
         \/ Receive(u, d, next, answers)
  BY DEF GiveName
<1>2. StateInv /\ answers \in Answers
  BY DEF IInv, StateInv
<1>3. Sound(act) /\ Named(act) = Named(Refreshed) /\ SameAnswers(act, Refreshed)
  BY <1>2, RefreshedIsSound, ActivatedFacts
<1>4. next.do = "return" /\ next.to = "phone"
  BY DEF ReturnTo
<1> HIDE DEF act, next
<1>5. Sound(d) /\ Named(d) = Named(act)
  BY <1>3, PutSound, KeysAreKeys
<1>6. SameAnswers(d, act)
  BY PutOther
<1> HIDE DEF d
<1>7. Sound(e) /\ Named(e) = Named(d)
  BY <1>5, PopSound, "order" \notin {"resume"}
<1>8. SameAnswers(e, d)
  BY PopOther, {"resume"} \cap {"address", "pending", "method", "coupon"} = {}
<1> HIDE DEF e
<1>9. Answered(Refreshed, answers) => Answered(d, answers)
  BY <1>3, <1>6, SameAgrees
<1>10. ASSUME NEW todo \in AfterDetails, Receive(u, e, todo, answers) PROVE IInv'
  <2>1. todo.do \in {"show", "clear"}
    BY DEF AfterDetails, Do
  <2>2. Answered(Refreshed, answers) => Agrees(todo, e, answers)
    BY <1>8, <1>9, <2>1, QuietAgrees DEF Quiet
  <2>3. TaskOK(todo) /\ conv # "confirm" /\ todo.do \notin Ordering
    BY <1>1, <2>1 DEF TaskOK, Ordering
  <2> QED BY <1>2, <1>3, <1>5, <1>7, <1>10, <2>1, <2>2, <2>3, ReceiveIInv
<1>11. CASE Receive(u, d, next, answers)
  <2>1. Answered(Refreshed, answers) => Agrees(next, d, answers)
    BY <1>4, <1>9, AgreesIsAnswered
  <2>2. TaskOK(next) /\ conv # "confirm" /\ next.do \notin Ordering
    BY <1>1, <1>4 DEF TaskOK, Ordering, States
  <2> QED BY <1>2, <1>3, <1>4, <1>5, <1>11, <2>1, <2>2, ReceiveIInv
<1> QED BY <1>1, <1>10, <1>11

LEMMA GivePhoneIInv ==
    ASSUME IInv, NEW u \in Updates, GivePhone(u) PROVE IInv'
<1> DEFINE act == Activated(Refreshed)
           d == Put(act, "phone", TRUE)
           todo == IF Has(d, "pending") THEN Do("save") ELSE Do("ask")
<1>1. conv = "phone" /\ Receive(u, d, todo, answers)
  BY DEF GivePhone
<1>2. StateInv /\ answers \in Answers
  BY DEF IInv, StateInv
<1>3. Sound(act) /\ Named(act) = Named(Refreshed) /\ SameAnswers(act, Refreshed)
  BY <1>2, RefreshedIsSound, ActivatedFacts
<1>4. todo.do = IF Has(d, "pending") THEN "save" ELSE "ask"
  BY DEF Do
<1> HIDE DEF act, todo
<1>5. Sound(d) /\ Named(d) = Named(act)
  BY <1>3, PutSound, KeysAreKeys
<1>6. SameAnswers(d, act)
  BY PutOther
<1> HIDE DEF d
<1>7. Answered(Refreshed, answers) => Answered(d, answers)
  BY <1>3, <1>6, SameAgrees
<1>8. Answered(Refreshed, answers) => Agrees(todo, d, answers)
  BY <1>4, <1>7 DEF Agrees, Answered, AddressAgrees
<1>9. TaskOK(todo) /\ conv # "confirm" /\ todo.do \notin Ordering
  BY <1>1, <1>4 DEF TaskOK, Ordering
<1> QED BY <1>1, <1>2, <1>3, <1>4, <1>5, <1>8, <1>9, ReceiveIInv

LEMMA SkipCouponIInv ==
    ASSUME IInv, NEW u \in Updates, SkipCoupon(u) PROVE IInv'
<1> DEFINE todo == Do("skip")
           g == [answers EXCEPT !.coupon = NoAnswer]
<1>1. conv = "coupon" /\ Receive(u, Refreshed, todo, g)
  BY DEF SkipCoupon
<1>2. StateInv /\ answers \in Answers /\ todo.do = "skip"
  BY DEF IInv, StateInv, Do
<1>3. g \in Answers /\ g.address = answers.address /\ g.method = answers.method
      /\ g.coupon # "given"
  BY <1>2 DEF Answers, NoAnswer
<1> HIDE DEF todo, g
<1>4. Answered(Refreshed, answers) => Agrees(todo, Refreshed, g)
  BY <1>2, <1>3 DEF Agrees, Answered, AddressAgrees, MethodAgrees
<1>5. Sound(Refreshed) /\ TaskOK(todo) /\ conv # "confirm" /\ todo.do \notin Ordering
  BY <1>1, <1>2, RefreshedIsSound DEF TaskOK, Ordering
<1> QED BY <1>1, <1>2, <1>3, <1>4, <1>5, ReceiveIInv

LEMMA ChooseMethodIInv ==
    ASSUME IInv, NEW u \in Updates, NEW method \in Methods, ChooseMethod(u, method) PROVE IInv'
<1> DEFINE todo == [do |-> "method", method |-> method]
           g == [answers EXCEPT !.method = method]
<1>1. conv = "payment" /\ Receive(u, Refreshed, todo, g)
  BY DEF ChooseMethod
<1>2. StateInv /\ answers \in Answers /\ todo.do = "method" /\ todo.method = method
  BY DEF IInv, StateInv
<1>3. g \in Answers /\ g.address = answers.address /\ g.method = method
      /\ g.coupon = answers.coupon
  BY <1>2 DEF Answers
<1> HIDE DEF todo, g
<1>4. Answered(Refreshed, answers) => Agrees(todo, Refreshed, g)
  BY <1>2, <1>3 DEF Agrees, Answered, AddressAgrees, CouponAgrees
<1>5. Sound(Refreshed) /\ TaskOK(todo) /\ conv # "confirm" /\ todo.do \notin Ordering
  BY <1>1, <1>2, RefreshedIsSound DEF TaskOK, Ordering
<1> QED BY <1>1, <1>2, <1>3, <1>4, <1>5, ReceiveIInv

LEMMA ArrivesIInv ==
    ASSUME IInv, NEW u \in Updates, Arrives(u) PROVE IInv'
<1>1. CASE \/ AskAgain(u) \/ TypeAddress(u) \/ ShareLocation(u) \/ GiveName(u)
           \/ GivePhone(u) \/ SkipCoupon(u)
  BY <1>1, AskAgainIInv, TypeAddressIInv, GiveNameIInv, GivePhoneIInv, SkipCouponIInv
<1>2. ASSUME NEW a \in Addresses, ChooseAddress(u, a) PROVE IInv'
  BY <1>2, ChooseAddressIInv
<1>3. ASSUME NEW method \in Methods, ChooseMethod(u, method) PROVE IInv'
  BY <1>3, ChooseMethodIInv
<1>4. ASSUME NEW todo, Receive(u, Refreshed, todo, answers),
             \/ conv = "none" /\ todo = Do("start")
             \/ conv = "coupon" /\ todo = Do("coupon")
             \/ conv = "payment" /\ todo = Do("back")
             \/ conv \in {"address", "payment"} /\ todo = [do |-> "quit", screen |-> conv]
             \/ conv = "confirm" /\ todo \in {Do("confirm"), Do("retry")}
             \/ todo = Do("leave")
      PROVE  IInv'
  <2>1. todo.do \in {"start", "coupon", "back", "quit", "confirm", "retry", "leave"}
    BY <1>4 DEF Do
  <2>2. todo.do = "quit" => todo.screen \in States
    BY <1>4 DEF Do, States
  <2>3. /\ conv = "confirm" => todo.do \in Deciding
        /\ todo.do \in Ordering => conv = "confirm"
    BY <1>4 DEF Do, Deciding, Ordering
  <2> QED BY <1>4, <2>1, <2>2, <2>3, ButtonIInv
<1>5. CASE Start(u) \/ GiveCoupon(u) \/ PayBack(u) \/ CancelButton(u)
  BY <1>4, <1>5 DEF Start, GiveCoupon, PayBack, CancelButton
<1>6. CASE Confirm(u) \/ Retry(u) \/ Leave(u)
  BY <1>4, <1>6 DEF Confirm, Retry, Leave
<1> QED BY <1>1, <1>2, <1>3, <1>5, <1>6 DEF Arrives

-----------------------------------------------------------------------------
(* The way to the confirmation: handlers that go on                        *)

\* A checkout that is cleared before anything was decided lets go of no order
\* unless updates overlapped; those it records.
LEMMA WipeDrops ==
    ASSUME IInv, NEW u \in Updates, NEW d, NEW todo, Wipe(u, d, todo),
           task[u].do \in {"start", "clear"},
           UNCHANGED orders, stranded' = stranded \cup Dropped
    PROVE  /\ orders' \in Seq(Orders) /\ DOMAIN orders' = DOMAIN orders
           /\ stranded' \subseteq DOMAIN orders
           /\ \A o \in DOMAIN orders : ~ Open(o)'
<1>1. StateInv /\ task' = [task EXCEPT ![u] = todo]
  BY DEF IInv, Wipe
<1>2. stranded' \subseteq DOMAIN orders
  BY <1>1 DEF Dropped, Named, StateInv, Sound
<1>3. ASSUME NEW o \in DOMAIN orders, Open(o)' PROVE FALSE
  <2>1. Open(o) /\ o \notin stranded'
    BY <1>1, <1>3, OpenKept
  <2>2. Named(data) = {o}
    BY <2>1 DEF IInv, OpenIsNamed
  <2>3. ~ disturbed
    BY <2>1, <2>2 DEF Dropped
  <2>4. Busy(u)
    BY DEF Busy
  <2>5. task[u].do \in Deciding
    BY <2>1, <2>3, <2>4 DEF IInv, OpenIsNamed
  <2> QED BY <2>5 DEF Deciding
<1> QED BY <1>1, <1>2, <1>3 DEF StateInv

LEMMA StartCheckoutIInv ==
    ASSUME IInv, NEW u \in Updates, StartCheckout(u) PROVE IInv'
<1> DEFINE c == Clear(data)
           act == Activated(c)
           d == Put(act, "checked", FALSE)
<1>1. PICK todo \in {ReturnTo("address"), Do("clear")} : Wipe(u, d, todo)
  BY DEF StartCheckout
<1>2. task[u].do = "start" /\ UNCHANGED orders /\ stranded' = stranded \cup Dropped
  BY DEF StartCheckout
<1>3. Sound(c) /\ DOMAIN c = {} /\ Named(c) = {} /\ Answered(c, NoAnswers)
  BY ClearFacts DEF IInv, StateInv
<1>4. \/ todo.do = "return" /\ todo.to = "address"
      \/ todo.do = "clear"
  BY DEF ReturnTo, Do
<1> HIDE DEF c
<1>5. Sound(act) /\ Named(act) = {} /\ SameAnswers(act, c)
  BY <1>3, ActivatedFacts
<1> HIDE DEF act
<1>6. Sound(d) /\ Named(d) = {}
  BY <1>5, PutSound, KeysAreKeys
<1>7. SameAnswers(d, act)
  BY PutOther
<1> HIDE DEF d
<1>8. Answered(d, NoAnswers) /\ ~ Has(d, "pending")
  BY <1>3, <1>5, <1>7, SameAgrees DEF Has
<1>9. Agrees(todo, d, NoAnswers)
  BY <1>4, <1>8, AgreesIsAnswered DEF Writing
<1>10. TaskOK(todo)
  BY <1>4 DEF TaskOK, States
<1>11. todo.do \notin {"none", "provider", "report", "cancel"} \cup Deciding
  BY <1>4 DEF Deciding
<1>12. /\ orders' \in Seq(Orders) /\ DOMAIN orders' = DOMAIN orders
       /\ stranded' \subseteq DOMAIN orders
       /\ \A o \in DOMAIN orders : ~ Open(o)'
  BY <1>1, <1>2, WipeDrops
<1> QED BY <1>1, <1>2, <1>6, <1>9, <1>10, <1>11, <1>12, WipeIInv

LEMMA ClearStateIInv ==
    ASSUME IInv, NEW u \in Updates, ClearState(u) PROVE IInv'
<1> DEFINE c == Clear(data)
           todo == Do("end")
<1>1. /\ Wipe(u, c, todo) /\ task[u].do = "clear"
      /\ UNCHANGED orders /\ stranded' = stranded \cup Dropped
  BY DEF ClearState
<1>2. Sound(c) /\ Named(c) = {} /\ Answered(c, NoAnswers) /\ todo.do = "end"
  BY ClearFacts DEF IInv, StateInv, Do
<1> HIDE DEF c, todo
<1>3. Agrees(todo, c, NoAnswers)
  BY <1>2, AgreesIsAnswered DEF Writing
<1>4. TaskOK(todo) /\ todo.do \notin {"none", "provider", "report", "cancel"} \cup Deciding
  BY <1>2 DEF TaskOK, Deciding
<1>5. /\ orders' \in Seq(Orders) /\ DOMAIN orders' = DOMAIN orders
      /\ stranded' \subseteq DOMAIN orders
      /\ \A o \in DOMAIN orders : ~ Open(o)'
  BY <1>1, WipeDrops
<1> QED BY <1>1, <1>2, <1>3, <1>4, <1>5, WipeIInv

\* A handler goes on that touches neither orders nor answers and does not decide.
LEMMA GoOnIInv ==
    ASSUME IInv, NEW u \in Updates, NEW d, NEW todo, Proceed(u, d, todo), NoOrderTouched,
           task[u].do \notin {"none", "provider", "report", "cancel"} \cup Deciding,
           todo.do \notin {"none", "provider", "report", "cancel"} \cup Deciding,
           answers' \in Answers, Sound(d), Named(d) = Named(data), TaskOK(todo),
           Agrees(task[u], data, answers) => Agrees(todo, d, answers')
    PROVE  IInv'
<1>1. /\ UNCHANGED orders /\ stranded \subseteq stranded' /\ stranded' \subseteq DOMAIN orders
  BY DEF NoOrderTouched, IInv, StateInv
<1>2. Busy(u) /\ todo.do \notin Ordering
  BY DEF Busy, Ordering, Deciding
<1> QED BY <1>1, <1>2, ProceedIInv

\* The same, when nothing is left to write.
Settled == {ReturnTo(state) : state \in States \ {"address"}} \cup AfterDetails \cup ShowPayment

LEMMA SettledFacts ==
    ASSUME NEW todo \in Settled
    PROVE  /\ todo.do \notin {"none", "provider", "report", "cancel"} \cup Deciding
           /\ TaskOK(todo)
           /\ \A d, given : Answered(d, given) => Agrees(todo, d, given)
<1>1. \/ todo.do = "return" /\ todo.to \in States \ {"address"}
      \/ todo.do \in {"show", "clear"}
  BY DEF Settled, AfterDetails, ShowPayment, ReturnTo, Do, States
<1>2. \A d, given : Answered(d, given) => Agrees(todo, d, given)
  BY <1>1, AgreesIsAnswered DEF Writing
<1> QED BY <1>1, <1>2 DEF TaskOK, Deciding

LEMMA SettleIInv ==
    ASSUME IInv, NEW u \in Updates, NEW d, NEW todo \in Settled, Proceed(u, d, todo),
           NoOrderTouched,
           task[u].do \notin {"none", "provider", "report", "cancel"} \cup Deciding,
           answers' \in Answers, Sound(d), Named(d) = Named(data),
           Agrees(task[u], data, answers) => Answered(d, answers')
    PROVE  IInv'
BY SettledFacts, GoOnIInv

LEMMA InSettled ==
    /\ ReturnTo("name") \in Settled /\ ReturnTo("phone") \in Settled
    /\ ReturnTo("coupon") \in Settled /\ ReturnTo("confirm") \in Settled
    /\ Do("clear") \in Settled
    /\ AfterDetails \subseteq Settled /\ ShowPayment \subseteq Settled
BY DEF Settled, AfterDetails, States

LEMMA AddressChosenIInv ==
    ASSUME IInv, NEW u \in Updates, AddressChosen(u) PROVE IInv'
<1> DEFINE act == Activated(data)
           a == task[u].address
           d == Put(act, "address", a)
<1>1. /\ task[u].do = "choose" /\ Proceed(u, d, ReturnTo("name"))
      /\ NoOrderTouched /\ answers' = answers
  BY DEF AddressChosen, OnlyData, NoOrderTouched
<1>2. StateInv /\ answers \in Answers /\ Sound(data) /\ a \in Addresses
  BY <1>1 DEF IInv, StateInv, TaskOK
<1>3. Sound(act) /\ Named(act) = Named(data) /\ SameAnswers(act, data)
  BY <1>2, ActivatedFacts
<1> HIDE DEF act
<1>4. Sound(d) /\ Named(d) = Named(act)
  BY <1>2, <1>3, PutSound, KeysAreKeys
<1>5. \A key : /\ Has(d, key) <=> (key = "address" \/ Has(act, key))
               /\ Has(d, key) => d[key] = IF key = "address" THEN a ELSE act[key]
  BY PutHas
<1> HIDE DEF d
<1>6. ASSUME Agrees(task[u], data, answers) PROVE Answered(d, answers)
  <2>1. /\ a = answers.address /\ ~ Has(data, "pending")
        /\ MethodAgrees(data, answers) /\ CouponAgrees(data, answers)
    BY <1>1, <1>6 DEF Agrees
  <2>2. /\ ~ Has(act, "pending")
        /\ MethodAgrees(act, answers) /\ CouponAgrees(act, answers)
    BY <1>3, <2>1 DEF SameAnswers, MethodAgrees, CouponAgrees
  <2> QED BY <1>5, <2>1, <2>2 DEF Answered, AddressAgrees, MethodAgrees, CouponAgrees
<1> QED BY <1>1, <1>2, <1>3, <1>4, <1>6, InSettled, SettleIInv DEF Deciding

LEMMA LocatedIInv ==
    ASSUME IInv, NEW u \in Updates, Located(u) PROVE IInv'
<1> DEFINE d == Unsaved(data)
<1>1. /\ task[u].do = "locate" /\ Proceed(u, d, ReturnTo("name"))
      /\ NoOrderTouched /\ answers' = answers
  BY DEF Located, OnlyData, NoOrderTouched
<1>2. answers \in Answers /\ Sound(data)
  BY DEF IInv, StateInv
<1>3. /\ Sound(d) /\ Named(d) = Named(data)
      /\ answers.address = "typed" => AddressAgrees(d, answers)
      /\ MethodAgrees(data, answers) => MethodAgrees(d, answers)
      /\ CouponAgrees(data, answers) => CouponAgrees(d, answers)
  BY <1>2, UnsavedFacts
<1> HIDE DEF d
<1>4. Agrees(task[u], data, answers) => Answered(d, answers)
  BY <1>1, <1>3 DEF Agrees, Answered
<1> QED BY <1>1, <1>2, <1>3, <1>4, InSettled, SettleIInv DEF Deciding

LEMMA SaveAddressIInv ==
    ASSUME IInv, NEW u \in Updates, SaveAddress(u) PROVE IInv'
<1>1. /\ task[u].do = "save" /\ NoOrderTouched /\ answers' = answers
      /\ \/ Proceed(u, data, Do("clear"))
         \/ \E a \in Addresses : Proceed(u, data, [do |-> "saved", address |-> a])
  BY DEF SaveAddress
<1>2. answers \in Answers /\ Sound(data)
  BY DEF IInv, StateInv
<1>3. CASE Proceed(u, data, Do("clear"))
  <2>1. Agrees(task[u], data, answers) => Answered(data, answers)
    BY <1>1 DEF Agrees, Answered
  <2> QED BY <1>1, <1>2, <1>3, <2>1, InSettled, SettleIInv DEF Deciding
<1>4. ASSUME NEW a \in Addresses, Proceed(u, data, [do |-> "saved", address |-> a])
      PROVE  IInv'
  <2> DEFINE todo == [do |-> "saved", address |-> a]
  <2>1. todo.do = "saved" /\ todo.address = a
    OBVIOUS
  <2>2. Proceed(u, data, todo)
    BY <1>4
  <2> HIDE DEF todo
  <2>3. Agrees(task[u], data, answers) => Agrees(todo, data, answers)
    BY <1>1, <2>1 DEF Agrees
  <2>4. TaskOK(todo)
    BY <2>1 DEF TaskOK
  <2> QED BY <1>1, <1>2, <2>1, <2>2, <2>3, <2>4, GoOnIInv DEF Deciding
<1> QED BY <1>1, <1>3, <1>4

LEMMA AddressSavedIInv ==
    ASSUME IInv, NEW u \in Updates, AddressSaved(u) PROVE IInv'
<1> DEFINE a == task[u].address
           e == Put(data, "address", a)
           d == Pop(e, {"pending"})
           todo == Do("ask")
           g == IF answers.address = "typed"
                   THEN [answers EXCEPT !.address = task[u].address] ELSE answers
<1>1. /\ task[u].do = "saved" /\ Proceed(u, d, todo) /\ NoOrderTouched /\ answers' = g
  BY DEF AddressSaved
<1>2. StateInv /\ answers \in Answers /\ Sound(data) /\ a \in Addresses /\ todo.do = "ask"
  BY <1>1 DEF IInv, StateInv, TaskOK, Do
<1>3. /\ g \in Answers /\ g.method = answers.method /\ g.coupon = answers.coupon
      /\ answers.address = "typed" => g.address = a
  BY <1>2 DEF Answers
<1> HIDE DEF a, g, todo
<1>4. Sound(e) /\ Named(e) = Named(data)
  BY <1>2, PutSound, KeysAreKeys
<1>5. \A key : /\ Has(e, key) <=> (key = "address" \/ Has(data, key))
               /\ Has(e, key) => e[key] = IF key = "address" THEN a ELSE data[key]
  BY PutHas
<1> HIDE DEF e
<1>6. Sound(d) /\ Named(d) = Named(e)
  BY <1>4, PopSound, "order" \notin {"pending"}
<1>7. \A key : /\ Has(d, key) <=> (key # "pending" /\ Has(e, key))
               /\ Has(d, key) => d[key] = e[key]
  BY PopHas
<1> HIDE DEF d
<1>8. ASSUME Agrees(task[u], data, answers) PROVE Agrees(todo, d, answers')
  <2>1. /\ answers.address = "typed"
        /\ MethodAgrees(data, answers) /\ CouponAgrees(data, answers)
    BY <1>1, <1>8 DEF Agrees
  <2>2. Answered(d, g)
    BY <1>3, <1>5, <1>7, <2>1 DEF Answered, AddressAgrees, MethodAgrees, CouponAgrees
  <2> QED BY <1>1, <1>2, <2>2, AgreesIsAnswered DEF Writing
<1>9. TaskOK(todo)
  BY <1>2 DEF TaskOK
<1> QED BY <1>1, <1>2, <1>3, <1>4, <1>6, <1>8, <1>9, GoOnIInv DEF Deciding

LEMMA AskNextIInv ==
    ASSUME IInv, NEW u \in Updates, AskNext(u) PROVE IInv'
<1> DEFINE d == Pop(data, {"resume"})
<1>1. /\ task[u].do = "ask" /\ NoOrderTouched /\ answers' = answers
      /\ \/ \E todo \in AfterDetails : Proceed(u, d, todo)
         \/ Proceed(u, data, ReturnTo("coupon"))
         \/ \E todo \in ShowPayment : Proceed(u, data, todo)
  BY DEF AskNext, OnlyData, NoOrderTouched
<1>2. answers \in Answers /\ Sound(data)
  BY DEF IInv, StateInv
<1>3. Sound(d) /\ Named(d) = Named(data)
  BY <1>2, PopSound, "order" \notin {"resume"}
<1>4. SameAnswers(d, data)
  BY PopOther, {"resume"} \cap {"address", "pending", "method", "coupon"} = {}
<1>5. Agrees(task[u], data, answers) => Answered(data, answers)
  BY <1>1, AgreesIsAnswered DEF Writing
<1> HIDE DEF d
<1>6. Agrees(task[u], data, answers) => Answered(d, answers)
  BY <1>4, <1>5, SameAgrees
<1>7. PICK todo \in Settled : Proceed(u, d, todo) \/ Proceed(u, data, todo)
  BY <1>1, InSettled
<1> QED BY <1>1, <1>2, <1>3, <1>5, <1>6, <1>7, SettleIInv DEF Deciding

LEMMA CouponValidatedIInv ==
    ASSUME IInv, NEW u \in Updates, CouponValidated(u) PROVE IInv'
<1> DEFINE e == Put(data, "coupon", TRUE)
           d == Put(e, "checked", TRUE)
           g == [answers EXCEPT !.coupon = "given"]
<1>1. /\ task[u].do = "coupon" /\ NoOrderTouched
      /\ \/ Proceed(u, data, ReturnTo("coupon")) /\ answers' = answers
         \/ (\E todo \in ShowPayment : Proceed(u, d, todo)) /\ answers' = g
  BY DEF CouponValidated
<1>2. answers \in Answers /\ Sound(data)
  BY DEF IInv, StateInv
<1>3. g \in Answers /\ g.address = answers.address /\ g.method = answers.method
      /\ g.coupon = "given"
  BY <1>2 DEF Answers
<1>4. Agrees(task[u], data, answers) => Answered(data, answers)
  BY <1>1, AgreesIsAnswered DEF Writing
<1> HIDE DEF g
<1>5. Sound(e) /\ Named(e) = Named(data)
  BY <1>2, PutSound, KeysAreKeys
<1>6. \A key : /\ Has(e, key) <=> (key = "coupon" \/ Has(data, key))
               /\ key # "coupon" /\ Has(e, key) => e[key] = data[key]
  BY PutHas
<1> HIDE DEF e
<1>7. Answered(data, answers) => Answered(e, g)
  BY <1>3, <1>6 DEF Answered, AddressAgrees, MethodAgrees, CouponAgrees
<1>8. Sound(d) /\ Named(d) = Named(e)
  BY <1>5, PutSound, KeysAreKeys
<1>9. SameAnswers(d, e)
  BY PutOther
<1> HIDE DEF d
<1>10. Answered(data, answers) => Answered(d, g)
  BY <1>7, <1>9, SameAgrees
<1>11. CASE Proceed(u, data, ReturnTo("coupon")) /\ answers' = answers
  BY <1>1, <1>2, <1>4, <1>11, InSettled, SettleIInv DEF Deciding
<1>12. ASSUME NEW todo \in ShowPayment, Proceed(u, d, todo), answers' = g PROVE IInv'
  BY <1>1, <1>3, <1>4, <1>5, <1>8, <1>10, <1>12, InSettled, SettleIInv DEF Deciding
<1> QED BY <1>1, <1>11, <1>12

LEMMA CouponSkippedIInv ==
    ASSUME IInv, NEW u \in Updates, CouponSkipped(u) PROVE IInv'
<1> DEFINE e == Pop(data, {"coupon"})
           d == Put(e, "checked", TRUE)
<1>1. /\ task[u].do = "skip" /\ NoOrderTouched /\ answers' = answers
      /\ \E todo \in ShowPayment : Proceed(u, d, todo)
  BY DEF CouponSkipped, OnlyData, NoOrderTouched
<1>2. answers \in Answers /\ Sound(data)
  BY DEF IInv, StateInv
<1>3. Sound(e) /\ Named(e) = Named(data)
  BY <1>2, PopSound, "order" \notin {"coupon"}
<1>4. \A key : /\ Has(e, key) <=> (key # "coupon" /\ Has(data, key))
               /\ Has(e, key) => e[key] = data[key]
  BY PopHas
<1> HIDE DEF e
<1>5. Agrees(task[u], data, answers) => Answered(e, answers)
  BY <1>1, <1>4 DEF Agrees, Answered, AddressAgrees, MethodAgrees, CouponAgrees
<1>6. Sound(d) /\ Named(d) = Named(e)
  BY <1>3, PutSound, KeysAreKeys
<1>7. SameAnswers(d, e)
  BY PutOther
<1> HIDE DEF d
<1>8. Agrees(task[u], data, answers) => Answered(d, answers)
  BY <1>5, <1>7, SameAgrees
<1>9. PICK todo \in Settled : Proceed(u, d, todo)
  BY <1>1, InSettled
<1> QED BY <1>1, <1>2, <1>3, <1>6, <1>8, <1>9, SettleIInv DEF Deciding

LEMMA BackToNameIInv ==
    ASSUME IInv, NEW u \in Updates, BackToName(u) PROVE IInv'
<1> DEFINE act == Activated(data)
           d == Put(act, "resume", TRUE)
<1>1. /\ task[u].do = "back" /\ NoOrderTouched /\ answers' = answers
      /\ Proceed(u, d, ReturnTo("name"))
  BY DEF BackToName, OnlyData, NoOrderTouched
<1>2. answers \in Answers /\ Sound(data)
  BY DEF IInv, StateInv
<1>3. Sound(act) /\ Named(act) = Named(data) /\ SameAnswers(act, data)
  BY <1>2, ActivatedFacts
<1> HIDE DEF act
<1>4. Sound(d) /\ Named(d) = Named(act)
  BY <1>3, PutSound, KeysAreKeys
<1>5. SameAnswers(d, act)
  BY PutOther
<1> HIDE DEF d
<1>6. Agrees(task[u], data, answers) => Answered(d, answers)
  BY <1>1, <1>3, <1>5, SameAgrees, AgreesIsAnswered DEF Writing
<1> QED BY <1>1, <1>2, <1>3, <1>4, <1>6, InSettled, SettleIInv DEF Deciding

LEMMA MethodChosenIInv ==
    ASSUME IInv, NEW u \in Updates, MethodChosen(u) PROVE IInv'
<1> DEFINE act == Activated(data)
           m == task[u].method
           d == Put(act, "method", m)
           e == Put(d, "resume", TRUE)
<1>1. /\ task[u].do = "method" /\ NoOrderTouched /\ answers' = answers
      /\ \/ \E todo \in AfterDetails : Proceed(u, d, todo)
         \/ \E state \in {"phone", "name"} : Proceed(u, e, ReturnTo(state))
  BY DEF MethodChosen, OnlyData, NoOrderTouched
<1>2. StateInv /\ answers \in Answers /\ Sound(data) /\ m \in Methods
  BY <1>1 DEF IInv, StateInv, TaskOK
<1>3. Sound(act) /\ Named(act) = Named(data) /\ SameAnswers(act, data)
  BY <1>2, ActivatedFacts
<1> HIDE DEF act
<1>4. Sound(d) /\ Named(d) = Named(act)
  BY <1>2, <1>3, PutSound, KeysAreKeys
<1>5. \A key : /\ Has(d, key) <=> (key = "method" \/ Has(act, key))
               /\ Has(d, key) => d[key] = IF key = "method" THEN m ELSE act[key]
  BY PutHas
<1> HIDE DEF d
<1>6. ASSUME Agrees(task[u], data, answers) PROVE Answered(d, answers)
  <2>1. /\ m = answers.method
        /\ AddressAgrees(data, answers) /\ CouponAgrees(data, answers)
    BY <1>1, <1>6 DEF Agrees
  <2>2. AddressAgrees(act, answers) /\ CouponAgrees(act, answers)
    BY <1>3, <2>1 DEF SameAnswers, AddressAgrees, CouponAgrees
  <2> QED BY <1>5, <2>1, <2>2 DEF Answered, AddressAgrees, MethodAgrees, CouponAgrees
<1>7. Sound(e) /\ Named(e) = Named(d)
  BY <1>4, PutSound, KeysAreKeys
<1>8. SameAnswers(e, d)
  BY PutOther
<1> HIDE DEF e
<1>9. Agrees(task[u], data, answers) => Answered(e, answers)
  BY <1>6, <1>8, SameAgrees
<1>10. PICK todo \in Settled : Proceed(u, d, todo) \/ Proceed(u, e, todo)
  BY <1>1, InSettled
<1> QED BY <1>1, <1>2, <1>3, <1>4, <1>6, <1>7, <1>9, <1>10, SettleIInv DEF Deciding

LEMMA QuitIInv ==
    ASSUME IInv, NEW u \in Updates, Quit(u) PROVE IInv'
<1> DEFINE d == Activated(data)
<1>1. /\ task[u].do = "quit" /\ NoOrderTouched /\ answers' = answers
      /\ Proceed(u, d, Do("clear"))
  BY DEF Quit, OnlyData, NoOrderTouched
<1>2. answers \in Answers /\ Sound(data)
  BY DEF IInv, StateInv
<1>3. Sound(d) /\ Named(d) = Named(data) /\ SameAnswers(d, data)
  BY <1>2, ActivatedFacts
<1> HIDE DEF d
<1>4. Agrees(task[u], data, answers) => Answered(d, answers)
  BY <1>1, <1>3, SameAgrees, AgreesIsAnswered DEF Writing
<1> QED BY <1>1, <1>2, <1>3, <1>4, InSettled, SettleIInv DEF Deciding

LEMMA ShowConfirmationIInv ==
    ASSUME IInv, NEW u \in Updates, ShowConfirmation(u) PROVE IInv'
<1> DEFINE d == Pop(data, {"coupon"})
           g == [answers EXCEPT !.coupon = NoAnswer]
<1>1. /\ task[u].do = "show" /\ NoOrderTouched
      /\ \E todo \in AfterShow :
            \/ Proceed(u, data, todo) /\ answers' = answers
            \/ Proceed(u, d, todo) /\ answers' = g
  BY DEF ShowConfirmation
<1>2. answers \in Answers /\ Sound(data)
  BY DEF IInv, StateInv
<1>3. g \in Answers /\ g.address = answers.address /\ g.method = answers.method
      /\ g.coupon # "given"
  BY <1>2 DEF Answers, NoAnswer
<1>4. Agrees(task[u], data, answers) => Answered(data, answers)
  BY <1>1, AgreesIsAnswered DEF Writing
<1> HIDE DEF g
<1>5. Sound(d) /\ Named(d) = Named(data)
  BY <1>2, PopSound, "order" \notin {"coupon"}
<1>6. \A key : /\ Has(d, key) <=> (key # "coupon" /\ Has(data, key))
               /\ Has(d, key) => d[key] = data[key]
  BY PopHas
<1> HIDE DEF d
<1>7. Answered(data, answers) => Answered(d, g)
  BY <1>3, <1>6 DEF Answered, AddressAgrees, MethodAgrees, CouponAgrees
<1>8. AfterShow \subseteq Settled
  BY InSettled DEF AfterShow
<1>9. PICK todo \in Settled : \/ Proceed(u, data, todo) /\ answers' = answers
                              \/ Proceed(u, d, todo) /\ answers' = g
  BY <1>1, <1>8
<1>10. CASE Proceed(u, data, todo) /\ answers' = answers
  BY <1>1, <1>2, <1>4, <1>10, SettleIInv DEF Deciding
<1>11. CASE Proceed(u, d, todo) /\ answers' = g
  BY <1>1, <1>3, <1>4, <1>5, <1>7, <1>11, SettleIInv DEF Deciding
<1> QED BY <1>9, <1>10, <1>11

-----------------------------------------------------------------------------
(* Orders                                                                  *)

LEMMA ReadAnswersIInv ==
    ASSUME IInv, NEW u \in Updates, ReadAnswers(u) PROVE IInv'
<1> DEFINE stop == Do("clear")
           todo == [do |-> "create", address |-> data["address"], method |-> data["method"]]
<1>1. /\ task[u].do = "confirm" /\ UNCHANGED <<orders, answers>>
      /\ \/ Proceed(u, data, stop) /\ stranded' = stranded \cup Named(data)
         \/ Complete(data) /\ Proceed(u, data, todo) /\ stranded' = stranded
  BY DEF ReadAnswers
<1>2. answers \in Answers /\ Sound(data) /\ stranded \subseteq DOMAIN orders
  BY DEF IInv, StateInv
<1>3. Busy(u) /\ task[u].do \in Ordering
  BY <1>1 DEF Busy, Ordering
<1>4. /\ stop.do = "clear" /\ todo.do = "create"
      /\ todo.address = data["address"] /\ todo.method = data["method"]
  BY DEF Do
<1> HIDE DEF stop, todo
<1>5. Agrees(task[u], data, answers) => Answered(data, answers)
  BY <1>1, AgreesIsAnswered DEF Writing
<1>6. CASE Proceed(u, data, stop) /\ stranded' = stranded \cup Named(data)
  <2>1. stranded' \subseteq DOMAIN orders
    BY <1>2, <1>6 DEF Named, Sound
  <2>2. \A o \in Named(data) : o \in stranded'
    BY <1>6
  <2>3. Agrees(task[u], data, answers) => Agrees(stop, data, answers)
    BY <1>4, <1>5, AgreesIsAnswered DEF Writing
  <2>4. TaskOK(stop) /\ stop.do \notin Ordering
    BY <1>4 DEF TaskOK, Ordering
  <2> QED BY <1>1, <1>2, <1>3, <1>4, <1>6, <2>1, <2>2, <2>3, <2>4, ProceedIInv
<1>7. CASE Complete(data) /\ Proceed(u, data, todo) /\ stranded' = stranded
  <2>1. Has(data, "address") /\ Has(data, "method")
    BY <1>7 DEF Complete, Has
  <2>2. Answered(data, answers) => Agrees(todo, data, answers)
    BY <1>4, <2>1 DEF Agrees, Answered, AddressAgrees, MethodAgrees
  <2>3. TaskOK(todo)
    BY <1>2, <1>4, <2>1 DEF TaskOK, Sound
  <2>4. todo.do \in Deciding
    BY <1>4 DEF Deciding
  <2> QED BY <1>1, <1>2, <1>3, <1>4, <1>5, <1>7, <2>2, <2>3, <2>4, ProceedIInv
<1> QED BY <1>1, <1>6, <1>7

LEMMA RetryPaymentIInv ==
    ASSUME IInv, NEW u \in Updates, RetryPayment(u) PROVE IInv'
<1> DEFINE todo == IF Has(data, "order") THEN Idle ELSE Do("clear")
<1>1. /\ task[u].do = "retry" /\ UNCHANGED <<orders, stranded, answers>>
      /\ Proceed(u, data, todo)
  BY DEF RetryPayment, OnlyData
<1>2. answers \in Answers /\ Sound(data) /\ stranded \subseteq DOMAIN orders
  BY DEF IInv, StateInv
<1>3. Busy(u) /\ task[u].do \in Ordering
  BY <1>1 DEF Busy, Ordering
<1>4. todo.do = IF Has(data, "order") THEN "none" ELSE "clear"
  BY DEF Idle, Do
<1> HIDE DEF todo
<1>5. Agrees(task[u], data, answers) => Agrees(todo, data, answers)
  BY <1>1, <1>4, AgreesIsAnswered DEF Writing
<1>6. TaskOK(todo) /\ todo.do \notin Ordering
  BY <1>4 DEF TaskOK, Ordering
<1>7. todo.do \in Deciding \cup {"none"} \/ Named(data) = {}
  BY <1>4 DEF Named
<1> QED BY <1>1, <1>2, <1>3, <1>4, <1>5, <1>6, <1>7, ProceedIInv

LEMMA ReadOrderIInv ==
    ASSUME IInv, NEW u \in Updates, ReadOrder(u) PROVE IInv'
<1> DEFINE todo == IF Has(data, "order") THEN [do |-> "cancel", order |-> data["order"]]
                                         ELSE Do("clear")
<1>1. /\ task[u].do = "leave" /\ UNCHANGED <<orders, stranded, answers>>
      /\ Proceed(u, data, todo)
  BY DEF ReadOrder, OnlyData
<1>2. answers \in Answers /\ Sound(data) /\ stranded \subseteq DOMAIN orders
  BY DEF IInv, StateInv
<1>3. Busy(u)
  BY <1>1 DEF Busy
<1>4. /\ todo.do = IF Has(data, "order") THEN "cancel" ELSE "clear"
      /\ Has(data, "order") => todo.order = data["order"]
  BY DEF Do
<1> HIDE DEF todo
<1>5. Agrees(task[u], data, answers) => Agrees(todo, data, answers)
  BY <1>1, <1>4, AgreesIsAnswered DEF Writing
<1>6. TaskOK(todo) /\ todo.do \notin Ordering
  BY <1>2, <1>4 DEF TaskOK, Ordering, Sound
<1>7. \A o \in Named(data) : todo.do = "cancel" /\ todo.order = o
  BY <1>4 DEF Named
<1> QED BY <1>1, <1>2, <1>3, <1>4, <1>5, <1>6, <1>7, ProceedIInv

\* An order that is appended leaves the others, and what handlers know of them,
\* where they are.
LEMMA AppendFacts ==
    ASSUME StateInv, orders' = Append(orders, NewOrder)
    PROVE  /\ orders' \in Seq(Orders) /\ DOMAIN orders' = DOMAIN orders \cup {Len(orders) + 1}
           /\ Len(orders) + 1 \notin DOMAIN orders
           /\ \A o \in DOMAIN orders : orders'[o] = orders[o]
           /\ orders'[Len(orders) + 1] = NewOrder
           /\ NewOrder.reported = FALSE
<1>1. NewOrder \in Orders /\ orders \in Seq(Orders)
  BY DEF StateInv, NewOrder, Orders
<1> QED BY <1>1 DEF NewOrder

\* An order is written by the handler u, which has what it waits for next in todo.
LEMMA AppendedState ==
    ASSUME StateInv, NEW u \in Updates, NEW todo, task' = [task EXCEPT ![u] = todo],
           orders' = Append(orders, NewOrder),
           todo.do \in {"provider", "report", "clear"},
           todo.do # "clear" => todo.order = Len(orders) + 1,
           conv' \in States, answers' \in Answers, UNCHANGED saved,
           Sound(data)', stranded' \subseteq DOMAIN orders'
    PROVE  StateInv'
<1> DEFINE id == Len(orders) + 1
<1>1. /\ orders' \in Seq(Orders) /\ DOMAIN orders' = DOMAIN orders \cup {id}
      /\ id \notin DOMAIN orders
      /\ \A o \in DOMAIN orders : orders'[o] = orders[o]
      /\ orders'[id] = NewOrder /\ NewOrder.reported = FALSE
  BY AppendFacts
<1> HIDE DEF id
<1>2. /\ DOMAIN task' = Updates /\ task'[u] = todo
      /\ \A v \in Updates \ {u} : task'[v] = task[v]
  BY TaskFacts
<1>3. Sound(saved)'
  BY <1>1 DEF StateInv, Sound
<1>4. (DOMAIN task = Updates /\ \A v \in Updates : TaskOK(task[v]))'
  <2>1. ASSUME NEW v \in Updates \ {u} PROVE TaskOK(task[v])'
    BY <1>1, <1>2 DEF StateInv, TaskOK
  <2>2. TaskOK(task[u])'
    BY <1>1, <1>2 DEF TaskOK, id
  <2> QED BY <1>2, <2>1, <2>2
<1>5. \A v \in Updates \ {u} : Flying(v)' => /\ Flying(v) /\ task'[v].order = task[v].order
                                           /\ task[v].order \in DOMAIN orders
  BY <1>2 DEF StateInv, Flying, TaskOK
<1>6. Flying(u)' => task'[u].order = id
  BY <1>2 DEF Flying, id
<1>7. (\A v \in Updates : Flying(v) => ~ orders[task[v].order].reported)'
  BY <1>1, <1>5, <1>6 DEF StateInv
<1>8. (\A v, w \in Updates :
          Flying(v) /\ Flying(w) /\ v # w => task[v].order # task[w].order)'
  BY <1>1, <1>5, <1>6 DEF StateInv
<1> QED BY <1>1, <1>3, <1>4, <1>7, <1>8 DEF StateInv

\* An order that was there is open only if it was and is still the conversation's.
LEMMA AppendedOpen ==
    ASSUME IInv, NEW u \in Updates, NEW todo, task' = [task EXCEPT ![u] = todo],
           task[u].do # "cancel", orders' = Append(orders, NewOrder),
           stranded \cup Named(data) \subseteq stranded', NEW o \in DOMAIN orders
    PROVE  ~ Open(o)'
<1> SUFFICES ASSUME Open(o)' PROVE FALSE
  OBVIOUS
<1>1. orders'[o] = orders[o] /\ StateInv
  BY AppendFacts DEF IInv
<1>2. \A v \in Updates \ {u} : task'[v] = task[v]
  BY <1>1, TaskFacts
<1>3. Open(o)
  BY <1>1, <1>2 DEF Open, Pending
<1>4. o \in Named(data)
  BY <1>3 DEF IInv, OpenIsNamed
<1> QED BY <1>4 DEF Open

LEMMA CreateOrderIInv ==
    ASSUME IInv, NEW u \in Updates, CreateOrder(u) PROVE IInv'
<1> DEFINE id == Len(orders) + 1
           d == Put(data, "order", id)
           todo == [do |-> IF task[u].method = "cash" THEN "report" ELSE "provider",
                    order |-> id]
<1>1. /\ task[u].do = "create" /\ Proceed(u, d, todo)
      /\ orders' = Append(orders, NewOrder) /\ stranded' = stranded \cup Named(data)
      /\ answers' = answers
  BY DEF CreateOrder
<1>2. todo.do \in {"provider", "report"} /\ todo.order = id
  OBVIOUS
<1> HIDE DEF todo
<1>3. /\ data' = d /\ task' = [task EXCEPT ![u] = todo]
      /\ UNCHANGED <<conv, saved, mixed, disturbed>>
  BY <1>1 DEF Proceed
<1>4. StateInv /\ Sound(data) /\ conv \in States /\ answers \in Answers
      /\ stranded \subseteq DOMAIN orders /\ Busy(u)
  BY <1>1 DEF IInv, StateInv, Busy
<1>5. /\ DOMAIN orders' = DOMAIN orders \cup {id} /\ id \notin DOMAIN orders
      /\ \A o \in DOMAIN orders : orders'[o] = orders[o]
      /\ orders'[id] = NewOrder /\ NewOrder.reported = FALSE
  BY <1>1, <1>4, AppendFacts
<1>6. /\ DOMAIN d = DOMAIN data \cup {"order"} /\ d["order"] = id
      /\ \A x \in DOMAIN data \ {"order"} : d[x] = data[x]
  BY DEF Put
<1>7. /\ DOMAIN task' = Updates /\ task'[u] = todo
      /\ \A v \in Updates \ {u} : task'[v] = task[v]
  BY <1>3, <1>4, TaskFacts
<1>8. StateInv'
  <2>1. Sound(data)'
    BY <1>3, <1>4, <1>5, <1>6, KeysAreKeys DEF Sound, Has
  <2>2. stranded' \subseteq DOMAIN orders'
    BY <1>1, <1>4, <1>5 DEF Named, Sound
  <2>3. /\ conv' \in States /\ answers' \in Answers /\ saved' = saved
        /\ todo.order = Len(orders) + 1
    BY <1>1, <1>2, <1>3, <1>4
  <2> QED BY <1>1, <1>2, <1>3, <1>4, <2>1, <2>2, <2>3, AppendedState
<1>9. ~ disturbed' => ~ disturbed /\ \A v \in Updates : ~ Busy(v)'
  <2>1. ~ disturbed => \A v \in Updates \ {u} : ~ Busy(v)
    BY <1>4, Alone DEF IInv
  <2> QED BY <1>2, <1>3, <1>7, <2>1 DEF Busy
<1>10. OneAtATime'
  BY <1>9 DEF OneAtATime
<1> HIDE DEF d, id
<1>11. AnswersAgree'
  <2> SUFFICES ASSUME ~ mixed', ~ disturbed'
               PROVE  Answered(d, answers) /\ conv # "address"
    BY <1>1, <1>3, <1>9 DEF AnswersAgree
  <2>1. Agrees(task[u], data, answers) /\ conv = "confirm"
    BY <1>1, <1>3, <1>4 DEF IInv, AnswersAgree, OpenIsNamed, Ordering
  <2>2. Answered(data, answers)
    BY <1>1, <2>1 DEF Agrees, Answered
  <2>3. SameAnswers(d, data)
    BY <1>6 DEF SameAnswers, Has
  <2> QED BY <2>1, <2>2, <2>3, SameAgrees
<1>12. NamedIsUnreported'
  BY <1>3, <1>5, <1>6 DEF NamedIsUnreported, Named, Has
<1>13. OpenIsNamed'
  <2>1. \A o \in DOMAIN orders : ~ Open(o)'
    BY <1>1, <1>3, AppendedOpen
  <2>2. Named(data)' = {id}
    BY <1>3, <1>6 DEF Named, Has
  <2>3. \A o \in DOMAIN orders' : Open(o)' => o = id
    BY <1>5, <2>1
  <2>4. ~ disturbed' => conv' = "confirm"
    BY <1>1, <1>3 DEF IInv, OpenIsNamed, Ordering
  <2> QED BY <1>9, <2>2, <2>3, <2>4 DEF OpenIsNamed
<1> QED BY <1>8, <1>10, <1>11, <1>12, <1>13 DEF IInv

LEMMA RefuseOrderIInv ==
    ASSUME IInv, NEW u \in Updates, RefuseOrder(u) PROVE IInv'
<1> DEFINE todo == Do("clear")
           id == Len(orders) + 1
<1>1. /\ task[u].do = "create" /\ Proceed(u, data, todo) /\ answers' = answers
      /\ \/ UNCHANGED orders /\ stranded' = stranded \cup Named(data)
         \/ /\ orders' = Append(orders, NewOrder)
            /\ stranded' = stranded \cup Named(data) \cup {id}
  BY DEF RefuseOrder
<1>2. StateInv /\ Sound(data) /\ conv \in States /\ answers \in Answers
      /\ stranded \subseteq DOMAIN orders /\ Busy(u)
  BY <1>1 DEF IInv, StateInv, Busy
<1>3. todo.do = "clear"
  BY DEF Do
<1> HIDE DEF todo, id
<1>4. Agrees(task[u], data, answers) => Agrees(todo, data, answers)
  BY <1>1, <1>3 DEF Agrees
<1>5. TaskOK(todo) /\ todo.do \notin Ordering
  BY <1>3 DEF TaskOK, Ordering
<1>6. CASE UNCHANGED orders /\ stranded' = stranded \cup Named(data)
  <2>1. stranded' \subseteq DOMAIN orders
    BY <1>2, <1>6 DEF Named, Sound
  <2> QED BY <1>1, <1>2, <1>3, <1>4, <1>5, <1>6, <2>1, ProceedIInv
<1>7. CASE orders' = Append(orders, NewOrder)
           /\ stranded' = stranded \cup Named(data) \cup {id}
  <2>1. /\ data' = data /\ task' = [task EXCEPT ![u] = todo]
        /\ UNCHANGED <<conv, saved, mixed, disturbed>>
    BY <1>1 DEF Proceed
  <2>2. /\ DOMAIN orders' = DOMAIN orders \cup {id}
        /\ \A o \in DOMAIN orders : orders'[o] = orders[o]
    BY <1>2, <1>7, AppendFacts DEF id
  <2>3. /\ DOMAIN task' = Updates /\ task'[u] = todo
        /\ \A v \in Updates \ {u} : task'[v] = task[v]
    BY <1>2, <2>1, TaskFacts
  <2>4. StateInv'
    <3>1. Sound(data)'
      BY <1>2, <2>1, <2>2 DEF Sound
    <3>2. stranded' \subseteq DOMAIN orders'
      BY <1>2, <1>7, <2>2 DEF Named, Sound
    <3>3. conv' \in States /\ answers' \in Answers
      BY <1>1, <1>2, <2>1
    <3> QED BY <1>2, <1>3, <1>7, <2>1, <3>1, <3>2, <3>3, AppendedState
  <2>5. ~ disturbed' => \A v \in Updates \ {u} : ~ Busy(v)'
    <3>1. ~ disturbed => \A v \in Updates \ {u} : ~ Busy(v)
      BY <1>2, Alone DEF IInv
    <3> QED BY <2>1, <2>3, <3>1 DEF Busy
  <2>6. Busy(u)'
    BY <1>3, <2>3 DEF Busy
  <2>7. OneAtATime'
    BY <2>5 DEF OneAtATime
  <2>8. AnswersAgree'
    <3>1. ~ mixed' /\ ~ disturbed' => Agrees(todo, data, answers)
      BY <1>2, <1>4, <2>1 DEF IInv, AnswersAgree
    <3> QED BY <1>1, <2>1, <2>3, <2>5, <2>6, <3>1 DEF AnswersAgree
  <2>9. NamedIsUnreported'
    BY <1>2, <2>1, <2>2 DEF IInv, NamedIsUnreported, Named, Has, Sound
  <2>10. OpenIsNamed'
    <3>1. \A o \in DOMAIN orders : ~ Open(o)'
      BY <1>1, <1>7, <2>1, AppendedOpen
    <3>2. \A o \in DOMAIN orders' \ DOMAIN orders : o \in stranded'
      BY <1>7, <2>2
    <3>3. \A o \in DOMAIN orders' : ~ Open(o)'
      BY <3>1, <3>2 DEF Open
    <3>4. ~ disturbed' => \A v \in Updates : task'[v].do \notin Ordering
      BY <1>3, <2>3, <2>5 DEF Busy, Ordering
    <3> QED BY <3>3, <3>4 DEF OpenIsNamed
  <2> QED BY <2>4, <2>7, <2>8, <2>9, <2>10 DEF IInv
<1> QED BY <1>1, <1>6, <1>7

LEMMA PaymentAcceptedIInv ==
    ASSUME IInv, NEW u \in Updates, PaymentAccepted(u) PROVE IInv'
<1> DEFINE todo == [do |-> "report", order |-> task[u].order]
<1>1. /\ task[u].do = "provider" /\ Proceed(u, data, todo)
      /\ UNCHANGED <<orders, stranded, answers>>
  BY DEF PaymentAccepted, OnlyData
<1>2. todo.do = "report" /\ todo.order = task[u].order
  OBVIOUS
<1> HIDE DEF todo
<1>3. /\ data' = data /\ task' = [task EXCEPT ![u] = todo]
      /\ UNCHANGED <<conv, saved, mixed, disturbed>>
  BY <1>1 DEF Proceed
<1>4. StateInv
  BY DEF IInv
<1>5. /\ DOMAIN task' = Updates /\ task'[u] = todo
      /\ \A v \in Updates \ {u} : task'[v] = task[v]
  BY <1>3, <1>4, TaskFacts
<1>6. \A v \in Updates : /\ Busy(v)' <=> Busy(v)
                         /\ Flying(v)' <=> Flying(v)
                         /\ Flying(v) => task'[v].order = task[v].order
                         /\ ~ Flying(v) => task'[v] = task[v]
                         /\ Busy(v) => task'[v] = task[v]
  BY <1>1, <1>2, <1>5 DEF Busy, Flying
<1>7. StateInv'
  <2>1. (\A v \in Updates : TaskOK(task[v]))'
    BY <1>1, <1>2, <1>4, <1>5 DEF StateInv, TaskOK
  <2>2. (\A v \in Updates : Flying(v) => ~ orders[task[v].order].reported)'
    BY <1>1, <1>4, <1>6 DEF StateInv
  <2>3. (\A v, w \in Updates :
            Flying(v) /\ Flying(w) /\ v # w => task[v].order # task[w].order)'
    BY <1>4, <1>6 DEF StateInv
  <2>4. Sound(data)' /\ Sound(saved)'
    BY <1>1, <1>3, <1>4 DEF StateInv, Sound
  <2> QED BY <1>1, <1>3, <1>4, <1>5, <2>1, <2>2, <2>3, <2>4 DEF StateInv
<1>8. OneAtATime'
  BY <1>3, <1>6 DEF IInv, OneAtATime
<1>9. AnswersAgree'
  BY <1>1, <1>3, <1>6 DEF IInv, AnswersAgree
<1>10. NamedIsUnreported'
  BY <1>1, <1>3 DEF IInv, NamedIsUnreported, Named, Has
<1>11. OpenIsNamed'
  <2>1. ASSUME NEW o \in DOMAIN orders, Open(o)' PROVE Open(o)
    BY <1>1, <1>3, <1>4, <2>1, OpenKept
  <2>2. \A v \in Updates : task'[v].do \in Ordering => task[v].do \in Ordering
    BY <1>2, <1>5 DEF Ordering
  <2>3. \A o \in DOMAIN orders : Open(o)' => Named(data)' = {o}
    BY <1>3, <2>1 DEF IInv, OpenIsNamed, Named, Has
  <2>4. ~ disturbed' => \A o \in DOMAIN orders : Open(o)' =>
            conv' = "confirm" /\ \A v \in Updates : Busy(v)' => task'[v].do \in Deciding
    BY <1>3, <1>6, <2>1 DEF IInv, OpenIsNamed
  <2>5. ~ disturbed' => \A v \in Updates : task'[v].do \in Ordering => conv' = "confirm"
    BY <1>3, <2>2 DEF IInv, OpenIsNamed
  <2> QED BY <1>1, <2>3, <2>4, <2>5 DEF OpenIsNamed
<1> QED BY <1>7, <1>8, <1>9, <1>10, <1>11 DEF IInv

\* One field of one order changes.
LEMMA OrderChanges ==
    ASSUME StateInv, NEW o \in DOMAIN orders, NEW r \in Orders, orders' = [orders EXCEPT ![o] = r]
    PROVE  /\ orders' \in Seq(Orders) /\ DOMAIN orders' = DOMAIN orders /\ orders'[o] = r
           /\ \A p \in DOMAIN orders \ {o} : orders'[p] = orders[p]
<1>1. /\ DOMAIN orders = 1 .. Len(orders) /\ Len(orders) \in Nat
      /\ orders \in [1 .. Len(orders) -> Orders]
  BY DEF StateInv
<1>2. /\ orders' \in [1 .. Len(orders) -> Orders] /\ orders'[o] = r
      /\ \A p \in DOMAIN orders \ {o} : orders'[p] = orders[p]
  BY <1>1
<1> QED BY <1>1, <1>2

LEMMA OrderReportedIInv ==
    ASSUME IInv, NEW u \in Updates, OrderReported(u) PROVE IInv'
<1> DEFINE o == task[u].order
           c == Clear(data)
           todo == Do("end")
           r == [orders[o] EXCEPT !.reported = TRUE]
<1>1. /\ task[u].do = "report" /\ Wipe(u, c, todo)
      /\ orders' = [orders EXCEPT ![o].reported = TRUE]
      /\ stranded' = stranded \cup (Named(data) \ {o})
  BY DEF OrderReported
<1>2. StateInv /\ Sound(data) /\ stranded \subseteq DOMAIN orders /\ o \in DOMAIN orders
      /\ Flying(u) /\ task' = [task EXCEPT ![u] = todo]
  BY <1>1 DEF IInv, StateInv, TaskOK, Flying, Wipe
<1>3. Sound(c) /\ Named(c) = {} /\ Answered(c, NoAnswers) /\ todo.do = "end"
  BY <1>2, ClearFacts DEF Do
<1>4. r \in Orders /\ r.reported = TRUE /\ orders' = [orders EXCEPT ![o] = r]
  <2>1. orders[o] \in Orders
    BY <1>2 DEF StateInv
  <2>2. r \in Orders /\ r.reported = TRUE
    BY <2>1 DEF Orders
  <2> QED BY <1>1, <2>2
<1> HIDE DEF o, c, todo, r
<1>5. /\ orders' \in Seq(Orders) /\ DOMAIN orders' = DOMAIN orders /\ orders'[o].reported = TRUE
      /\ \A p \in DOMAIN orders \ {o} : orders'[p] = orders[p]
  BY <1>2, <1>4, OrderChanges
<1>6. Agrees(todo, c, NoAnswers)
  BY <1>3, AgreesIsAnswered DEF Writing
<1>7. TaskOK(todo) /\ todo.do \notin {"none", "provider", "report", "cancel"} \cup Deciding
  BY <1>3 DEF TaskOK, Deciding
<1>8. stranded' \subseteq DOMAIN orders
  BY <1>1, <1>2 DEF Named, Sound
<1>9. \A v \in Updates \ {u} :
         Flying(v) => orders'[task[v].order].reported = orders[task[v].order].reported
  <2>1. \A v \in Updates \ {u} : Flying(v) => task[v].order # o
    BY <1>2 DEF StateInv, o
  <2>2. \A v \in Updates : Flying(v) => task[v].order \in DOMAIN orders
    BY <1>2 DEF StateInv, Flying, TaskOK
  <2> QED BY <1>5, <2>1, <2>2
<1>10. ASSUME NEW p \in DOMAIN orders, Open(p)' PROVE FALSE
  <2>1. p # o /\ p \notin stranded'
    BY <1>5, <1>10 DEF Open
  <2>2. orders'[p] = orders[p] /\ \A v \in Updates \ {u} : task'[v] = task[v]
    BY <1>2, <1>5, <2>1, TaskFacts
  <2>3. Open(p)
    BY <1>1, <1>10, <2>1, <2>2 DEF Open, Pending
  <2>4. p \in Named(data)
    BY <2>3 DEF IInv, OpenIsNamed
  <2> QED BY <1>1, <2>1, <2>4
<1> QED BY <1>1, <1>3, <1>5, <1>6, <1>7, <1>8, <1>9, <1>10, WipeIInv

LEMMA CancelOrderIInv ==
    ASSUME IInv, NEW u \in Updates, CancelOrder(u) PROVE IInv'
<1> DEFINE o == task[u].order
           c == Clear(data)
           todo == Do("end")
           r == [orders[o] EXCEPT !.status = "cancelled"]
           lost == Named(data) \ {o}
<1>1. /\ task[u].do = "cancel" /\ Wipe(u, c, todo)
      /\ \/ orders' = [orders EXCEPT ![o].status = "cancelled"]
            /\ stranded' = stranded \cup lost
         \/ orders' = orders /\ stranded' = stranded \cup lost \cup {o}
  BY DEF CancelOrder
<1>2. StateInv /\ Sound(data) /\ stranded \subseteq DOMAIN orders /\ o \in DOMAIN orders
      /\ task' = [task EXCEPT ![u] = todo]
  BY <1>1 DEF IInv, StateInv, TaskOK, Wipe
<1>3. Sound(c) /\ Named(c) = {} /\ Answered(c, NoAnswers) /\ todo.do = "end"
  BY <1>2, ClearFacts DEF Do
<1>4. /\ r \in Orders /\ r.reported = orders[o].reported /\ r.status = "cancelled"
      /\ orders' = [orders EXCEPT ![o] = r] \/ orders' = orders
  <2>1. orders[o] \in Orders
    BY <1>2 DEF StateInv
  <2>2. r \in Orders /\ r.reported = orders[o].reported /\ r.status = "cancelled"
    BY <2>1 DEF Orders
  <2> QED BY <1>1, <2>2
<1> HIDE DEF o, c, todo, r
<1>5. /\ orders' \in Seq(Orders) /\ DOMAIN orders' = DOMAIN orders
      /\ orders'[o].reported = orders[o].reported
      /\ \A p \in DOMAIN orders \ {o} : orders'[p] = orders[p]
  <2>1. CASE orders' = orders
    BY <1>2, <2>1 DEF StateInv
  <2>2. CASE orders' = [orders EXCEPT ![o] = r]
    BY <1>2, <1>4, <2>2, OrderChanges
  <2> QED BY <1>4, <2>1, <2>2
<1>6. o \in stranded' \/ orders'[o].status = "cancelled"
  <2>1. CASE orders' = orders /\ stranded' = stranded \cup lost \cup {o}
    BY <2>1
  <2>2. CASE orders' = [orders EXCEPT ![o].status = "cancelled"]
    <3>1. orders' = [orders EXCEPT ![o] = r]
      BY <2>2 DEF r
    <3> QED BY <1>2, <1>4, <3>1, OrderChanges
  <2> QED BY <1>1, <2>1, <2>2
<1>7. Agrees(todo, c, NoAnswers)
  BY <1>3, AgreesIsAnswered DEF Writing
<1>8. TaskOK(todo) /\ todo.do \notin {"none", "provider", "report", "cancel"} \cup Deciding
  BY <1>3 DEF TaskOK, Deciding
<1>9. stranded' \subseteq DOMAIN orders /\ stranded \cup lost \subseteq stranded'
  BY <1>1, <1>2 DEF Named, Sound
<1>10. \A v \in Updates \ {u} :
         Flying(v) => orders'[task[v].order].reported = orders[task[v].order].reported
  <2>1. \A v \in Updates : Flying(v) => task[v].order \in DOMAIN orders
    BY <1>2 DEF StateInv, Flying, TaskOK
  <2> QED BY <1>5, <2>1
<1>11. ASSUME NEW p \in DOMAIN orders, Open(p)' PROVE FALSE
  <2>1. p # o /\ p \notin stranded'
    BY <1>6, <1>11 DEF Open, Pending
  <2>2. orders'[p] = orders[p] /\ \A v \in Updates \ {u} : task'[v] = task[v]
    BY <1>2, <1>5, <2>1, TaskFacts
  <2>3. task[u].order # p
    BY <2>1 DEF o
  <2>4. Open(p)
    BY <1>9, <1>11, <2>1, <2>2, <2>3 DEF Open, Pending
  <2>5. p \in Named(data)
    BY <2>4 DEF IInv, OpenIsNamed
  <2> QED BY <1>9, <2>1, <2>5
<1> QED BY <1>1, <1>3, <1>5, <1>7, <1>8, <1>9, <1>10, <1>11, WipeIInv

\* The handler of an order in flight returns.
LEMMA LandedState ==
    ASSUME StateInv, NEW u \in Updates, NEW state \in States, Return(u, state),
           UNCHANGED orders, Sound(data'), stranded' \subseteq DOMAIN orders
    PROVE  StateInv'
<1>1. /\ conv' = state /\ task' = [task EXCEPT ![u] = Idle]
      /\ UNCHANGED <<saved, answers>>
  BY DEF Return
<1>2. Idle.do = "none"
  BY DEF Idle, Do
<1>3. TaskOK(Idle) /\ answers' \in Answers
  BY <1>1, <1>2 DEF TaskOK, StateInv
<1>4. PICK d : data' = d
  OBVIOUS
<1>5. Sound(d)
  BY <1>4
<1> QED BY <1>1, <1>2, <1>3, <1>4, <1>5, StateKept

LEMMA PaymentRefusedIInv ==
    ASSUME IInv, NEW u \in Updates, PaymentRefused(u) PROVE IInv'
<1> DEFINE o == task[u].order
           d == Put(data, "order", o)
<1>1. /\ task[u].do = "provider" /\ Return(u, "confirm") /\ data' = d
      /\ stranded' = stranded \cup (Named(data) \ {o})
      /\ UNCHANGED <<orders, disturbed>>
  BY DEF PaymentRefused
<1>2. StateInv /\ Sound(data) /\ stranded \subseteq DOMAIN orders
      /\ o \in DOMAIN orders /\ ~ orders[o].reported
  BY <1>1 DEF IInv, StateInv, TaskOK, Flying
<1>3. /\ conv' = "confirm" /\ task' = [task EXCEPT ![u] = Idle]
      /\ UNCHANGED <<saved, answers, mixed>> /\ Idle.do = "none"
  BY <1>1 DEF Return, Idle, Do
<1>4. /\ DOMAIN task' = Updates /\ task'[u] = Idle
      /\ \A v \in Updates \ {u} : task'[v] = task[v]
  BY <1>2, <1>3, TaskFacts
<1>5. /\ DOMAIN d = DOMAIN data \cup {"order"} /\ d["order"] = o
      /\ \A x \in DOMAIN data \ {"order"} : d[x] = data[x]
  BY DEF Put
<1>6. Sound(d)
  BY <1>2, PutSound, KeysAreKeys
<1>7. SameAnswers(d, data)
  BY PutOther
<1> HIDE DEF d, o
<1>8. \A v \in Updates : /\ Busy(v)' <=> Busy(v)
                         /\ Busy(v) => task'[v] = task[v]
  BY <1>1, <1>3, <1>4 DEF Busy
<1>9. StateInv'
  <2>1. stranded' \subseteq DOMAIN orders
    BY <1>1, <1>2 DEF Named, Sound
  <2>2. "confirm" \in States
    BY DEF States
  <2> QED BY <1>1, <1>2, <1>6, <2>1, <2>2, LandedState
<1>10. OneAtATime'
  BY <1>1, <1>8 DEF IInv, OneAtATime
<1>11. AnswersAgree'
  <2> SUFFICES ASSUME ~ mixed', ~ disturbed' PROVE AnswersAgree'
    BY DEF AnswersAgree
  <2>1. ASSUME NEW v \in Updates, Busy(v)' PROVE Agrees(task[v], data, answers)'
    <3>1. Agrees(task[v], data, answers)
      BY <1>1, <1>3, <1>8, <2>1 DEF IInv, AnswersAgree
    <3>2. Agrees(task[v], d, answers)
      BY <1>7, <3>1, SameAgrees
    <3> QED BY <1>1, <1>3, <1>8, <2>1, <3>2
  <2>2. (\A v \in Updates : ~ Busy(v)) => Answered(d, answers)
    BY <1>1, <1>3, <1>7, SameAgrees DEF IInv, AnswersAgree
  <2> QED BY <1>1, <1>3, <1>8, <2>1, <2>2 DEF AnswersAgree
<1>12. NamedIsUnreported'
  BY <1>1, <1>2, <1>5 DEF NamedIsUnreported, Named, Has
<1>13. OpenIsNamed'
  <2>1. ASSUME NEW p \in DOMAIN orders, Open(p)' PROVE Open(p) /\ p = o
    <3>1. Open(p) /\ p \notin stranded'
      BY <1>1, <1>2, <1>3, <2>1, OpenKept
    <3>2. p \in Named(data)
      BY <3>1 DEF IInv, OpenIsNamed
    <3> QED BY <1>1, <3>1, <3>2
  <2>2. Named(data)' = {o}
    BY <1>1, <1>5 DEF Named, Has
  <2>3. ~ disturbed' => \A p \in DOMAIN orders : Open(p)' =>
            \A v \in Updates : Busy(v)' => task'[v].do \in Deciding
    BY <1>1, <1>8, <2>1 DEF IInv, OpenIsNamed
  <2> QED BY <1>1, <1>3, <2>1, <2>2, <2>3 DEF OpenIsNamed
<1> QED BY <1>9, <1>10, <1>11, <1>12, <1>13 DEF IInv

LEMMA OrderHandlerFailsIInv ==
    ASSUME IInv, NEW u \in Updates, OrderHandlerFails(u) PROVE IInv'
<1> DEFINE o == task[u].order
<1>1. /\ task[u].do \in {"provider", "report"} /\ Return(u, conv)
      /\ stranded' = stranded \cup {o} /\ UNCHANGED <<data, orders, disturbed>>
  BY DEF OrderHandlerFails
<1>2. StateInv /\ Sound(data) /\ conv \in States
      /\ stranded \subseteq DOMAIN orders /\ o \in DOMAIN orders
  BY <1>1 DEF IInv, StateInv, TaskOK
<1>3. /\ conv' = conv /\ task' = [task EXCEPT ![u] = Idle]
      /\ UNCHANGED <<saved, answers, mixed>> /\ Idle.do = "none"
  BY <1>1 DEF Return, Idle, Do
<1>4. /\ DOMAIN task' = Updates /\ task'[u] = Idle
      /\ \A v \in Updates \ {u} : task'[v] = task[v]
  BY <1>2, <1>3, TaskFacts
<1> HIDE DEF o
<1>5. \A v \in Updates : /\ Busy(v)' <=> Busy(v)
                         /\ Busy(v) => task'[v] = task[v]
                         /\ task'[v].do \in Ordering => task[v].do \in Ordering
  BY <1>1, <1>3, <1>4 DEF Busy, Ordering
<1>6. StateInv'
  BY <1>1, <1>2, LandedState
<1>7. OneAtATime'
  BY <1>1, <1>5 DEF IInv, OneAtATime
<1>8. AnswersAgree'
  BY <1>1, <1>3, <1>5 DEF IInv, AnswersAgree
<1>9. NamedIsUnreported'
  BY <1>1, <1>3 DEF IInv, NamedIsUnreported, Named, Has
<1>10. OpenIsNamed'
  <2>1. ASSUME NEW p \in DOMAIN orders, Open(p)' PROVE Open(p)
    BY <1>1, <1>2, <1>3, <2>1, OpenKept
  <2>2. \A p \in DOMAIN orders : Open(p)' => Named(data)' = {p}
    BY <1>1, <2>1 DEF IInv, OpenIsNamed, Named, Has
  <2>3. ~ disturbed' => \A p \in DOMAIN orders : Open(p)' =>
            conv' = "confirm" /\ \A v \in Updates : Busy(v)' => task'[v].do \in Deciding
    BY <1>1, <1>3, <1>5, <2>1 DEF IInv, OpenIsNamed
  <2>4. ~ disturbed' => \A v \in Updates : task'[v].do \in Ordering => conv' = "confirm"
    BY <1>1, <1>3, <1>5 DEF IInv, OpenIsNamed
  <2> QED BY <1>1, <2>2, <2>3, <2>4 DEF OpenIsNamed
<1> QED BY <1>6, <1>7, <1>8, <1>9, <1>10 DEF IInv

\* Handlers that return, or fail before anything was decided.
LEMMA ReturnsIInv ==
    ASSUME IInv, NEW u \in Updates,
           End(u) \/ ReturnState(u) \/ QueryTooOld(u) \/ HandlerFails(u)
    PROVE  IInv'
<1>1. CASE End(u)
  <2>1. /\ task[u].do = "end" /\ Return(u, "none")
        /\ UNCHANGED <<data, orders, stranded, disturbed>>
    BY <1>1 DEF End, NoOrderTouched
  <2> QED BY <2>1, ReturnIInv DEF Busy, States, Writing, Deciding
<1>2. CASE ReturnState(u)
  <2>1. /\ task[u].do = "return" /\ Return(u, task[u].to)
        /\ UNCHANGED <<data, orders, stranded, disturbed>>
    BY <1>2 DEF ReturnState, NoOrderTouched
  <2>2. task[u].to \in States
    BY <2>1 DEF IInv, StateInv, TaskOK
  <2> QED BY <2>1, <2>2, ReturnIInv DEF Busy, Deciding
<1>3. CASE QueryTooOld(u)
  <2>1. PICK state \in Screen(task[u]) : Return(u, state)
    BY <1>3 DEF QueryTooOld
  <2>2. /\ task[u].do \in {"start", "choose", "skip", "back", "method", "confirm", "retry", "quit"}
        /\ task[u].do = "quit" => state = task[u].screen
        /\ task[u].do # "quit" => state \in {"none", "address", "coupon", "payment", "confirm"}
    BY <2>1 DEF Screen
  <2>3. state \in States
    BY <2>2 DEF IInv, StateInv, TaskOK, States
  <2>4. Busy(u) /\ task[u].do # "cancel"
    BY <2>2 DEF Busy
  <2>5. UNCHANGED <<data, orders, stranded>> /\ disturbed'
    BY <1>3 DEF QueryTooOld, Mishap
  <2> QED BY <2>1, <2>3, <2>4, <2>5, ReturnIInv
<1>4. CASE HandlerFails(u)
  <2>1. /\ Busy(u) /\ task[u].do # "cancel" /\ Return(u, conv) /\ conv \in States
        /\ UNCHANGED <<data, orders, stranded>> /\ disturbed'
    BY <1>4 DEF HandlerFails, Mishap, IInv, StateInv
  <2> QED BY <2>1, ReturnIInv
<1> QED BY <1>1, <1>2, <1>3, <1>4

LEMMA GoesOnIInv ==
    ASSUME IInv, NEW u \in Updates, GoesOn(u) PROVE IInv'
BY StartCheckoutIInv, AddressChosenIInv, LocatedIInv, SaveAddressIInv, AddressSavedIInv,
   AskNextIInv, CouponValidatedIInv, CouponSkippedIInv, BackToNameIInv, MethodChosenIInv,
   QuitIInv, ShowConfirmationIInv, ReadAnswersIInv, CreateOrderIInv, RefuseOrderIInv,
   PaymentAcceptedIInv, OrderReportedIInv, PaymentRefusedIInv, RetryPaymentIInv,
   ReadOrderIInv, CancelOrderIInv, ClearStateIInv, ReturnsIInv, OrderHandlerFailsIInv
   DEF GoesOn

-----------------------------------------------------------------------------
(* Around the conversation                                                 *)

LEMMA OtherScreenIInv == IInv /\ OtherScreen => IInv'
<1> SUFFICES ASSUME IInv, OtherScreen PROVE IInv'
  OBVIOUS
<1> DEFINE d == Refreshed
<1>1. /\ data' = d /\ (~ mixed' => ~ mixed /\ ~ MergesBack)
      /\ UNCHANGED <<conv, saved, orders, task, answers, disturbed, stranded>>
  BY DEF OtherScreen
<1>2. StateInv
  BY DEF IInv
<1>3. /\ Sound(d) /\ (Has(data, "order") => Named(d) = Named(data))
      /\ ~ MergesBack => Named(d) = Named(data) /\ SameAnswers(d, data)
  BY <1>2, RefreshedIsSound
<1> HIDE DEF d
<1>4. StateInv'
  <2>1. Sound(data)' /\ Sound(saved)'
    BY <1>1, <1>2, <1>3 DEF StateInv, Sound
  <2>2. (\A u \in Updates : TaskOK(task[u]))'
    BY <1>1, <1>2 DEF StateInv, TaskOK
  <2> QED BY <1>1, <1>2, <2>1, <2>2 DEF StateInv, Flying
<1>5. OneAtATime'
  BY <1>1 DEF IInv, OneAtATime, Busy
<1>6. AnswersAgree'
  <2> SUFFICES ASSUME ~ mixed', ~ disturbed' PROVE AnswersAgree'
    BY DEF AnswersAgree
  <2>1. SameAnswers(d, data) /\ ~ mixed /\ ~ disturbed
    BY <1>1, <1>3
  <2>2. \A u \in Updates : Busy(u) => Agrees(task[u], d, answers)
    BY <2>1, SameAgrees DEF IInv, AnswersAgree
  <2>3. (\A u \in Updates : ~ Busy(u)) =>
           Answered(d, answers) /\ (conv = "address" => ~ Has(d, "pending"))
    BY <2>1, SameAgrees DEF IInv, AnswersAgree
  <2> QED BY <1>1, <2>2, <2>3 DEF AnswersAgree, Busy
<1>7. NamedIsUnreported'
  BY <1>1, <1>3 DEF IInv, NamedIsUnreported, Named, Has
<1>8. OpenIsNamed'
  <2>1. \A o : Open(o)' <=> Open(o)
    BY <1>1 DEF Open, Pending
  <2>2. \A o \in DOMAIN orders : Open(o) => Named(d) = {o}
    <3> SUFFICES ASSUME NEW o \in DOMAIN orders, Open(o) PROVE Named(d) = {o}
      OBVIOUS
    <3>1. Named(data) = {o}
      BY DEF IInv, OpenIsNamed
    <3> QED BY <1>3, <3>1 DEF Named
  <2> QED BY <1>1, <2>1, <2>2 DEF IInv, OpenIsNamed, Named, Has, Busy
<1> QED BY <1>4, <1>5, <1>6, <1>7, <1>8 DEF IInv

\* What is persisted is only read after a restart or by a refresh.
LEMMA FlushIInv ==
    ASSUME IInv, Sound(saved)',
           UNCHANGED <<conv, data, orders, task, answers, mixed, disturbed, stranded>>
    PROVE  IInv'
<1>1. StateInv'
  <2>1. Sound(data)' /\ (\A u \in Updates : TaskOK(task[u]))'
    BY DEF IInv, StateInv, Sound, TaskOK
  <2> QED BY <2>1 DEF IInv, StateInv, Flying
<1>2. OneAtATime'
  BY DEF IInv, OneAtATime, Busy
<1>3. AnswersAgree'
  BY DEF IInv, AnswersAgree, Busy
<1>4. NamedIsUnreported'
  BY DEF IInv, NamedIsUnreported, Named, Has
<1>5. OpenIsNamed'
  <2>1. \A o : Open(o)' <=> Open(o)
    BY DEF Open, Pending
  <2> QED BY <2>1 DEF IInv, OpenIsNamed, Named, Has, Busy
<1> QED BY <1>1, <1>2, <1>3, <1>4, <1>5 DEF IInv

LEMMA RestartIInv == IInv /\ Restart => IInv'
<1> SUFFICES ASSUME IInv, Restart PROVE IInv'
  OBVIOUS
<1>1. /\ data' = saved /\ conv' = "none" /\ task' = [u \in Updates |-> Idle]
      /\ answers' = NoAnswers /\ stranded' = DOMAIN orders
      /\ ~ mixed' => DOMAIN saved \cap AnswerKeys = {}
      /\ UNCHANGED <<saved, orders>>
  BY DEF Restart
<1>2. DOMAIN task' = Updates /\ \A u \in Updates : task'[u].do = "none"
  BY <1>1 DEF Idle, Do
<1>3. StateInv'
  <2>1. Sound(data)' /\ Sound(saved)'
    BY <1>1 DEF IInv, StateInv, Sound
  <2>2. (\A u \in Updates : TaskOK(task[u]))' /\ \A u \in Updates : ~ Flying(u)'
    BY <1>2 DEF TaskOK, Flying
  <2>3. (orders \in Seq(Orders))' /\ conv' \in States
    BY <1>1 DEF IInv, StateInv, States
  <2> QED BY <1>1, <1>2, <2>1, <2>2, <2>3, NoAnswersFacts DEF StateInv
<1>4. OneAtATime'
  BY <1>2 DEF OneAtATime, Busy
<1>5. ~ mixed' => \A key \in {"address", "pending", "method", "coupon", "order"} :
                     ~ Has(saved, key)
  BY <1>1 DEF AnswerKeys, Has
<1>6. AnswersAgree'
  <2>1. ~ mixed' => Answered(saved, NoAnswers)
    BY <1>5, NoAnswersFacts DEF Answered, AddressAgrees, MethodAgrees, CouponAgrees
  <2> QED BY <1>1, <1>2, <2>1 DEF AnswersAgree, Busy
<1>7. NamedIsUnreported'
  BY <1>1, <1>5 DEF NamedIsUnreported, Named, Has
<1>8. OpenIsNamed'
  BY <1>1, <1>2 DEF OpenIsNamed, Open, Ordering
<1> QED BY <1>3, <1>4, <1>6, <1>7, <1>8 DEF IInv

-----------------------------------------------------------------------------
(* The invariant                                                           *)

LEMMA InitIInv == Init => IInv
<1> SUFFICES ASSUME Init PROVE IInv
  OBVIOUS
<1>1. /\ conv = "none" /\ data = NoData /\ saved = NoData /\ DOMAIN NoData = {}
      /\ orders = << >> /\ answers = NoAnswers /\ stranded = {}
  BY DEF Init, NoData
<1>2. DOMAIN task = Updates /\ \A u \in Updates : task[u].do = "none"
  BY DEF Init, Idle, Do
<1>3. StateInv
  <2>1. Sound(data) /\ Sound(saved)
    BY <1>1 DEF Sound, Has
  <2>2. \A u \in Updates : TaskOK(task[u]) /\ ~ Flying(u)
    BY <1>2 DEF TaskOK, Flying
  <2>3. orders \in Seq(Orders)
    BY <1>1
  <2> QED BY <1>1, <1>2, <2>1, <2>2, <2>3, NoAnswersFacts DEF StateInv, States
<1>4. OneAtATime
  BY <1>2 DEF OneAtATime, Busy
<1>5. AnswersAgree
  <2>1. Answered(data, answers)
    BY <1>1, NoAnswersFacts DEF Answered, AddressAgrees, MethodAgrees, CouponAgrees, Has
  <2> QED BY <1>1, <1>2, <2>1 DEF AnswersAgree, Busy
<1>6. NamedIsUnreported
  BY <1>1 DEF NamedIsUnreported, Named, Has
<1>7. OpenIsNamed
  BY <1>1, <1>2 DEF OpenIsNamed, Ordering
<1> QED BY <1>3, <1>4, <1>5, <1>6, <1>7 DEF IInv

LEMMA StepIInv == IInv /\ [Next]_vars => IInv'
<1> SUFFICES ASSUME IInv, [Next]_vars PROVE IInv'
  OBVIOUS
<1>1. ASSUME NEW u \in Updates, Arrives(u) \/ GoesOn(u) PROVE IInv'
  BY <1>1, ArrivesIInv, GoesOnIInv
<1>2. CASE OtherScreen \/ Restart
  BY <1>2, OtherScreenIInv, RestartIInv
<1>3. CASE Flush
  <2>1. Sound(saved)' /\ UNCHANGED <<conv, data, orders, task, answers, mixed, disturbed,
                                     stranded>>
    BY <1>3 DEF Flush, IInv, StateInv, Sound
  <2> QED BY <2>1, FlushIInv
<1>4. CASE UNCHANGED vars
  <2>1. Sound(saved)'
    BY <1>4 DEF vars, IInv, StateInv, Sound
  <2> QED BY <1>4, <2>1, FlushIInv DEF vars
<1> QED BY <1>1, <1>2, <1>3, <1>4 DEF Next

LEMMA IInvHolds == Spec => []IInv
BY InitIInv, StepIInv, PTL DEF Spec

-----------------------------------------------------------------------------
(* Theorems                                                                *)

\* user_data and what Redis keeps of it hold only the keys of the checkout, with
\* values of their types, and name only orders that exist; and so do the local
\* variables of the handlers.
THEOREM TypeCorrect == Spec => []TypeOK
<1>1. IInv => TypeOK
  BY DEF IInv, StateInv, Sound, TypeOK, AddressOf, Named, Has
<1> QED BY <1>1, IInvHolds, PTL

\* What a confirmation orders is what the customer answered since this checkout
\* began, however many orders, screens, writes and restarts there were, as long as
\* no removed answer came back from the persisted state, no two of the customer's
\* updates were handled at once and no handler failed.
THEOREM AnswersAreOrdered == Spec => []ConfirmsTheAnswers
<1>1. IInv => ConfirmsTheAnswers
  <2> SUFFICES ASSUME IInv, NEW u \in Updates, task[u].do = "create", ~ mixed, ~ disturbed
               PROVE  /\ task[u].address = answers.address
                      /\ task[u].method = answers.method
                      /\ Has(data, "coupon") <=> answers.coupon = "given"
    BY DEF ConfirmsTheAnswers
  <2>1. Agrees(task[u], data, answers)
    BY DEF IInv, AnswersAgree, Busy
  <2> QED BY <2>1 DEF Agrees, CouponAgrees
<1> QED BY <1>1, IInvHolds, PTL

\* An unpaid order is cancelled, or a handler is at work on it, or the conversation
\* can still cancel it, but for the orders it let go of.
THEOREM NoOrderIsForgotten == Spec => []UnpaidOrdersAreKnown
<1>1. IInv => UnpaidOrdersAreKnown
  <2> SUFFICES ASSUME IInv, NEW o \in DOMAIN orders \ (InFlight \cup stranded),
                      Pending(o), ~ orders[o].reported
               PROVE  Named(data) = {o} /\ (conv = "confirm" \/ disturbed)
    BY DEF UnpaidOrdersAreKnown
  <2>1. Open(o)
    BY DEF Open, InFlight
  <2> QED BY <2>1 DEF IInv, OpenIsNamed
<1> QED BY <1>1, IInvHolds, PTL

\* A step of the handler v that does not decide to cancel.
Harmless(v) == \E todo : todo.do # "cancel" /\ task' = [task EXCEPT ![v] = todo]

LEMMA ArrivesHarmless ==
    ASSUME NEW v \in Updates, Arrives(v) PROVE Harmless(v)
<1>1. \A d, todo, given : Receive(v, d, todo, given) /\ todo.do # "cancel" => Harmless(v)
  BY DEF Receive, Harmless
<1>2. \A s : s # "cancel" => Do(s).do # "cancel"
  BY DEF Do
<1>3. \A s : ReturnTo(s).do # "cancel"
  BY DEF ReturnTo
<1>4. \A todo \in AfterDetails : todo.do # "cancel"
  BY DEF AfterDetails, Do
<1>5. CASE \/ Start(v) \/ AskAgain(v) \/ TypeAddress(v) \/ ShareLocation(v) \/ GiveCoupon(v)
           \/ SkipCoupon(v) \/ PayBack(v) \/ Confirm(v) \/ Retry(v) \/ Leave(v)
  BY <1>1, <1>2, <1>3, <1>5 DEF Start, AskAgain, TypeAddress, ShareLocation, GiveCoupon,
     SkipCoupon, PayBack, Confirm, Retry, Leave
<1>6. CASE GiveName(v)
  <2>1. \E d, todo : Receive(v, d, todo, answers) /\ todo \in AfterDetails \cup {ReturnTo("phone")}
    BY <1>6 DEF GiveName
  <2> QED BY <1>1, <1>3, <1>4, <2>1
<1>7. CASE GivePhone(v)
  <2>1. \E d, todo : Receive(v, d, todo, answers) /\ todo \in {Do("save"), Do("ask")}
    BY <1>7 DEF GivePhone
  <2> QED BY <1>1, <1>2, <2>1
<1>8. CASE CancelButton(v)
  <2>1. [do |-> "quit", screen |-> conv].do # "cancel"
    OBVIOUS
  <2> QED BY <1>1, <1>8, <2>1 DEF CancelButton
<1>9. ASSUME NEW a \in Addresses, ChooseAddress(v, a) PROVE Harmless(v)
  <2>1. [do |-> "choose", address |-> a].do # "cancel"
    OBVIOUS
  <2> QED BY <1>1, <1>9, <2>1 DEF ChooseAddress
<1>10. ASSUME NEW m \in Methods, ChooseMethod(v, m) PROVE Harmless(v)
  <2>1. [do |-> "method", method |-> m].do # "cancel"
    OBVIOUS
  <2> QED BY <1>1, <1>10, <2>1 DEF ChooseMethod
<1> QED BY <1>5, <1>6, <1>7, <1>8, <1>9, <1>10 DEF Arrives

LEMMA GoesOnHarmless ==
    ASSUME NEW v \in Updates, GoesOn(v), ~ ReadOrder(v) PROVE Harmless(v)
<1>1. \A d, todo : Proceed(v, d, todo) /\ todo.do # "cancel" => Harmless(v)
  BY DEF Proceed, Harmless
<1>2. \A d, todo : Wipe(v, d, todo) /\ todo.do # "cancel" => Harmless(v)
  BY DEF Wipe, Harmless
<1>3. \A s : s # "cancel" => Do(s).do # "cancel"
  BY DEF Do
<1>4. \A s : ReturnTo(s).do # "cancel"
  BY DEF ReturnTo
<1>5. \A todo \in AfterDetails \cup ShowPayment \cup AfterShow : todo.do # "cancel"
  BY <1>3, <1>4 DEF AfterDetails, ShowPayment, AfterShow
<1>6. \A state : Return(v, state) => Harmless(v)
  <2>1. Idle.do # "cancel"
    BY DEF Idle, Do
  <2> QED BY <2>1 DEF Return, Harmless
<1>7. CASE \/ StartCheckout(v) \/ ClearState(v) \/ CancelOrder(v) \/ OrderReported(v)
  BY <1>2, <1>3, <1>4, <1>7 DEF StartCheckout, ClearState, CancelOrder, OrderReported
<1>8. CASE \/ AddressChosen(v) \/ Located(v) \/ AskNext(v) \/ CouponValidated(v)
           \/ CouponSkipped(v) \/ BackToName(v) \/ Quit(v)
  BY <1>1, <1>3, <1>4, <1>5, <1>8 DEF AddressChosen, Located, AskNext, CouponValidated,
     CouponSkipped, BackToName, Quit
<1>9. CASE MethodChosen(v)
  BY <1>1, <1>4, <1>5, <1>9 DEF MethodChosen
<1>10. CASE ShowConfirmation(v)
  BY <1>1, <1>5, <1>10 DEF ShowConfirmation
<1>11. CASE AddressSaved(v) \/ RefuseOrder(v)
  BY <1>1, <1>3, <1>11 DEF AddressSaved, RefuseOrder
<1>12. CASE SaveAddress(v)
  <2>1. \A a : [do |-> "saved", address |-> a].do # "cancel"
    OBVIOUS
  <2> QED BY <1>1, <1>3, <1>12, <2>1 DEF SaveAddress
<1>13. CASE ReadAnswers(v)
  <2> DEFINE todo == [do |-> "create", address |-> data["address"],
                      method |-> data["method"]]
  <2>1. todo.do # "cancel"
    OBVIOUS
  <2>2. Proceed(v, data, Do("clear")) \/ Proceed(v, data, todo)
    BY <1>13 DEF ReadAnswers
  <2> HIDE DEF todo
  <2> QED BY <1>1, <1>3, <2>1, <2>2
<1>14. CASE CreateOrder(v)
  <2> DEFINE todo == [do |-> IF task[v].method = "cash" THEN "report" ELSE "provider",
                      order |-> Len(orders) + 1]
  <2>1. todo.do # "cancel"
    OBVIOUS
  <2>2. Proceed(v, Put(data, "order", Len(orders) + 1), todo)
    BY <1>14 DEF CreateOrder
  <2> HIDE DEF todo
  <2> QED BY <1>1, <2>1, <2>2
<1>15. CASE PaymentAccepted(v)
  <2>1. [do |-> "report", order |-> task[v].order].do # "cancel"
    OBVIOUS
  <2> QED BY <1>1, <1>15, <2>1 DEF PaymentAccepted
<1>16. CASE RetryPayment(v)
  BY <1>1, <1>3, <1>16 DEF RetryPayment, Idle
<1>17. CASE \/ PaymentRefused(v) \/ End(v) \/ ReturnState(v) \/ QueryTooOld(v)
            \/ HandlerFails(v) \/ OrderHandlerFails(v)
  BY <1>6, <1>17 DEF PaymentRefused, End, ReturnState, QueryTooOld, HandlerFails,
     OrderHandlerFails
<1> QED BY <1>7, <1>8, <1>9, <1>10, <1>11, <1>12, <1>13, <1>14, <1>15, <1>16, <1>17
        DEF GoesOn

\* Leaving decides on no order that was reported as placed, with the exception of
\* a key that came back: only the handler that leaves decides, and it reads the
\* order that user_data names.
THEOREM PlacedOrdersAreKept == Spec => PlacedOrdersStay
<1>1. ASSUME IInv, [Next]_vars, NEW u \in Updates,
             task[u].do # "cancel", task'[u].do = "cancel", ~ mixed
      PROVE  ~ orders[task'[u].order].reported
  <2>1. StateInv
    BY <1>1 DEF IInv
  <2>2. ASSUME NEW v \in Updates, Harmless(v) PROVE FALSE
    <3>1. PICK todo : todo.do # "cancel" /\ task' = [task EXCEPT ![v] = todo]
      BY <2>2 DEF Harmless
    <3>2. task'[v] = todo /\ \A w \in Updates \ {v} : task'[w] = task[w]
      BY <2>1, <3>1, TaskFacts
    <3> QED BY <1>1, <3>1, <3>2
  <2>3. \E v \in Updates : ReadOrder(v)
    <3>1. CASE OtherScreen \/ Flush \/ UNCHANGED vars
      BY <1>1, <3>1 DEF OtherScreen, Flush, vars
    <3>2. CASE Restart
      BY <1>1, <3>2 DEF Restart, Idle, Do
    <3>3. CASE \E v \in Updates : Arrives(v) \/ GoesOn(v)
      BY <2>2, <3>3, ArrivesHarmless, GoesOnHarmless
    <3> QED BY <1>1, <3>1, <3>2, <3>3 DEF Next
  <2>4. PICK v \in Updates : ReadOrder(v)
    BY <2>3
  <2> DEFINE todo == IF Has(data, "order") THEN [do |-> "cancel", order |-> data["order"]]
                                           ELSE Do("clear")
  <2>5. task' = [task EXCEPT ![v] = todo]
    BY <2>4 DEF ReadOrder, Proceed
  <2>6. /\ todo.do = IF Has(data, "order") THEN "cancel" ELSE "clear"
        /\ Has(data, "order") => todo.order = data["order"]
    BY DEF Do
  <2> HIDE DEF todo
  <2>7. task'[v] = todo /\ \A w \in Updates \ {v} : task'[w] = task[w]
    BY <2>1, <2>5, TaskFacts
  <2>8. task'[u] = todo /\ task'[u].order \in Named(data)
    BY <1>1, <2>6, <2>7 DEF Named
  <2> QED BY <1>1, <2>8 DEF IInv, NamedIsUnreported
<1>2. IInv /\ [Next]_vars =>
         [\A u \in Updates :
            task[u].do # "cancel" /\ task'[u].do = "cancel" =>
                mixed \/ ~ orders[task'[u].order].reported]_vars
  BY <1>1
<1> QED BY <1>2, IInvHolds, PTL DEF Spec, PlacedOrdersStay
=============================================================================
