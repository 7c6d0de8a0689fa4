------------------------ MODULE CheckoutConversation ------------------------
(***************************************************************************)
(* One customer's checkout conversation with the bot:                      *)
(* bot/handlers/checkout.py as bot/dispatcher.py wires it into a           *)
(* ConversationHandler, the user_data it keeps its answers in, and the     *)
(* persistence of bot/bot_instance.py that stores user_data now and then   *)
(* and merges it back before every update.                                 *)
(*                                                                         *)
(* The webhook (bot/webhooks.py) handles the customer's updates            *)
(* concurrently, and a handler runs until it awaits something: Telegram,   *)
(* the database, the geocoder, the provider.  An update is received with   *)
(* what its handler does up to its first await; each further step is what  *)
(* the handler does between two awaits, and the last one returns the state *)
(* of the conversation.                                                    *)
(*                                                                         *)
(* The cart is not kept: the customer fills and empties it on screens that *)
(* work in every state, so a handler that reads it may find it empty.  Nor *)
(* is the deletion of an address in the web app: a handler that looks up   *)
(* an address may find it gone.                                            *)
(***************************************************************************)
EXTENDS Integers, Sequences, Functions

CONSTANTS
    Updates,      \* handlers that can be at work at the same time
    Addresses,    \* ids of user_addresses the customer may come to have
    KnownAtStart, \* the addresses saved before
    MaxRounds,    \* bound: orders created, writes of user_data to Redis and restarts
                  \* of the bot, together
    MaxIncidents  \* bound: updates that arrive while another is handled, handlers
                  \* that fail and writes of user_data, together

ASSUME AddressAssumption == KnownAtStart \subseteq Addresses
ASSUME BoundAssumption == {MaxRounds, MaxIncidents} \subseteq Nat

VARIABLES
    conv,      \* the state the ConversationHandler has for the chat
    data,      \* user_data: the keys present and their values
    saved,     \* user_data as it was last persisted
    book,      \* the addresses that were saved
    orders,    \* the orders of this conversation, in the order of their ids
    task,      \* what the handler of each update does next, and its local variables
    answers,   \* ghost: what the customer answered since start_checkout
    mixed,     \* ghost: an answer was merged back since the keys were cleared
    disturbed, \* ghost: since then two updates were handled at once, or a handler failed
    stranded,  \* ghost: orders this conversation has let go of
    incidents, rounds

vars == <<conv, data, saved, book, orders, task, answers, mixed, disturbed,
          stranded, incidents, rounds>>

\* The keys checkout_<key> that hold answers.
AnswerKeys == {"address", "pending", "name", "phone", "resume", "method",
               "order", "coupon", "checked"}
\* What _clear_checkout_state and _clear_conversation_data remove.
CheckoutKeys == AnswerKeys \cup {"active"}

States == {"none", "address", "name", "phone", "coupon", "payment", "confirm"}
Methods == {"cash", "online"}
NoAnswer == "none"
NoAnswers == [address |-> NoAnswer, method |-> NoAnswer, coupon |-> NoAnswer]

NoData == [key \in {} |-> TRUE]
Has(d, key) == key \in DOMAIN d
Pop(d, keys) == Restrict(d, DOMAIN d \ keys)
Put(d, key, value) == [x \in DOMAIN d \cup {key} |-> IF x = key THEN value ELSE d[x]]
Clear(d) == Pop(d, CheckoutKeys)

Pending(o) == orders[o].status = "pending"
\* The order that user_data names, if any.
Named(d) == IF Has(d, "order") THEN {d["order"]} ELSE {}

Do(step) == [do |-> step]
ReturnTo(state) == [do |-> "return", to |-> state]
Idle == Do("none")

\* The handlers that have not returned, but for those that wait for a provider or
\* for Telegram to report an order.
Busy(u) == task[u].do \notin {"none", "provider", "report"}
Overlaps(u) == \E v \in Updates \ {u} : Busy(v)

Init ==
    /\ conv = "none"
    /\ data = NoData
    /\ saved = NoData
    /\ book = KnownAtStart
    /\ orders = << >>
    /\ task = [u \in Updates |-> Idle]
    /\ answers = NoAnswers
    /\ mixed = FALSE
    /\ disturbed = FALSE
    /\ stranded = {}
    /\ incidents = 0
    /\ rounds = 0

-----------------------------------------------------------------------------
(* What handlers are made of                                               *)

\* refresh_user_data: a key that user_data lacks comes back from the last
\* persisted state, whether or not a handler removed it on purpose.
Refreshed ==
    [key \in DOMAIN data \cup DOMAIN saved |->
        IF key \in DOMAIN data THEN data[key] ELSE saved[key]]

MergesBack == (DOMAIN saved \ DOMAIN data) \cap AnswerKeys # {}

RoundLeft == Len(orders) + rounds < MaxRounds
Round == RoundLeft /\ rounds' = rounds + 1
Incident == incidents < MaxIncidents /\ incidents' = incidents + 1

\* An update arrives, with the customer's answers so far; up to its first await
\* the handler leaves user_data as d.
Receive(u, d, todo, given) ==
    /\ task[u] = Idle
    /\ data' = d
    /\ task' = [task EXCEPT ![u] = todo]
    /\ answers' = given
    /\ mixed' = (mixed \/ MergesBack)
    /\ disturbed' = (disturbed \/ Overlaps(u))
    /\ IF Overlaps(u) THEN Incident ELSE UNCHANGED incidents
    /\ UNCHANGED <<conv, saved, book, orders, stranded, rounds>>

\* The handler works on user_data as it is by now, without another refresh.
Proceed(u, d, todo) ==
    /\ data' = d
    /\ task' = [task EXCEPT ![u] = todo]
    /\ UNCHANGED <<conv, saved, mixed, disturbed, incidents, rounds>>

\* The keys of the checkout are removed, and those of d written.
Wipe(u, d, todo) ==
    /\ data' = d
    /\ task' = [task EXCEPT ![u] = todo]
    /\ answers' = NoAnswers
    /\ mixed' = FALSE
    /\ disturbed' = Overlaps(u)
    /\ UNCHANGED <<conv, saved, book, incidents, rounds>>

\* The orders a wiped checkout lets go of, when its data was not this handler's alone.
Dropped == IF disturbed THEN Named(data) ELSE {}

\* The handler returns: the ConversationHandler enters the state.
Return(u, state) ==
    /\ conv' = state
    /\ task' = [task EXCEPT ![u] = Idle]
    /\ UNCHANGED <<saved, book, answers, mixed, rounds>>

NoOrderTouched == UNCHANGED <<orders, stranded>>
OnlyData == UNCHANGED <<book, orders, stranded, answers>>

Activated(d) == Put(d, "active", TRUE)

\* show_order_confirmation, unless the cart is empty.
AfterDetails == {Do("show"), Do("clear")}

\* show_payment_methods, unless the store was closed meanwhile.
ShowPayment == {ReturnTo("payment"), Do("clear")}

\* _clear_checkout_state, before the customer is told that the checkout is over.
ClearState(u) ==
    /\ task[u].do = "clear"
    /\ Wipe(u, Clear(data), Do("end"))
    /\ stranded' = stranded \cup Dropped
    /\ UNCHANGED orders

\* ConversationHandler.END.
End(u) ==
    /\ task[u].do = "end"
    /\ Return(u, "none")
    /\ NoOrderTouched
    /\ UNCHANGED <<data, disturbed, incidents>>

ReturnState(u) ==
    /\ task[u].do = "return"
    /\ Return(u, task[u].to)
    /\ NoOrderTouched
    /\ UNCHANGED <<data, disturbed, incidents>>

-----------------------------------------------------------------------------
(* The way to the confirmation                                             *)

\* start_checkout answers the button, or nothing when it was a command.
Start(u) == conv = "none" /\ Receive(u, Refreshed, Do("start"), answers)

\* The conversation does not open with an empty cart, while the store is closed
\* or without a payment method.
StartCheckout(u) ==
    /\ task[u].do = "start"
    /\ \E todo \in {ReturnTo("address"), Do("clear")} :
          Wipe(u, Put(Activated(Clear(data)), "checked", FALSE), todo)
    /\ stranded' = stranded \cup Dropped
    /\ UNCHANGED orders

\* addr_new, or an input that is not valid: it is asked for again.
AskAgain(u) ==
    /\ conv \in {"address", "name", "phone"}
    /\ Receive(u, Activated(Refreshed), ReturnTo(conv), answers)

\* A saved address is chosen; its button may be older than its deletion.
ChooseAddress(u, a) ==
    /\ conv = "address"
    /\ a \in book
    /\ Receive(u, Refreshed, [do |-> "choose", address |-> a],
               [answers EXCEPT !.address = a])

AddressChosen(u) ==
    /\ task[u].do = "choose"
    /\ Proceed(u, Put(Activated(data), "address", task[u].address), ReturnTo("name"))
    /\ OnlyData

\* The keys of an address that is not saved yet.
Unsaved(d) == Put(Pop(d, {"address"}), "pending", TRUE)

\* Mutant: the text is kept where the id of a saved address belongs.
TypeAddressAsId(u) ==
    /\ conv = "address"
    /\ Receive(u, Put(Activated(Refreshed), "address", "typed"), ReturnTo("name"),
               [answers EXCEPT !.address = "typed"])

\* new_address_handler, a text.
TypeAddress(u) ==
    /\ conv = "address"
    /\ Receive(u, Unsaved(Activated(Refreshed)), ReturnTo("name"),
               [answers EXCEPT !.address = "typed"])

\* new_address_handler, a location: the city is looked up first.
ShareLocation(u) ==
    /\ conv = "address"
    /\ Receive(u, Activated(Refreshed), Do("locate"),
               [answers EXCEPT !.address = "typed"])

Located(u) ==
    /\ task[u].do = "locate"
    /\ Proceed(u, Unsaved(data), ReturnTo("name"))
    /\ OnlyData

GiveName(u) ==
    /\ conv = "name"
    /\ LET d == Put(Activated(Refreshed), "name", TRUE)
       IN  IF Has(d, "resume") /\ Has(d, "phone")
              THEN \E todo \in AfterDetails : Receive(u, Pop(d, {"resume"}), todo, answers)
              ELSE Receive(u, d, ReturnTo("phone"), answers)

\* recipient_phone_handler takes the pending address into a local variable.
GivePhone(u) ==
    /\ conv = "phone"
    /\ LET d == Put(Activated(Refreshed), "phone", TRUE)
       IN  Receive(u, d, IF Has(d, "pending") THEN Do("save") ELSE Do("ask"), answers)

\* The address is saved in a transaction of its own, with the name; if that fails
\* the checkout ends.
SaveAddress(u) ==
    /\ task[u].do = "save"
    /\ \/ Proceed(u, data, Do("clear")) /\ UNCHANGED book
       \/ /\ Has(data, "name")
          /\ \E a \in Addresses \ book :
                /\ book' = book \cup {a}
                /\ Proceed(u, data, [do |-> "saved", address |-> a])
    /\ NoOrderTouched
    /\ UNCHANGED answers

AddressSaved(u) ==
    /\ task[u].do = "saved"
    /\ Proceed(u, Pop(Put(data, "address", task[u].address), {"pending"}), Do("ask"))
    /\ answers' = IF answers.address = "typed"
                     THEN [answers EXCEPT !.address = task[u].address] ELSE answers
    /\ NoOrderTouched
    /\ UNCHANGED book

CouponChecked(d) == Has(d, "checked") /\ d["checked"]

\* What recipient_phone_handler asks next.
AskNext(u) ==
    /\ task[u].do = "ask"
    /\ \/ /\ Has(data, "resume")
          /\ \E todo \in AfterDetails : Proceed(u, Pop(data, {"resume"}), todo)
       \/ /\ ~ Has(data, "resume") /\ ~ CouponChecked(data)
          /\ Proceed(u, data, ReturnTo("coupon"))
       \/ /\ ~ Has(data, "resume") /\ CouponChecked(data)
          /\ \E todo \in ShowPayment : Proceed(u, data, todo)
    /\ OnlyData

GiveCoupon(u) == conv = "coupon" /\ Receive(u, Refreshed, Do("coupon"), answers)

\* coupon_message_handler: a code that is not valid is asked for again.
CouponValidated(u) ==
    /\ task[u].do = "coupon"
    /\ \/ Proceed(u, data, ReturnTo("coupon")) /\ UNCHANGED answers
       \/ /\ \E todo \in ShowPayment :
                Proceed(u, Put(Put(data, "coupon", TRUE), "checked", TRUE), todo)
          /\ answers' = [answers EXCEPT !.coupon = "given"]
    /\ NoOrderTouched
    /\ UNCHANGED book

SkipCoupon(u) ==
    /\ conv = "coupon"
    /\ Receive(u, Refreshed, Do("skip"), [answers EXCEPT !.coupon = NoAnswer])

CouponSkipped(u) ==
    /\ task[u].do = "skip"
    /\ \E todo \in ShowPayment :
          Proceed(u, Put(Pop(data, {"coupon"}), "checked", TRUE), todo)
    /\ OnlyData

\* payment_callback, "pay_back": back to the recipient.
PayBack(u) == conv = "payment" /\ Receive(u, Refreshed, Do("back"), answers)

BackToName(u) ==
    /\ task[u].do = "back"
    /\ Proceed(u, Put(Activated(data), "resume", TRUE), ReturnTo("name"))
    /\ OnlyData

\* payment_callback, a method.
ChooseMethod(u, method) ==
    /\ conv = "payment"
    /\ Receive(u, Refreshed, [do |-> "method", method |-> method],
               [answers EXCEPT !.method = method])

MethodChosen(u) ==
    /\ task[u].do = "method"
    /\ LET d == Put(Activated(data), "method", task[u].method)
       IN  IF {"name", "phone"} \subseteq DOMAIN d
              THEN \E todo \in AfterDetails : Proceed(u, d, todo)
              ELSE Proceed(u, Put(d, "resume", TRUE),
                           ReturnTo(IF Has(d, "name") THEN "phone" ELSE "name"))
    /\ OnlyData

\* The cancel button of the address and payment steps cancels no order.
CancelButton(u) ==
    /\ conv \in {"address", "payment"}
    /\ Receive(u, Refreshed, [do |-> "quit", screen |-> conv], answers)

Quit(u) ==
    /\ task[u].do = "quit"
    /\ Proceed(u, Activated(data), Do("clear"))
    /\ OnlyData

\* The confirmation needs this, and that the address is still there.
AfterShow ==
    {Do("clear")} \cup IF {"name", "phone", "address"} \subseteq DOMAIN data
                         THEN {ReturnTo("confirm")} ELSE {}

\* Mutant: the customer is told that the coupon is dropped, and it is not.
ShowConfirmationWithCoupon(u) ==
    /\ task[u].do = "show"
    /\ \E todo \in AfterShow : Proceed(u, data, todo)
    /\ answers' \in {answers, [answers EXCEPT !.coupon = NoAnswer]}
    /\ NoOrderTouched
    /\ UNCHANGED book

\* show_order_confirmation, which validates the coupon again and drops it with
\* a message when it is no longer valid.
ShowConfirmation(u) ==
    /\ task[u].do = "show"
    /\ \E todo \in AfterShow :
          \/ Proceed(u, data, todo) /\ UNCHANGED answers
          \/ /\ Has(data, "coupon")
             /\ Proceed(u, Pop(data, {"coupon"}), todo)
             /\ answers' = [answers EXCEPT !.coupon = NoAnswer]
    /\ NoOrderTouched
    /\ UNCHANGED book

-----------------------------------------------------------------------------
(* Orders                                                                  *)

\* confirm_callback, "confirm_yes".
Confirm(u) == conv = "confirm" /\ Receive(u, Refreshed, Do("confirm"), answers)

\* _create_and_process_order goes on only with all of this, and a cart.
Complete(d) == {"address", "method", "name", "phone"} \subseteq DOMAIN d

\* It takes its answers into local variables, but for the coupon.
ReadAnswers(u) ==
    /\ task[u].do = "confirm"
    /\ \/ /\ Proceed(u, data, Do("clear"))
          /\ stranded' = stranded \cup Named(data)
       \/ /\ Complete(data)
          /\ Proceed(u, data, [do |-> "create", address |-> data["address"],
                               method |-> data["method"]])
          /\ UNCHANGED stranded
    /\ UNCHANGED <<book, orders, answers>>

NewOrder == [status |-> "pending", reported |-> FALSE]

\* The order is committed; then the handler waits for the provider or, with cash,
\* for Telegram.
CreateOrder(u) ==
    /\ task[u].do = "create"
    /\ RoundLeft
    /\ orders' = Append(orders, NewOrder)
    /\ stranded' = stranded \cup Named(data)
    /\ LET id == Len(orders) + 1
       IN  Proceed(u, Put(data, "order", id),
                   [do |-> IF task[u].method = "cash" THEN "report" ELSE "provider",
                    order |-> id])
    /\ UNCHANGED <<book, answers>>

\* create_order refuses and the checkout ends; when it refuses the coupon it has
\* written the order, and the exception is handled inside the transaction, which
\* commits.
RefuseOrder(u) ==
    /\ task[u].do = "create"
    /\ Proceed(u, data, Do("clear"))
    /\ \/ /\ stranded' = stranded \cup Named(data)
          /\ UNCHANGED orders
       \/ /\ Has(data, "coupon")
          /\ RoundLeft
          /\ orders' = Append(orders, NewOrder)
          /\ stranded' = stranded \cup Named(data) \cup {Len(orders) + 1}
    /\ UNCHANGED <<book, answers>>

\* _process_order_payment: the provider has a payment, and the customer is told.
PaymentAccepted(u) ==
    /\ task[u].do = "provider"
    /\ Proceed(u, data, [do |-> "report", order |-> task[u].order])
    /\ OnlyData

\* Telegram has the message that the order was placed; the checkout ends.
OrderReported(u) ==
    /\ task[u].do = "report"
    /\ Wipe(u, Clear(data), Do("end"))
    /\ orders' = [orders EXCEPT ![task[u].order].reported = TRUE]
    /\ stranded' = stranded \cup (Named(data) \ {task[u].order})

\* _process_order_payment: the provider refuses or fails; the customer is offered
\* to try again or to cancel.
PaymentRefused(u) ==
    /\ task[u].do = "provider"
    /\ Return(u, "confirm")
    /\ data' = Put(data, "order", task[u].order)
    /\ stranded' = stranded \cup (Named(data) \ {task[u].order})
    /\ UNCHANGED <<orders, disturbed, incidents>>

\* An exception after the order was committed: the database is lost before the
\* payment's outcome is recorded, or Telegram when the customer is told.
OrderHandlerFails(u) ==
    /\ task[u].do \in {"provider", "report"}
    /\ Return(u, conv)
    /\ stranded' = stranded \cup {task[u].order}
    /\ UNCHANGED <<data, orders, disturbed, incidents>>

\* confirm_callback, "retry_payment": get_order is asked for an order of the
\* Telegram user, order.user_id is the id of the users row, so it raises
\* PermissionError.
Retry(u) == conv = "confirm" /\ Receive(u, Refreshed, Do("retry"), answers)

RetryPayment(u) ==
    /\ task[u].do = "retry"
    /\ Proceed(u, data, IF Has(data, "order") THEN Idle ELSE Do("clear"))
    /\ OnlyData

\* cancel_to_menu, cancel_checkout and the buttons of the confirmation.
Leave(u) == conv # "none" /\ Receive(u, Refreshed, Do("leave"), answers)

\* Mutant: the order is forgotten.
LeaveForgetting(u) ==
    /\ task[u].do = "leave"
    /\ Proceed(u, data, Do("clear"))
    /\ OnlyData

\* Mutant: the last order is cancelled, whatever user_data names.
LeaveCancellingLast(u) ==
    /\ task[u].do = "leave"
    /\ Proceed(u, data, IF orders = << >> THEN Do("clear")
                                            ELSE [do |-> "cancel", order |-> Len(orders)])
    /\ OnlyData

\* _cancel_created_order_if_pending reads the order.
ReadOrder(u) ==
    /\ task[u].do = "leave"
    /\ Proceed(u, data, IF Has(data, "order")
                           THEN [do |-> "cancel", order |-> data["order"]]
                           ELSE Do("clear"))
    /\ OnlyData

\* The order is cancelled and the checkout cleared.  A cancellation that raises is
\* logged, and the checkout is cleared all the same.
CancelOrder(u) ==
    /\ task[u].do = "cancel"
    /\ Wipe(u, Clear(data), Do("end"))
    /\ LET o == task[u].order
           lost == Named(data) \ {o}
       IN  \/ /\ orders' = [orders EXCEPT ![o].status = "cancelled"]
              /\ stranded' = stranded \cup lost
           \/ /\ stranded' = stranded \cup lost \cup {o}
              /\ UNCHANGED orders

-----------------------------------------------------------------------------
(* Handlers that fail                                                      *)

\* The steps before which nothing but the button was answered, with the state
\* that the handler returns when the query is too old to be answered.
Screen(t) ==
    CASE t.do = "start"               -> {"none"}
      [] t.do = "choose"              -> {"address"}
      [] t.do = "skip"                -> {"coupon"}
      [] t.do \in {"back", "method"}  -> {"payment"}
      [] t.do \in {"confirm", "retry"} -> {"confirm"}
      [] t.do = "quit"                -> {t.screen}
      [] OTHER                        -> {}

Mishap ==
    /\ Incident
    /\ disturbed' = TRUE
    /\ UNCHANGED <<data, orders, stranded>>

QueryTooOld(u) ==
    /\ \E state \in Screen(task[u]) : Return(u, state)
    /\ Mishap

\* Telegram or the database is lost, or the address is gone that an order is for:
\* the exception leaves the conversation where it is.
HandlerFails(u) ==
    /\ Busy(u) /\ task[u].do # "cancel"
    /\ Return(u, conv)
    /\ Mishap

-----------------------------------------------------------------------------
(* Around the conversation                                                 *)

\* Any other screen; cart_callback and add_to_cart work in every state.
OtherScreen ==
    /\ data' = Refreshed
    /\ mixed' = (mixed \/ MergesBack)
    /\ UNCHANGED <<conv, saved, book, orders, task, answers, disturbed, stranded,
                   incidents, rounds>>

\* The library's job stores user_data every minute; the update of any other
\* customer stores it too, because refresh_user_data shares the dictionary.
Flush ==
    /\ saved # data
    /\ saved' = data
    /\ Incident /\ Round
    /\ UNCHANGED <<conv, data, book, orders, task, answers, mixed, disturbed, stranded>>

\* The process stops.  Conversations are stored under the text of their key and
\* looked up by the key itself, so none is found again.
Restart ==
    /\ Round
    /\ data' = saved
    /\ conv' = "none"
    /\ task' = [u \in Updates |-> Idle]
    /\ answers' = NoAnswers
    /\ mixed' = (DOMAIN saved \cap AnswerKeys # {})
    /\ disturbed' = FALSE
    /\ stranded' = DOMAIN orders
    /\ UNCHANGED <<saved, book, orders, incidents>>

\* The customer's updates.
Arrives(u) ==
    \/ Start(u) \/ AskAgain(u) \/ TypeAddress(u) \/ ShareLocation(u) \/ GiveName(u)
    \/ GivePhone(u) \/ GiveCoupon(u) \/ SkipCoupon(u) \/ PayBack(u) \/ CancelButton(u)
    \/ Confirm(u) \/ Retry(u) \/ Leave(u)
    \/ \E a \in Addresses : ChooseAddress(u, a)
    \/ \E method \in Methods : ChooseMethod(u, method)

\* What their handlers go on with.
GoesOn(u) ==
    \/ StartCheckout(u) \/ AddressChosen(u) \/ Located(u) \/ SaveAddress(u)
    \/ AddressSaved(u) \/ AskNext(u) \/ CouponValidated(u) \/ CouponSkipped(u)
    \/ BackToName(u) \/ MethodChosen(u) \/ Quit(u) \/ ShowConfirmation(u)
    \/ ReadAnswers(u) \/ CreateOrder(u) \/ RefuseOrder(u) \/ PaymentAccepted(u)
    \/ OrderReported(u) \/ PaymentRefused(u) \/ RetryPayment(u) \/ ReadOrder(u)
    \/ CancelOrder(u) \/ ClearState(u) \/ End(u) \/ ReturnState(u)
    \/ QueryTooOld(u) \/ HandlerFails(u) \/ OrderHandlerFails(u)

Next ==
    \/ \E u \in Updates : Arrives(u) \/ GoesOn(u)
    \/ OtherScreen \/ Flush \/ Restart

Spec == Init /\ [][Next]_vars

-----------------------------------------------------------------------------
(* Properties                                                              *)

AddressOf(d) == IF Has(d, "address") THEN d["address"] ELSE NoAnswer

\* What a handler knows when it goes on.
TaskOK(t) ==
    /\ t.do \in {"choose", "saved", "create"} => t.address \in Addresses
    /\ t.do \in {"method", "create"} => t.method \in Methods
    /\ t.do \in {"provider", "report", "cancel"} => t.order \in DOMAIN orders
    /\ t.do = "return" => t.to \in States
    /\ t.do = "quit" => t.screen \in States

\* user_data holds the keys of the checkout and values of their types, and names
\* only orders that exist (checkout.py).
TypeOK ==
    /\ conv \in States
    /\ DOMAIN task = Updates /\ \A u \in Updates : TaskOK(task[u])
    /\ \A d \in {data, saved} :
          /\ DOMAIN d \subseteq CheckoutKeys
          /\ AddressOf(d) \in Addresses \cup {NoAnswer}
          /\ Named(d) \subseteq DOMAIN orders
    /\ stranded \subseteq DOMAIN orders

\* What an order is created for is what the customer answered after starting this
\* checkout: the address, the method and the coupon, unless a key removed before
\* came back from the persisted state, two updates were handled at once or a
\* handler failed (start_checkout, recipient_phone_handler, coupon_skip_callback,
\* _create_and_process_order).
ConfirmsTheAnswers ==
    \A u \in Updates :
        task[u].do = "create" /\ ~ mixed /\ ~ disturbed =>
            /\ task[u].address = answers.address
            /\ task[u].method = answers.method
            /\ Has(data, "coupon") <=> answers.coupon = "given"

\* Leaving a checkout decides on no order that an earlier handler reported as
\* placed, unless its key came back (_cancel_created_order_if_pending).
PlacedOrdersStay ==
    [][\A u \in Updates :
          task[u].do # "cancel" /\ task'[u].do = "cancel" =>
              mixed \/ ~ orders[task'[u].order].reported]_vars

\* The orders a handler still works on: it creates, pays, reports or cancels.
InFlight == {task[u].order : u \in {v \in Updates :
                                task[v].do \in {"provider", "report", "cancel"}}}

\* An order that was not paid for is cancelled, or a handler is at work on it, or
\* the conversation still knows it and can cancel it, but for orders it let go of:
\* a restart, an exception, a second confirmation, a refused coupon, or updates
\* handled at once (_process_order_payment, cancel_to_menu).
UnpaidOrdersAreKnown ==
    \A o \in DOMAIN orders \ (InFlight \cup stranded) :
        Pending(o) /\ ~ orders[o].reported =>
            Named(data) = {o} /\ (conv = "confirm" \/ disturbed)

-----------------------------------------------------------------------------
(* Claims of the repository that the code does not keep                    *)

\* README.md: Redis is there "for persistent bot conversations", so a checkout
\* that is marked active has its conversation, unless a handler is at work on it
\* or failed.
ActiveCheckoutIsOpen ==
    Has(data, "active") /\ ~ disturbed => conv # "none" \/ \E u \in Updates : Busy(u)

\* payment_callback "Stores payment method and shows order confirmation": the
\* confirmation is shown for a payment method.
ConfirmationHasMethod == conv = "confirm" => Has(data, "method")

\* address_callback "Stores selected address": an order is for the address that
\* was answered last, whatever else the webhook handles meanwhile.
LastAddressIsOrdered ==
    \A u \in Updates :
        task[u].do = "create" /\ ~ mixed /\ answers.address # NoAnswer =>
            task[u].address = answers.address

\* cancel_order's reason "Checkout cancelled by customer" is for a checkout: an
\* order that was reported as placed is not cancelled with it.
PlacedOrdersStayAlways ==
    [][\A o \in DOMAIN orders :
          orders[o].reported /\ Pending(o) => orders'[o].status = "pending"]_vars
=============================================================================
