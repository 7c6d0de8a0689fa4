---------------------------- MODULE EventDelivery ----------------------------
(***************************************************************************)
(* From a database change to the customer's message: a request changes an  *)
(* order and emits an event inside its transaction (apps/orders), the      *)
(* event bus hands it to Celery or to a task of its own (core/events.py,   *)
(* infrastructure/notifications/lifecycle.py), and the dispatch reads the  *)
(* order back and sends the message (infrastructure/workers/tasks.py).     *)
(*                                                                         *)
(* The application is one process with one event loop, stopped and started *)
(* by main.py; Celery workers are processes of their own.                  *)
(***************************************************************************)
EXTENDS Integers, Sequences, FiniteSets

CONSTANTS
    Creations,   \* requests that create an order
    Updates,     \* requests that change an existing order
    Webhooks,    \* payment webhooks that change an existing order
    MaxRetries,  \* max_retries of the Celery task
    MaxLosses,   \* bound: how often a Celery worker is lost with a message
    Faults       \* what may go wrong in the environment

Changes == Creations \cup Updates \cup Webhooks

ASSUME KindsAssumption ==
    /\ Creations \cap (Updates \cup Webhooks) = {}
    /\ Updates \cap Webhooks = {}
ASSUME RetriesAssumption == MaxRetries \in Nat /\ MaxLosses \in Nat
ASSUME FaultsAssumption ==
    Faults \subseteq {"rollback",     \* a transaction fails
                      "refused",      \* the broker cannot be reached
                      "lost_answer",  \* the broker's acknowledgement is lost
                      "channel",      \* Telegram or SMTP refuses the message
                      "database",     \* the dispatch cannot read the database
                      "worker",       \* a Celery worker is killed
                      "stop"}         \* the application stops or is killed

VARIABLES
    tx,         \* the transaction of each change
    app,        \* "running", "stopping" (bus stopped, bot still alive) or "down"
    queue,      \* EventBus._event_queue
    celery,     \* messages in the broker or with a worker
    retries,    \* request.retries of each message
    fallback,   \* _fallback_tasks
    delivered,  \* messages sent for each change
    repeats,    \* history: reasons a change may be announced once more
    excused,    \* history: changes whose announcement was given up
    outrun,     \* history: changes given up while their transaction was still open
    losses      \* workers lost so far

busVars    == <<queue, fallback>>
celeryVars == <<celery, retries, losses>>
history    == <<repeats, excused, outrun>>
vars == <<tx, app, busVars, celeryVars, delivered, history>>

Init ==
    /\ tx = [t \in Changes |-> "idle"]
    /\ app = "running"
    /\ queue = <<>>
    /\ celery = {}
    /\ retries = [t \in Changes |-> 0]
    /\ fallback = {}
    /\ delivered = [t \in Changes |-> 0]
    /\ repeats = [t \in Changes |-> 0]
    /\ excused = {}
    /\ outrun = {}
    /\ losses = 0

-----------------------------------------------------------------------------
(* Requests                                                                *)

\* The request writes its rows, uncommitted, and emits the event.
Emit(t) ==
    /\ app # "down"
    /\ tx[t] = "idle"
    /\ tx' = [tx EXCEPT ![t] = "open"]
    /\ queue' = Append(queue, t)
    /\ UNCHANGED <<app, fallback, celeryVars, delivered, history>>

\* transaction() commits when the handler returns.
Commit(t) ==
    /\ t \notin Webhooks
    /\ tx[t] = "open"
    /\ tx' = [tx EXCEPT ![t] = "committed"]
    /\ UNCHANGED <<app, busVars, celeryVars, delivered, history>>

\* A handler that raises is rolled back; a webhook runs in get_session(), which
\* closes the session without a commit.
RollBack(t) ==
    /\ t \in Webhooks \/ "rollback" \in Faults
    /\ tx[t] = "open"
    /\ tx' = [tx EXCEPT ![t] = "rolled_back"]
    /\ UNCHANGED <<app, busVars, celeryVars, delivered, history>>

-----------------------------------------------------------------------------
(* The event bus                                                           *)

ToCelery(t) == celery' = celery \cup {t}
ToFallback(t) == fallback' = fallback \cup {t}

\* Mutant: the fallback is scheduled whether or not Celery took the event.
EnqueueNotificationTwice(t) == ToCelery(t) /\ ToFallback(t) /\ UNCHANGED repeats

\* Mutant: an event that Celery refuses is logged and forgotten.
EnqueueNotificationOnly(t) ==
    /\ UNCHANGED <<fallback, repeats>>
    /\ \/ ToCelery(t)
       \/ "refused" \in Faults /\ UNCHANGED celery

\* _enqueue_notification: .delay(), or a task of the event loop when it raises.
EnqueueNotification(t) ==
    \/ ToCelery(t) /\ UNCHANGED <<fallback, repeats>>
    \/ /\ "refused" \in Faults
       /\ ToFallback(t) /\ UNCHANGED <<celery, repeats>>
    \/ /\ "lost_answer" \in Faults
       /\ ToCelery(t) /\ ToFallback(t)
       /\ repeats' = [repeats EXCEPT ![t] = @ + 1]

\* The bus worker: the handler runs without giving up the event loop, so one
\* event is taken and handed on in one step.
ProcessEvent ==
    /\ app = "running"
    /\ queue # <<>>
    /\ queue' = Tail(queue)
    /\ EnqueueNotification(Head(queue))
    /\ UNCHANGED <<tx, app, retries, losses, delivered, excused, outrun>>

-----------------------------------------------------------------------------
(* Dispatch                                                                *)

\* The dispatch reads committed rows: a new order is found once its
\* transaction has committed, an existing one always.
Visible(t) == t \in Creations => tx[t] = "committed"

\* Mutant: an order that is not found is announced from the event's data.
SendUnread(t) ==
    /\ delivered' = [delivered EXCEPT ![t] = @ + 1]
    /\ UNCHANGED excused

\* dispatch_lifecycle_notification finds the order and sends the message;
\* _deliver_user logs a refused message and reports nothing.
Send(t) ==
    /\ Visible(t)
    /\ \/ delivered' = [delivered EXCEPT ![t] = @ + 1] /\ UNCHANGED excused
       \/ /\ "channel" \in Faults
          /\ excused' = excused \cup {t} /\ UNCHANGED delivered

\* The dispatch raises before it sends: the order is not visible, or the
\* database fails.
CannotRead(t) == ~ Visible(t) \/ "database" \in Faults

\* send_lifecycle_notification_task succeeds.
CeleryDelivers(t) ==
    /\ t \in celery
    /\ Send(t)
    /\ celery' = celery \ {t}
    /\ UNCHANGED <<tx, app, busVars, retries, losses, repeats, outrun>>

\* Mutant: the retry counter is ignored.
CeleryRetriesForever(t) ==
    /\ t \in celery
    /\ CannotRead(t)
    /\ retries' = [retries EXCEPT ![t] = @ + 1]
    /\ UNCHANGED <<tx, app, busVars, celery, losses, delivered, history>>

\* Mutant: the task is not retried.
CeleryRetriesNever(t) ==
    /\ t \in celery
    /\ CannotRead(t)
    /\ celery' = celery \ {t}
    /\ excused' = excused \cup {t}
    /\ UNCHANGED <<tx, app, busVars, retries, losses, delivered, repeats, outrun>>

\* The task raises and is retried, up to MaxRetries times.  There is only a count
\* and a delay: all attempts may be made while the transaction is still open.
CeleryRetries(t) ==
    /\ t \in celery
    /\ CannotRead(t)
    /\ IF retries[t] < MaxRetries
          THEN /\ retries' = [retries EXCEPT ![t] = @ + 1]
               /\ UNCHANGED <<celery, excused, outrun>>
          ELSE /\ celery' = celery \ {t}
               /\ excused' = excused \cup {t}
               /\ outrun' = IF tx[t] = "open" THEN outrun \cup {t} ELSE outrun
               /\ UNCHANGED retries
    /\ UNCHANGED <<tx, app, busVars, losses, delivered, repeats>>

\* External: a worker is killed with the message unacknowledged, which may be
\* sent already; task_acks_late and task_reject_on_worker_lost requeue it.
WorkerLost(t) ==
    /\ "worker" \in Faults
    /\ losses < MaxLosses
    /\ t \in celery
    /\ losses' = losses + 1
    /\ \/ /\ Visible(t)
          /\ delivered' = [delivered EXCEPT ![t] = @ + 1]
          /\ repeats' = [repeats EXCEPT ![t] = @ + 1]
       \/ UNCHANGED <<delivered, repeats>>
    /\ UNCHANGED <<tx, app, busVars, celery, retries, excused, outrun>>

\* The fallback task dispatches once, a quarter of a second later.
FallbackRuns(t) ==
    /\ app # "down"
    /\ t \in fallback
    /\ fallback' = fallback \ {t}
    /\ \/ Send(t)
       \/ CannotRead(t) /\ excused' = excused \cup {t} /\ UNCHANGED delivered
    /\ UNCHANGED <<tx, app, queue, celeryVars, repeats, outrun>>

-----------------------------------------------------------------------------
(* Shutdown                                                                *)

\* Events and tasks that live in the process only.
InMemory == {queue[i] : i \in DOMAIN queue} \cup fallback

\* main.py waits five seconds for the queue and stops the bus; the bot and its
\* handlers are stopped later.
StopBus ==
    /\ "stop" \in Faults
    /\ app = "running"
    /\ app' = "stopping"
    /\ UNCHANGED <<tx, busVars, celeryVars, delivered, history>>

\* The process ends, in order or not.
Exit ==
    /\ "stop" \in Faults
    /\ app # "down"
    /\ app' = "down"
    /\ tx' = [t \in Changes |-> IF tx[t] = "open" THEN "rolled_back" ELSE tx[t]]
    /\ queue' = <<>>
    /\ fallback' = {}
    /\ excused' = excused \cup InMemory
    /\ UNCHANGED <<celeryVars, delivered, repeats, outrun>>

Start ==
    /\ app = "down"
    /\ app' = "running"
    /\ UNCHANGED <<tx, busVars, celeryVars, delivered, history>>

Dispatch(t) == CeleryDelivers(t) \/ CeleryRetries(t) \/ FallbackRuns(t)

Next ==
    \/ \E t \in Changes : Emit(t) \/ Commit(t) \/ RollBack(t)
    \/ ProcessEvent
    \/ \E t \in Changes : Dispatch(t) \/ WorkerLost(t)
    \/ StopBus \/ Exit \/ Start

Spec == Init /\ [][Next]_vars

\* The bus worker and the Celery workers run, and a transaction ends.
LiveSpec ==
    /\ Spec
    /\ WF_vars(ProcessEvent)
    /\ \A t \in Changes : WF_vars(Dispatch(t)) /\ WF_vars(Commit(t) \/ RollBack(t))

-----------------------------------------------------------------------------
(* Properties                                                              *)

TypeOK ==
    /\ tx \in [Changes -> {"idle", "open", "committed", "rolled_back"}]
    /\ app \in {"running", "stopping", "down"}
    /\ queue \in Seq(Changes)
    /\ celery \subseteq Changes
    /\ retries \in [Changes -> 0..MaxRetries]
    /\ fallback \subseteq Changes
    /\ delivered \in [Changes -> Nat]
    /\ repeats \in [Changes -> Nat]
    /\ excused \subseteq Changes
    /\ outrun \subseteq Changes
    /\ losses \in 0..MaxLosses

\* No customer and no vendor hears of an order that does not exist: the event
\* is queued before the commit, and still its message is sent only after it,
\* along either path, with retries, lost workers and restarts between.
NoGhostOrders ==
    \A t \in Creations : delivered[t] > 0 => tx[t] = "committed"

\* A change is announced once, and once more only for a worker lost after
\* sending or an acknowledgement lost by the broker.
RepeatsAreExplained == \A t \in Changes : delivered[t] <= 1 + repeats[t]

\* The announcement of a change does not vanish between the bus, the broker and
\* the fallback: it is on its way, was sent, or was given up for a reason.
NothingVanishes ==
    \A t \in Changes :
        tx[t] # "idle" =>
            t \in InMemory \cup celery \cup excused \/ delivered[t] > 0

\* With the broker, the channels and the application up, a committed change is
\* announced, however early its event was dispatched, unless every attempt was made
\* before its transaction ended (send_lifecycle_notification_task).
CommittedIsAnnounced ==
    \A t \in Changes : tx[t] = "committed" ~> delivered[t] > 0 \/ t \in outrun

-----------------------------------------------------------------------------
(* Claims of the repository that the code does not keep                    *)

\* infrastructure/workers/tasks.py: "Deliver a domain-event notification after its
\* transaction has committed", however long that takes.
CommittedIsAlwaysAnnounced ==
    \A t \in Changes : tx[t] = "committed" ~> delivered[t] > 0

\* infrastructure/workers/tasks.py: the notification is delivered "after its
\* transaction has committed".
DeliveredAfterCommit ==
    \A t \in Changes : delivered[t] > 0 => tx[t] = "committed"

\* infrastructure/payments/payment_verifier.py: the webhook's verification ends
\* with the "order updated".
VerifiedPaymentIsStored == \A t \in Webhooks : tx[t] # "rolled_back"
=============================================================================
