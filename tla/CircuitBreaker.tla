---------------------------- MODULE CircuitBreaker ----------------------------
(***************************************************************************)
(* The circuit breaker around external services (core/circuit_breaker.py). *)
(* Calls run concurrently on one event loop; a call passes the breaker     *)
(* when it begins and reports its result when it ends, each under the      *)
(* breaker's lock and therefore in one step.  Between the two the breaker  *)
(* may have changed its state any number of times.                         *)
(***************************************************************************)
EXTENDS Integers, FiniteSets

CONSTANTS
    Calls,             \* calls that may be in flight together
    FailureThreshold,  \* failure_threshold
    HalfOpenMaxCalls,  \* half_open_max_calls
    SuccessThreshold,  \* success_threshold
    Outcomes           \* how a call may end

ASSUME ThresholdAssumption ==
    /\ FailureThreshold \in Nat \ {0}
    /\ HalfOpenMaxCalls \in Nat \ {0}
    /\ SuccessThreshold \in Nat \ {0}

\* A call that raises an excluded exception, or is cancelled, reports nothing.
ASSUME OutcomesAssumption == Outcomes \subseteq {"success", "failure", "unreported"}

VARIABLES
    state,          \* _state
    failures,       \* _failure_count, counted up to the threshold
    successes,      \* _success_count
    halfOpenCalls,  \* _half_open_calls_made
    cooled,         \* recovery_timeout has passed since _last_failure_time
    running,        \* calls admitted and not finished
    probes,         \* history: calls admitted since the circuit went half-open
    failureRun,     \* history: failures reported since the last success
    successRun      \* history: successes reported since the last failure

vars == <<state, failures, successes, halfOpenCalls, cooled, running,
          probes, failureRun, successRun>>

\* The counters are only ever compared with a threshold they reach by steps of
\* one, so what exceeds the largest threshold is not told apart.
UpTo(n, k) == IF n < k THEN n + 1 ELSE k

Init ==
    /\ state = "closed"
    /\ failures = 0
    /\ successes = 0
    /\ halfOpenCalls = 0
    /\ cooled = TRUE
    /\ running = {}
    /\ probes = 0
    /\ failureRun = 0
    /\ successRun = 0

-----------------------------------------------------------------------------
\* Mutant: the successes of an earlier half-open phase are kept.
ToHalfOpenKeepingSuccesses ==
    /\ state' = "half_open"
    /\ halfOpenCalls' = 0
    /\ UNCHANGED successes

\* _transition_to_half_open.
ToHalfOpen ==
    /\ state' = "half_open"
    /\ successes' = 0
    /\ halfOpenCalls' = 0

\* Mutant: the failures that opened the circuit are kept.
ToClosedKeepingFailures ==
    /\ state' = "closed"
    /\ successes' = 0
    /\ halfOpenCalls' = 0
    /\ UNCHANGED failures

\* _transition_to_closed.
ToClosed ==
    /\ state' = "closed"
    /\ failures' = 0
    /\ successes' = 0
    /\ halfOpenCalls' = 0

\* Mutant: the probes of the half-open phase are not counted.
CountProbeNever == UNCHANGED halfOpenCalls

\* Mutant: a call takes a slot whether one is free or not.
CountProbeUnlimited == halfOpenCalls' = halfOpenCalls + 1

\* A call admitted in the half-open phase takes one of its slots.
CountProbe ==
    /\ halfOpenCalls < HalfOpenMaxCalls
    /\ halfOpenCalls' = halfOpenCalls + 1

\* _check_state_before_call lets the call through; the call that finds the
\* timeout over starts the half-open phase and takes no slot.
Begin(c) ==
    /\ c \notin running
    /\ running' = running \cup {c}
    /\ \/ /\ state = "closed"
          /\ UNCHANGED <<state, successes, halfOpenCalls, probes>>
       \/ /\ state = "open" /\ cooled
          /\ ToHalfOpen
          /\ probes' = 1
       \/ /\ state = "half_open"
          /\ CountProbe
          /\ probes' = probes + 1
          /\ UNCHANGED <<state, successes>>
    /\ UNCHANGED <<failures, cooled, failureRun, successRun>>

\* A call ends well: _record_success.
Succeed(c) ==
    /\ c \in running
    /\ "success" \in Outcomes
    /\ running' = running \ {c}
    /\ failureRun' = 0
    /\ successRun' = UpTo(successRun, SuccessThreshold)
    /\ \/ /\ state = "half_open"
          /\ IF successes + 1 >= SuccessThreshold
                THEN ToClosed
                ELSE /\ successes' = successes + 1
                     /\ UNCHANGED <<state, failures, halfOpenCalls>>
       \/ /\ state = "closed"
          /\ failures' = 0
          /\ UNCHANGED <<state, successes, halfOpenCalls>>
       \/ /\ state = "open"
          /\ UNCHANGED <<state, failures, successes, halfOpenCalls>>
    /\ UNCHANGED <<cooled, probes>>

\* A call fails: _record_failure.
Fail(c) ==
    /\ c \in running
    /\ "failure" \in Outcomes
    /\ running' = running \ {c}
    /\ failures' = UpTo(failures, FailureThreshold)
    /\ failureRun' = UpTo(failureRun, FailureThreshold)
    /\ successRun' = 0
    /\ cooled' = FALSE
    /\ state' = IF state = "closed" /\ failures' < FailureThreshold
                   THEN "closed" ELSE "open"
    /\ UNCHANGED <<successes, halfOpenCalls, probes>>

\* An excluded exception, or asyncio.CancelledError, leaves the breaker alone.
EndUnreported(c) ==
    /\ c \in running
    /\ "unreported" \in Outcomes
    /\ running' = running \ {c}
    /\ UNCHANGED <<state, failures, successes, halfOpenCalls, cooled,
                   probes, failureRun, successRun>>

\* Mutant: a refused call counts as a failure, and callers keep calling.
CoolUnlessOpen ==
    /\ ~ cooled
    /\ state # "open"
    /\ cooled' = TRUE
    /\ UNCHANGED <<state, failures, successes, halfOpenCalls, running,
                   probes, failureRun, successRun>>

\* Time passes: recovery_timeout seconds since the last failure.
Cool ==
    /\ ~ cooled
    /\ cooled' = TRUE
    /\ UNCHANGED <<state, failures, successes, halfOpenCalls, running,
                   probes, failureRun, successRun>>

\* reset, by an operator.
Reset ==
    /\ state # "closed"
    /\ ToClosed
    /\ UNCHANGED <<cooled, running, probes, failureRun, successRun>>

Finish(c) == Succeed(c) \/ Fail(c) \/ EndUnreported(c)

Next ==
    \/ \E c \in Calls : Begin(c) \/ Finish(c)
    \/ Cool
    \/ Reset

Spec == Init /\ [][Next]_vars

\* Calls end (they have timeouts of their own) and time passes.  Nothing makes
\* a caller call, or an operator reset the breaker.
LiveSpec == Spec /\ WF_vars(Cool) /\ \A c \in Calls : WF_vars(Finish(c))

\* The service is in use: a caller that may call does.
CallersSpec == LiveSpec /\ \A c \in Calls : WF_vars(Begin(c))

-----------------------------------------------------------------------------
(* Properties                                                              *)

TypeOK ==
    /\ state \in {"closed", "open", "half_open"}
    /\ failures \in 0..FailureThreshold
    /\ successes \in 0..SuccessThreshold
    /\ halfOpenCalls \in 0..HalfOpenMaxCalls
    /\ cooled \in BOOLEAN
    /\ running \subseteq Calls
    /\ probes \in Nat
    /\ failureRun \in 0..FailureThreshold
    /\ successRun \in 0..SuccessThreshold

\* A recovering service is not flooded: however calls begin, end late and
\* report into a later phase, one half-open phase lets through at most its
\* slots and the call that opened it.
HalfOpenLimitsLoad ==
    state = "half_open" => probes <= HalfOpenMaxCalls + 1

\* The circuit closes again only on evidence: unless an operator resets it,
\* SuccessThreshold calls in a row reported success, with no failure between.
ClosesOnSuccesses ==
    [][state = "half_open" /\ state' = "closed"
          => Reset \/ successRun' = SuccessThreshold]_vars

\* A closed circuit opens only on evidence: FailureThreshold failures in a row,
\* none of them from before a success, whatever phases lie between.
OpensOnFailures ==
    [][state = "closed" /\ state' = "open" => failureRun' = FailureThreshold]_vars

\* The next call would be let through.
Admits ==
    \/ state = "closed"
    \/ state = "open" /\ cooled
    \/ state = "half_open" /\ halfOpenCalls < HalfOpenMaxCalls

\* Every half-open slot is taken and no call is left that could report: probes
\* that were cancelled, or raised an excluded exception, have kept theirs.
SlotsUsedUp ==
    state = "half_open" /\ running = {} /\ halfOpenCalls = HalfOpenMaxCalls

\* The breaker lets calls through again and again, so that every outage of the
\* service is followed by new attempts; only slots that
\* were used up shut it for good.
AdmitsAgain == []<>(Admits \/ SlotsUsedUp)

\* Once the service is healthy again the circuit closes and stays closed, or
\* its slots were used up before it could.
ClosesWhenHealthy ==
    <>[][\A c \in Calls : ~ Fail(c)]_vars => <>[](state = "closed" \/ SlotsUsedUp)

-----------------------------------------------------------------------------
(* Claims of the repository that the code does not keep                    *)

\* core/circuit_breaker.py: half_open_max_calls is the "Max calls allowed in
\* half-open state".
HalfOpenMaxCallsHolds ==
    state = "half_open" => probes <= HalfOpenMaxCalls

\* core/circuit_breaker.py: an open circuit gives the service time "to recover
\* before allowing requests again".
SlotsComeBack == ~ SlotsUsedUp
=============================================================================
