------------------------ MODULE CircuitBreaker_proofs ------------------------
(***************************************************************************)
(* Proofs about CircuitBreaker, for any number of concurrent calls and any *)
(* thresholds.                                                             *)
(***************************************************************************)
EXTENDS CircuitBreaker, TLAPS

\* What each phase knows of the reports it has seen: every admitted probe but
\* the first holds a slot, the successes counted in a half-open phase and the
\* failures counted in a closed one are uninterrupted, and neither counter sits
\* at the threshold that would have ended the phase.
Counted ==
    /\ state = "half_open" => /\ probes = halfOpenCalls + 1
                              /\ successes < SuccessThreshold
                              /\ successes <= successRun
    /\ state = "closed" => /\ failures < FailureThreshold
                           /\ failures <= failureRun

IInv == TypeOK /\ Counted

\* A saturating counter stays in its range and never falls behind.
LEMMA UpToBounds ==
    ASSUME NEW k \in Nat, NEW n \in 0..k
    PROVE  /\ UpTo(n, k) \in 0..k
           /\ UpTo(n, k) = n + 1 \/ (UpTo(n, k) = k /\ n = k)
BY DEF UpTo

LEMMA InitIInv == Init => IInv
BY ThresholdAssumption DEF Init, IInv, TypeOK, Counted

LEMMA BeginIInv ==
    ASSUME IInv, NEW c \in Calls, Begin(c)
    PROVE  IInv'
<1> USE ThresholdAssumption DEF IInv, TypeOK, Counted
<1>1. CASE state = "closed"
  BY <1>1 DEF Begin
<1>2. CASE state = "open"
  BY <1>2 DEF Begin, ToHalfOpen
<1>3. CASE state = "half_open"
  BY <1>3 DEF Begin, CountProbe
<1> QED BY <1>1, <1>2, <1>3

LEMMA SucceedIInv ==
    ASSUME IInv, NEW c \in Calls, Succeed(c)
    PROVE  /\ IInv'
           /\ state = "half_open" /\ state' = "closed" => successRun' = SuccessThreshold
<1> USE ThresholdAssumption DEF IInv, TypeOK, Counted
<1>1. /\ successRun' \in 0..SuccessThreshold
      /\ \/ successRun' = successRun + 1
         \/ successRun' = SuccessThreshold /\ successRun = SuccessThreshold
  BY UpToBounds DEF Succeed
<1>2. CASE state = "half_open"
  BY <1>1, <1>2 DEF Succeed, ToClosed
<1>3. CASE state # "half_open"
  BY <1>1, <1>3 DEF Succeed
<1> QED BY <1>2, <1>3

LEMMA FailIInv ==
    ASSUME IInv, NEW c \in Calls, Fail(c)
    PROVE  /\ IInv'
           /\ state' # "half_open" /\ (state # "closed" => state' = "open")
           /\ state = "closed" /\ state' = "open" => failureRun' = FailureThreshold
<1> USE ThresholdAssumption DEF IInv, TypeOK, Counted
<1>1. /\ failures' \in 0..FailureThreshold
      /\ failureRun' \in 0..FailureThreshold
      /\ failures' = failures + 1 \/ (failures' = FailureThreshold /\ failures = FailureThreshold)
      /\ \/ failureRun' = failureRun + 1
         \/ failureRun' = FailureThreshold /\ failureRun = FailureThreshold
  BY UpToBounds DEF Fail
<1>2. /\ running' \subseteq Calls /\ successRun' = 0 /\ cooled' = FALSE
      /\ UNCHANGED <<successes, halfOpenCalls, probes>>
      /\ state' = IF state = "closed" /\ failures' < FailureThreshold
                     THEN "closed" ELSE "open"
  BY DEF Fail
<1>3. state = "closed" => failures' <= failureRun'
  BY <1>1
<1>4. TypeOK'
  <2>1. state' \in {"closed", "open", "half_open"}
    BY <1>2
  <2>2. cooled' \in BOOLEAN
    BY <1>2, Zenon
  <2>3. /\ successRun' \in 0..SuccessThreshold
        /\ successes' \in 0..SuccessThreshold
        /\ halfOpenCalls' \in 0..HalfOpenMaxCalls
        /\ probes' \in Nat
        /\ running' \subseteq Calls
    BY <1>2
  <2> QED BY <1>1, <2>1, <2>2, <2>3
<1>5. Counted'
  BY <1>1, <1>2, <1>3
<1>6. state = "closed" /\ state' = "open" => failureRun' = FailureThreshold
  BY <1>1, <1>2, <1>3
<1> QED BY <1>2, <1>4, <1>5, <1>6

LEMMA RestIInv ==
    ASSUME IInv,
           (\E c \in Calls : EndUnreported(c)) \/ Cool \/ Reset \/ UNCHANGED vars
    PROVE  IInv'
<1> USE ThresholdAssumption DEF IInv, TypeOK, Counted
<1>1. CASE \E c \in Calls : EndUnreported(c)
  BY <1>1 DEF EndUnreported
<1>2. CASE Cool
  BY <1>2 DEF Cool
<1>3. CASE Reset
  BY <1>3 DEF Reset, ToClosed
<1>4. CASE UNCHANGED vars
  BY <1>4 DEF vars
<1> QED BY <1>1, <1>2, <1>3, <1>4

LEMMA StepIInv == IInv /\ [Next]_vars => IInv'
<1> SUFFICES ASSUME IInv, [Next]_vars PROVE IInv'
  OBVIOUS
<1>1. ASSUME NEW c \in Calls, Begin(c) PROVE IInv'
  BY <1>1, BeginIInv
<1>2. ASSUME NEW c \in Calls, Succeed(c) PROVE IInv'
  BY <1>2, SucceedIInv
<1>3. ASSUME NEW c \in Calls, Fail(c) PROVE IInv'
  BY <1>3, FailIInv
<1>4. CASE (\E c \in Calls : EndUnreported(c)) \/ Cool \/ Reset \/ UNCHANGED vars
  BY <1>4, RestIInv
<1> QED BY <1>1, <1>2, <1>3, <1>4 DEF Next, Finish

LEMMA IInvHolds == Spec => []IInv
BY InitIInv, StepIInv, PTL DEF Spec

\* Every counter stays within its threshold.
THEOREM TypeCorrect == Spec => []TypeOK
<1>1. IInv => TypeOK
  BY DEF IInv
<1> QED BY <1>1, IInvHolds, PTL

\* No interleaving of calls lets more than the slots and the opener through.
THEOREM ProbesAreBounded == Spec => []HalfOpenLimitsLoad
<1>1. IInv => HalfOpenLimitsLoad
  BY ThresholdAssumption DEF IInv, TypeOK, Counted, HalfOpenLimitsLoad
<1> QED BY <1>1, IInvHolds, PTL

\* A half-open circuit closes only after enough successes in a row, or a reset.
THEOREM ClosingIsJustified == Spec => ClosesOnSuccesses
<1>1. IInv /\ [Next]_vars =>
         [state = "half_open" /\ state' = "closed"
             => Reset \/ successRun' = SuccessThreshold]_vars
  <2> SUFFICES ASSUME IInv, Next, state = "half_open", state' = "closed", ~ Reset
               PROVE  successRun' = SuccessThreshold
    OBVIOUS
  <2>1. ASSUME NEW c \in Calls, Begin(c) PROVE FALSE
    BY <2>1 DEF Begin
  <2>2. ASSUME NEW c \in Calls, Succeed(c) PROVE successRun' = SuccessThreshold
    BY <2>2, SucceedIInv
  <2>3. ASSUME NEW c \in Calls, Fail(c) PROVE FALSE
    BY <2>3, FailIInv
  <2>4. ASSUME (\E c \in Calls : EndUnreported(c)) \/ Cool PROVE FALSE
    BY <2>4 DEF EndUnreported, Cool
  <2> QED BY <2>1, <2>2, <2>3, <2>4 DEF Next, Finish
<1> QED BY <1>1, IInvHolds, PTL DEF Spec, ClosesOnSuccesses

\* A closed circuit opens only after enough failures in a row.
THEOREM OpeningIsJustified == Spec => OpensOnFailures
<1>1. IInv /\ [Next]_vars =>
         [state = "closed" /\ state' = "open" => failureRun' = FailureThreshold]_vars
  <2> SUFFICES ASSUME IInv, Next, state = "closed", state' = "open"
               PROVE  failureRun' = FailureThreshold
    OBVIOUS
  <2>1. ASSUME NEW c \in Calls, Begin(c) PROVE FALSE
    BY <2>1 DEF Begin
  <2>2. ASSUME NEW c \in Calls, Succeed(c) PROVE FALSE
    BY <2>2 DEF Succeed
  <2>3. ASSUME NEW c \in Calls, Fail(c) PROVE failureRun' = FailureThreshold
    BY <2>3, FailIInv
  <2>4. ASSUME (\E c \in Calls : EndUnreported(c)) \/ Cool \/ Reset PROVE FALSE
    BY <2>4 DEF EndUnreported, Cool, Reset, ToClosed
  <2> QED BY <2>1, <2>2, <2>3, <2>4 DEF Next, Finish
<1> QED BY <1>1, IInvHolds, PTL DEF Spec, OpensOnFailures
=============================================================================
