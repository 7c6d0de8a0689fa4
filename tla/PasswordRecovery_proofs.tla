---------------------- MODULE PasswordRecovery_proofs ----------------------
(***************************************************************************)
(* Proofs about PasswordRecovery, for any number of requests and any       *)
(* limits.  The invariants need to know what each request still has to do: *)
(* a code that was not delivered yet has not been used, and the wrong      *)
(* guesses on the counter are the stored code's own from the moment its    *)
(* request removed the counter.                                            *)
(***************************************************************************)
EXTENDS PasswordRecovery, TLAPS

\* A code is in the inbox only when its request at most waits for the report.
InboxIsSent == \A r \in inbox : pc[r] \in {"deliver", "done"}

\* What a stored code has borne so far: the guesses on the counter, and at most
\* all but one of the allowed ones for each time it was set back.
BudgetIsKept ==
    code \in Requests =>
        /\ guesses <= wrong + (MaxAttempts - 1) * resets
        /\ guesses <= (MaxAttempts - 1) + (MaxAttempts - 1) * resets

\* Once its request removed the counter, a code bears no guesses of another.
CounterIsOwn ==
    code \in Requests /\ fate = "none" /\ pc[code] # "forget" => wrong <= guesses

\* The newest code is stored unless it was used, met one of the fates or was guessed
\* at too often, or it did not arrive.
NewestIsStored ==
    newest \in Requests \ accepted /\ fate = "none" /\ guesses < MaxAttempts
        => code = newest \/ (pc[newest] = "done" /\ newest \notin inbox)

IInv == /\ TypeOK /\ InboxIsSent /\ UsedCodesAreGone
        /\ BudgetIsKept /\ GuessesAreBounded /\ CounterIsOwn /\ NewestIsStored

-----------------------------------------------------------------------------
\* One more reset is worth all but one of the allowed guesses.
LEMMA ResetIsWorth ==
    /\ MaxAttempts \in Nat /\ MaxAttempts >= 1
    /\ \A n \in Nat : /\ (MaxAttempts - 1) * n \in Nat
                     /\ (MaxAttempts - 1) * (n + 1) = (MaxAttempts - 1) * n + (MaxAttempts - 1)
<1>1. MaxAttempts \in Nat /\ MaxAttempts >= 1
  BY LimitAssumption
<1>2. \A m, n \in Nat : m * n \in Nat /\ m * (n + 1) = m * n + m
  OBVIOUS
<1> QED BY <1>1, <1>2

LEMMA InitIInv == Init => IInv
<1> SUFFICES ASSUME Init PROVE IInv
  OBVIOUS
<1>1. TypeOK
  BY DEF Init, TypeOK, Steps, Fates
<1>2. InboxIsSent /\ UsedCodesAreGone /\ NewestIsStored /\ CounterIsOwn
  BY NoCodeAssumption DEF Init, InboxIsSent, UsedCodesAreGone, NewestIsStored, CounterIsOwn
<1>3. BudgetIsKept /\ GuessesAreBounded
  BY ResetIsWorth DEF Init, BudgetIsKept, GuessesAreBounded
<1> QED BY <1>1, <1>2, <1>3 DEF IInv

\* A request moves on and touches none of the keys the invariant speaks of.
LEMMA MoveIInv ==
    ASSUME IInv, NEW r \in Requests, NEW step \in Steps \ {"forget"}, GoTo(r, step),
           pc[r] \in {"idle", "expire", "store"},
           count' \in Nat, expires' \in BOOLEAN,
           UNCHANGED <<codeVars, guessVars, inbox, accepted, fate>>
    PROVE  IInv'
<1> USE DEF codeVars, guessVars
<1>1. /\ pc \in [Requests -> Steps] /\ pc' = [pc EXCEPT ![r] = step]
      /\ inbox \subseteq Requests /\ r \notin inbox
  BY DEF IInv, TypeOK, GoTo, InboxIsSent
<1>2. TypeOK' /\ InboxIsSent'
  BY <1>1 DEF IInv, TypeOK, InboxIsSent
<1>3. UsedCodesAreGone' /\ BudgetIsKept' /\ GuessesAreBounded'
  BY DEF IInv, UsedCodesAreGone, BudgetIsKept, GuessesAreBounded
<1>4. CounterIsOwn' /\ NewestIsStored'
  BY <1>1 DEF IInv, CounterIsOwn, NewestIsStored
<1> QED BY <1>2, <1>3, <1>4 DEF IInv

LEMMA StoreCodeIInv ==
    ASSUME IInv, NEW r \in Requests, StoreCode(r) PROVE IInv'
<1>1. /\ pc[r] = "store" /\ pc' = [pc EXCEPT ![r] = "forget"]
      /\ code' = r /\ newest' = r /\ older' = (wrong > 0) /\ guesses' = 0 /\ resets' = 0
      /\ fate' = "none" /\ UNCHANGED <<count, expires, wrong, inbox, accepted>>
  BY DEF StoreCode, GoTo, Elsewhere, counterVars
<1>2. /\ pc \in [Requests -> Steps] /\ wrong \in Nat /\ accepted \subseteq inbox
      /\ r \notin inbox /\ inbox \subseteq Requests
  BY <1>1 DEF IInv, TypeOK, InboxIsSent
<1>3. older' \in BOOLEAN
  BY <1>1
<1>4. TypeOK'
  BY <1>1, <1>2, <1>3 DEF IInv, TypeOK, Steps, Fates
<1>5. InboxIsSent' /\ UsedCodesAreGone'
  BY <1>1, <1>2 DEF IInv, InboxIsSent, UsedCodesAreGone
<1>6. BudgetIsKept' /\ GuessesAreBounded'
  BY <1>1, <1>2, ResetIsWorth DEF BudgetIsKept, GuessesAreBounded
<1>7. CounterIsOwn' /\ NewestIsStored'
  BY <1>1, <1>2 DEF CounterIsOwn, NewestIsStored
<1> QED BY <1>4, <1>5, <1>6, <1>7 DEF IInv

\* Removing the counter keeps the budget: what the stored code had borne is made
\* up for by the reset.
LEMMA SetBackBudget ==
    ASSUME IInv, SetBack
    PROVE  /\ wrong' = 0 /\ older' = FALSE /\ guesses' = guesses
           /\ resets' \in Nat
           /\ GuessesAreBounded' /\ (code' = code => BudgetIsKept')
<1>1. /\ wrong' = 0 /\ older' = FALSE /\ guesses' = guesses
      /\ resets' = IF code \in Requests /\ wrong > 0 THEN resets + 1 ELSE resets
      /\ wrong \in Nat /\ resets \in Nat /\ guesses \in Nat
  BY DEF SetBack, IInv, TypeOK
<1>2. GuessesAreBounded /\ BudgetIsKept
  BY DEF IInv
<1>3. CASE code \in Requests /\ wrong > 0
  <2> DEFINE earned == (MaxAttempts - 1) * resets
  <2>1. /\ earned \in Nat /\ resets' = resets + 1
        /\ (MaxAttempts - 1) * resets' = earned + (MaxAttempts - 1)
        /\ guesses <= MaxAttempts - 1 + earned
    BY <1>1, <1>2, <1>3, ResetIsWorth DEF BudgetIsKept
  <2> HIDE DEF earned
  <2>2. guesses <= (MaxAttempts - 1) * resets' /\ (MaxAttempts - 1) * resets' \in Nat
    BY <1>1, <2>1, ResetIsWorth
  <2> QED BY <1>1, <2>1, <2>2, ResetIsWorth DEF BudgetIsKept, GuessesAreBounded
<1>4. CASE ~ (code \in Requests /\ wrong > 0)
  BY <1>1, <1>2, <1>4, ResetIsWorth DEF BudgetIsKept, GuessesAreBounded
<1> QED BY <1>3, <1>4, <1>1

\* A request removes the counter and has nothing else to do with the code: after
\* its own code was stored, or while another's is.
LEMMA ForgetAttemptsIInv ==
    ASSUME IInv, NEW r \in Requests, ForgetAttempts(r) PROVE IInv'
<1>1. /\ pc[r] = "forget" /\ pc' = [pc EXCEPT ![r] = "deliver"] /\ SetBack
      /\ UNCHANGED <<count, expires, code, newest, fate, inbox, accepted>>
  BY DEF ForgetAttempts, GoTo, Elsewhere, counterVars, codeVars
<1>2. /\ wrong' = 0 /\ older' = FALSE /\ guesses' = guesses /\ resets' \in Nat
      /\ GuessesAreBounded' /\ BudgetIsKept'
  BY <1>1, SetBackBudget
<1>3. /\ pc \in [Requests -> Steps] /\ guesses \in Nat
      /\ inbox \subseteq Requests /\ r \notin inbox
  BY <1>1 DEF IInv, TypeOK, InboxIsSent
<1>4. TypeOK'
  BY <1>1, <1>2, <1>3 DEF IInv, TypeOK, Steps
<1>5. InboxIsSent' /\ UsedCodesAreGone'
  BY <1>1, <1>3 DEF IInv, InboxIsSent, UsedCodesAreGone
<1>6. CounterIsOwn'
  BY <1>1, <1>2, <1>3 DEF CounterIsOwn
<1>7. NewestIsStored'
  BY <1>1, <1>2, <1>3 DEF IInv, NewestIsStored
<1> QED BY <1>2, <1>4, <1>5, <1>6, <1>7 DEF IInv

LEMMA AttemptsLapseIInv == ASSUME IInv, AttemptsLapse PROVE IInv'
<1>1. /\ SetBack
      /\ UNCHANGED <<count, expires, code, newest, pc, fate, inbox, accepted>>
  BY DEF AttemptsLapse, Elsewhere, counterVars, codeVars
<1>2. /\ wrong' = 0 /\ older' = FALSE /\ guesses' = guesses /\ resets' \in Nat
      /\ GuessesAreBounded' /\ BudgetIsKept' /\ guesses \in Nat
  BY <1>1, SetBackBudget DEF IInv, TypeOK
<1>3. TypeOK'
  BY <1>1, <1>2 DEF IInv, TypeOK
<1>4. InboxIsSent' /\ UsedCodesAreGone' /\ NewestIsStored'
  BY <1>1, <1>2 DEF IInv, InboxIsSent, UsedCodesAreGone, NewestIsStored
<1>5. CounterIsOwn'
  BY <1>1, <1>2 DEF CounterIsOwn
<1> QED BY <1>2, <1>3, <1>4, <1>5 DEF IInv

LEMMA ArrivesIInv == ASSUME IInv, NEW r \in Requests, Arrives(r) PROVE IInv'
<1>1. /\ pc[r] = "deliver" /\ inbox' = inbox \cup {r}
      /\ UNCHANGED <<count, expires, codeVars, guessVars, pc, fate, accepted>>
  BY DEF Arrives, counterVars
<1> USE DEF codeVars, guessVars
<1>2. TypeOK' /\ InboxIsSent'
  BY <1>1 DEF IInv, TypeOK, InboxIsSent
<1>3. UsedCodesAreGone' /\ BudgetIsKept' /\ GuessesAreBounded' /\ CounterIsOwn'
  BY <1>1 DEF IInv, UsedCodesAreGone, BudgetIsKept, GuessesAreBounded, CounterIsOwn
<1>4. NewestIsStored'
  BY <1>1 DEF IInv, NewestIsStored
<1> QED BY <1>2, <1>3, <1>4 DEF IInv

LEMMA DeliverIInv == ASSUME IInv, NEW r \in Requests, Deliver(r) PROVE IInv'
<1>1. /\ pc[r] = "deliver" /\ r \in inbox /\ pc' = [pc EXCEPT ![r] = "done"]
      /\ UNCHANGED <<count, expires, codeVars, guessVars, fate, inbox, accepted>>
  BY DEF Deliver, GoTo, Elsewhere, counterVars
<1>2. pc \in [Requests -> Steps]
  BY DEF IInv, TypeOK
<1> USE DEF codeVars, guessVars
<1>3. TypeOK'
  BY <1>1, <1>2 DEF IInv, TypeOK, Steps
<1>4. InboxIsSent'
  BY <1>1, <1>2 DEF IInv, InboxIsSent
<1>5. UsedCodesAreGone' /\ BudgetIsKept' /\ GuessesAreBounded'
  BY <1>1 DEF IInv, UsedCodesAreGone, BudgetIsKept, GuessesAreBounded
<1>6. CounterIsOwn'
  BY <1>1, <1>2 DEF IInv, CounterIsOwn
<1>7. NewestIsStored'
  BY <1>1, <1>2 DEF IInv, NewestIsStored
<1> QED BY <1>3, <1>4, <1>5, <1>6, <1>7 DEF IInv

\* The stored code goes; what it had borne no longer counts.
LEMMA DeliveryFailsIInv ==
    ASSUME IInv, NEW r \in Requests, DeliveryFails(r) PROVE IInv'
<1>1. /\ pc[r] = "deliver" /\ pc' = [pc EXCEPT ![r] = "done"]
      /\ code' = NoCode /\ SetBack
      /\ fate' = IF code \in Requests \ {r} THEN "taken"
                 ELSE IF code = r /\ r \in inbox THEN "misreported" ELSE fate
      /\ UNCHANGED <<count, expires, newest, inbox, accepted>>
  BY DEF DeliveryFails, GoTo, Elsewhere, counterVars
<1>2. /\ wrong' = 0 /\ older' = FALSE /\ guesses' = guesses /\ resets' \in Nat
      /\ GuessesAreBounded'
  BY <1>1, SetBackBudget
<1>3. /\ pc \in [Requests -> Steps] /\ inbox \subseteq Requests
      /\ accepted \subseteq inbox /\ code \in Requests \cup {NoCode}
      /\ code \in {newest, NoCode} /\ fate \in Fates
  BY DEF IInv, TypeOK, UsedCodesAreGone
<1>4. fate' \in Fates
  BY <1>1, <1>3 DEF Fates
<1>5. TypeOK'
  BY <1>1, <1>2, <1>3, <1>4 DEF IInv, TypeOK, Steps
<1>6. InboxIsSent' /\ UsedCodesAreGone' /\ BudgetIsKept' /\ CounterIsOwn'
  BY <1>1, <1>3, NoCodeAssumption
     DEF IInv, InboxIsSent, UsedCodesAreGone, BudgetIsKept, CounterIsOwn
<1>7. NewestIsStored'
  BY <1>1, <1>2, <1>3, <1>4, NoCodeAssumption DEF IInv, NewestIsStored
<1> QED BY <1>2, <1>5, <1>6, <1>7 DEF IInv

LEMMA CutOffIInv == ASSUME IInv, NEW r \in Requests, CutOff(r) PROVE IInv'
<1>1. /\ pc[r] \notin {"idle", "done"} /\ pc' = [pc EXCEPT ![r] = "done"]
      /\ fate' = IF pc[r] = "forget" /\ code = r THEN "taken" ELSE fate
      /\ UNCHANGED <<count, expires, codeVars, guessVars, inbox, accepted>>
  BY DEF CutOff, GoTo
<1> USE DEF codeVars, guessVars
<1>2. /\ pc \in [Requests -> Steps] /\ inbox \subseteq Requests
      /\ (r \in inbox => pc[r] = "deliver")
  BY <1>1 DEF IInv, TypeOK, InboxIsSent
<1>3. fate' \in Fates
  BY <1>1 DEF IInv, TypeOK, Fates
<1>4. TypeOK'
  BY <1>1, <1>2, <1>3 DEF IInv, TypeOK, Steps
<1>5. InboxIsSent' /\ UsedCodesAreGone' /\ BudgetIsKept' /\ GuessesAreBounded'
  BY <1>1, <1>2 DEF IInv, InboxIsSent, UsedCodesAreGone, BudgetIsKept, GuessesAreBounded
<1>6. CounterIsOwn'
  BY <1>1, <1>2, <1>3 DEF IInv, CounterIsOwn
<1>7. NewestIsStored'
  BY <1>1, <1>2, <1>3 DEF IInv, NewestIsStored
<1> QED BY <1>4, <1>5, <1>6, <1>7 DEF IInv

LEMMA ConfirmIInv == ASSUME IInv, Confirm PROVE IInv'
<1>1. /\ code \in inbox /\ accepted' = accepted \cup {code} /\ code' = NoCode
      /\ wrong' = 0 /\ older' = FALSE
      /\ UNCHANGED <<count, expires, newest, guesses, resets, pc, inbox, fate>>
  BY DEF Confirm, counterVars
<1>2. code \in {newest, NoCode} /\ code \in Requests /\ accepted \subseteq Requests
  BY <1>1 DEF IInv, UsedCodesAreGone, TypeOK
<1>3. TypeOK'
  BY <1>1, <1>2 DEF IInv, TypeOK
<1>4. InboxIsSent' /\ UsedCodesAreGone' /\ BudgetIsKept' /\ GuessesAreBounded' /\ CounterIsOwn'
  BY <1>1, <1>2, NoCodeAssumption DEF IInv, InboxIsSent, UsedCodesAreGone, BudgetIsKept,
     GuessesAreBounded, CounterIsOwn
<1>5. NewestIsStored'
  BY <1>1, <1>2, NoCodeAssumption DEF IInv, NewestIsStored
<1> QED BY <1>3, <1>4, <1>5 DEF IInv

\* The last guess a counter allows deletes the code, so a stored one stays below.
LEMMA GuessIInv == ASSUME IInv, Guess PROVE IInv'
<1>1. /\ code \in Requests /\ wrong' = wrong + 1 /\ guesses' = guesses + 1
      /\ older' = IF wrong = 0 THEN FALSE ELSE older
      /\ code' = IF wrong' >= MaxAttempts THEN NoCode ELSE code
      /\ fate' = IF pc[code] = "forget" THEN "taken" ELSE fate
      /\ UNCHANGED <<count, expires, newest, resets, pc, inbox, accepted>>
  BY DEF Guess, counterVars
<1>2. /\ wrong \in Nat /\ guesses \in Nat /\ resets \in Nat /\ older \in BOOLEAN
      /\ code = newest /\ accepted \subseteq Requests /\ fate \in Fates
  BY <1>1, NoCodeAssumption DEF IInv, TypeOK, UsedCodesAreGone
<1>3. older' \in BOOLEAN
  BY <1>1, <1>2
<1>4. TypeOK'
  <2>1. wrong' \in Nat /\ guesses' \in Nat
    BY <1>1, <1>2
  <2>2. code' \in Requests \cup {NoCode} /\ fate' \in Fates
    BY <1>1, <1>2 DEF Fates
  <2> QED BY <1>1, <1>3, <2>1, <2>2, Zenon DEF IInv, TypeOK
<1>5. InboxIsSent' /\ UsedCodesAreGone'
  BY <1>1, <1>2, NoCodeAssumption DEF IInv, InboxIsSent, UsedCodesAreGone
<1>6. /\ guesses <= wrong + (MaxAttempts - 1) * resets
      /\ guesses <= (MaxAttempts - 1) + (MaxAttempts - 1) * resets
  BY <1>1 DEF IInv, BudgetIsKept
<1>7. BudgetIsKept' /\ GuessesAreBounded'
  <2> DEFINE earned == (MaxAttempts - 1) * resets
  <2>1. earned \in Nat /\ earned' = earned
    BY <1>1, <1>2, ResetIsWorth
  <2>2. guesses' <= MaxAttempts + earned
    BY <1>1, <1>2, <1>6, <2>1, ResetIsWorth
  <2>3. code' \in Requests => guesses' <= wrong' + earned /\ guesses' <= (MaxAttempts - 1) + earned
    BY <1>1, <1>2, <1>6, <2>1, ResetIsWorth, NoCodeAssumption
  <2> QED BY <2>1, <2>2, <2>3 DEF BudgetIsKept, GuessesAreBounded
<1>8. CounterIsOwn'
  BY <1>1, <1>2, NoCodeAssumption DEF IInv, CounterIsOwn
<1>9. NewestIsStored'
  BY <1>1, <1>2, NoCodeAssumption, ResetIsWorth DEF IInv, CounterIsOwn, NewestIsStored
<1> QED BY <1>4, <1>5, <1>7, <1>8, <1>9 DEF IInv

LEMMA CodeLapsesIInv == ASSUME IInv, CodeLapses PROVE IInv'
<1>1. /\ code \in Requests /\ code' = NoCode /\ fate' = "lapsed"
      /\ UNCHANGED <<count, expires, newest, guessVars, pc, inbox, accepted>>
  BY DEF CodeLapses, Elsewhere, counterVars
<1> USE DEF guessVars
<1>2. code = newest /\ accepted \subseteq Requests
  BY <1>1, NoCodeAssumption DEF IInv, UsedCodesAreGone, TypeOK
<1>3. TypeOK'
  BY <1>1 DEF IInv, TypeOK, Fates
<1>4. InboxIsSent' /\ UsedCodesAreGone' /\ BudgetIsKept' /\ GuessesAreBounded' /\ CounterIsOwn'
  BY <1>1, <1>2, NoCodeAssumption DEF IInv, InboxIsSent, UsedCodesAreGone, BudgetIsKept,
     GuessesAreBounded, CounterIsOwn
<1>5. NewestIsStored'
  BY <1>1, <1>2 DEF IInv, NewestIsStored
<1> QED BY <1>3, <1>4, <1>5 DEF IInv

LEMMA WindowEndsIInv == ASSUME IInv, WindowEnds PROVE IInv'
BY DEF WindowEnds, Elsewhere, codeVars, guessVars, IInv, TypeOK, InboxIsSent,
       UsedCodesAreGone, BudgetIsKept, GuessesAreBounded, CounterIsOwn, NewestIsStored

LEMMA StepIInv == IInv /\ [Next]_vars => IInv'
<1> SUFFICES ASSUME IInv, [Next]_vars PROVE IInv'
  OBVIOUS
<1>1. ASSUME NEW r \in Requests, Count(r) PROVE IInv'
  <2>1. PICK step \in Steps \ {"forget"} : GoTo(r, step)
    BY <1>1 DEF Count, Steps
  <2>2. count' \in Nat /\ expires' \in BOOLEAN
    BY <1>1 DEF Count, IInv, TypeOK
  <2> QED BY <1>1, <2>1, <2>2, MoveIInv DEF Count, Elsewhere
<1>2. ASSUME NEW r \in Requests, Work(r) PROVE IInv'
  <2>1. CASE SetExpiry(r)
    <3>1. count' \in Nat /\ expires' \in BOOLEAN
      BY <2>1 DEF SetExpiry, IInv, TypeOK
    <3> QED BY <2>1, <3>1, MoveIInv DEF SetExpiry, Elsewhere, Steps
  <2>2. CASE NoAccount(r)
    <3>1. count' \in Nat /\ expires' \in BOOLEAN
      BY <2>2 DEF NoAccount, counterVars, IInv, TypeOK
    <3> QED BY <2>2, <3>1, MoveIInv DEF NoAccount, Elsewhere, Steps
  <2> QED BY <1>2, <2>1, <2>2, StoreCodeIInv, ForgetAttemptsIInv, ArrivesIInv, DeliverIInv,
             DeliveryFailsIInv DEF Work
<1>3. CASE UNCHANGED vars
  BY <1>3 DEF vars, counterVars, codeVars, guessVars, IInv, TypeOK, InboxIsSent,
     UsedCodesAreGone, BudgetIsKept, GuessesAreBounded, CounterIsOwn, NewestIsStored
<1> QED BY <1>1, <1>2, <1>3, CutOffIInv, ConfirmIInv, GuessIInv, WindowEndsIInv,
           CodeLapsesIInv, AttemptsLapseIInv DEF Next

-----------------------------------------------------------------------------
\* The three keys hold values of their types, and a code was accepted only from a
\* customer who had received it.
THEOREM TypeCorrect == Spec => []TypeOK
<1>1. IInv => TypeOK
  BY DEF IInv
<1> QED BY <1>1, InitIInv, StepIInv, PTL DEF Spec

\* However requests and confirmations interleave, a used code is not stored again
\* and neither is one that a newer one replaced.
THEOREM CodesAreUsedOnce == Spec => []UsedCodesAreGone
<1>1. IInv => UsedCodesAreGone
  BY DEF IInv
<1> QED BY <1>1, InitIInv, StepIInv, PTL DEF Spec

\* A code bears the allowed number of wrong guesses and one less for each time the
\* counter was set back under it.
THEOREM GuessingIsLimited == Spec => []GuessesAreBounded
<1>1. IInv => GuessesAreBounded
  BY DEF IInv
<1> QED BY <1>1, InitIInv, StepIInv, PTL DEF Spec

\* The newest code a customer received is stored until it is used, lapses, is guessed
\* at too often, falls to another request or is withdrawn after a failure report that
\* was wrong.
THEOREM NewestCodeWorks == Spec => []DeliveredCodeWorks
<1>1. IInv => DeliveredCodeWorks
  BY DEF IInv, TypeOK, NewestIsStored, DeliveredCodeWorks
<1> QED BY <1>1, InitIInv, StepIInv, PTL DEF Spec
=============================================================================
