-------------------------- MODULE PasswordRecovery --------------------------
(***************************************************************************)
(* Recovery codes for one phone number:                                    *)
(* PasswordRecoveryService (apps/users/password_recovery.py), reached from *)
(* POST /users/password-reset/request and /confirm                         *)
(* (infrastructure/api/v1/endpoints/users.py) and from /resetpassword      *)
(* (bot/handlers/account_recovery.py).                                     *)
(*                                                                         *)
(* Three Redis keys hold the number of requests, the digest of the newest  *)
(* code and the number of wrong guesses.  A request is several commands,   *)
(* so requests and confirmations for one number interleave; a confirmation *)
(* judges its guess in one Lua script.                                     *)
(***************************************************************************)
EXTENDS Integers, FiniteSets

CONSTANTS
    Requests,    \* recovery requests, each served once; the code has its name
    MaxRequests, \* RESET_MAX_REQUESTS
    MaxAttempts, \* RESET_MAX_ATTEMPTS
    NoCode,      \* the code key does not exist
    MaxCuts,     \* bound: requests that are cut off
    MaxResets    \* bound: resets of the attempts counter during one code

ASSUME LimitAssumption ==
    /\ {MaxRequests, MaxAttempts} \subseteq Nat \ {0}
    /\ {MaxCuts, MaxResets} \subseteq Nat
ASSUME NoCodeAssumption == NoCode \notin Requests

VARIABLES
    count,    \* auth:password_reset:requests
    expires,  \* that key has a time to live
    code,     \* auth:password_reset:code
    wrong,    \* auth:password_reset:attempts
    older,    \* that key was created before the code
    pc,       \* what each request does next
    inbox,    \* codes that reached the customer
    accepted, \* codes a confirmation was accepted for
    password, \* the code whose new password users.password_hash stores
    newest,   \* ghost: the code that was stored last
    guesses,  \* ghost: wrong guesses made at that code
    resets,   \* ghost: how often the attempts counter was set back meanwhile
    fate,     \* ghost: what took the newest code, other than its use or guesses at it
    wedged,   \* ghost: a request was cut off between INCR and EXPIRE
    cuts      \* requests cut off so far

counterVars == <<count, expires, wedged>>
codeVars == <<code, newest>>
guessVars == <<wrong, older, guesses, resets>>
vars == <<counterVars, codeVars, guessVars, pc, inbox, accepted, password, fate, cuts>>

Steps == {"idle", "expire", "store", "forget", "deliver", "done"}

\* Its time was over; another request's failed delivery took it, or a counter that an
\* earlier code left brings it down early; or it was withdrawn as undelivered although
\* it had arrived.
Fates == {"none", "lapsed", "taken", "misreported"}

Init ==
    /\ count = 0
    /\ expires = FALSE
    /\ code = NoCode
    /\ wrong = 0
    /\ older = FALSE
    /\ pc = [r \in Requests |-> "idle"]
    /\ inbox = {}
    /\ accepted = {}
    /\ password = NoCode
    /\ newest = NoCode
    /\ guesses = 0
    /\ resets = 0
    /\ fate = "none"
    /\ wedged = FALSE
    /\ cuts = 0

-----------------------------------------------------------------------------
(* request_code                                                            *)

GoTo(r, step) == pc' = [pc EXCEPT ![r] = step]

\* Nothing but the request's own progress and the named parts change.
Elsewhere == UNCHANGED <<inbox, accepted, password, cuts>>

Count(r) ==
    /\ pc[r] = "idle"
    /\ count' = count + 1
    /\ GoTo(r, IF count' = 1 THEN "expire"
               ELSE IF count' > MaxRequests THEN "done" ELSE "store")
    /\ UNCHANGED <<expires, wedged, codeVars, guessVars, fate>>
    /\ Elsewhere

\* Mutant: the time to live is set only by the last request that is admitted.
SetExpiryLate(r) ==
    /\ pc[r] = "expire"
    /\ expires' = (expires \/ count = MaxRequests)
    /\ GoTo(r, "store")
    /\ UNCHANGED <<count, wedged, codeVars, guessVars, fate>>
    /\ Elsewhere

SetExpiry(r) ==
    /\ pc[r] = "expire"
    /\ expires' = (count > 0)
    /\ GoTo(r, "store")
    /\ UNCHANGED <<count, wedged, codeVars, guessVars, fate>>
    /\ Elsewhere

\* No account has the number, or it is not active.
NoAccount(r) ==
    /\ pc[r] = "store"
    /\ GoTo(r, "done")
    /\ UNCHANGED <<counterVars, codeVars, guessVars, fate>>
    /\ Elsewhere

StoreCode(r) ==
    /\ pc[r] = "store"
    /\ code' = r
    /\ newest' = r
    /\ older' = (wrong > 0)
    /\ guesses' = 0
    /\ resets' = 0
    /\ fate' = "none"
    /\ GoTo(r, "forget")
    /\ UNCHANGED <<counterVars, wrong>>
    /\ Elsewhere

\* The attempts counter is removed, whichever code it belongs to by now.
SetBack ==
    /\ wrong' = 0
    /\ older' = FALSE
    /\ resets' = IF code \in Requests /\ wrong > 0 THEN resets + 1 ELSE resets
    /\ UNCHANGED guesses

\* Mutant: the attempts of an earlier code are kept.
ForgetNothing(r) ==
    /\ pc[r] = "forget"
    /\ GoTo(r, "deliver")
    /\ UNCHANGED <<counterVars, codeVars, guessVars, fate>>
    /\ Elsewhere

ForgetAttempts(r) ==
    /\ pc[r] = "forget"
    /\ code \in Requests /\ wrong > 0 => resets < MaxResets
    /\ SetBack
    /\ GoTo(r, "deliver")
    /\ UNCHANGED <<counterVars, codeVars, fate>>
    /\ Elsewhere

\* External: Telegram or the mail server accepts the message and the code reaches
\* the customer, before the sender hears of it.
Arrives(r) ==
    /\ pc[r] = "deliver" /\ r \notin inbox
    /\ inbox' = inbox \cup {r}
    /\ UNCHANGED <<counterVars, codeVars, guessVars, pc, accepted, password, fate, cuts>>

\* A channel reports that the code was delivered, Telegram or, failing that, e-mail.
Deliver(r) ==
    /\ pc[r] = "deliver" /\ r \in inbox
    /\ GoTo(r, "done")
    /\ UNCHANGED <<counterVars, codeVars, guessVars, fate>>
    /\ Elsewhere

\* No channel reports success, which a sender does not do either when the answer to
\* a message that was accepted is lost.  Both keys are deleted, also if they are a
\* newer code's.
DeliveryFails(r) ==
    /\ pc[r] = "deliver"
    /\ code \in Requests /\ wrong > 0 => resets < MaxResets
    /\ code' = NoCode
    /\ SetBack
    /\ fate' = IF code \in Requests \ {r} THEN "taken"
               ELSE IF code = r /\ r \in inbox THEN "misreported" ELSE fate
    /\ GoTo(r, "done")
    /\ UNCHANGED <<counterVars, newest>>
    /\ Elsewhere

\* The worker stops or Redis fails between two commands.
CutOff(r) ==
    /\ pc[r] \notin {"idle", "done"}
    /\ cuts < MaxCuts
    /\ cuts' = cuts + 1
    /\ wedged' = (wedged \/ pc[r] = "expire")
    /\ fate' = IF pc[r] = "forget" /\ code = r THEN "taken" ELSE fate
    /\ GoTo(r, "done")
    /\ UNCHANGED <<count, expires, codeVars, guessVars, inbox, accepted, password>>

-----------------------------------------------------------------------------
(* reset_password and the clock                                            *)

\* Mutant: the code is looked up and deleted in two commands, of which the second
\* is lost.
ConfirmKeeping ==
    /\ code \in Requests
    /\ accepted' = accepted \cup {code}
    /\ UNCHANGED <<counterVars, codeVars, guessVars, pc, inbox, password, fate, cuts>>

\* The script finds the code and deletes both keys.  The new hash is written in a
\* session that is closed without a commit.
Confirm ==
    /\ code \in inbox
    /\ accepted' = accepted \cup {code}
    /\ code' = NoCode
    /\ wrong' = 0
    /\ older' = FALSE
    /\ UNCHANGED <<counterVars, newest, guesses, resets, pc, inbox, password,
                   fate, cuts>>

\* Mutant: one more wrong guess is let through.
GuessOnceMore ==
    /\ code \in Requests
    /\ wrong' = wrong + 1
    /\ older' = IF wrong = 0 THEN FALSE ELSE older
    /\ guesses' = guesses + 1
    /\ code' = IF wrong' > MaxAttempts THEN NoCode ELSE code
    /\ UNCHANGED <<counterVars, newest, resets, pc, inbox, accepted, password,
                   fate, cuts>>

\* The script counts a wrong guess; the last one deletes the code.  A counter that
\* an earlier code left may delete it sooner while its request is still to forget.
Guess ==
    /\ code \in Requests
    /\ wrong' = wrong + 1
    /\ older' = IF wrong = 0 THEN FALSE ELSE older
    /\ guesses' = guesses + 1
    /\ code' = IF wrong' >= MaxAttempts THEN NoCode ELSE code
    /\ fate' = IF pc[code] = "forget" THEN "taken" ELSE fate
    /\ UNCHANGED <<counterVars, newest, resets, pc, inbox, accepted, password, cuts>>

WindowEnds ==
    /\ expires
    /\ count' = 0
    /\ expires' = FALSE
    /\ UNCHANGED <<wedged, codeVars, guessVars, pc, fate>>
    /\ Elsewhere

CodeLapses ==
    /\ code \in Requests
    /\ code' = NoCode
    /\ fate' = "lapsed"
    /\ UNCHANGED <<counterVars, newest, guessVars, pc>>
    /\ Elsewhere

\* The counter lives as long as a code, from its first wrong guess: it outlives the
\* code it counts for, not one that was stored after it.
AttemptsLapse ==
    /\ wrong > 0
    /\ code = NoCode \/ older
    /\ code \in Requests => resets < MaxResets
    /\ SetBack
    /\ UNCHANGED <<counterVars, codeVars, pc, fate>>
    /\ Elsewhere

-----------------------------------------------------------------------------
Work(r) ==
    \/ SetExpiry(r) \/ NoAccount(r) \/ StoreCode(r) \/ ForgetAttempts(r)
    \/ Arrives(r) \/ Deliver(r) \/ DeliveryFails(r)

Next ==
    \/ \E r \in Requests : Count(r) \/ Work(r) \/ CutOff(r)
    \/ Confirm \/ Guess
    \/ WindowEnds \/ CodeLapses \/ AttemptsLapse

Spec == Init /\ [][Next]_vars

\* A request that was counted goes on, the providers answer within their timeouts,
\* and Redis removes a key whose time is over.
FairSpec == Spec /\ WF_vars(WindowEnds) /\ \A r \in Requests : WF_vars(Work(r))

-----------------------------------------------------------------------------
(* Properties                                                              *)

\* The keys hold values of their types, and an accepted code was one the customer
\* had received (reset_password).
TypeOK ==
    /\ count \in Nat /\ expires \in BOOLEAN
    /\ code \in Requests \cup {NoCode} /\ newest \in Requests \cup {NoCode}
    /\ wrong \in Nat /\ older \in BOOLEAN
    /\ pc \in [Requests -> Steps]
    /\ inbox \subseteq Requests /\ accepted \subseteq inbox
    /\ fate \in Fates
    /\ guesses \in Nat /\ resets \in Nat

\* A code is good for one confirmation, and never again once a newer one was stored
\* (_CONSUME_CODE_SCRIPT, request_code).
UsedCodesAreGone == code \notin accepted /\ code \in {newest, NoCode}

\* While one code is stored it bears RESET_MAX_ATTEMPTS wrong guesses, and one less
\* for each time another request or the clock set the counter back.
GuessesAreBounded == guesses <= MaxAttempts + (MaxAttempts - 1) * resets

\* A customer who received the newest code can use it: it is stored unless it was
\* used, its time is over, it was guessed at too often, another request's failed
\* delivery or a counter left by an earlier code took it, or the channel reported its
\* own delivery as failed although it had arrived (request_code, reset_password).
DeliveredCodeWorks ==
    newest \in inbox \ accepted /\ fate = "none" /\ guesses < MaxAttempts => code = newest

\* A number that asked too often can ask again some day, unless a request was cut
\* off between INCR and EXPIRE (request_code).
RequestsComeBack == count > MaxRequests ~> count = 0 \/ wedged

-----------------------------------------------------------------------------
(* Claims of the repository that the code does not keep                    *)

\* endpoints/users.py answers "Password updated. You can now log in."
UpdatedMeansStored == accepted # {} => password \in accepted

\* tests/test_unit/test_password_recovery.py: five invalid codes invalidate a code.
FiveGuessesAtMost == guesses <= MaxAttempts

\* password_recovery.py: "the code works for 5 minutes", says the message the
\* customer receives.
DeliveredCodeIsKept ==
    newest \in inbox \ accepted /\ fate # "lapsed" /\ guesses < MaxAttempts => code = newest

\* RESET_REQUEST_WINDOW_SECONDS: the limit is one of requests in an hour.
WindowAlwaysEnds == count > MaxRequests ~> count = 0
=============================================================================
