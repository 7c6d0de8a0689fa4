--------------------------- MODULE CustomerProfile ---------------------------
(***************************************************************************)
(* What one customer's web profile keeps: the saved addresses with the     *)
(* default among them, the settings row that names the default once more,  *)
(* and the profile picture (bot/web_app/router.py); the bot adds addresses *)
(* and pictures of its own (bot/handlers/checkout.py, profile.py).         *)
(*                                                                         *)
(* A web handler locks the users row, and the inserts of the bot wait for  *)
(* that lock too, so a change of the addresses is one step.  A profile     *)
(* that is saved with notification settings reads the settings row before  *)
(* it locks, and a picture is a file before and after it is a row.         *)
(***************************************************************************)
EXTENDS Integers, FiniteSets, FiniteSetsExt

CONSTANTS
    Updates,      \* profile updates, each saved once
    Pictures,     \* uploaded images, each a file of its own
    MaxAddresses, \* bound: addresses that are created
    NoRow,        \* the customer has no settings row
    Null,         \* an empty column
    Telegram      \* the picture is a file id of Telegram

ASSUME BoundAssumption == MaxAddresses \in Nat
ASSUME ValueAssumption ==
    /\ {NoRow, Null} \cap (1..MaxAddresses) = {} /\ NoRow # Null
    /\ {Telegram, Null} \cap Pictures = {} /\ Telegram # Null

VARIABLES
    addresses, \* user_addresses: the ids, which grow
    created,   \* the last id given
    defaults,  \* those with is_default
    pointer,   \* user_preferences.default_shipping_address_id
    session,   \* what each update does: "new", "read" or "saved"
    seen,      \* the pointer as each update has it in its session
    fromBot,   \* ghost: addresses that a checkout in the bot saved
    stale,     \* ghost: the pointer was not written because it had been read as such
    picture,   \* users.profile_picture
    files,     \* images in private_uploads
    upload,    \* what each upload does: "new", "written" or "over"
    doomed     \* files a handler is about to remove

bookVars == <<addresses, created, defaults, fromBot>>
settingsVars == <<pointer, stale>>
sessionVars == <<session, seen>>
pictureVars == <<picture, files, upload, doomed>>
vars == <<bookVars, settingsVars, sessionVars, pictureVars>>

Init ==
    /\ addresses = {} /\ created = 0 /\ defaults = {} /\ fromBot = {}
    /\ pointer \in {NoRow, Null} /\ stale = FALSE
    /\ session = [u \in Updates |-> "new"]
    /\ seen = [u \in Updates |-> NoRow]
    /\ picture \in {Null, Telegram}
    /\ files = {} /\ doomed = {}
    /\ upload = [p \in Pictures |-> "new"]

\* Mutant: the users row is read without FOR UPDATE.
RowIsNotLocked == TRUE

\* An upload keeps the users row locked while it writes its file.
RowIsFree == \A p \in Pictures : upload[p] # "written"

-----------------------------------------------------------------------------
(* Addresses                                                               *)

\* _set_preferred_shipping_address in a session that has the row's pointer as
\* known: a column that already has the value is not written.
PointTo(target, known) ==
    /\ pointer' = IF pointer = NoRow \/ target = known THEN pointer ELSE target
    /\ stale' = (pointer # NoRow /\ pointer' # target)

\* The default of what is left: the one that is, or the newest.
Preferred(left, flagged) ==
    IF left = {} THEN {} ELSE {Max(IF flagged = {} THEN left ELSE flagged)}

AsPointer(chosen) == IF chosen = {} THEN Null ELSE Max(chosen)

New == created + 1

CreateRow ==
    /\ created < MaxAddresses
    /\ created' = New
    /\ addresses' = addresses \cup {New}

\* create_web_user_address
CreateAddress(asDefault) ==
    /\ RowIsFree
    /\ CreateRow
    /\ IF asDefault \/ defaults = {}
          THEN defaults' = {New} /\ PointTo(New, pointer)
          ELSE UNCHANGED <<defaults, settingsVars>>
    /\ UNCHANGED <<fromBot, sessionVars, pictureVars>>

\* update_web_user_address, with is_default in the request.
UpdateAddress(a, asDefault) ==
    /\ RowIsFree
    /\ a \in addresses
    /\ defaults' = IF asDefault \/ defaults \subseteq {a} THEN {a}
                   ELSE {Max(defaults \ {a})}
    /\ PointTo(Max(defaults'), pointer)
    /\ UNCHANGED <<addresses, created, fromBot, sessionVars, pictureVars>>

\* Mutant: nothing is promoted in the place of a deleted default.
PromoteNone(a) ==
    /\ addresses' = addresses \ {a}
    /\ fromBot' = fromBot \ {a}
    /\ defaults' = defaults \ {a}
    /\ UNCHANGED created

\* The address is deleted and a replacement promoted.
Promote(a) ==
    /\ addresses' = addresses \ {a}
    /\ fromBot' = fromBot \ {a}
    /\ defaults' = Preferred(addresses', defaults \ {a})
    /\ UNCHANGED created

\* delete_web_user_address
DeleteAddress(a) ==
    /\ RowIsFree
    /\ a \in addresses
    /\ Promote(a)
    /\ PointTo(AsPointer(defaults'), pointer)
    /\ UNCHANGED <<sessionVars, pictureVars>>

\* recipient_phone_handler: never a default.
SaveFromBot ==
    /\ RowIsFree
    /\ CreateRow
    /\ fromBot' = fromBot \cup {New}
    /\ UNCHANGED <<defaults, settingsVars, sessionVars, pictureVars>>

-----------------------------------------------------------------------------
(* update_web_user_profile                                                 *)

\* With notification settings in the request the row is read first.
ReadSettings(u) ==
    /\ session[u] = "new"
    /\ session' = [session EXCEPT ![u] = "read"]
    /\ seen' = [seen EXCEPT ![u] = pointer]
    /\ UNCHANGED <<bookVars, settingsVars, pictureVars>>

\* The pointer as the session has it: as read before, or read only now.
Known(u) == IF session[u] = "read" THEN seen[u] ELSE pointer

\* The update found no settings row and inserts one, which fails when there is one
\* by now.
Inserts(u) == session[u] = "read" /\ seen[u] = NoRow

\* The address the form shows and edits.
Shown == Preferred(addresses, defaults)

Saved(u) ==
    /\ session[u] # "saved"
    /\ session' = [session EXCEPT ![u] = "saved"]
    /\ UNCHANGED <<seen, pictureVars>>

\* A row the session inserted: it is found when something was flushed before the
\* pointer is set.
InsertedRow(target) == pointer' = target /\ stale' = FALSE

SaveRefused(u) ==
    /\ Saved(u)
    /\ UNCHANGED <<bookVars, settingsVars>>

SaveSettings(u) ==
    /\ Saved(u)
    /\ session[u] = "read"
    /\ Inserts(u) => RowIsFree /\ pointer = NoRow
    /\ IF Inserts(u) THEN InsertedRow(Null) ELSE UNCHANGED settingsVars
    /\ UNCHANGED bookVars

\* delete_address
SaveDeletion(u) ==
    /\ RowIsFree
    /\ Saved(u)
    /\ Inserts(u) => pointer = NoRow
    /\ IF Shown = {} THEN UNCHANGED bookVars ELSE Promote(Max(Shown))
    /\ IF Inserts(u) THEN InsertedRow(AsPointer(defaults'))
                     ELSE PointTo(AsPointer(defaults'), Known(u))

\* The shown address is changed, or the first one saved, and made the default.
SaveAddress(u) ==
    /\ RowIsFree
    /\ Saved(u)
    /\ Inserts(u) => pointer = NoRow
    /\ IF Shown = {} THEN CreateRow ELSE UNCHANGED <<addresses, created>>
    /\ defaults' = IF Shown = {} THEN {New} ELSE Shown
    /\ IF Inserts(u) THEN InsertedRow(IF Shown = {} THEN New ELSE Null)
                     ELSE PointTo(Max(defaults'), Known(u))
    /\ UNCHANGED fromBot

-----------------------------------------------------------------------------
(* The picture                                                             *)

BookUnchanged == UNCHANGED <<bookVars, settingsVars, sessionVars>>

\* upload_web_user_profile_photo locks the row and writes the file.
WritePicture(p) ==
    /\ RowIsFree
    /\ upload[p] = "new"
    /\ upload' = [upload EXCEPT ![p] = "written"]
    /\ files' = files \cup {p}
    /\ UNCHANGED <<picture, doomed>>
    /\ BookUnchanged

\* The commit succeeds; the file it replaces is to go.
CommitPicture(p) ==
    /\ upload[p] = "written"
    /\ upload' = [upload EXCEPT ![p] = "over"]
    /\ picture' = p
    /\ doomed' = doomed \cup ({picture} \cap Pictures)
    /\ UNCHANGED files
    /\ BookUnchanged

\* Mutant: the new file is removed however the commit failed.
CommitFailsClean(p) ==
    /\ upload[p] = "written"
    /\ upload' = [upload EXCEPT ![p] = "over"]
    /\ picture' \in {picture, p}
    /\ files' = files \ {p}
    /\ UNCHANGED doomed
    /\ BookUnchanged

\* The commit raises, and the database may have done it: both files stay.
CommitFails(p) ==
    /\ upload[p] = "written"
    /\ upload' = [upload EXCEPT ![p] = "over"]
    /\ picture' \in {picture, p}
    /\ UNCHANGED <<files, doomed>>
    /\ BookUnchanged

\* remove_web_user_profile_photo
RemovePicture ==
    /\ RowIsFree
    /\ picture \in Pictures
    /\ picture' = Null
    /\ doomed' = doomed \cup {picture}
    /\ UNCHANGED <<files, upload>>
    /\ BookUnchanged

\* profile_photo_handler of the bot: an uploaded file is left where it is.
SendPicture ==
    /\ RowIsFree
    /\ picture' = Telegram
    /\ UNCHANGED <<files, upload, doomed>>
    /\ BookUnchanged

\* _remove_private_profile_image, after the lock was given back; it may fail.
RemoveFile(p) ==
    /\ p \in doomed
    /\ doomed' = doomed \ {p}
    /\ files' \in {files, files \ {p}}
    /\ UNCHANGED <<picture, upload>>
    /\ BookUnchanged

\* The process stops: its transactions are rolled back, its files stay.
Restart ==
    /\ upload' = [p \in Pictures |-> IF upload[p] = "written" THEN "over" ELSE upload[p]]
    /\ doomed' = {}
    /\ session' = [u \in Updates |-> IF session[u] = "read" THEN "saved" ELSE session[u]]
    /\ UNCHANGED <<bookVars, settingsVars, seen, picture, files>>

Next ==
    \/ \E asDefault \in BOOLEAN : CreateAddress(asDefault)
    \/ \E a \in addresses :
          DeleteAddress(a) \/ \E asDefault \in BOOLEAN : UpdateAddress(a, asDefault)
    \/ SaveFromBot
    \/ \E u \in Updates : ReadSettings(u) \/ SaveRefused(u) \/ SaveSettings(u)
                             \/ SaveDeletion(u) \/ SaveAddress(u)
    \/ \E p \in Pictures : WritePicture(p) \/ CommitPicture(p) \/ CommitFails(p) \/ RemoveFile(p)
    \/ RemovePicture \/ SendPicture \/ Restart

Spec == Init /\ [][Next]_vars

-----------------------------------------------------------------------------
(* Properties                                                              *)

\* Flags are those of saved addresses, and one row at a time is locked by an upload
\* (upload_web_user_profile_photo).
TypeOK ==
    /\ addresses \subseteq 1..created /\ created \in 0..MaxAddresses
    /\ defaults \subseteq addresses /\ fromBot \subseteq addresses
    /\ pointer \in {NoRow, Null} \cup 1..MaxAddresses
    /\ session \in [Updates -> {"new", "read", "saved"}]
    /\ seen \in [Updates -> {NoRow, Null} \cup 1..MaxAddresses]
    /\ picture \in Pictures \cup {Null, Telegram}
    /\ files \subseteq Pictures /\ doomed \subseteq Pictures
    /\ Cardinality({p \in Pictures : upload[p] = "written"}) <= 1

\* There is one default at most, and one unless only the bot saved addresses; the
\* settings name the same one or none, but for a write that was left out because
\* the row had been read before another request changed it
\* (_set_preferred_shipping_address and its callers).
DefaultsAgree ==
    /\ Cardinality(defaults) <= 1
    /\ defaults = {} => addresses \subseteq fromBot
    /\ pointer \in {NoRow, Null} \cup defaults \/ stale

\* The picture a profile names can be served, whatever uploads, removals, lost
\* answers of a commit and restarts came before (upload_web_user_profile_photo).
PictureIsThere == picture \in Pictures => picture \in files

-----------------------------------------------------------------------------
(* Claims of the repository that the code does not keep                    *)

\* delete_web_user_address "promote a replacement when needed": what the settings
\* name is the default.
PointerIsDefault == pointer \in {NoRow, Null} \cup defaults
=============================================================================
