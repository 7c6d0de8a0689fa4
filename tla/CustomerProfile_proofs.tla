------------------------ MODULE CustomerProfile_proofs ------------------------
(***************************************************************************)
(* Proofs about CustomerProfile, for any number of updates, pictures and   *)
(* addresses.  The book needs its one default as a set and not as a        *)
(* number, the picture that only what an upload is through with is ever    *)
(* named by a profile or about to be removed.                              *)
(***************************************************************************)
EXTENDS CustomerProfile, FiniteSetTheorems, TLAPS

Ids == 1..MaxAddresses
Pointers == {NoRow, Null} \cup Ids

BookInv ==
    /\ created \in 0..MaxAddresses
    /\ addresses \subseteq 1..created
    /\ defaults = {} \/ \E a \in addresses : defaults = {a}
    /\ fromBot \subseteq addresses
    /\ defaults = {} => addresses \subseteq fromBot

SettingsInv ==
    /\ pointer \in Pointers
    /\ pointer \in {NoRow, Null} \cup defaults \/ stale

SessionInv ==
    /\ session \in [Updates -> {"new", "read", "saved"}]
    /\ seen \in [Updates -> Pointers]

\* A file that is named or doomed is one whose upload is over.
PictureInv ==
    /\ upload \in [Pictures -> {"new", "written", "over"}]
    /\ picture \in Pictures \cup {Null, Telegram}
    /\ files \subseteq Pictures /\ doomed \subseteq Pictures
    /\ \A p, q \in Pictures : upload[p] = "written" /\ upload[q] = "written" => p = q
    /\ \A p \in Pictures : upload[p] = "written" => p \in files
    /\ \A p \in doomed : upload[p] = "over"
    /\ picture \in Pictures =>
          upload[picture] = "over" /\ picture \in files /\ picture \notin doomed

IInv == BookInv /\ SettingsInv /\ SessionInv /\ PictureInv
-----------------------------------------------------------------------------
(* The greatest of a set of ids                                            *)

\* A set of ids that is not empty has a greatest one: the element above which
\* the smallest set of others lies.
LEMMA MaxIsMember ==
    ASSUME NEW n \in Nat, NEW S \in SUBSET (1..n), S # {}
    PROVE  Max(S) \in S
<1> DEFINE Above(x) == {y \in S : y > x}
           Sets == {Above(x) : x \in S}
<1>1. IsFiniteSet(S)
  BY FS_Interval, FS_Subset, 1 \in Int, n \in Int
<1>2. IsWellFoundedOn(StrictSubsetOrdering(S), SUBSET S)
  BY <1>1, FS_StrictSubsetOrderingWellFounded, FS_FiniteSubsetsOfFinite
<1>3. Sets \subseteq SUBSET S /\ Sets # {}
  OBVIOUS
<1> HIDE DEF Sets
<1>4. PICK b \in Sets : \A t \in Sets : <<t, b>> \notin StrictSubsetOrdering(S)
  BY <1>2, <1>3, WFMin
<1>5. PICK x \in S : b = Above(x)
  BY DEF Sets
<1>6. ASSUME NEW y \in S, y > x PROVE FALSE
  <2>1. Above(y) \in Sets
    BY DEF Sets
  <2>2. Above(y) \in SUBSET S /\ b \in SUBSET S
    BY <1>5
  <2>3. Above(y) \subseteq b /\ y \in b /\ y \notin Above(y)
    <3>1. \A z \in S : z \in Int
      OBVIOUS
    <3>2. \A z \in S : z > y => z > x
      BY <1>6, <3>1
    <3>3. ~ (y > y)
      BY <3>1
    <3>4. y \in b /\ y \notin Above(y)
      BY <1>5, <1>6, <3>3
    <3>5. Above(y) \subseteq b
      BY <1>5, <3>2
    <3> QED BY <3>4, <3>5
  <2>4. <<Above(y), b>> \in StrictSubsetOrdering(S)
    BY <2>2, <2>3 DEF StrictSubsetOrdering
  <2> QED BY <1>4, <2>1, <2>4
<1>7. \A y \in S : x >= y
  BY <1>6
<1> QED BY <1>7 DEF Max

\* The replacement _set_preferred_shipping_address is called with.
LEMMA PreferredFacts ==
    ASSUME NEW n \in Nat, NEW left \in SUBSET (1..n), NEW flagged \in SUBSET left
    PROVE  /\ left = {} => Preferred(left, flagged) = {}
           /\ left # {} => \E a \in left : Preferred(left, flagged) = {a}
           /\ left # {} => Max(Preferred(left, flagged)) \in Preferred(left, flagged)
<1>1. CASE left = {}
  BY <1>1 DEF Preferred
<1>2. CASE left # {}
  <2> DEFINE S == IF flagged = {} THEN left ELSE flagged
  <2>1. S \in SUBSET (1..n) /\ S # {} /\ S \subseteq left
    BY <1>2
  <2> HIDE DEF S
  <2>2. Max(S) \in S
    BY <2>1, MaxIsMember
  <2>3. Preferred(left, flagged) = {Max(S)}
    BY <1>2 DEF Preferred, S
  <2>4. Max({Max(S)}) \in {Max(S)}
    BY <2>1, <2>2, MaxIsMember
  <2> QED BY <1>2, <2>1, <2>2, <2>3, <2>4
<1> QED BY <1>1, <1>2

-----------------------------------------------------------------------------
(* The settings row                                                        *)

\* Whatever the session believed, the row ends up with the target or is stale.
LEMMA PointToFacts ==
    ASSUME IInv, NEW target, NEW known, PointTo(target, known),
           target \in {Null} \cup defaults', target \in Pointers
    PROVE  SettingsInv'
BY DEF PointTo, IInv, SettingsInv, Pointers

LEMMA InsertedRowFacts ==
    ASSUME NEW target, InsertedRow(target), target \in {Null} \cup defaults',
           target \in Pointers
    PROVE  SettingsInv'
BY DEF InsertedRow, SettingsInv, Pointers

LEMMA BookFacts ==
    ASSUME IInv
    PROVE  /\ created \in Nat /\ created \in 0..MaxAddresses /\ MaxAddresses \in Nat
           /\ addresses \in SUBSET (1..created) /\ addresses \subseteq Ids
           /\ defaults \in SUBSET addresses /\ fromBot \subseteq addresses
           /\ New \notin addresses
BY BoundAssumption DEF IInv, BookInv, Ids, New

\* The address the profile form shows.
LEMMA ShownFacts ==
    ASSUME IInv
    PROVE  /\ addresses = {} <=> Shown = {}
           /\ Shown # {} => \E a \in addresses : Shown = {a} /\ Max(Shown) = a
<1>1. /\ addresses = {} => Shown = {}
      /\ addresses # {} => /\ \E a \in addresses : Shown = {a}
                           /\ Max(Shown) \in Shown
  BY BookFacts, PreferredFacts DEF Shown
<1> QED BY <1>1

-----------------------------------------------------------------------------
(* Addresses                                                               *)

\* What the actions on the book and on the settings leave alone.
Elsewhere == SessionInv /\ PictureInv

LEMMA ElsewhereKept ==
    ASSUME Elsewhere, UNCHANGED pictureVars,
           UNCHANGED sessionVars \/ \E u \in Updates : Saved(u) \/ ReadSettings(u),
           pointer \in Pointers
    PROVE  Elsewhere'
<1>1. PictureInv'
  BY DEF Elsewhere, PictureInv, pictureVars
<1>2. SessionInv'
  <2>1. CASE UNCHANGED sessionVars
    BY <2>1 DEF Elsewhere, SessionInv, sessionVars
  <2>2. ASSUME NEW u \in Updates, Saved(u) \/ ReadSettings(u) PROVE SessionInv'
    BY <2>2 DEF Elsewhere, SessionInv, Saved, ReadSettings
  <2> QED BY <2>1, <2>2
<1> QED BY <1>1, <1>2 DEF Elsewhere

LEMMA PromoteFacts ==
    ASSUME IInv, NEW a \in addresses, Promote(a)
    PROVE  /\ BookInv' /\ AsPointer(defaults') \in {Null} \cup defaults'
           /\ AsPointer(defaults') \in Pointers
<1> DEFINE left == addresses \ {a}
           flagged == defaults \ {a}
<1>1. /\ addresses' = left /\ fromBot' = fromBot \ {a} /\ created' = created
      /\ defaults' = Preferred(left, flagged)
  BY DEF Promote
<1>2. /\ created \in Nat /\ left \in SUBSET (1..created) /\ flagged \in SUBSET left
      /\ left \subseteq Ids
  BY BookFacts
<1> HIDE DEF left, flagged
<1>3. /\ left = {} => defaults' = {}
      /\ left # {} => \E b \in left : defaults' = {b}
      /\ left # {} => Max(defaults') \in defaults'
  BY <1>1, <1>2, PreferredFacts
<1>4. BookInv'
  <2>1. fromBot' \subseteq left
    BY <1>1, BookFacts DEF left
  <2> QED BY <1>1, <1>2, <1>3, <2>1, BookFacts DEF BookInv
<1>5. AsPointer(defaults') \in {Null} \cup defaults'
  BY <1>3 DEF AsPointer
<1>6. defaults' \subseteq Ids
  BY <1>2, <1>3
<1> QED BY <1>4, <1>5, <1>6 DEF Pointers

LEMMA CreateAddressIInv ==
    ASSUME IInv, NEW asDefault \in BOOLEAN, CreateAddress(asDefault) PROVE IInv'
<1>1. /\ created < MaxAddresses /\ created' = New /\ addresses' = addresses \cup {New}
      /\ UNCHANGED fromBot /\ UNCHANGED sessionVars /\ UNCHANGED pictureVars
  BY DEF CreateAddress, CreateRow
<1>2. Elsewhere'
  BY <1>1, ElsewhereKept DEF IInv, SettingsInv, Elsewhere
<1>3. New \in Ids /\ created' \in 0..MaxAddresses /\ addresses' \subseteq 1..created'
  BY <1>1, BookFacts DEF New, Ids
<1>4. CASE defaults' = {New} /\ PointTo(New, pointer)
  <2>1. BookInv'
    BY <1>1, <1>3, <1>4, BookFacts DEF BookInv
  <2>2. SettingsInv'
    BY <1>3, <1>4, PointToFacts DEF Pointers
  <2> QED BY <1>2, <2>1, <2>2 DEF IInv, Elsewhere
<1>5. CASE defaults # {} /\ UNCHANGED <<defaults, settingsVars>>
  <2>1. BookInv'
    BY <1>1, <1>3, <1>5 DEF IInv, BookInv
  <2>2. SettingsInv'
    BY <1>5 DEF IInv, SettingsInv, settingsVars
  <2> QED BY <1>2, <2>1, <2>2 DEF IInv, Elsewhere
<1> QED BY <1>4, <1>5 DEF CreateAddress

LEMMA UpdateAddressIInv ==
    ASSUME IInv, NEW a \in addresses, NEW asDefault \in BOOLEAN, UpdateAddress(a, asDefault)
    PROVE  IInv'
<1>1. /\ defaults' = IF asDefault \/ defaults \subseteq {a} THEN {a}
                     ELSE {Max(defaults \ {a})}
      /\ PointTo(Max(defaults'), pointer) /\ UNCHANGED <<addresses, created, fromBot>>
      /\ UNCHANGED sessionVars /\ UNCHANGED pictureVars
  BY DEF UpdateAddress
<1>2. Elsewhere'
  BY <1>1, ElsewhereKept DEF IInv, SettingsInv, Elsewhere
<1>3. PICK b \in addresses : defaults' = {b}
  <2>1. CASE asDefault \/ defaults \subseteq {a}
    BY <1>1, <2>1
  <2>2. CASE ~ (asDefault \/ defaults \subseteq {a})
    <3>1. defaults \ {a} \in SUBSET (1..created) /\ defaults \ {a} # {} /\ created \in Nat
      BY <2>2, BookFacts
    <3>2. Max(defaults \ {a}) \in defaults \ {a}
      BY <3>1, MaxIsMember
    <3> QED BY <1>1, <2>2, <3>2, BookFacts
  <2> QED BY <2>1, <2>2
<1>4. Max(defaults') = b /\ b \in Ids
  <2>1. created \in Nat /\ {b} \in SUBSET (1..created) /\ b \in Ids
    BY BookFacts
  <2>2. Max({b}) \in {b}
    BY <2>1, MaxIsMember
  <2> QED BY <1>3, <2>1, <2>2
<1>5. BookInv'
  BY <1>1, <1>3, BookFacts DEF BookInv
<1>6. SettingsInv'
  BY <1>1, <1>3, <1>4, PointToFacts DEF Pointers
<1> QED BY <1>2, <1>5, <1>6 DEF IInv, Elsewhere

LEMMA DeleteAddressIInv ==
    ASSUME IInv, NEW a \in addresses, DeleteAddress(a) PROVE IInv'
<1>1. /\ Promote(a) /\ PointTo(AsPointer(defaults'), pointer)
      /\ UNCHANGED sessionVars /\ UNCHANGED pictureVars
  BY DEF DeleteAddress
<1>2. Elsewhere'
  BY <1>1, ElsewhereKept DEF IInv, SettingsInv, Elsewhere
<1>3. BookInv' /\ SettingsInv'
  BY <1>1, PromoteFacts, PointToFacts
<1> QED BY <1>2, <1>3 DEF IInv, Elsewhere

LEMMA SaveFromBotIInv == IInv /\ SaveFromBot => IInv'
<1> SUFFICES ASSUME IInv, SaveFromBot PROVE IInv'
  OBVIOUS
<1>1. /\ created < MaxAddresses /\ created' = New /\ addresses' = addresses \cup {New}
      /\ fromBot' = fromBot \cup {New} /\ UNCHANGED <<defaults, settingsVars>>
      /\ UNCHANGED sessionVars /\ UNCHANGED pictureVars
  BY DEF SaveFromBot, CreateRow
<1>2. Elsewhere'
  BY <1>1, ElsewhereKept DEF IInv, SettingsInv, Elsewhere
<1>3. created' \in 0..MaxAddresses /\ addresses' \subseteq 1..created'
  BY <1>1, BookFacts DEF New
<1>4. BookInv'
  BY <1>1, <1>3 DEF IInv, BookInv
<1>5. SettingsInv'
  BY <1>1 DEF IInv, SettingsInv, settingsVars
<1> QED BY <1>2, <1>4, <1>5 DEF IInv, Elsewhere

-----------------------------------------------------------------------------
(* update_web_user_profile                                                 *)

LEMMA ReadSettingsIInv ==
    ASSUME IInv, NEW u \in Updates, ReadSettings(u) PROVE IInv'
<1>1. UNCHANGED <<bookVars, settingsVars>> /\ UNCHANGED pictureVars
  BY DEF ReadSettings
<1>2. Elsewhere'
  BY <1>1, ElsewhereKept DEF IInv, SettingsInv, Elsewhere
<1>3. BookInv' /\ SettingsInv'
  BY <1>1 DEF IInv, BookInv, SettingsInv, bookVars, settingsVars
<1> QED BY <1>2, <1>3 DEF IInv, Elsewhere

LEMMA SaveSettingsIInv ==
    ASSUME IInv, NEW u \in Updates, SaveRefused(u) \/ SaveSettings(u) PROVE IInv'
<1>1. Saved(u) /\ UNCHANGED bookVars
  BY DEF SaveRefused, SaveSettings
<1>2. Elsewhere'
  BY <1>1, ElsewhereKept DEF IInv, SettingsInv, Elsewhere, Saved
<1>3. BookInv'
  BY <1>1 DEF IInv, BookInv, bookVars
<1>4. UNCHANGED settingsVars \/ InsertedRow(Null)
  BY DEF SaveRefused, SaveSettings
<1>5. SettingsInv'
  <2>1. CASE UNCHANGED settingsVars
    BY <1>1, <2>1 DEF IInv, SettingsInv, bookVars, settingsVars
  <2>2. CASE InsertedRow(Null)
    BY <2>2, InsertedRowFacts DEF Pointers
  <2> QED BY <1>4, <2>1, <2>2
<1> QED BY <1>2, <1>3, <1>5 DEF IInv, Elsewhere

LEMMA SaveDeletionIInv ==
    ASSUME IInv, NEW u \in Updates, SaveDeletion(u) PROVE IInv'
<1> DEFINE target == AsPointer(defaults')
<1>1. /\ Saved(u) /\ (IF Shown = {} THEN UNCHANGED bookVars ELSE Promote(Max(Shown)))
      /\ InsertedRow(target) \/ PointTo(target, Known(u))
  BY DEF SaveDeletion
<1>2. Elsewhere'
  BY <1>1, ElsewhereKept DEF IInv, SettingsInv, Elsewhere, Saved
<1>3. BookInv' /\ target \in {Null} \cup defaults' /\ target \in Pointers
  <2>1. CASE Shown = {}
    <3>1. defaults' = {}
      BY <1>1, <2>1, ShownFacts, BookFacts DEF bookVars
    <3> QED BY <1>1, <2>1, <3>1 DEF IInv, BookInv, bookVars, AsPointer, Pointers
  <2>2. CASE Shown # {}
    BY <1>1, <2>2, ShownFacts, PromoteFacts
  <2> QED BY <2>1, <2>2
<1> HIDE DEF target
<1>4. SettingsInv'
  BY <1>1, <1>3, InsertedRowFacts, PointToFacts
<1> QED BY <1>2, <1>3, <1>4 DEF IInv, Elsewhere

LEMMA SaveAddressIInv ==
    ASSUME IInv, NEW u \in Updates, SaveAddress(u) PROVE IInv'
<1>1. /\ Saved(u) /\ UNCHANGED fromBot
      /\ (IF Shown = {} THEN CreateRow ELSE UNCHANGED <<addresses, created>>)
      /\ defaults' = (IF Shown = {} THEN {New} ELSE Shown)
      /\ \/ InsertedRow(IF Shown = {} THEN New ELSE Null)
         \/ PointTo(Max(defaults'), Known(u))
  BY DEF SaveAddress
<1>2. Elsewhere'
  BY <1>1, ElsewhereKept DEF IInv, SettingsInv, Elsewhere, Saved
<1>3. CASE Shown = {}
  <2>1. /\ created < MaxAddresses /\ created' = New /\ addresses' = addresses \cup {New}
        /\ defaults' = {New}
    BY <1>1, <1>3 DEF CreateRow
  <2>2. New \in Ids /\ created' \in 0..MaxAddresses /\ addresses' \subseteq 1..created'
    BY <2>1, BookFacts DEF New, Ids
  <2>3. Max({New}) = New
    <3>1. MaxAddresses \in Nat /\ {New} \in SUBSET (1..MaxAddresses)
      BY <2>2, BookFacts DEF Ids
    <3> QED BY <3>1, MaxIsMember
  <2>4. BookInv'
    BY <1>1, <2>1, <2>2, BookFacts DEF BookInv
  <2>5. SettingsInv'
    BY <1>1, <1>3, <2>1, <2>2, <2>3, InsertedRowFacts, PointToFacts DEF Pointers
  <2> QED BY <1>2, <2>4, <2>5 DEF IInv, Elsewhere
<1>4. CASE Shown # {}
  <2>1. PICK a \in addresses : defaults' = {a} /\ Max(defaults') = a
    BY <1>1, <1>4, ShownFacts
  <2>2. UNCHANGED <<addresses, created, fromBot>>
    BY <1>1, <1>4
  <2>3. BookInv'
    BY <2>1, <2>2, BookFacts DEF BookInv
  <2>4. a \in Pointers
    BY BookFacts DEF Pointers
  <2>5. InsertedRow(Null) \/ PointTo(Max(defaults'), Known(u))
    BY <1>1, <1>4
  <2>6. SettingsInv'
    BY <2>1, <2>4, <2>5, InsertedRowFacts, PointToFacts DEF Pointers
  <2> QED BY <1>2, <2>3, <2>6 DEF IInv, Elsewhere
<1> QED BY <1>3, <1>4

-----------------------------------------------------------------------------
(* The picture                                                             *)

LEMMA PictureStep ==
    ASSUME IInv, BookUnchanged, PictureInv' PROVE IInv'
BY DEF IInv, BookUnchanged, bookVars, settingsVars, sessionVars, BookInv, SettingsInv,
       SessionInv

LEMMA UploadIInv ==
    ASSUME IInv, NEW p \in Pictures, WritePicture(p) \/ CommitPicture(p) \/ CommitFails(p)
    PROVE  IInv'
<1>1. /\ upload \in [Pictures -> {"new", "written", "over"}]
      /\ PictureInv
  BY DEF IInv, PictureInv
<1>2. Null \notin Pictures /\ Telegram \notin Pictures
  BY ValueAssumption
<1>3. CASE WritePicture(p)
  <2>1. /\ RowIsFree /\ upload[p] = "new" /\ upload' = [upload EXCEPT ![p] = "written"]
        /\ files' = files \cup {p} /\ UNCHANGED <<picture, doomed>> /\ BookUnchanged
    BY <1>3 DEF WritePicture
  <2>2. PictureInv'
    BY <1>1, <1>2, <2>1 DEF PictureInv, RowIsFree
  <2> QED BY <2>1, <2>2, PictureStep
<1>4. CASE CommitPicture(p)
  <2>1. /\ upload[p] = "written" /\ upload' = [upload EXCEPT ![p] = "over"]
        /\ picture' = p /\ doomed' = doomed \cup ({picture} \cap Pictures)
        /\ UNCHANGED files /\ BookUnchanged
    BY <1>4 DEF CommitPicture
  <2>2. PictureInv'
    BY <1>1, <1>2, <2>1 DEF PictureInv
  <2> QED BY <2>1, <2>2, PictureStep
<1>5. CASE CommitFails(p)
  <2>1. /\ upload[p] = "written" /\ upload' = [upload EXCEPT ![p] = "over"]
        /\ picture' \in {picture, p} /\ UNCHANGED <<files, doomed>> /\ BookUnchanged
    BY <1>5 DEF CommitFails
  <2>2. PictureInv'
    BY <1>1, <1>2, <2>1 DEF PictureInv
  <2> QED BY <2>1, <2>2, PictureStep
<1> QED BY <1>3, <1>4, <1>5

LEMMA RemovalIInv ==
    ASSUME IInv, RemovePicture \/ SendPicture \/ \E p \in Pictures : RemoveFile(p)
    PROVE  IInv'
<1>1. PictureInv /\ Null \notin Pictures /\ Telegram \notin Pictures
  BY ValueAssumption DEF IInv
<1>2. CASE RemovePicture
  BY <1>1, <1>2, PictureStep DEF PictureInv, RemovePicture
<1>3. CASE SendPicture
  BY <1>1, <1>3, PictureStep DEF PictureInv, SendPicture
<1>4. ASSUME NEW p \in Pictures, RemoveFile(p) PROVE IInv'
  BY <1>1, <1>4, PictureStep DEF PictureInv, RemoveFile
<1> QED BY <1>2, <1>3, <1>4

LEMMA RestartIInv == IInv /\ Restart => IInv'
<1> SUFFICES ASSUME IInv, Restart PROVE IInv'
  OBVIOUS
<1>1. BookInv' /\ SettingsInv'
  BY DEF IInv, Restart, BookInv, SettingsInv, bookVars, settingsVars
<1>2. SessionInv'
  BY DEF IInv, Restart, SessionInv
<1>3. PictureInv'
  BY DEF IInv, Restart, PictureInv
<1> QED BY <1>1, <1>2, <1>3 DEF IInv

-----------------------------------------------------------------------------
(* The invariant                                                           *)

LEMMA InitIInv == Init => IInv
BY BoundAssumption, ValueAssumption
   DEF Init, IInv, BookInv, SettingsInv, SessionInv, PictureInv, Pointers

LEMMA StepIInv == IInv /\ [Next]_vars => IInv'
<1> SUFFICES ASSUME IInv, [Next]_vars PROVE IInv'
  OBVIOUS
<1>1. ASSUME NEW asDefault \in BOOLEAN, CreateAddress(asDefault) PROVE IInv'
  BY <1>1, CreateAddressIInv
<1>2. ASSUME NEW a \in addresses, DeleteAddress(a) PROVE IInv'
  BY <1>2, DeleteAddressIInv
<1>3. ASSUME NEW a \in addresses, NEW asDefault \in BOOLEAN, UpdateAddress(a, asDefault)
      PROVE  IInv'
  BY <1>3, UpdateAddressIInv
<1>4. CASE SaveFromBot
  BY <1>4, SaveFromBotIInv
<1>5. ASSUME NEW u \in Updates,
             \/ ReadSettings(u) \/ SaveRefused(u) \/ SaveSettings(u)
             \/ SaveDeletion(u) \/ SaveAddress(u)
      PROVE  IInv'
  BY <1>5, ReadSettingsIInv, SaveSettingsIInv, SaveDeletionIInv, SaveAddressIInv
<1>6. ASSUME NEW p \in Pictures,
             WritePicture(p) \/ CommitPicture(p) \/ CommitFails(p) \/ RemoveFile(p)
      PROVE  IInv'
  BY <1>6, UploadIInv, RemovalIInv
<1>7. CASE RemovePicture \/ SendPicture \/ Restart
  BY <1>7, RemovalIInv, RestartIInv
<1>8. CASE UNCHANGED vars
  <2>1. BookUnchanged /\ UNCHANGED pictureVars
    BY <1>8 DEF vars, BookUnchanged
  <2>2. PictureInv'
    BY <2>1 DEF IInv, PictureInv, pictureVars
  <2> QED BY <2>1, <2>2, PictureStep
<1> QED BY <1>1, <1>2, <1>3, <1>4, <1>5, <1>6, <1>7, <1>8 DEF Next

LEMMA IInvHolds == Spec => []IInv
BY InitIInv, StepIInv, PTL DEF Spec

-----------------------------------------------------------------------------
(* Theorems                                                                *)

\* The flags are those of saved addresses, the pointer and what every session read
\* are ids, and one upload at a time holds the row.
THEOREM TypeCorrect == Spec => []TypeOK
<1>1. ASSUME IInv PROVE TypeOK
  <2> DEFINE W == {p \in Pictures : upload[p] = "written"}
  <2>1. Cardinality(W) <= 1
    <3>1. CASE W = {}
      <4>1. Cardinality(W) = 0
        BY <3>1, FS_EmptySet
      <4> QED BY <4>1
    <3>2. CASE W # {}
      <4>1. PICK p : W = {p}
        BY <1>1, <3>2 DEF IInv, PictureInv
      <4>2. Cardinality(W) = 1
        BY <4>1, FS_Singleton
      <4> QED BY <4>2
    <3> QED BY <3>1, <3>2
  <2>2. /\ addresses \subseteq 1..created /\ created \in 0..MaxAddresses
        /\ defaults \subseteq addresses /\ fromBot \subseteq addresses
    BY <1>1 DEF IInv, BookInv
  <2>3. /\ pointer \in {NoRow, Null} \cup 1..MaxAddresses
        /\ session \in [Updates -> {"new", "read", "saved"}]
        /\ seen \in [Updates -> {NoRow, Null} \cup 1..MaxAddresses]
    BY <1>1 DEF IInv, SettingsInv, SessionInv, Pointers, Ids
  <2>4. /\ picture \in Pictures \cup {Null, Telegram}
        /\ files \subseteq Pictures /\ doomed \subseteq Pictures
    BY <1>1 DEF IInv, PictureInv
  <2> QED BY <2>1, <2>2, <2>3, <2>4 DEF TypeOK
<1> QED BY <1>1, IInvHolds, PTL

\* However addresses are created, changed and deleted on the web and in the bot,
\* there is one default at most and none only when the bot saved all there are;
\* the settings name the same address, or a write to them was left out.
THEOREM OneDefault == Spec => []DefaultsAgree
<1>1. ASSUME IInv PROVE DefaultsAgree
  <2>1. Cardinality(defaults) <= 1
    <3>1. CASE defaults = {}
      <4>1. Cardinality(defaults) = 0
        BY <3>1, FS_EmptySet
      <4> QED BY <4>1
    <3>2. ASSUME NEW a, defaults = {a} PROVE Cardinality(defaults) <= 1
      <4>1. Cardinality(defaults) = 1
        BY <3>2, FS_Singleton
      <4> QED BY <4>1
    <3> QED BY <1>1, <3>1, <3>2 DEF IInv, BookInv
  <2> QED BY <1>1, <2>1 DEF IInv, BookInv, SettingsInv, DefaultsAgree
<1> QED BY <1>1, IInvHolds, PTL

\* The file of the picture a profile names is there, whatever uploads, removals,
\* lost answers of a commit and restarts came before.
THEOREM PictureIsServed == Spec => []PictureIsThere
<1>1. IInv => PictureIsThere
  BY DEF IInv, PictureInv, PictureIsThere
<1> QED BY <1>1, IInvHolds, PTL
=============================================================================
