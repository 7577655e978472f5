---------------------------- MODULE AddItemProofs ----------------------------
(***************************************************************************)
(* The add-item screen for any texts and pictures, and any number of       *)
(* saves: an upload locks the screen until its item is put, the indicator  *)
(* is owed as many toggles as it should be, and items are put in the order *)
(* of their saves.                                                         *)
(***************************************************************************)
EXTENDS AddItem, TLAPS, FiniteSetTheorems, SequenceTheorems

-----------------------------------------------------------------------------
(* What the runs check is not inductive: a put adds what its upload was    *)
(* asked for, so which request that is must be known, and that the screen  *)
(* was locked when it was made.                                            *)

(* No upload: every save has put its item, and nothing is locked.          *)
Idle ==
  /\ uploads = {}
  /\ ignoring = 0 /\ group = 0 /\ waiting = 0
  /\ Len(items) = Len(requested)

(* One upload, that of the last save; all items before it have been put.   *)
Busy(u) ==
  /\ uploads = {u}
  /\ ignoring = 1 /\ group = 1 /\ signedIn
  /\ Len(requested) = Len(items) + 1
  /\ u.request = requested[Len(requested)]

ItemsAreRequests ==
  \A k \in 1 .. Len(items) :
    /\ items[k].name = requested[k].name
    /\ items[k].amount = requested[k].amount
    /\ items[k].picture = <<requested[k].image>>

SaveInv ==
  /\ TypeOK
  /\ Idle \/ \E u \in Upload : Busy(u)
  /\ ItemsAreRequests

-----------------------------------------------------------------------------
(* What users type and the pictures' names are texts and chunks.           *)
LEMMA Texts ==
  /\ FieldText \subseteq Text /\ EmptyText \in FieldText
  /\ Image \subseteq Chunk /\ Slash \in Chunk
BY FieldTextAssumption, ImageAssumption, ChunkAssumption

(* A single chunk is a text.                                               *)
LEMMA ChunkIsText == ASSUME NEW c \in Chunk PROVE <<c>> \in Text
BY DEF Text

(* A request for a picture, or for none, becomes an item.                  *)
LEMMA ItemOfType == ASSUME NEW request \in Request PROVE ItemOf(request) \in Item
<1>1. request.name \in Text /\ request.amount \in Text /\ request.image \in Chunk
  BY Texts DEF Request
<1>2. <<request.image>> \in Text
  BY <1>1, ChunkIsText
<1> QED BY <1>1, <1>2 DEF ItemOf, Item

(* The form makes a request.                                               *)
LEMMA NewRequestType ==
  ASSUME TypeOK, NEW image \in Image \cup {Slash}
  PROVE  NewRequest(image) \in Request
BY Texts DEF TypeOK, NewRequest, Request

(* Taps are accepted only while no upload is under way.                    *)
LEMMA TapsWhenIdle ==
  ASSUME SaveInv, CanTap
  PROVE  Idle
BY DEF SaveInv, Busy, CanTap

(* A save without a picture puts its item at once.                         *)
LEMMA WithoutImage ==
  ASSUME SaveInv, AddItemWithoutImage
  PROVE  SaveInv'
<1> DEFINE request == NewRequest(Slash)
<1>1. Idle
  BY TapsWhenIdle DEF AddItemWithoutImage, CanTapForm
<1>2. request \in Request /\ ItemOf(request) \in Item
  BY NewRequestType, ItemOfType DEF SaveInv
<1>3. /\ ItemOf(request).name = request.name /\ ItemOf(request).amount = request.amount
      /\ ItemOf(request).picture = <<request.image>>
  BY DEF ItemOf
<1>4. /\ items' = Append(items, ItemOf(request)) /\ requested' = Append(requested, request)
      /\ ignoring' = 0 /\ group' = 0 /\ waiting' = 0 /\ queued' = queued + (waiting + 1)
      /\ isAnimating' = ~isAnimating /\ uploads' = {}
      /\ name' = EmptyText /\ amount' = EmptyText /\ isImageSelected' = FALSE
      /\ modal' = modal /\ signedIn' = signedIn
  BY <1>1 DEF AddItemWithoutImage, PutItemInDatabase, Notify, Toggle, ResetForm,
              EndIgnoring, Idle
<1> HIDE DEF request
<1>5. items \in Seq(Item) /\ requested \in Seq(Request)
  BY DEF SaveInv, TypeOK
<1>6. /\ items' \in Seq(Item) /\ Len(items') = Len(items) + 1
      /\ requested' \in Seq(Request) /\ Len(requested') = Len(requested) + 1
  BY <1>2, <1>4, <1>5, AppendProperties
<1>7. TypeOK'
  <2>1. TypeOK
    BY DEF SaveInv
  <2>2. queued' \in Nat /\ waiting' \in Nat /\ group' \in Nat /\ ignoring' \in Nat
    BY <1>4, <2>1 DEF TypeOK
  <2>3. uploads' \subseteq Upload /\ isAnimating' \in BOOLEAN /\ isImageSelected' \in BOOLEAN
    BY <1>4, <2>1 DEF TypeOK
  <2> QED BY <1>4, <1>6, <2>1, <2>2, <2>3, Texts DEF TypeOK
<1>8. Idle'
  BY <1>1, <1>4, <1>6 DEF Idle
<1>9. ItemsAreRequests'
  <2> SUFFICES ASSUME NEW k \in 1 .. Len(items')
               PROVE  /\ items'[k].name = requested'[k].name
                      /\ items'[k].amount = requested'[k].amount
                      /\ items'[k].picture = <<requested'[k].image>>
    BY DEF ItemsAreRequests
  <2>1. Len(items) = Len(requested) /\ Len(items) \in Nat
    BY <1>1, <1>5 DEF Idle
  <2>2. CASE k = Len(items) + 1
    <3>1. items'[k] = ItemOf(request) /\ requested'[k] = request
      BY <1>2, <1>4, <1>5, <2>1, <2>2, AppendProperties
    <3> QED BY <1>3, <3>1
  <2>3. CASE k \in 1 .. Len(items)
    <3>1. items'[k] = items[k] /\ requested'[k] = requested[k]
      BY <1>2, <1>4, <1>5, <2>1, <2>3, AppendProperties
    <3> QED BY <2>3, <3>1 DEF SaveInv, ItemsAreRequests
  <2> QED BY <1>6, <2>1, <2>2, <2>3
<1> QED BY <1>7, <1>8, <1>9 DEF SaveInv

(* A save with a picture locks the screen; nothing is put yet.             *)
LEMMA WithImage ==
  ASSUME SaveInv, NEW image \in Image, AddItemAndImage(image)
  PROVE  SaveInv'
<1> DEFINE request == NewRequest(image)
           upload  == [request |-> request, stage |-> "sending"]
<1>1. Idle /\ signedIn
  BY TapsWhenIdle DEF AddItemAndImage, CanTapForm, CanTap
<1>2. request \in Request /\ upload \in Upload /\ upload.request = request
  BY NewRequestType DEF SaveInv, Upload
<1>3. /\ uploads' = {upload} /\ requested' = Append(requested, request) /\ items' = items
      /\ ignoring' = 1 /\ group' = 1 /\ waiting' = 1 /\ queued' = queued
      /\ isAnimating' = ~isAnimating
      /\ name' = EmptyText /\ amount' = EmptyText /\ isImageSelected' = FALSE
      /\ modal' = modal /\ signedIn' = signedIn
  BY <1>1 DEF AddItemAndImage, Notify, Toggle, ResetForm, Idle
<1> HIDE DEF request, upload
<1>4. items \in Seq(Item) /\ requested \in Seq(Request)
  BY DEF SaveInv, TypeOK
<1>5. /\ requested' \in Seq(Request) /\ Len(requested') = Len(requested) + 1
      /\ requested'[Len(requested) + 1] = request
      /\ \A k \in 1 .. Len(requested) : requested'[k] = requested[k]
  BY <1>2, <1>3, <1>4, AppendProperties
<1>6. TypeOK'
  BY <1>2, <1>3, <1>5, Texts DEF SaveInv, TypeOK
<1>7. \E u \in Upload : Busy(u)'
  <2>1. PICK u : u = upload
    OBVIOUS
  <2>2. Busy(u)'
    BY <1>1, <1>2, <1>3, <1>5, <2>1 DEF Busy, Idle
  <2> QED BY <1>2, <2>1, <2>2
<1>8. ItemsAreRequests'
  BY <1>1, <1>3, <1>5 DEF SaveInv, ItemsAreRequests, Idle
<1> QED BY <1>6, <1>7, <1>8 DEF SaveInv

(* An upload goes on, or fails: it stays the upload of the last save.      *)
LEMMA StageChanges ==
  ASSUME SaveInv, NEW u \in uploads, PictureStored(u) \/ UploadFails(u)
  PROVE  SaveInv'
<1>1. PICK v \in Upload : Busy(v)
  BY DEF SaveInv, Idle
<1>2. u = v
  BY <1>1 DEF Busy
<1>3. PICK stage \in {"linking", "failed"} : uploads' = {[u EXCEPT !.stage = stage]}
  BY <1>1, <1>2 DEF PictureStored, UploadFails, Busy
<1> DEFINE w == [u EXCEPT !.stage = stage]
<1>4. w \in Upload /\ w.request = u.request
  BY <1>2 DEF Upload
<1>5. UNCHANGED <<form, signedIn, sync, items, requested>>
  BY DEF PictureStored, UploadFails
<1>6. TypeOK'
  BY <1>3, <1>4, <1>5 DEF SaveInv, TypeOK, form, sync
<1>7. Busy(w)'
  BY <1>1, <1>2, <1>3, <1>4, <1>5 DEF Busy, sync
<1>8. ItemsAreRequests'
  BY <1>5 DEF SaveInv, ItemsAreRequests
<1> QED BY <1>4, <1>6, <1>7, <1>8 DEF SaveInv

(* The link of a stored picture unlocks the screen and puts the item the   *)
(* last save asked for.                                                    *)
LEMMA PutsUpload ==
  ASSUME SaveInv, NEW u \in uploads, LinkReady(u)
  PROVE  SaveInv'
<1>1. Busy(u) /\ u \in Upload
  BY DEF SaveInv, Idle, Busy
<1> DEFINE item == ItemOf(u.request)
<1>2. u.request \in Request /\ item \in Item
  BY <1>1, ItemOfType DEF Upload
<1>3. /\ item.name = u.request.name /\ item.amount = u.request.amount
      /\ item.picture = <<u.request.image>>
  BY DEF ItemOf
<1>4. /\ uploads' = {} /\ items' = Append(items, item) /\ requested' = requested
      /\ ignoring' = 0 /\ group' = 0 /\ waiting' = 0 /\ queued' = queued + waiting
      /\ UNCHANGED <<form, signedIn, isAnimating>>
  BY <1>1 DEF LinkReady, PutItemInDatabase, Notify, Leave, EndIgnoring, Busy
<1> HIDE DEF item
<1>5. items \in Seq(Item) /\ requested \in Seq(Request) /\ queued \in Nat /\ waiting \in Nat
  BY DEF SaveInv, TypeOK
<1>6. /\ items' \in Seq(Item) /\ Len(items') = Len(items) + 1
      /\ items'[Len(items) + 1] = item
      /\ \A k \in 1 .. Len(items) : items'[k] = items[k]
  BY <1>2, <1>4, <1>5, AppendProperties
<1>7. TypeOK'
  BY <1>4, <1>5, <1>6 DEF SaveInv, TypeOK, form
<1>8. Idle'
  BY <1>1, <1>4, <1>6 DEF Idle, Busy
<1>9. ItemsAreRequests'
  <2>1. Len(requested) = Len(items) + 1 /\ u.request = requested[Len(items) + 1]
    BY <1>1 DEF Busy
  <2>2. Len(items) \in Nat
    BY <1>5
  <2>3. \A k \in 1 .. Len(items') : k \in 1 .. Len(items) \/ k = Len(items) + 1
    BY <1>6, <2>2
  <2> QED BY <1>3, <1>4, <1>6, <2>1, <2>3 DEF SaveInv, ItemsAreRequests
<1> QED BY <1>7, <1>8, <1>9 DEF SaveInv

(* The other handlers touch the form, the indicator and who is signed in.  *)
LEMMA OtherSteps ==
  ASSUME SaveInv,
         \/ \E text \in FieldText : EnterName(text) \/ EnterAmount(text)
         \/ OpenPhotoLibrary \/ ClosePicker \/ DismissAlert \/ SaveRefused
         \/ RunNotifyBlock \/ Logout \/ UNCHANGED vars
  PROVE  SaveInv'
<1>1. UNCHANGED <<uploads, ignoring, group, waiting, items, requested>>
  BY DEF EnterName, EnterAmount, OpenPhotoLibrary, ClosePicker, DismissAlert, SaveRefused,
         RunNotifyBlock, Logout, vars, sync
<1>2. TypeOK'
  <2>1. CASE \E text \in FieldText : EnterName(text) \/ EnterAmount(text)
    BY <2>1 DEF SaveInv, TypeOK, EnterName, EnterAmount, sync
  <2>2. CASE OpenPhotoLibrary \/ ClosePicker \/ DismissAlert \/ SaveRefused
    BY <2>2 DEF SaveInv, TypeOK, OpenPhotoLibrary, ClosePicker, DismissAlert, SaveRefused, sync
  <2>3. CASE RunNotifyBlock
    BY <2>3 DEF SaveInv, TypeOK, RunNotifyBlock, Toggle, form
  <2>4. CASE Logout \/ UNCHANGED vars
    BY <2>4 DEF SaveInv, TypeOK, Logout, vars, form, sync
  <2> QED BY <2>1, <2>2, <2>3, <2>4
<1>3. \/ signedIn' = signedIn
      \/ CanTap
  BY DEF EnterName, EnterAmount, OpenPhotoLibrary, ClosePicker, DismissAlert, SaveRefused,
         RunNotifyBlock, Logout, vars, CanTapForm
<1>4. Idle' \/ \E u \in Upload : Busy(u)'
  <2>1. CASE Idle
    BY <1>1, <2>1 DEF Idle
  <2>2. ASSUME NEW u \in Upload, Busy(u) PROVE Busy(u)'
    BY <1>1, <1>3, <2>2 DEF Busy, CanTap
  <2> QED BY <2>1, <2>2 DEF SaveInv
<1>5. ItemsAreRequests'
  BY <1>1 DEF SaveInv, ItemsAreRequests
<1> QED BY <1>2, <1>4, <1>5 DEF SaveInv

(* At first nothing was saved.                                             *)
LEMMA SaveInit == Init => SaveInv
<1> SUFFICES ASSUME Init PROVE SaveInv
  OBVIOUS
<1>1. Len(items) = 0 /\ items \in Seq(Item) /\ requested \in Seq(Request) /\ Len(requested) = 0
  BY DEF Init
<1>2. TypeOK
  BY <1>1, Texts DEF Init, TypeOK
<1>3. Idle
  BY <1>1 DEF Init, Idle
<1> QED BY <1>1, <1>2, <1>3 DEF SaveInv, ItemsAreRequests

(* Every step keeps saves, uploads and items in step.                      *)
LEMMA SaveNext == SaveInv /\ [Next]_vars => SaveInv'
<1> SUFFICES ASSUME SaveInv, [Next]_vars PROVE SaveInv'
  OBVIOUS
<1>1. CASE Save
  BY <1>1, WithoutImage, WithImage DEF Save
<1>2. CASE Transfer
  BY <1>2, StageChanges, PutsUpload DEF Transfer
<1>3. CASE \/ \E text \in FieldText : EnterName(text) \/ EnterAmount(text)
           \/ OpenPhotoLibrary \/ ClosePicker \/ DismissAlert \/ SaveRefused
           \/ RunNotifyBlock \/ Logout \/ UNCHANGED vars
  BY <1>3, OtherSteps
<1> QED BY <1>1, <1>2, <1>3 DEF Next

(* Saves, uploads and items are in step in every reachable state.          *)
THEOREM SaveAlways == Spec => []SaveInv
BY SaveInit, SaveNext, PTL DEF Spec

-----------------------------------------------------------------------------
(* The form, the counts and the items keep their types for any texts,      *)
(* pictures and number of saves.                                           *)
THEOREM AddItemTypes == Spec => []TypeOK
<1>1. SaveInv => TypeOK
  BY DEF SaveInv
<1> QED BY <1>1, SaveAlways, PTL

(* Uploads never overlap; while one has not put its item, interaction is   *)
(* ignored once, the group is entered once and nobody can log out.         *)
THEOREM UploadLocks == Spec => []LockedWhileUploading
<1>1. SaveInv => LockedWhileUploading
  <2> SUFFICES ASSUME SaveInv PROVE LockedWhileUploading
    OBVIOUS
  <2>1. CASE Idle
    <3>1. Cardinality(uploads) = 0
      BY <2>1, FS_EmptySet DEF Idle
    <3> QED BY <2>1, <3>1 DEF Idle, LockedWhileUploading
  <2>2. ASSUME NEW u \in Upload, Busy(u) PROVE LockedWhileUploading
    <3>1. Cardinality(uploads) = 1 /\ uploads # {}
      BY <2>2, FS_Singleton DEF Busy
    <3> QED BY <2>2, <3>1 DEF Busy, LockedWhileUploading
  <2> QED BY <2>1, <2>2 DEF SaveInv
<1> QED BY <1>1, SaveAlways, PTL

(* Items are put in the order of their saves, each with what the form held *)
(* when save was tapped, however much later its picture is stored.         *)
THEOREM PutsInOrder == Spec => []PutInOrder
<1>1. SaveInv => PutInOrder
  <2> SUFFICES ASSUME SaveInv PROVE PutInOrder
    OBVIOUS
  <2>1. items \in Seq(Item) /\ requested \in Seq(Request)
    BY DEF SaveInv, TypeOK
  <2>2. DOMAIN items = 1 .. Len(items) /\ Len(items) \in Nat
    BY <2>1
  <2>3. Len(items) <= Len(requested)
    BY <2>2 DEF SaveInv, Idle, Busy
  <2> QED BY <2>2, <2>3 DEF SaveInv, ItemsAreRequests, PutInOrder
<1> QED BY <1>1, SaveAlways, PTL

-----------------------------------------------------------------------------
(* One toggle more or less changes the parity of what is owed.             *)
LEMMA Parity ==
  ASSUME NEW n \in Nat
  PROVE  /\ (n + 1) % 2 = 1 <=> ~(n % 2 = 1)
         /\ n > 0 => ((n - 1) % 2 = 1 <=> ~(n % 2 = 1))
BY SMT

Owed == waiting + queued

(* How many toggles are owed to the indicator after a step.                *)
LEMMA OwedSteps ==
  ASSUME SaveInv, [Next]_vars
  PROVE  \/ isAnimating' = isAnimating /\ Owed' = Owed
         \/ isAnimating' = ~isAnimating /\ Owed' = Owed + 1
         \/ isAnimating' = ~isAnimating /\ Owed > 0 /\ Owed' = Owed - 1
<1>1. waiting \in Nat /\ queued \in Nat
  BY DEF SaveInv, TypeOK
<1>2. CASE Save
  <2>1. isAnimating' = ~isAnimating
    BY <1>2 DEF Save, AddItemWithoutImage, AddItemAndImage, Toggle
  <2>2. \E members : Notify(members, waiting + 1)
    BY <1>2 DEF Save, AddItemWithoutImage, AddItemAndImage
  <2>3. Owed' = Owed + 1
    BY <1>1, <2>2 DEF Notify, Owed
  <2> QED BY <2>1, <2>3
<1>3. CASE RunNotifyBlock
  BY <1>1, <1>3 DEF RunNotifyBlock, Toggle, Owed
<1>4. CASE Transfer
  <2>1. isAnimating' = isAnimating
    BY <1>4 DEF Transfer, PictureStored, UploadFails, LinkReady, sync
  <2>2. UNCHANGED <<waiting, queued>> \/ \E members : Notify(members, waiting)
    BY <1>4 DEF Transfer, PictureStored, UploadFails, LinkReady, sync
  <2>3. Owed' = Owed
    BY <1>1, <2>2 DEF Notify, Owed
  <2> QED BY <2>1, <2>3
<1>5. CASE \/ \E text \in FieldText : EnterName(text) \/ EnterAmount(text)
           \/ OpenPhotoLibrary \/ ClosePicker \/ DismissAlert \/ SaveRefused
           \/ Logout \/ UNCHANGED vars
  BY <1>5 DEF EnterName, EnterAmount, OpenPhotoLibrary, ClosePicker, DismissAlert,
              SaveRefused, Logout, vars, sync, Owed
<1> QED BY <1>2, <1>3, <1>4, <1>5 DEF Next

(* The indicator is on exactly when an odd number of toggles is owed to    *)
(* it, in whatever order saves, uploads and notify blocks come.            *)
THEOREM IndicatorInStep == Spec => []IndicatorParity
<1>1. Init => IndicatorParity
  <2> SUFFICES ASSUME Init PROVE IndicatorParity
    OBVIOUS
  <2>1. waiting + queued = 0 /\ ~(0 % 2 = 1)
    BY DEF Init
  <2> QED BY <2>1 DEF Init, IndicatorParity
<1>2. SaveInv /\ IndicatorParity /\ [Next]_vars => IndicatorParity'
  <2> SUFFICES ASSUME SaveInv, IndicatorParity, [Next]_vars PROVE IndicatorParity'
    OBVIOUS
  <2>1. Owed \in Nat
    BY DEF SaveInv, TypeOK, Owed
  <2>2. isAnimating <=> Owed % 2 = 1
    BY DEF IndicatorParity, Owed
  <2>3. isAnimating' <=> Owed' % 2 = 1
    BY <2>1, <2>2, OwedSteps, Parity, Zenon
  <2> QED BY <2>3 DEF IndicatorParity, Owed
<1> QED BY <1>1, <1>2, SaveAlways, PTL DEF Spec
=============================================================================
