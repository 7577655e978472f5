------------------------------ MODULE AddItem ------------------------------
(***************************************************************************)
(* The add-item screen of one list: its form, the picture upload with its  *)
(* two completions, and what keeps them in step: the application's count   *)
(* of begin/endIgnoringInteractionEvents, the repository's DispatchGroup,  *)
(* and an activity indicator that is only ever toggled.                    *)
(*                                                                         *)
(* Taps are accepted while interaction is not ignored and nothing modal is *)
(* in front.  Notify blocks and completions run on the main queue, in any  *)
(* order with taps.                                                        *)
(***************************************************************************)
EXTENDS ItemCodec, FiniteSets

CONSTANTS
  FieldText,  \* what users type into a text field
  Image,      \* names of pictures, as NSUUID hands them out
  MaxSaves    \* bound: taps on save that get past the guards

ASSUME FieldTextAssumption == FieldText \subseteq Text /\ EmptyText \in FieldText
ASSUME ImageAssumption == Image \subseteq Chunk \ {Slash}
ASSUME MaxSavesAssumption == MaxSaves \in Nat

VARIABLES
  name, amount,     \* contents of the text fields
  isImageSelected,
  modal,            \* "none", or what is in front: "picker", "alert"
  signedIn,         \* somebody is signed in, and this screen can be shown
  uploads,          \* picture uploads that have not put their item
  group,            \* enters minus leaves of the dispatch group
  waiting,          \* notify blocks waiting for the group to be empty
  queued,           \* notify blocks on the main queue
  ignoring,         \* depth of begin/endIgnoringInteractionEvents
  isAnimating,      \* the activity indicator
  items,            \* items put, in order
  requested         \* history: what each save asked for, in order

form == <<name, amount, isImageSelected, modal>>
sync == <<group, waiting, queued, ignoring, isAnimating>>
vars == <<form, signedIn, uploads, sync, items, requested>>

Request == [name : Text, amount : Text, image : Image \cup {Slash}]

Upload == [request : Request, stage : {"sending", "linking", "failed"}]

(* Every variable keeps its type; the only invariant that says no more.    *)
TypeOK ==
  /\ name \in FieldText /\ amount \in FieldText
  /\ isImageSelected \in BOOLEAN
  /\ modal \in {"none", "picker", "alert"}
  /\ signedIn \in BOOLEAN
  /\ uploads \subseteq Upload
  /\ group \in Nat /\ waiting \in Nat /\ queued \in Nat /\ ignoring \in Nat
  /\ isAnimating \in BOOLEAN
  /\ items \in Seq(Item)
  /\ requested \in Seq(Request)

Init ==
  /\ name = EmptyText /\ amount = EmptyText
  /\ isImageSelected = FALSE
  /\ modal = "none"
  /\ signedIn = TRUE
  /\ uploads = {}
  /\ group = 0 /\ waiting = 0 /\ queued = 0 /\ ignoring = 0
  /\ isAnimating = FALSE
  /\ items = <<>> /\ requested = <<>>

-----------------------------------------------------------------------------
(* Mutation: an upload does not stop the user from tapping.                *)
CanTapDuringUpload == signedIn

CanTap == ignoring = 0 /\ signedIn
CanTapForm == CanTap /\ modal = "none"

EnterName(text) ==
  /\ CanTapForm
  /\ name' = text
  /\ UNCHANGED <<amount, isImageSelected, modal, signedIn, uploads, sync, items,
                 requested>>

EnterAmount(text) ==
  /\ CanTapForm
  /\ amount' = text
  /\ UNCHANGED <<name, isImageSelected, modal, signedIn, uploads, sync, items,
                 requested>>

(* openPhotoLibrary, when the photo library is available.                  *)
OpenPhotoLibrary ==
  /\ CanTapForm
  /\ modal' = "picker"
  /\ UNCHANGED <<name, amount, isImageSelected, signedIn, uploads, sync, items,
                 requested>>

(* didFinishPicking selects an image unless the media is not one; didCancel *)
(* unselects, also what was picked before.  Both dismiss the picker.        *)
ClosePicker ==
  /\ CanTap
  /\ modal = "picker"
  /\ modal' = "none"
  /\ isImageSelected' \in {TRUE, isImageSelected, FALSE}
  /\ UNCHANGED <<name, amount, signedIn, uploads, sync, items, requested>>

DismissAlert ==
  /\ CanTap
  /\ modal = "alert"
  /\ modal' = "none"
  /\ UNCHANGED <<name, amount, isImageSelected, signedIn, uploads, sync, items,
                 requested>>

(* The first guard of saveClicked.  The second tests the name once more    *)
(* where it means the amount, so it never fails.                           *)
MayBeSaved == name # EmptyText

SaveRefused ==
  /\ CanTapForm
  /\ ~MayBeSaved
  /\ modal' = "alert"
  /\ UNCHANGED <<name, amount, isImageSelected, signedIn, uploads, sync, items,
                 requested>>

-----------------------------------------------------------------------------
(* What the group does with its notify blocks once it holds entered - left *)
(* members: with none, they all go to the main queue.                      *)
Notify(members, blocks) ==
  /\ group' = members
  /\ waiting' = IF members = 0 THEN 0 ELSE blocks
  /\ queued' = IF members = 0 THEN queued + blocks ELSE queued

(* Mutation: an end is counted although no begin came before it.           *)
EndUnmatched(depth) == depth - 1

(* Mutation: interaction is not given back.                                *)
NoEnd(depth) == depth

(* An end that matches no begin has no effect.                             *)
EndIgnoring(depth) == IF depth = 0 THEN 0 ELSE depth - 1

(* Mutation: the indicator is started, not toggled.                        *)
Start == isAnimating' = TRUE

Toggle == isAnimating' = ~isAnimating

(* What saveClicked does after either way of saving.                       *)
ResetForm ==
  /\ name' = EmptyText
  /\ amount' = EmptyText
  /\ isImageSelected' = FALSE
  /\ UNCHANGED modal

(* putItemInDatabase: the write, the row, and the end of ignoring; its own *)
(* enter and leave of the group cancel out.                                *)
PutItemInDatabase(item) ==
  /\ items' = Append(items, item)
  /\ ignoring' = EndIgnoring(ignoring)

Leave(members) == members - 1

NewRequest(image) == [name |-> name, amount |-> amount, image |-> image]

(* Mutation: the text fields are read when the item is put.                *)
ItemOfForm(request) ==
  [name |-> name, amount |-> amount,
   picture |-> <<request.image>>, pictureName |-> <<request.image>>]

ItemOf(request) ==
  [name |-> request.name, amount |-> request.amount,
   picture |-> <<request.image>>, pictureName |-> <<request.image>>]

(* saveClicked without an image: the item is put at once, and the notify   *)
(* block is queued at once if the group is empty.                          *)
AddItemWithoutImage ==
  /\ CanTapForm /\ MayBeSaved /\ ~isImageSelected
  /\ Len(requested) < MaxSaves
  /\ PutItemInDatabase(ItemOf(NewRequest(Slash)))
  /\ requested' = Append(requested, NewRequest(Slash))
  /\ Notify(group, waiting + 1)
  /\ Toggle
  /\ ResetForm
  /\ UNCHANGED <<signedIn, uploads>>

Named == {requested[k].image : k \in DOMAIN requested}

(* saveClicked with an image: enter the group, ignore interaction, start   *)
(* the upload.                                                             *)
AddItemAndImage(image) ==
  /\ CanTapForm /\ MayBeSaved /\ isImageSelected
  /\ image \notin Named
  /\ Len(requested) < MaxSaves
  /\ ignoring' = ignoring + 1
  /\ uploads' = uploads \cup {[request |-> NewRequest(image), stage |-> "sending"]}
  /\ requested' = Append(requested, NewRequest(image))
  /\ Notify(group + 1, waiting + 1)
  /\ Toggle
  /\ ResetForm
  /\ UNCHANGED <<signedIn, items>>

(* putData succeeded; downloadURL is called.                               *)
PictureStored(u) ==
  /\ u.stage = "sending"
  /\ uploads' = (uploads \ {u}) \cup {[u EXCEPT !.stage = "linking"]}
  /\ UNCHANGED <<form, signedIn, sync, items, requested>>

(* The image has no JPEG data, putData fails or downloadURL fails: the     *)
(* group is never left and interaction stays ignored.                      *)
UploadFails(u) ==
  /\ u.stage \in {"sending", "linking"}
  /\ uploads' = (uploads \ {u}) \cup {[u EXCEPT !.stage = "failed"]}
  /\ UNCHANGED <<form, signedIn, sync, items, requested>>

(* downloadURL succeeded: the item is put, the group is left.              *)
LinkReady(u) ==
  /\ u.stage = "linking"
  /\ uploads' = uploads \ {u}
  /\ PutItemInDatabase(ItemOf(u.request))
  /\ Notify(Leave(group), waiting)
  /\ UNCHANGED <<form, signedIn, isAnimating, requested>>

(* A notify block runs on the main queue.                                  *)
RunNotifyBlock ==
  /\ queued > 0
  /\ queued' = queued - 1
  /\ Toggle
  /\ UNCHANGED <<form, signedIn, uploads, group, waiting, ignoring, items, requested>>

(* The user goes to the list and logs out; this screen is not shown again. *)
Logout ==
  /\ CanTapForm
  /\ signedIn' = FALSE
  /\ UNCHANGED <<form, uploads, sync, items, requested>>

Save ==
  \/ AddItemWithoutImage
  \/ \E image \in Image : AddItemAndImage(image)

Transfer == \E u \in uploads : PictureStored(u) \/ UploadFails(u) \/ LinkReady(u)

Next ==
  \/ \E text \in FieldText : EnterName(text) \/ EnterAmount(text)
  \/ OpenPhotoLibrary
  \/ ClosePicker
  \/ DismissAlert
  \/ SaveRefused
  \/ Save
  \/ Transfer
  \/ RunNotifyBlock
  \/ Logout

Spec == Init /\ [][Next]_vars

(* Storage ends every request, with an answer or an error, and the main    *)
(* queue runs what is on it.                                               *)
FairSpec == Spec /\ WF_vars(Transfer) /\ WF_vars(RunNotifyBlock)

-----------------------------------------------------------------------------
Failed == \E u \in uploads : u.stage = "failed"

(* Uploads never overlap, and one that has not put its item locks the      *)
(* screen: interaction is ignored just as long, the repository's group is  *)
(* entered just as long, nobody can have logged out, and no save waits for *)
(* another one's picture.  Begin and end, enter and leave are called in    *)
(* different handlers, and saving without a picture calls an end of its    *)
(* own.                                                                    *)
LockedWhileUploading ==
  /\ Cardinality(uploads) <= 1
  /\ ignoring = Cardinality(uploads) /\ group = Cardinality(uploads)
  /\ IF uploads = {} THEN waiting = 0 ELSE signedIn

(* The indicator is on exactly when an odd number of toggles is still owed *)
(* to it, so that it is off once every save has been answered.             *)
IndicatorParity == isAnimating <=> (waiting + queued) % 2 = 1

(* Items are put in the order of their saves, each with what the form held *)
(* when save was tapped, although a picture's item is put much later.      *)
PutInOrder ==
  /\ Len(items) <= Len(requested)
  /\ \A k \in DOMAIN items :
       /\ items[k].name = requested[k].name
       /\ items[k].amount = requested[k].amount
       /\ items[k].picture = <<requested[k].image>>

(* "Please insert a valid amount" (AddItemController.swift:38): no item is *)
(* saved without one.                                                      *)
NoEmptyAmount == \A k \in DOMAIN items : items[k].amount # EmptyText

(* Interaction comes back and the indicator stops after a save, unless its *)
(* upload fails.  That is final: once the notify blocks queued before it   *)
(* have run, interaction is ignored and the indicator is on until the      *)
(* process ends.                                                           *)
SaveEnds ==
  /\ ignoring > 0 ~> ignoring = 0 \/ Failed
  /\ isAnimating ~> ~isAnimating \/ Failed
  /\ Failed ~> [](Failed /\ ignoring > 0 /\ isAnimating)

=============================================================================
