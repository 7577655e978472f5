---------------------------- MODULE ShoppingList ----------------------------
(***************************************************************************)
(* The shopping-list app on several devices, and the accounts, documents   *)
(* and pictures it keeps on the server.                                    *)
(*                                                                         *)
(* A device runs one process.  Its handlers run to completion on the main  *)
(* queue; what interleaves is the order of taps, of the completions of     *)
(* asynchronous calls, and of the Firestore client's own sending.  The     *)
(* rows the user sees are the itemArray of the one shared repository.      *)
(***************************************************************************)
EXTENDS UsersCollection, SequencesExt

CONSTANTS
  Device,
  User,
  NoUser,      \* nobody is signed in
  Names,       \* Names[u]: what u types as the name of an item
  Amounts,     \* what users type as an amount
  Image,       \* names of pictures, as NSUUID hands them out
  kMaxPendingWrites, \* writes the client sends before it waits for an answer
  MaxEdits,    \* bound: items saved and rows deleted
  MaxSessions, \* bound: lists opened and processes restarted
  MaxLost      \* bound: broken write streams and unanswered registrations

ASSUME UserAssumption == NoUser \notin User
ASSUME NamesAssumption == Names \in [User -> SUBSET Text]
ASSUME AmountsAssumption == Amounts \subseteq Text
ASSUME PipelineAssumption == kMaxPendingWrites \in Nat \ {0}
ASSUME ImageAssumption == Image \subseteq Chunk \ {Slash}
ASSUME UUIDAssumption ==   \* nobody types the name of a picture
  \A text \in (UNION {Names[u] : u \in User}) \cup Amounts :
    \A k \in DOMAIN text : text[k] \notin Image

VARIABLES
  \* on the server
  accounts,    \* users the authentication service knows
  remote,      \* remote[u]: the document of u
  images,      \* names of the pictures in storage
  \* on a device, kept across a restart
  user,        \* Auth.auth().currentUser
  cache,       \* cache[d][u]: the version of u's document that d holds
  pending,     \* pending[d][u]: writes of u not yet acknowledged, in order
  \* on a device, gone with the process
  screen,      \* "home", or "list" for the tab bar with the list
  itemArray,   \* the repository's rows
  asked,       \* users whose items were asked for, no snapshot raised yet
  answers,     \* snapshots raised, completion not run yet
  sent,        \* what became of the first writes of the signed-in user's queue
  held,        \* writes of the signed-in user acknowledged, but still to be
               \*   applied to the cached version, in order
  upload,      \* the picture upload that saveClicked started
  deletions,   \* deletions of pictures in flight, by name
  \* bounds
  edits, sessions, lost,
  \* history: read by no guard, written for the properties
  named,       \* pictures named so far
  session,     \* how d's rows came about since its list was opened
  leaked,      \* rows were added while somebody else, or nobody, was signed in
  torn,        \* a row was deleted before the list was loaded, from a list that
               \*   lacked a dropped write, or one of two with one picture
  writers,     \* writers[u]: devices whose writes reached u's document
  undocumented, \* accounts whose registration never got its answer
  dropped      \* dropped[d][u]: writes of u that d held were dropped

server  == <<accounts, remote, images>>
kept    == <<user, cache, pending>>
process == <<screen, itemArray, asked, answers, sent, held, upload, deletions>>
bounds  == <<edits, sessions, lost>>
history == <<named, session, leaked, torn, writers, undocumented, dropped>>
vars    == <<server, kept, process, bounds, history>>

-----------------------------------------------------------------------------
Upload == [stage : {"none", "sending", "linking", "failed"},
           image : Text, name : Text, amount : Text]

NoUpload == [stage |-> "none", image |-> NoPicture,
             name |-> EmptyText, amount |-> EmptyText]

Answer == [user : User, doc : Document]

(* What became of a write the client sent: the server rejected it, or      *)
(* applied it, and since then this device has seen a snapshot of another   *)
(* document ("passed") or of the one written ("known").                    *)
Outcome == {"applied", "passed", "known", "rejected"}

(* Every variable keeps its type; the only invariant that says no more.    *)
TypeOK ==
  /\ accounts \subseteq User
  /\ remote \in [User -> Document]
  /\ images \subseteq Image
  /\ user \in [Device -> User \cup {NoUser}]
  /\ cache \in [Device -> [User -> Document]]
  /\ pending \in [Device -> [User -> Seq(Write)]]
  /\ screen \in [Device -> {"home", "list"}]
  /\ itemArray \in [Device -> Seq(Item)]
  /\ asked \in [Device -> Seq(User)]
  /\ answers \in [Device -> Seq(Answer)]
  /\ sent \in [Device -> Seq(Outcome)]
  /\ held \in [Device -> Seq(Write)]
  /\ upload \in [Device -> Upload]
  /\ deletions \in [Device -> SUBSET Text]
  /\ edits \in Nat /\ sessions \in Nat /\ lost \in Nat
  /\ named \subseteq Image
  /\ session \in [Device -> {"none", "loading", "early", "synced", "mixed"}]
  /\ leaked \in BOOLEAN /\ torn \in BOOLEAN
  /\ writers \in [User -> SUBSET Device]
  /\ undocumented \subseteq User
  /\ dropped \in [Device -> [User -> BOOLEAN]]

Init ==
  /\ accounts = {}
  /\ remote = [u \in User |-> NoDoc]
  /\ images = {}
  /\ user = [d \in Device |-> NoUser]
  /\ cache = [d \in Device |-> [u \in User |-> NoDoc]]
  /\ pending = [d \in Device |-> [u \in User |-> <<>>]]
  /\ screen = [d \in Device |-> "home"]
  /\ itemArray = [d \in Device |-> <<>>]
  /\ asked = [d \in Device |-> <<>>]
  /\ answers = [d \in Device |-> <<>>]
  /\ sent = [d \in Device |-> <<>>]
  /\ held = [d \in Device |-> <<>>]
  /\ upload = [d \in Device |-> NoUpload]
  /\ deletions = [d \in Device |-> {}]
  /\ edits = 0 /\ sessions = 0 /\ lost = 0
  /\ named = {}
  /\ session = [d \in Device |-> "none"]
  /\ leaked = FALSE /\ torn = FALSE
  /\ writers = [u \in User |-> {}]
  /\ undocumented = {}
  /\ dropped = [d \in Device |-> [u \in User |-> FALSE]]

-----------------------------------------------------------------------------
(* What d knows of u's document on the server: the cached version, and the *)
(* acknowledged writes that are held while u is signed in.                 *)
Known(d, u) == IF user[d] = u THEN Overlay(cache[d][u], held[d]) ELSE cache[d][u]

(* What the client shows of it, with u's queue of writes on top.           *)
LocalView(d, u) ==
  IF user[d] = u THEN Overlay(Known(d, u), pending[d][u]) ELSE cache[d][u]

(* The write stream starts anew: nothing is sent yet.                      *)
RestartStream(d) == sent' = [sent EXCEPT ![d] = <<>>]

(* Whenever the client starts a queue of writes, what it held of the one   *)
(* before is dropped, unapplied.  (The stored queue still has such writes; *)
(* they are removed from it before it is used again.)                      *)
DropHeld(d) ==
  /\ held' = [held EXCEPT ![d] = <<>>]
  /\ dropped' = IF held[d] = <<>> THEN dropped
                                 ELSE [dropped EXCEPT ![d][user[d]] = TRUE]

(* The user changes to u, or stays u: the streams restart in any case.     *)
SwitchUser(d, u) ==
  /\ user' = [user EXCEPT ![d] = u]
  /\ IF user[d] = u THEN UNCHANGED <<held, dropped>> ELSE DropHeld(d)
  /\ RestartStream(d)

(* Mutation: an upload does not stop the user from tapping.                *)
CanTapDuringUpload(d) == screen[d] = "list"

(* Taps reach the list unless interaction is ignored: from saveClicked     *)
(* with a picture until the put of its item.                               *)
CanTap(d) == screen[d] = "list" /\ upload[d].stage = "none"

Enqueue(d, write) ==
  pending' = [pending EXCEPT ![d][user[d]] = Append(@, write)]

CountEdit == edits < MaxEdits /\ edits' = edits + 1
CountSession == sessions < MaxSessions /\ sessions' = sessions + 1
CountLost == lost < MaxLost /\ lost' = lost + 1

(* Mutation: the user is read before the sign-in is complete.              *)
OpenListForPrevious(d, u, outstanding) ==
  /\ screen' = [screen EXCEPT ![d] = "list"]
  /\ asked' = [asked EXCEPT ![d] = Append(outstanding, user[d])]
  /\ session' = [session EXCEPT ![d] = "loading"]

(* Mutation: viewWillAppear asks for the items as well.                    *)
OpenListTwice(d, u, outstanding) ==
  /\ screen' = [screen EXCEPT ![d] = "list"]
  /\ asked' = [asked EXCEPT ![d] = outstanding \o <<u, u>>]
  /\ session' = [session EXCEPT ![d] =
                   IF outstanding = <<>> /\ answers[d] = <<>> /\ itemArray[d] = <<>>
                     THEN "loading" ELSE "mixed"]

(* The tab bar is presented for the signed-in user u: the list controller  *)
(* is created and its viewDidLoad asks for the items.                      *)
OpenList(d, u, outstanding) ==
  /\ screen' = [screen EXCEPT ![d] = "list"]
  /\ asked' = [asked EXCEPT ![d] = Append(outstanding, u)]
  /\ session' = [session EXCEPT ![d] =
                   IF /\ outstanding = <<>>
                      /\ answers[d] = <<>>
                      /\ itemArray[d] = <<>>
                     THEN "loading" ELSE "mixed"]

(* signIn succeeded.  The client switches to u's queue of writes, and      *)
(* restarts its streams, before the completion runs and presents the list. *)
Login(d, u) ==
  /\ screen[d] = "home"
  /\ u \in accounts
  /\ CountSession
  /\ SwitchUser(d, u)
  /\ OpenList(d, u, asked[d])
  /\ UNCHANGED <<server, cache, pending, itemArray, answers, upload, deletions,
                 edits, lost, named, leaked, torn, writers, undocumented>>

(* createUser succeeded: setData of an empty document, then the list.      *)
Register(d, u) ==
  /\ screen[d] = "home"
  /\ u \notin accounts
  /\ CountSession
  /\ accounts' = accounts \cup {u}
  /\ SwitchUser(d, u)
  /\ pending' = [pending EXCEPT ![d][u] = Append(@, SetData)]
  /\ OpenList(d, u, asked[d])
  /\ UNCHANGED <<remote, images, cache, itemArray, answers, upload, deletions,
                 edits, lost, named, leaked, torn, writers, undocumented>>

(* The account was created but the answer was lost: register prints an     *)
(* error, and no document is ever written.                                 *)
RegisterUnanswered(d, u) ==
  /\ screen[d] = "home"
  /\ u \notin accounts
  /\ CountLost
  /\ accounts' = accounts \cup {u}
  /\ undocumented' = undocumented \cup {u}
  /\ UNCHANGED <<remote, images, kept, process, edits, sessions,
                 named, session, leaked, torn, writers, dropped>>

(* Mutation: the rows stay when the user logs out.                         *)
KeepItemArray(d) == itemArray' = itemArray

ClearItemArray(d) == itemArray' = [itemArray EXCEPT ![d] = <<>>]

(* logoutPressed: sign out, show the home screen, clear the list.  Queries *)
(* that are under way stay under way.                                      *)
Logout(d) ==
  /\ CanTap(d)
  /\ SwitchUser(d, NoUser)
  /\ screen' = [screen EXCEPT ![d] = "home"]
  /\ ClearItemArray(d)
  /\ session' = [session EXCEPT ![d] = "none"]
  /\ UNCHANGED <<server, cache, pending, asked, answers, upload, deletions,
                 bounds, named, leaked, torn, writers, undocumented>>

(* The process dies and is launched again.  Everything in memory is gone;  *)
(* a signed-in user stays signed in.  The home screen's viewDidLoad then   *)
(* presents the list, a request UIKit may drop this early.                 *)
Restart(d) ==
  /\ CountSession
  /\ itemArray' = [itemArray EXCEPT ![d] = <<>>]
  /\ answers' = [answers EXCEPT ![d] = <<>>]
  /\ DropHeld(d)
  /\ RestartStream(d)
  /\ upload' = [upload EXCEPT ![d] = NoUpload]
  /\ deletions' = [deletions EXCEPT ![d] = {}]
  /\ \/ /\ user[d] # NoUser
        /\ screen' = [screen EXCEPT ![d] = "list"]
        /\ asked' = [asked EXCEPT ![d] = <<user[d]>>]
        /\ session' = [session EXCEPT ![d] = "loading"]
     \/ /\ screen' = [screen EXCEPT ![d] = "home"]
        /\ asked' = [asked EXCEPT ![d] = <<>>]
        /\ session' = [session EXCEPT ![d] = "none"]
  /\ UNCHANGED <<server, user, cache, pending, edits, lost, named, leaked, torn,
                 writers, undocumented>>

-----------------------------------------------------------------------------
(* Held writes are applied to the cached version.                          *)
ReleaseHeld(d) ==
  /\ cache' = [cache EXCEPT ![d] = [u \in User |-> Known(d, u)]]
  /\ held' = [held EXCEPT ![d] = <<>>]

(* What a snapshot of u's document means for the writes committed so far.  *)
Seen(d, u, outcome) ==
  IF outcome = "rejected" THEN outcome
  ELSE IF u = user[d] THEN "known"
  ELSE IF outcome = "applied" THEN "passed" ELSE outcome

(* A snapshot of u's document comes from the server.  It replaces the      *)
(* cached version, and held writes of other documents are applied.         *)
Refresh(d, u) ==
  /\ cache' = [cache EXCEPT ![d] =
                 [v \in User |-> IF v = u THEN remote[u] ELSE Known(d, v)]]
  /\ held' = [held EXCEPT ![d] = <<>>]
  /\ sent' = [sent EXCEPT ![d] = [k \in DOMAIN @ |-> Seen(d, u, @[k])]]
  /\ dropped' = [dropped EXCEPT ![d][u] = FALSE]

(* A query ends without the server; if it was the last one, no snapshot    *)
(* will come, and held writes are released.                                *)
EndQuery(d, outstanding) ==
  /\ IF outstanding = <<>> THEN ReleaseHeld(d) ELSE UNCHANGED <<cache, held>>
  /\ UNCHANGED <<sent, dropped>>

(* The client raises the snapshot of a query: over the server's version    *)
(* when it reaches the server, over the cached one when it is offline.     *)
Snapshot(d) ==
  \E k \in DOMAIN asked[d], u \in User :
    /\ u = asked[d][k]
    /\ asked' = [asked EXCEPT ![d] = RemoveAt(@, k)]
    /\ Refresh(d, u) \/ EndQuery(d, RemoveAt(asked[d], k))
    /\ UNCHANGED user /\ UNCHANGED pending
    /\ answers' = [answers EXCEPT ![d] =
                     Append(@, [user |-> u, doc |-> LocalView(d, u)'])]
    /\ UNCHANGED <<server, screen, itemArray, upload, deletions, bounds, named,
                   session, leaked, torn, writers, undocumented>>

(* The query fails; getItems prints the error.                             *)
QueryFails(d) ==
  \E k \in DOMAIN asked[d] :
    LET outstanding == RemoveAt(asked[d], k)
    IN  /\ asked' = [asked EXCEPT ![d] = outstanding]
        /\ EndQuery(d, outstanding)
        /\ UNCHANGED <<server, user, pending, screen, itemArray, answers, upload,
                       deletions, bounds, named, session, leaked, torn, writers,
                       undocumented>>

(* Mutation: the completion is dropped with the screen it was asked from.  *)
DueOnScreen(d) == answers[d] # <<>> /\ screen[d] = "list"

(* A completion runs whatever screen is shown: its closure keeps the       *)
(* controller alive, and nothing cancels the query.                        *)
Due(d) == answers[d] # <<>>

(* History: a reply completes the list, unless rows were put before it     *)
(* while other devices write.                                              *)
Loaded(mode, alone) ==
  IF mode = "loading" \/ (mode = "early" /\ alone) THEN "synced"
  ELSE IF mode = "early" THEN "mixed" ELSE mode

(* The completion of getItems: every row of the document, if it exists,    *)
(* is added to whatever rows the repository holds by now.                  *)
Reply(d) ==
  /\ Due(d)
  /\ LET answer == Head(answers[d])
         found  == answer.doc # NoDoc
         rows   == IF found THEN ParseItems(answer.doc) ELSE <<>>
     IN  /\ itemArray' = [itemArray EXCEPT ![d] = @ \o rows]
         /\ session' = [session EXCEPT ![d] =
                          IF found THEN Loaded(@, writers[answer.user] \subseteq {d})
                                   ELSE @]
         /\ leaked' = (leaked \/ (rows # <<>> /\ user[d] # answer.user))
  /\ answers' = [answers EXCEPT ![d] = Tail(@)]
  /\ UNCHANGED <<server, kept, screen, asked, sent, held, upload, deletions, bounds,
                 named, torn, writers, undocumented, dropped>>

-----------------------------------------------------------------------------
(* putItemInDatabase: queue the arrayUnion, add the row.                   *)
PutItemInDatabase(d, item) ==
  /\ Enqueue(d, ArrayUnion(ConvertItemToString(item)))
  /\ itemArray' = [itemArray EXCEPT ![d] = Append(@, item)]
  /\ session' = [session EXCEPT ![d] = IF @ = "loading" THEN "early" ELSE @]

(* saveClicked without a picture.                                          *)
AddItemWithoutImage(d, name, amount) ==
  /\ CanTap(d)
  /\ name # EmptyText
  /\ CountEdit
  /\ PutItemInDatabase(d, [name |-> name, amount |-> amount,
                           picture |-> NoPicture, pictureName |-> NoPicture])
  /\ UNCHANGED <<server, user, cache, held, screen, asked, answers, sent, upload,
                 deletions, sessions, lost, named, leaked, torn, writers,
                 undocumented, dropped>>

(* saveClicked with a picture: name it, ignore interaction, start sending. *)
AddItemAndImage(d, name, amount, image) ==
  /\ CanTap(d)
  /\ name # EmptyText
  /\ image \notin named
  /\ CountEdit
  /\ named' = named \cup {image}
  /\ upload' = [upload EXCEPT ![d] = [stage |-> "sending", image |-> <<image>>,
                                      name |-> name, amount |-> amount]]
  /\ UNCHANGED <<server, kept, screen, itemArray, asked, answers, sent, held,
                 deletions, sessions, lost, session, leaked, torn, writers,
                 undocumented, dropped>>

(* The picture of d's upload, as a set for storage to add.                 *)
Picture(d) == {i \in Image : <<i>> = upload[d].image}

(* putData succeeded: the link is asked for.                               *)
PictureStored(d) ==
  /\ upload[d].stage = "sending"
  /\ images' = images \cup Picture(d)
  /\ upload' = [upload EXCEPT ![d].stage = "linking"]
  /\ UNCHANGED <<accounts, remote, kept, screen, itemArray, asked, answers, sent,
                 held, deletions, bounds, history>>

(* The picture cannot be encoded, putData fails (the bytes may have        *)
(* arrived all the same), or downloadURL fails: nothing is put, and        *)
(* interaction stays ignored.                                              *)
UploadFails(d) ==
  /\ upload[d].stage \in {"sending", "linking"}
  /\ images' \in IF upload[d].stage = "sending"
                   THEN {images, images \cup Picture(d)} ELSE {images}
  /\ upload' = [upload EXCEPT ![d].stage = "failed"]
  /\ UNCHANGED <<accounts, remote, kept, screen, itemArray, asked, answers, sent,
                 held, deletions, bounds, history>>

(* downloadURL succeeded: the item is put, interaction is restored.        *)
LinkReady(d) ==
  /\ upload[d].stage = "linking"
  /\ PutItemInDatabase(d, [name |-> upload[d].name, amount |-> upload[d].amount,
                           picture |-> upload[d].image,
                           pictureName |-> upload[d].image])
  /\ upload' = [upload EXCEPT ![d] = NoUpload]
  /\ UNCHANGED <<server, user, cache, held, screen, asked, answers, sent, deletions,
                 bounds, named, leaked, torn, writers, undocumented, dropped>>

(* Mutation: the index is used once the row is gone.                       *)
PictureOfNextRow(d, k) ==
  IF k < Len(itemArray[d]) THEN {itemArray[d][k + 1].pictureName} ELSE {}

(* The picture that goes with row k.  deleteItemFromStorage is called for  *)
(* it before the row is removed.                                           *)
PictureOf(d, k) ==
  LET item == itemArray[d][k]
  IN  IF item.picture # NoPicture THEN {item.pictureName} ELSE {}

(* History: two rows have one picture.                                     *)
SamePicture(item1, item2) ==
  \E i \in Image : item1.pictureName = <<i>> /\ item2.pictureName = <<i>>

(* A row is deleted: ask storage to delete its picture, drop the row,      *)
(* overwrite the document with the rows that are left.                     *)
DeleteItem(d, k) ==
  /\ CanTap(d)
  /\ CountEdit
  /\ deletions' = [deletions EXCEPT ![d] = @ \cup PictureOf(d, k)]
  /\ LET rows == RemoveAt(itemArray[d], k)
     IN  /\ itemArray' = [itemArray EXCEPT ![d] = rows]
         /\ Enqueue(d, UpdateItems(ConvertItems(rows)))
         /\ torn' = (torn \/ session[d] # "synced" \/ dropped[d][user[d]]
                          \/ \E j \in DOMAIN rows : SamePicture(rows[j], itemArray[d][k]))
  /\ session' = [session EXCEPT ![d] = IF @ = "synced" THEN @ ELSE "mixed"]
  /\ UNCHANGED <<server, user, cache, held, screen, asked, answers, sent, upload,
                 sessions, lost, named, leaked, writers, undocumented, dropped>>

(* deleteItemFromStorage ends, in success or in an error it only prints.   *)
DeletionEnds(d) ==
  \E name \in deletions[d] :
    /\ deletions' = [deletions EXCEPT ![d] = @ \ {name}]
    /\ images' \in {images, {i \in images : <<i>> # name}}
    /\ UNCHANGED <<accounts, remote, kept, screen, itemArray, asked, answers, sent,
                   held, upload, bounds, history>>

-----------------------------------------------------------------------------
(* The server receives the next write of d's queue.  Writes are sent ahead *)
(* of the answers, up to a limit, and the server takes none after one it   *)
(* rejects.                                                                *)
Commit(d) ==
  /\ user[d] # NoUser
  /\ Len(sent[d]) < Len(pending[d][user[d]])
  /\ Len(sent[d]) < kMaxPendingWrites
  /\ \A k \in DOMAIN sent[d] : sent[d][k] # "rejected"
  /\ LET u     == user[d]
         write == pending[d][u][Len(sent[d]) + 1]
     IN  /\ remote' = [remote EXCEPT ![u] = Apply(@, write)]
         /\ sent' = [sent EXCEPT ![d] =
                       Append(@, IF Accepts(remote[u], write) THEN "applied"
                                                              ELSE "rejected")]
         /\ writers' = [writers EXCEPT ![u] =
                          IF Accepts(remote[u], write) THEN @ \cup {d} ELSE @]
  /\ UNCHANGED <<accounts, images, kept, screen, itemArray, asked, answers, held,
                 upload, deletions, bounds, named, session, leaked, torn, undocumented,
                 dropped>>

(* Mutation: only the answer to an accepted write is handled.              *)
AnsweredIfAccepted(d) == sent[d] # <<>> /\ Head(sent[d]) # "rejected"

Answered(d) == sent[d] # <<>>

(* Mutation: an acknowledged write is forgotten before it is cached.       *)
ForgetOnAck(doc, write, outcome) == doc

(* The cached version after an answer: a version that is newer than the    *)
(* write is left alone.                                                    *)
CacheOnAck(doc, write, outcome) ==
  IF outcome \in {"applied", "passed"} THEN Apply(doc, write) ELSE doc

(* An acknowledged write is held while a snapshot that includes it is      *)
(* still to come, and behind others that are held.                         *)
HeldBack(d, outcome) ==
  \/ outcome = "applied" /\ asked[d] # <<>>
  \/ outcome # "rejected" /\ held[d] # <<>>

(* History: rows and document may part company when a write is rejected,   *)
(* or was still laid over a version that had it, with another device's     *)
(* writes on top.                                                          *)
Disturbs(d, outcome) ==
  \/ outcome = "rejected"
  \/ outcome = "known" /\ ~(writers[user[d]] \subseteq {d})

(* The answer to the head of d's queue arrives.                            *)
Acknowledge(d) ==
  /\ user[d] # NoUser
  /\ Answered(d)
  /\ LET u       == user[d]
         write   == Head(pending[d][u])
         outcome == Head(sent[d])
     IN  /\ pending' = [pending EXCEPT ![d][u] = Tail(@)]
         /\ IF HeldBack(d, outcome)
              THEN /\ held' = [held EXCEPT ![d] = Append(@, write)]
                   /\ UNCHANGED cache
              ELSE /\ cache' = [cache EXCEPT ![d][u] = CacheOnAck(@, write, outcome)]
                   /\ UNCHANGED held
         /\ session' = [session EXCEPT ![d] =
                          IF @ # "none" /\ Disturbs(d, outcome) THEN "mixed" ELSE @]
  /\ sent' = [sent EXCEPT ![d] = Tail(@)]
  /\ UNCHANGED <<server, user, screen, itemArray, asked, answers, upload, deletions,
                 bounds, named, leaked, torn, writers, undocumented, dropped>>

(* The write stream breaks before the answers: all is sent again.          *)
StreamBreaks(d) ==
  /\ Answered(d)
  /\ CountLost
  /\ RestartStream(d)
  /\ UNCHANGED <<server, kept, screen, itemArray, asked, answers, held, upload,
                 deletions, edits, sessions, history>>

-----------------------------------------------------------------------------
Account(d) ==
  \/ \E u \in User : Login(d, u) \/ Register(d, u) \/ RegisterUnanswered(d, u)
  \/ Logout(d)
  \/ Restart(d)

Typed(d, name, amount) ==
  user[d] # NoUser /\ name \in Names[user[d]] /\ amount \in Amounts

Edit(d) ==
  \/ \E name \in UNION {Names[u] : u \in User}, amount \in Amounts :
       /\ Typed(d, name, amount)
       /\ \/ AddItemWithoutImage(d, name, amount)
          \/ \E image \in Image : AddItemAndImage(d, name, amount, image)
  \/ \E k \in DOMAIN itemArray[d] : DeleteItem(d, k)

Transfer(d) == PictureStored(d) \/ UploadFails(d) \/ LinkReady(d)

Sync(d) == Commit(d) \/ Acknowledge(d)

Next ==
  \E d \in Device :
    \/ Account(d)
    \/ Edit(d)
    \/ Snapshot(d) \/ QueryFails(d) \/ Reply(d)
    \/ Transfer(d)
    \/ DeletionEnds(d)
    \/ Sync(d)
    \/ StreamBreaks(d)

Spec == Init /\ [][Next]_vars

(* The clients retry until they get through, and a completion is run once  *)
(* it is due.  Users owe nothing, and streams need not break.              *)
Fairness ==
  \A d \in Device :
    /\ WF_vars(Sync(d))
    /\ WF_vars(Snapshot(d) \/ QueryFails(d))
    /\ WF_vars(Reply(d))
    /\ WF_vars(Transfer(d))

FairSpec == Spec /\ Fairness

-----------------------------------------------------------------------------
(* Rows and strings, as sets: the order and the number of equal rows are   *)
(* not what these properties are about.                                    *)
RowStrings(d) == {ConvertItemToString(itemArray[d][k]) : k \in DOMAIN itemArray[d]}

(* The rows a list shows of such strings when it is loaded.                *)
Reloaded(strings) == {ParseItem(str) : str \in strings}

(* A list that was opened with nothing else under way, whose reply arrived *)
(* before anything was deleted, and none of whose writes the server turned *)
(* down, shows exactly the items of the document as this device knows it:  *)
(* the version it holds, with the writes it has queued.  Both are compared *)
(* as they are when loaded again, for that tears texts with separators     *)
(* apart.  An item may be put before the reply if no other device writes.  *)
(* The code keeps the two by hand: putItemInDatabase adds to both, a       *)
(* deletion rewrites one from the other, and the client moves writes from  *)
(* the queue to the cached version at its own pace.                        *)
Agreement ==
  \A d \in Device : session[d] = "synced" =>
    Reloaded(RowStrings(d)) = Reloaded(Strings(LocalView(d, user[d])))

(* While nobody else's writes have reached a document, the device that     *)
(* writes it knows what the server will hold once its queue is sent, also  *)
(* when writes are sent twice because their answers were lost.  The one    *)
(* exception is the client's: a write that was held when its user signed   *)
(* out or the process ended is on the server and in no place here, until   *)
(* the next snapshot from the server.                                      *)
CaughtUp ==
  \A d \in Device, u \in User :
    Known(d, u) # NoDoc /\ writers[u] \subseteq {d} /\ ~dropped[d][u] =>
      Overlay(remote[u], pending[d][u]) = Overlay(Known(d, u), pending[d][u])

(* currentUser is force-unwrapped when a row is deleted, an item is saved  *)
(* and when the link of a picture arrives: somebody is signed in whenever  *)
(* one of these handlers can run.                                          *)
NeverUnwrapsNil ==
  \A d \in Device :
    CanTap(d) \/ upload[d].stage \in {"sending", "linking"} => user[d] # NoUser

(* getItems reads four components of every string: whatever a document, a  *)
(* cached version, a queue or an answer holds has at least four.           *)
AllParse(strings) == \A str \in strings : Parses(str)

DocumentsParse ==
  /\ \A u \in User : AllParse(Strings(remote[u]))
  /\ \A d \in Device, u \in User :
       /\ AllParse(Strings(cache[d][u]))
       /\ \A k \in DOMAIN pending[d][u] : AllParse(WriteStrings(pending[d][u][k]))
  /\ \A d \in Device :
       /\ \A k \in DOMAIN held[d] : AllParse(WriteStrings(held[d][k]))
       /\ \A k \in DOMAIN answers[d] : AllParse(Strings(answers[d][k].doc))

(* However texts with separators are torn apart when a list is loaded, the *)
(* rows that come out survive being saved and loaded again unchanged.      *)
ReloadIsStable ==
  \A u \in User : \A str \in Strings(remote[u]) :
    ParseItem(ConvertItemToString(ParseItem(str))) = ParseItem(str)

(* A user's rows, document and queue hold only items with names that user  *)
(* typed, unless rows once arrived while that user was not signed in:      *)
(* the late reply is the only way items get from one user to another.      *)
TypedBy(u, str) == \E name \in Names[u] : name[1] = str[1]

IsolatedUnlessLeaked ==
  ~leaked =>
    /\ \A d \in Device : user[d] # NoUser =>
         \A str \in RowStrings(d) : TypedBy(user[d], str)
    /\ \A u \in User : \A str \in Strings(remote[u]) : TypedBy(u, str)
    /\ \A d \in Device, u \in User : \A k \in DOMAIN pending[d][u] :
         \A str \in WriteStrings(pending[d][u][k]) : TypedBy(u, str)

(* "clear list so a user doesn't get another user his items"               *)
(* (ShoppingListViewController.swift:42): the rows a signed-in user sees   *)
(* were typed by that user.                                                *)
NoForeignItems ==
  \A d \in Device : screen[d] = "list" =>
    \A str \in RowStrings(d) : TypedBy(user[d], str)

(* The server turns a write down only when the account has no document:    *)
(* its registration was never answered, or another device still has the    *)
(* first setData in its queue.  The app ignores the rejection either way.  *)
RejectedOnlyWhileUndocumented ==
  [][\A d \in Device : \A n \in DOMAIN sent'[d] \ DOMAIN sent[d] :
       sent'[d][n] = "rejected" =>
         \/ user[d] \in undocumented
         \/ \E e \in Device \ {d} : \E k \in DOMAIN pending[e][user[d]] :
              pending[e][user[d]][k].kind = "set"]_vars

(* No other device has written u's document, or is about to overwrite it.  *)
LeftTo(d, u) ==
  /\ writers[u] \subseteq {d}
  /\ \A e \in Device \ {d} :
       \A k \in DOMAIN pending[e][u] : pending[e][u][k].kind # "update"

(* The picture of every row is in storage, as long as the list was loaded  *)
(* undisturbed, no row was ever deleted out of turn, the document is left  *)
(* to this device, and the client dropped no write: the put waits for the  *)
(* picture, and a deletion drops the row with its picture.  Another device *)
(* that deletes a row has the picture deleted at once, but its overwrite   *)
(* is in its queue until it gets through.  A text with separators may make *)
(* a row name something that never was a picture.                          *)
PictureBehindRow ==
  ~torn =>
    \A d \in Device :
      session[d] = "synced" /\ LeftTo(d, user[d]) /\ ~dropped[d][user[d]] =>
        \A k \in DOMAIN itemArray[d], i \in Image :
          itemArray[d][k].pictureName = <<i>> => i \in images

(* Once a list is loaded, its rows change only when the user saves or      *)
(* deletes something, logs out, or the process ends: no reply comes late.  *)
SettledRowsStay ==
  [][\A d \in Device :
       session[d] = "synced" /\ session'[d] = "synced" /\ itemArray'[d] # itemArray[d]
         => edits' # edits \/ upload'[d] # upload[d]]_vars

(* A write does not stay queued or held forever while its user stays       *)
(* signed in, even if the server rejects it.                               *)
QueueDrains ==
  \A d \in Device, u \in User :
    LET queue == held[d] \o pending[d][u]
    IN  (user[d] = u /\ queue # <<>>) ~> (user[d] # u \/ queue = <<>>)

(* What a screen has asked for comes to an end, whatever screen is shown   *)
(* by then: a query with its rows or an error, an upload with its item put *)
(* or failed.                                                              *)
RequestsEnd ==
  \A d \in Device :
    /\ asked[d] # <<>> \/ answers[d] # <<>> ~> asked[d] = <<>> /\ answers[d] = <<>>
    /\ upload[d].stage \in {"sending", "linking"} ~> upload[d].stage \in {"none", "failed"}

=============================================================================
