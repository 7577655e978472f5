# A verification of the shopping-list app

The app (`src/Shopping List/Shopping List/`) is an iOS client with no server
of its own: accounts are kept by Firebase Authentication, the list of a user is
one Firestore document, pictures are kept by Firebase Storage. What is hard
about it is not in any one function. The rows on the screen, the document as the
phone knows it, the queue of writes the phone has not sent, the document on the
server and the pictures in storage are five copies of the same list, kept in
step by hand and by callbacks that come when they come. Below the app, in the
libraries it ships with, the same queue of writes crosses threads, calls that
break, changes of user, crashes and power failures before it reaches the server.

The modules here model that: TLC checks them on small instances, TLAPS proves
part of it for every instance.

## 1. Inventory

### Item encoding: `Model/Item.swift`, `convertItemToString`, the loop in `getItems`

*State* none. *Operations*: an item (name, amount, link of the picture, name of
the picture) becomes one string, its fields joined with `;`; a string becomes an
item by splitting at `;` and reading the first four components. Nothing escapes
a `;` the user typed. *Correct* when every stored string has four components
(the index is not checked), and when a list survives being loaded and saved.

### Item repository: `Repository/ItemRepository.swift`, `Repository.swift`

*State*: `itemArray` (one array for the whole process), `dispatchGroup`, and
the application's count of begin/endIgnoringInteractionEvents. *Operations*: put
an item (arrayUnion on the document, append to the array), put an item with its
picture (upload, then link, then put), overwrite the document with all rows,
delete a picture, clear the array. *Interacts* with Firestore by writes it never
looks at again, with Storage by two nested completions, with both screens by
the shared array and the returned group. *Hard*: the completions run long after
the tap; failure paths neither leave the group nor give interaction back; the
put unwraps `currentUser` when the upload is over. *Correct* when rows and
document agree, the picture of a row exists, and group, interaction and
indicator come back to rest.

### Shopping list screen: `Controller/ShoppingListViewController.swift`, `ItemTableViewCell.swift`

*State*: the rows are the repository's; the table view shows them as of its last
reload; the pictures of its cells; full-screen pictures laid over it; the
navigation and the tab bar. *Operations*: load (`viewDidLoad`, `getItems`),
appear, delete a row, log out, show and hide a picture, open settings. *Hard*:
`getItems` appends to the shared array when its reply comes, which may be after
logging out, or after another user has logged in; a deletion writes back the whole
array, whatever it holds by then; every login presents a new screen and the old
ones keep answering; cells are used again while their pictures load. *Correct*
when a user sees and writes only that user's items and loses none, when a swipe
deletes the row that was swiped, when a row shows its own picture, and when a
hidden bar can be brought back.

### Add-item screen: `Controller/AddItemController.swift`

*State*: the two text fields, `isImageSelected`, what is presented in front, the
activity indicator. *Operations*: pick or cancel a picture, save. *Hard*: the
indicator is only ever toggled, by the save and by a notify block of a group that
every save shares. *Correct* when the form's contents are what is saved, in the order
of saving, and the screen is usable again afterwards.

### Login, registration, start: `LoginController`, `RegisterController`, `ViewController`

*State*: `Auth.auth().currentUser`, kept across restarts; the screen in front; the
requests under way. *Operations*: sign in; create an account and then its
document; log out; at launch, go on with the signed-in user. *Hard*: nothing
keeps the user from tapping again or going back while a request is under way; the
current user changes on one queue and the completion, which asks for it, runs on
another; the account and the document are two services. *Correct* when every
account gets its own document and the list in front is the signed-in user's.

### Settings: `SettingsController.swift`

*State*: the stored preference, the switch, the date picker, pending and
delivered reminders. *Operations*: load, switch, pick, disappear. *Hard*: the
screen disappears in several ways and asks for a reminder each time; requests are
carried out later. *Correct* when one reminder is pending, the last asked for.

### The Firestore client: `Pods/FirebaseFirestore`

*State*, kept across restarts: one queue of writes per user, the cached version
of every document, the acknowledged writes that are not yet applied to it. *State*
of the process: the pipeline of writes sent, the write stream (token, handshake,
backoff, idle timer), the queries. *Operations*: queue a write, send, take an
answer, take a snapshot, raise a snapshot for a query, restart the stream, switch
queue and stream when the user changes. *Hard*: everything that interleaves,
on three queues. This code is vendored and was not written by the app's authors,
but the app's behaviour is its behaviour, and the app depends on more of it
than it seems: it never waits for a write. *Correct* when the server handles each
user's writes in order under that user's token, and the device hears once of each.

### One streaming call: `remote/grpc_stream.cc`, `grpc_completion.cc`, `buffered_writer`

*State*: the operations gRPC holds, the completions on their way over the polling
thread to the worker queue, the buffer of writes. *Hard*: a stream is shut down
by blocking the worker queue until the poller has taken every completion off
gRPC's queue, while the poller puts callbacks on that same worker queue. *Correct*
when no callback meets a released stream, gRPC never has two writes at a time,
and nobody waits forever. This class is compiled into the app; in this version
the write stream itself runs over the older `GRPCCall` (`FSTDatastore.mm:343`).

### The local database: `Pods/leveldb-library`

*State* on disk: logs, tables, the manifest, CURRENT; in memory: two memtables,
the version set, the background thread. *Operations*: open with recovery, write
with and without sync, switch memtables, flush, delete obsolete files, close.
*Hard*: the process may end and the power may fail between any two of these.
*Correct* when an acknowledged write survives the end of the process, a synced one
the power failure, and a new write is newer than all recovered ones.

### Services, UIKit, dispatch

Authentication, the Firestore server, Storage, ignored interaction, notify blocks,
the notification centre. Not in the repository. Modelled by what the app relies on.

### The rest

`AppDelegate.swift` (template code and a Core Data stack nothing uses),
`Objects/*Button.swift` (styling), `Model/User.swift` (unused), the other pods
(BoringSSL, Protobuf, gRPC-Core, abseil, nanopb, Kingfisher, Firebase and the like), the sites
under `docs` and `firebase`: no state of the program's own.

## 2. Modules

| module | models | builds on |
|---|---|---|
| `ItemCodec` | the encoding of items | |
| `UsersCollection` | one document per user, the three writes, what a queue of writes makes of a document | `ItemCodec` |
| `ShoppingList` | devices, users, server: sign-in, list, put, upload, delete, and the client's queue, cache and queries | `UsersCollection` |
| `AddItem` | one add-item screen in detail: form, uploads, group, interaction, indicator | `ItemCodec` |
| `ListScreen` | list screens over one repository: the table's rows, full-screen pictures, bars | |
| `CellPictures` | reused cells and the loads of their pictures | |
| `Settings` | switch, date picker, preference, reminders | |
| `Accounts` | login and registration as two steps each, overlapping, and what the segues show | |
| `WriteStream` | the remote store's pipeline, the write stream, tokens, changes of user, the server's end | |
| `WriteQueue` | abstract: what a user's queue of writes is promised | |
| `GrpcStream` | one streaming call between worker queue, gRPC and poller | |
| `LocalStore` | the database: log, memtables, tables, manifest, background thread, crashes, recovery | |
| `Store` | abstract: what a key-value store promises of its writes | |
| `MCShoppingList`, `MCAddItem`, `MCParts` | constants of the instances; `MCParts` sets six independent parts side by side | |
| `ShoppingListProofs` | theorems about `ShoppingList`, and the argument for `CaughtUp` | `UsersCollectionProofs` |
| `AddItemProofs`, `LocalStoreProofs`, `WriteStreamProofs` | theorems about the module of that name | |
| `UsersCollectionProofs` | theorems about `ItemCodec` and `UsersCollection`: items, documents and queues of writes | |
| `RowsProofs` | the argument for `Agreement`, `SettledRowsStay` and `IsolatedUnlessLeaked` | `ShoppingListProofs` |
| `PicturesProofs` | the argument for `PictureBehindRow` | `RowsProofs` |
| `PartsProofs` | theorems about the small parts: `ListScreen`, `CellPictures`, `Settings`, `Accounts`, `GrpcStream` | `MCParts`, `LocalStoreProofs` |

The modules are three layers of one system.

- *The app.* `ShoppingList` is the composition that matters most. `AddItem`,
  `ListScreen`, `CellPictures`, `Settings` and `Accounts` are each one screen in the
  detail `ShoppingList` leaves out. `ShoppingList` keeps one upload per device and the
  fact that taps are ignored meanwhile; that this is right is what `AddItem`
  shows as `LockedWhileUploading`, from the counting the code does. `ShoppingList` has
  one screen and no table; that the index a deletion uses is the swiped row's is
  `ShownIsStored` of `ListScreen`. `ShoppingList` signs in with one step; what
  happens when requests overlap is in `Accounts`.
- *The client.* `ShoppingList` takes a user's queue, in order, to the server one
  write at a time; `WriteStream` is how that is done, and implements `WriteQueue`,
  which says just this.
- *The disk.* `ShoppingList` keeps queue and cache across restarts; `LocalStore` is
  how, and implements `Store`. A restart in `ShoppingList` is the end of a process, and
  `Store!ProcessEnds` takes nothing away.

`MCParts` exists for checking only. Its parts share no state, so a behaviour takes the
steps of one of them (the variable `part` says which) and the states are the
sum of theirs, not the product. It EXTENDS `LocalStore`, the
largest of them, and has the other five as instances.

### How a text is represented

A text is the sequence of chunks between its semicolons. Joining four texts with
`;` is then concatenation, splitting at `;` is reading the chunks, and `milk;2`
typed as a name is `<<"milk", "2">>`. This is what `components(separatedBy:)`
returns, so the conversion is modelled by what it does and no character appears.
The link of a picture is identified with its name: both come from the same NSUUID,
and the code tells neither from the other except by the field it is in.

### How `ShoppingList` corresponds to the code

| variable | code |
|---|---|
| `user` | `Auth.auth().currentUser`, and the client's current user |
| `itemArray` | the repository's `itemArray` |
| `screen`, `upload` | which screen is up; the closure state of `addItemAndImage` |
| `asked`, `answers` | `getDocuments` calls without a snapshot; snapshots raised whose completion has not run |
| `pending` | the mutation queue of a user, in LevelDB |
| `held[d]` | batches of the signed-in user acknowledged but held (`heldBatchResults`; the stored queue has them until it is started again) |
| `cache` | the remote document cache |
| `sent` | the front of `writePipeline` as far as the server has received it, with the outcome of each write |
| `remote`, `accounts`, `images` | Firestore, Authentication, Storage |

Each handler is one action: handlers run to completion on the main queue. A
handler with a completion is two or more (`AddItemAndImage`, `PictureStored`,
`LinkReady`/`UploadFails`). The client's worker queue is `Commit` (the server
takes the next write), `Acknowledge` (its answer arrives), `Snapshot`,
`QueryFails` and `StreamBreaks`.

An answer to a write carries the version the write produced, and the client
compares it with the version of its last snapshot and of its cached document.
The model has no versions. `sent` records instead what those comparisons need:
whether a snapshot of this document (`known`) or of another one (`passed`) has
come since the write was committed.

`named`, `session`, `leaked`, `torn`, `writers`, `undocumented`, `dropped` are
history variables. No guard reads them. `session` says how the rows on the screen came about:

- `loading`: opened with nothing else under way, no reply yet;
- `early`: an item was put before the reply;
- `synced`: the reply came and the rows are the document's;
- `mixed`: something came in between (two queries, a deletion before the reply, a
  rejected write, a second device's write while this one put early or while one
  of its own writes was laid over a snapshot that had it already).

### How `WriteStream` corresponds to the code

| variable | code |
|---|---|
| `authUser`, `asked` | FIRAuth's current user and the tokens it has been asked for |
| `mainQueue`, `workerQueue` | what FIRAuth reports, on its way to the client's worker queue |
| `tokenCounter` | `token_counter`, by which a token asked for before a change of user is known as aborted |
| `user`, `queue` | the sync engine's user; the mutation queues |
| `client` | FSTWriteStream (state, handshake, delegate, idle timer) and `writePipeline` |
| `rpc`, `rpcUser`, `requests`, `answers`, `late` | the call, as seen from both ends |
| `handled`, `acknowledged`, `rejected`, `applied` | history |

The client's worker queue runs one operation at a time, so an action is one
operation: a token arrives, the call opens, a response comes, the call ends, a timer
fires, the user changes. `client` is a record because such an operation is a chain of
calls that each change it; an action composes them in the order of the code
(`StartIfNeeded`, `NextBatches`, `ForgetHandshake`, ...). The server goes on
handling what a closed call has brought it, until it greets the next one.

### How `LocalStore` corresponds to the code

| variable | code |
|---|---|
| `logs`, `tables`, `manifest`, `created` | the files, as a process reads them; `created` is CURRENT |
| `synced` in a log, `durable` | the part that is on the medium |
| `versions`, `logfile`, `mem`, `imm` | `versions_` (log_number_, next_file_number_, last_sequence_, current version), `logfile_number_`, the memtables |
| `left`, `added` | the loop of `Recover`; `VersionEdit::new_files_` |
| `writing` | the batch between `AddRecord` and the memtable |
| `background`, `bgError` | the background thread; `bg_error_` |
| `promised` | history: writes acknowledged after a sync |

Actions are cut where the lock is given up or a file operation can be the last one:
`AddRecord` and `FinishWrite` are the two halves of `Write`; `BuildTable`, `LogEdit`,
`InstallEdit` and `FinishCompaction` are `CompactMemTable` and `LogAndApply`. `ProcessEnds`
can tear the record being added. `PowerFails` keeps any part of what was not
synced, either manifest, and perhaps not even CURRENT when no manifest was synced.

### How the other modules correspond to the code

- `ListScreen`: `array` is the repository's array, `table` has one sequence per
  list screen ever presented, the last of which is in front; `querying` are screens
  whose query is unanswered; `pictures` the image views added by
  `didHighlightRowAt`. A tap meets only what is in front and not hidden.
- `CellPictures`: `row` is what `cellForRowAt` last used a cell for, `webURL` and
  `image` are those of Kingfisher on the image view, `loading` the retrievals that are never cancelled.
  A row has a picture with an address, a picture that is no address (`ShowRowOfNoAddress`), or
  none (`ShowRowWithoutPicture`). `latest` is history, for `OwnPicture`.
- `Settings`: `adding` are requests to the notification centre that have not been
  carried out; an identifier names one pending request.
- `Accounts`: a request goes from `sent` to `retrieving` (an account is created,
  then read) to a completion on the main queue. `visit` numbers the screens, since a
  completion of an older one finds its controller gone.
- `GrpcStream`: an operation is known by its completion, which is in `inGrpc`, then
  with the `poller`, then in `callbacks`. `worker` says what the worker queue is
  blocked on.
- `AddItem`: `ignoring` and `group` are the two counts, `waiting` and `queued` the notify
  blocks before and after their group became empty.

### Simplifications

Of `ShoppingList`:

- Sign-in and account creation are one step, at the completion; `Accounts` has them as two.
- A message from the server is made and delivered in one step. A snapshot is of the
  server's current state; one that is late is modelled as one taken early.
- Ending the process and launching it again is one step. At launch the home screen
  presents the list, a request UIKit may drop because it comes in `viewDidLoad`;
  both outcomes are in `Restart`.
- Security rules are not in the repository, so any query may fail (`QueryFails`) and a
  query of one user may still be answered after another has signed in.
- A user is signed out only by the user: forced sign-out (a revoked token) is left out.
- `asked` may be answered in any order, `answers` run in the order raised, as
  the main queue does.
- `createUser` is one attempt: `RegisterUnanswered` is the case in which it
  took effect and its answer was lost.
- Only one document is read by a query (`whereField("name", isEqualTo: uid)`).

Of `WriteStream`: no stream tokens, no lengths of delays (a timer fires when it may), and
no switching the network off, which the app never does. The stream is the one of this
version, over `GRPCCall`. The server may refuse any write, also one it has applied before.
`ChangeUser` may name the user who is signed in already: a new token is told of like a new user.

Of `LocalStore`: one thread writes at a time, as the client's worker queue does, so
writers never group their batches. A writer that waits for room goes on in a step of its own once there
is some: that the background thread wakes it is taken for granted. A write that fails is the end of the process, for the
client asserts that it does not. Creating, renaming and removing files takes effect in
order. Compactions of tables into tables, level 0 limits, iterators, snapshots and
`reuse_logs` are left out: no data moves out of the database by them.

Of `GrpcStream`: gRPC gives back every operation it holds once the call is over.
Reads and writes carry no contents but a number.

## 3. Runs

All bounds are constants of the cfg files. `kMaxPendingWrites` is 10 in the source and
1 or 2 in the cfgs, so that the limit is reached and pipelining still happens.

| run | shows | states |
|---|---|---|
| `sessions` | Two users take turns on one device. `CaughtUp`: the device knows what the server will hold. `IsolatedUnlessLeaked`: a late reply is the only way items pass between users. `SettledRowsStay`: a loaded list changes only by what its user does. | 2.2 M |
| `devices` | One user on two devices (symmetric), both adding and deleting. `Agreement`: rows and known document, each as it is when loaded again, agree. `RejectedOnlyWhileUndocumented`: when the server turns a write down. | 1.4 M |
| `pictures` | One user on two devices (symmetric): uploads that succeed, fail or are cut off, deletions with pictures. `PictureBehindRow`: a row's picture is in storage while the document is left to the device. `NeverUnwrapsNil`: nobody is signed out under a running upload. | 1.0 M |
| `separators` | Names and amounts with `;` in them: `ReloadIsStable`. | 0.8 M |
| `progress` | Under fairness every queue drains (`QueueDrains`), every query and upload ends (`RequestsEnd`). | 68 k |
| `additem` | Three saves on one add-item screen, with failing uploads and late notify blocks: taps are ignored while an upload runs (`LockedWhileUploading`), the indicator turns exactly while something is owed to it (`IndicatorParity`), items are put in the order saved (`PutInOrder`), a save ends (`SaveEnds`). | 37 k |
| `writestream` | Two users' writes over streams that break, back off, idle, are refused a write or are replaced. No assertion of the client fails (`AssertsHold`), the pipeline is the front of the queue (`PipelineIsFront`), a write is sent under its own user's token (`SentAsItsUser`), what the device is told of a write is the server's word on it, and is true (`ReportedAsHandled`), and `ImplementsWriteQueue`. | 2.2 M |
| `drains` | The queue of the user who is signed in at last drains, though longer than the pipeline, however often calls break. | 0.13 M |
| `parts` | Six independent parts, below. | 0.2 M |
| `leak`, `emptyamount`, `switchedoff` | *violations*, below. | |

The properties of `parts`:

| part | properties |
|---|---|
| all | `PartsTypeOK`: every variable keeps its type |
| `ListScreen` | `ShownIsStored`: the table in front is the beginning of what is stored, so each row shown is the stored one at that index and a swipe deletes the row swiped. `BarsComeBack`: a hidden bar has a picture over it whose tap brings it back |
| `CellPictures` | `OwnPicture`: a row with a picture shows its own or none; a row without one shows none or, since the code leaves its cell's view alone, that of the last row with one in its cell, never an earlier one's. `PictureComes`: a row that stays gets its picture, unless its load failed |
| `Settings` | `OneReminder`: one reminder is pending, the last asked for |
| `Accounts` | `ListOfCurrentUser`: the list opened is the current user's. `OwnDocument`: a registration makes the new account's document, unless requests overlapped or its account could not be read |
| `GrpcStream` | `KnowsItsOperations`, `OneReadOneWrite`: what the stream believes is under way is, and gRPC never has two writes. `SecondFinishByShutdown`: the only way a call is finished twice. `Unblocks`: the worker queue never waits forever. `EndIsNoticed`: the end of a call is reported |
| `LocalStore` | `NothingLost`: an acknowledged write survives the end of the process. `SyncedSurvive`: a synced one survives the power failure. `RoomIsMade`: a full memtable is flushed. `ImplementsStore` |

*Bounds, and why they are enough.* `MaxEdits` bounds items saved and rows deleted,
`MaxSessions` sign-ins and restarts, `MaxLost` broken streams and lost registrations.
The interesting cases are pairs. Two users on a device show everything a third
could; two devices are a writer and another writer; two edits are an item and its
deletion or two queued writes, the third in `pictures` adds a deletion of a
neighbour or by the other device; three sessions are sign-in, sign-out and sign-in as somebody else, or a
sign-in and two restarts; one loss is a loss that is retried.

In `writestream` three writes are one more than the pipeline holds, and one change
of user puts a queue, a stream and a token of each user into play; the same
properties hold with two changes, for two writes and a pipeline of one (4.7 M states). In `drains` the queue of two is longer
than the pipeline of one, so the rest has to be fetched when the first is done.

In `parts`, `MaxLogins` 2 and `MaxStack` 2 are a screen and one behind it, a picture and one
over it; two cells and two addresses are a cell and what was before it; three visits
are a form, the one gone to and the return; three writes of a call are one in gRPC, one
buffered and one more. `MaxWrite`, `MaxFile` and `MaxCrash` allow a write in each
of memtable, immutable memtable and table, a crash and a crash in the recovery from it;
`LocalStore` alone was also run at 4 writes, 12 files, 2 crashes (0.35 M states) and 3, 12, 3 (0.2 M).
The theorems of section 5 depend on no bound.

Deadlock is not checked (`CHECK_DEADLOCK FALSE`): when the bounds are used up and
everything is sent, nothing is left to do, and users may stop at any time. That nobody
waits on somebody who waits is `Unblocks`, where the code can do that.

### What `Agreement`, `CaughtUp` and `PictureBehindRow` leave out, and why

The conditions of these invariants are the findings of writing them. Each one
excludes a case in which the app really is wrong or the client really is behind:

- *Early put with another device*: the put appends a row, the reply appends the
  whole document. Without other writers the reply contains what the put
  does not, because arrayUnion and the cached overlay agree; with other writers the
  reply may already contain the item, or a deletion of it.
- *Rejected write*: nobody looks at the result, so the row stays and the
  document never gets it.
- *Dropped writes*: `startMutationQueue` drops writes that are acknowledged but
  held. The server has them; the device no longer does, until its next snapshot. A
  put before the first reply, an acknowledgement and a restart are enough, and a
  list loaded offline then lacks the item; a deletion from that list removes the item
  on the server too.
- *A snapshot that already has a queued write* and another device's on top: the
  queued write is laid over it again and, when it is the first `setData` or an
  overwrite, hides the other's items until it is acknowledged.
- *Another device's deletion*: the picture is deleted from storage at once, and the overwrite
  that takes the row out of the document waits in that device's queue, for as long as it is
  offline. A device that loads the list meanwhile has a row whose picture is gone. So
  `PictureBehindRow` is about documents that are `LeftTo` a device: no other one has
  written them, or has an overwrite queued.
- *Two rows with one picture*: a list that contains an item twice loses the picture of both
  with either. `torn` records the deletion (`SamePicture`).
- *Separators*: a name with `;` in it may be torn apart into an item that names as its picture a
  piece of that name. `PictureBehindRow` speaks of names that are a picture's (`Image`), and
  no one types one (`UUIDAssumption`): they are random UUIDs.

### Fairness

Users need do nothing, streams need not break, nothing need fail. What is fair:

- `ShoppingList`: sending and acknowledging (the client retries with backoff as long as
  its user is signed in and it has a queue), ending a query (by a snapshot, offline from
  the cache, or an error), running a completion (the main queue), storage answering.
  `QueueDrains` says only that a queue drains while its user stays signed in, for the
  client sends no other queue. `MaxLost` bounds broken streams.
- `AddItem`: storage answers and the main queue runs.
- `CellPictures`: every load ends, with an image or without.
- `GrpcStream`: the worker queue and the polling thread run, and gRPC gives back
  everything it holds when a call is over. Nothing is assumed of a call that is not.
- `WriteStream`: queues run, timers fire, tokens come, calls open, the server
  handles and answers. Calls may break without bound, so weak fairness of opening
  and answering is not enough: `FairSpec` has strong fairness where a
  break can take away what was about to happen, which says that not every
  attempt breaks before anything comes back. With a network that never lets anything
  through nothing drains, in the code as in the model.
- `LocalStore`: only the background thread, which the environment starts and
  which takes its steps. Ends of the process are bounded by `MaxCrash`.

### The three violations

`leak`: the comment `//clear list so a user doesn't get another user his items`
(`ShoppingListViewController.swift:42`) promises `NoForeignItems`. A user who logs out before
the reply has come gets the items of that reply into the array after it was
cleared, and the next user to log in sees them; deleting any row then writes them
into that user's document.

`emptyamount`: `AddItemController.swift:37` tests the name where it means the
amount, so the warning `Please insert a valid amount` is never shown.

`switchedoff`: switching the reminder off (`SettingsController.swift:62`) removes the
notifications that were delivered and leaves the one that is pending. It comes,
although "Enable notifications" (`Main.storyboard`) is off.

### Other observations

Met while modelling, allowed by the modules, and conditions of properties where it says so:

- `createUser` calls back with neither a user nor an error when the account was made and
  could not be read (`FIRAuth.m:913`; its header, `FIRAuth.h:77`, promises one of them). The app
  then writes no document. `infoFailed` in `OwnDocument`.
- A `GrpcStream` shut down between the failure of an operation and the arrival of the
  call's status finishes its call twice, and gRPC asserts that it does not
  (`channel_cc.cc:130`). `SecondFinishByShutdown` says that this is the only way.
- The first manifest of a database is not synced (`db_impl.cc:196`) before CURRENT names it, so
  a power failure right after creation can leave a database that does not open.
- Firestore's writes to the database ask for no sync (`leveldb_transaction.cc:160`).
  `NothingLost` is about the end of a process, and all the app is promised. Of unsynced writes a
  power failure may take earlier ones and leave later ones, if they are in different logs.
- `LevelDbTransaction::Put` (`leveldb_transaction.cc:165`) uses `emplace`, which keeps
  an earlier value put for the same key in the same transaction.
- The server may go on handling what a closed stream brought it, so a write may be
  handled after the client has been told its stream is closed, and is then sent
  again. `ApplyTwice` and `ResentHead` say that this does no harm to a document.
- A write that was applied, whose answer was lost, and that is refused when it is sent
  again is reported as refused (`FSTRemoteStore.mm:584`). The device then takes it back and
  shows it again with the next snapshot. `ReportedAsHandled` forbids the rest: a refusal
  that the server has not spoken on that write, and one that is applied after it.
- A row without a picture does not touch its cell's image view
  (`ShoppingListViewController.swift:70`), and `ItemTableViewCell` has no `prepareForReuse`.
  In a cell that served a row with a picture it shows that row's picture, or gets it
  when the load ends. `OwnPicture` says how far this goes.
- Two requests under way at once on the forms can open the list of one account under
  the session of another, and write the empty document of a registration over another's.
  `ListOfCurrentUser` and `OwnDocument` say that this takes overlapping requests (`overlapped`).
- A failed upload or download link (`ItemRepository.swift:55`) leaves the dispatch group entered
  and interaction ignored until the process ends. `RequestsEnd` and `SaveEnds` except it.

## 4. Mutants

Every property of a passing run is shown to depend on the code by a mutation of one
definition: a guard dropped (`CanTapDuringUpload`), a wrong order (`PictureOfNextRow`,
`ParsePictureSwapped`), a forgotten step (`ForgetOnAck`, `KeepItemArray`, `NoEnd`). They stand before the definition they replace and are used by nothing.

## 5. Proofs

Checked by TLAPS for every value of the constants, from the named assumptions only
(texts are sequences of chunks, `NoDoc` and `NoUser` are not a document and not a
user, users type texts, the name of a picture is a chunk other than `/` that nobody types, the
pipeline has room for one write; a form's name and amount are texts; writes and files are
numbered; `NoOne` is not the result of a request).

- `UsersCollectionProofs`, of items: `ConvertedParses`, `RoundTrip` (without separators an
  item comes back unchanged), `ReparseIsStable` (with them it does from the second time
  on). Of documents: what a queue does to one. `Overlay` is a recursive
  function, so its equations come first (`OverlayEmpty`, `OverlayAppend`,
  `OverlayHead`); the library's induction theorems take an operator and cannot be
  used, so induction is done by a least counterexample over a set (`LeastElement`),
  and `OverlayStaysIn` packages it: a set of documents closed under each write of a queue
  is closed under the queue. `ApplyTwice` and `ResentHead` say that
  sending again does no harm. Of documents that already have some of a queue:
  `FixedCommit` is the core; see below.
- `ShoppingListProofs`: `TypeCorrect`, `EveryStringParses`, `ReloadAlwaysStable`,
  `UnwrapsAreSafe`, `RejectedForWantOfADocument`, `AlwaysCaughtUp`.
- `RowsProofs`: `ItemsStayWithTheirUser`, `RowsAgree`, `SettledRows`.
- `PicturesProofs`: `PicturesBehindRows`.
- `AddItemProofs`: `AddItemTypes`, `UploadLocks`, `PutsInOrder`, `IndicatorInStep`.
- `LocalStoreProofs`: `StoreTypes`, `NothingIsLost`, `SyncedWritesSurvive`, and
  `StoreImplemented`, the refinement of `Store`.
- `WriteStreamProofs`: `StreamTypes`, `AssertsAlwaysHold`, `PipelineAlwaysFront`, `SentAsUser`,
  `ReportsAreTrue`, and `WriteQueueImplemented`, the refinement of `WriteQueue`.
- `PartsProofs`: `PartsTypes`, `ListShowsStored`, `BarsAlwaysComeBack`, `PictureIsOwn`,
  `OneReminderAlways`, `ListIsOfCurrentUser`, `DocumentIsOwn`, `StreamKnowsItsOperations`,
  `OneReadAndOneWrite`, `OnlyShutdownFinishesTwice`.

*The invariant of `ShoppingList`.* `TypeOK` is not inductive: `Reply` makes rows of an
answer, and a row is an item only if the answer's strings have four components; they
have because the snapshot's document and the queue's writes have, which came from
rows. `DataInv` is `TypeOK` with "four components" added wherever a string can be:
server, caches, queues, held writes, answers. It needs `SentInv` (no more
answers than queued writes) so that `Acknowledge` and `Commit` find a write to
take. `DataNext` has one step per action. `TypeCorrect`, `EveryStringParses` and `ReloadAlwaysStable`
follow. `UnwrapsAreSafe` has an invariant of its own, `SignedInv`: the list
is on the screen only with somebody signed in, and an upload keeps it there.
`RejectedForWantOfADocument` has `AccountsInv`: only accounts have anything
queued, the `setData` of a registration is the first write of its queue, and an account has
its document, or that `setData` is queued somewhere, or its registration was never
answered. A write turned down is then not a `setData`, no write before it was one either,
so the `setData` is on another device or there is none.

*Why a device is caught up.* `CaughtUp` compares the queue laid over the server's
version with the queue laid over what the device knows. It is not inductive:
between a commit and its answer a write is on the server and still queued, it may
be sent again, and a snapshot may show it before its answer comes. `ConvergeInv`
adds what keeps these harmless, for every document and the one device that has
written it:

- the server's version is `Fixed` under the writes sent: laying any last part of
  them over it changes nothing;
- the writes that are `known` (committed and seen in a snapshot) come first, and
  what the device knows is `Fixed` under them;
- a write is rejected exactly while there is no document, and no write is held
  behind a `known` one.

`FixedCommit` shows that taking the next write keeps the server's version fixed
and leaves the result of the whole queue alone. A queue with a write other than
arrayUnion forgets where it started (`OverlayForgets`); one of arrayUnions only
changes nothing in an array that holds all its strings (`UnionsLeave`); and
adding one more string to an array that a queue leaves alone cannot change that,
or the queue leads back to the array (`UnionKeepsFixed`). `FixedTail` does the same
for an answer and `FixedAppend` for a new write. `ShoppingListProofs` first proves that
each of the five things that can happen to one document keeps `Good`, the body of the
invariant (`GoodRestart`, `GoodAppend`, `GoodCommit`, `GoodSeen` and
`GoodRefresh`, `GoodAnswer`), then that each action is one of them.

*Why items stay with their user.* `OwnInv` says of every place whose items are there:
documents and caches, queues and held writes, answers (whose query carries its user),
the rows of whoever is signed in. It takes as its parameter which items are whose, and
is used twice: here, an item is its user's if that user typed it; below, if that user
had its picture. The one action that moves data from one place to another without asking
for the user is `Reply`. `leaked` records when it does, and a list whose load was
undisturbed (`Followed`) cannot have been given any.
The home screen needs care: after a restart it may be shown while somebody is signed in, so
`RowsOwn` says that nothing is under way then and the array is empty.

*Why rows and document agree.* `Agreement` speaks of loaded lists only. `ListInv` says
how they get there: while nothing is put, the answer that waits is what the client
shows (`NoRowsYet`); items put before the reply are in every version a snapshot may still
show, `View` (what the client shows) and `ToBe` (what the server's version will be),
and together with the answer they are what the client shows (`PutEarly`); once
loaded, nothing is under way (`InStep`), which is also why no reply changes a loaded list
(`SettledRows`). What the client and the server do must then leave `View` and `ToBe`
alone: `KnownAnswered` and `FixedTail` for an answer, `FixedCommit` for a commit, both
from `ConvergeInv`, which is where other devices' writes come in. `RowsReload` closes the
circle for texts with separators: rows and document are compared as loaded again.

*Why a row's picture is there.* A picture is uploaded, then linked from a string, and that
string is then in queues, documents, caches, answers and rows on several devices; a
deletion asks storage to delete the picture first and rewrites the document last. Four
invariants keep these apart.

- `PicturesHad`: pictures can be shared out among the users so that an upload's picture is
  nobody's yet, what storage is asked to delete was somebody's, and every item anywhere
  names only pictures its user had (`OwnInv` again). So an upload never brings back the picture
  of a deletion under way, and a deletion of one user's takes no other user's picture.
- `TakenInv`: a device whose write the server took is among the document's writers, and
  a document that was written, or that a device knows of, exists.
- `OverwritesTaken`: an overwrite waits in a queue only for a document that exists, or behind the
  `setData` that makes it, so it is never turned down. A device that has claimed a document
  by a deletion therefore writes it before the claim leaves the queue: a document that is not
  left to a device never is again (`LeftStays`).
- `AliveInv`: while a document is left to a device, the document as it will be once that
  device's queue is sent (`WillBe`) names only pictures that are in storage and
  that nobody asked to delete (`Alive`), and so do the rows of a followed list; a picture
  about to be linked is `Alive` too.

The last one is an induction over what can happen to the document left to one device. Its
own put adds no picture or one that was just uploaded (`TypedAlive`, `UploadedAlive`); its own
commits and answers leave `WillBe` alone (`DocumentStep`), and any other device's commit claims the
document; a snapshot that is loaded is the document as it will be, because nothing is
dropped and nobody else has written it (`ViewIsWillBe`, from `ConvergeInv`). A deletion on the device
itself takes out of the rows every one that names the picture (`RowsLeft`; `torn` if two
did), and replaces `WillBe` by those rows; a deletion anywhere else claims its document
(`DeleteClaims`) and has no picture of another user's (`OthersAlive`). `ReparseIsStable` and `UUIDAssumption` keep separators from making a picture's
name out of typed text.

*Why interaction, group and indicator come back.* None of `AddItem`'s invariants is
inductive by itself, because each relates counts that different completions change.
`SaveInv` says which of two states the screen is in: `Idle`, in which all counts are at rest,
or `Busy(u)`, in which `u` is the one upload, everything is counted once, and
the notify blocks wait for it; and that what is put and what is still to be put are
the items saved, in order (`ItemsAreRequests`).

*Why nothing is lost.* `NothingLost` speaks of what a recovery would find. It is not
inductive, because a flush moves data between four places in several steps, any of
which may be the last. `StoreInv` says where every write is: the current log holds
what the memtable holds and the write under way (`RunInv`), an older log that the
manifest still needs holds the immutable memtable, and the step of the flush says whether the new
table, the manifest as written or the one installed has it too (`Steady`, with
`Current` and `Flushed`); while a database is opened, the tables built hold what the logs
recovered so far held (`StartInv`), and the manifest before and the one after recover the
same. `DiskInv` and `LogInv` do this for the files, `ClosedInv` for the time between processes,
`NewLogInv` for the switch of logs. Under `StoreInv` every step maps to a step of `Store`: `FinishWrite` is
`Commit`, the end of the process and of the power are themselves, and everything else (the flush,
the recovery, the deletion of files) changes nothing that can be seen.

*Why the device is told the truth.* The five properties of `WriteStream` hold together or
not at all: what the server has handled can be called the front of the pipeline only if
the call is the current user's, and the pipeline the front of the queue. `Inv` relates
what is on its way between three queues and two machines:

- `QueuesOrdered`: a queue holds its own user's writes in the order of their numbers, so a
  write can be told from every other, and taking out the one answered for takes out the first.
- `StreamInv`: the pipeline is the front of the queue and as long as it may be; a stream with
  writes to send is on its way; an idle one has none; the delegate is set exactly
  while a call is (which the assertions are about). `StreamSound` also holds between
  the calls that one operation of the worker queue is made of.
- `TokensInv`: at most one token is asked for, found or delivered for the current stream, and
  none unless it waits for one. Tokens of earlier streams may come at any time.
- `UsersInv`: a token on its way is of the user whom the message before it told of, and who is
  signed in is the last one told of. With `CountsInv` (the counter of the client and the
  changes on their way to it add up to the changes there were) a token that
  passes the counter's test is the current user's. This is the argument for `SentAsItsUser`, and the
  reason that comparing a counter is enough.
- `CallInv`: the client's idea of the call and the call; what is sent and what is
  handled and not yet answered make up the pipeline.
- `ServerInv`: what the server works on is the front of one user's queue, also after the
  call was closed and another user's begun (`late`); it was applied if it was accepted,
  and nothing is handled behind a write that was refused.
- `OutcomeInv`: a write that was reported as refused is in no queue any more.

`ReportedAsHandled` follows step by step: the report is of the first write handled and of what
was made of it (`ReportStep`), and what the server handles is in a queue, so it was not
reported as refused (`NothingRefusedHandled`).

Each action is first proved to keep every part it can disturb, for the record `client` as
the action makes it. The refinement maps a call's handling of a write that
was not handled before to the step of `WriteQueue` that applies it, the answer to the one that
reports it, and every other step to nothing.

*The small parts.* `PartsRun` says that a step of `MCParts` is a step of one part which
leaves the others alone; each part then has an invariant of its own.

- `ListInv` (`ListScreen`): besides the rows of the screen in front, that a screen exists unless home
  is in front, that only existing screens wait for replies, and that the navigation bar is
  hidden in the list only along with the tab bar.
- `CellsInv`: a cell's view is bound to the address of the last row with one, so a load
  for an earlier row that ends late finds its view bound to something else.
- `ReminderInv`: the date last asked for is that of the last request under way; with none under way
  it is pending, has been delivered, or was turned down.
- `LoginInv`: while no two requests have overlapped, there is no request, or exactly
  one and the list is not in front, or exactly one answer whose user is
  signed in when it runs (`OneRequest`).
- `GrpcInv`: every operation is in exactly one place (in gRPC, with the poller, or in a callback that
  waits: `Once`); at most one is a read and at most one a write, which is the last
  one numbered (`Numbered`); what is buffered waits for a write under way (`Buffered`); and the
  stream is fresh, working, stopping or released, each with what it knows of its operations.

*Only model-checked*: liveness and fairness (`QueueDrains`, `RequestsEnd`, `SaveEnds`, `PictureComes`,
`Unblocks`, `EndIsNoticed`, `RoomIsMade`), which are out of the prover's reach. Every invariant and action property of
a passing run is a theorem.

## 6. What is left

*Could be next*: an abstract shared list, which `ShoppingList` with one device
implements as long as nothing leaks; that the upload of `AddItem` refines that of
`ShoppingList`.

*Not modelled*:

- Security rules: they are not in the repository.
- Limbo resolution, garbage collection and continuous listeners of the client: the app
  has one document per user, reads it once per screen and never listens.
- Unary and streaming-reader calls: the app reads by the watch stream.
- Compactions of tables, iterators and the formats of logs and tables: `LocalStore` takes
  a record to be whole or torn, which is what the checksums are for.
- Display and styling: the picture next to the form, buttons, colours.
- The other libraries. Nearly all of the 443,000 lines under `src/` are third-party code (cryptography,
  protocol buffers, transport, image loading, analytics) and generated tables. The app's own
  code is a thousand lines, and is modelled; of the libraries, the parts whose state
  the app's lists pass through.
