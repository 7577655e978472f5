----------------------------- MODULE PartsProofs -----------------------------
(***************************************************************************)
(* Safety of the parts that MCParts puts side by side, for any rows,       *)
(* pictures, dates, accounts and bounds.  A behaviour of all of them is    *)
(* one of each; each has an inductive invariant of its own.                *)
(***************************************************************************)
EXTENDS MCParts, LocalStoreProofs, SequenceTheorems

-----------------------------------------------------------------------------
(* A behaviour of the parts is a behaviour of each part.                   *)
LEMMA PartsRun ==
  PartsSpec => /\ List!Spec /\ Cells!Spec /\ Reminder!Spec
               /\ Login!Spec /\ Call!Spec /\ Spec
<1>1. PartsInit => /\ List!Init /\ Cells!Init /\ Reminder!Init
                   /\ Login!Init /\ Call!Init /\ Init
  BY DEF PartsInit
<1>2. [PartsNext]_partsVars => [List!Next]_(List!vars)
  BY DEF PartsNext, partsVars, Others, listVars, List!vars, List!bars
<1>3. [PartsNext]_partsVars => [Cells!Next]_(Cells!vars)
  BY DEF PartsNext, partsVars, Others, cellsVars, Cells!vars
<1>4. [PartsNext]_partsVars => [Reminder!Next]_(Reminder!vars)
  BY DEF PartsNext, partsVars, Others, reminderVars, Reminder!vars
<1>5. [PartsNext]_partsVars => [Login!Next]_(Login!vars)
  BY DEF PartsNext, partsVars, Others, loginVars, Login!vars, Login!screen, Login!history
<1>6. [PartsNext]_partsVars => [Call!Next]_(Call!vars)
  BY DEF PartsNext, partsVars, Others, callVars, Call!vars, Call!buffer
<1>7. [PartsNext]_partsVars => [Next]_vars
  BY DEF PartsNext, partsVars, Others
<1> QED BY <1>1, <1>2, <1>3, <1>4, <1>5, <1>6, <1>7, PTL
        DEF PartsSpec, List!Spec, Cells!Spec, Reminder!Spec, Login!Spec, Call!Spec, Spec

-----------------------------------------------------------------------------
(* Sequences of anything.                                                  *)
LEMMA Appended ==
  ASSUME NEW S, NEW q \in Seq(S), NEW x \in S
  PROVE  LET a == Append(q, x)
         IN  /\ a \in Seq(S) /\ a # <<>> /\ Len(a) = Len(q) + 1 /\ Len(q) \in Nat
             /\ DOMAIN q = 1 .. Len(q) /\ DOMAIN a = 1 .. Len(q) + 1
             /\ \A k \in DOMAIN q : k \in DOMAIN a /\ a[k] = q[k]
             /\ a[Len(q) + 1] = x
             /\ \A k \in DOMAIN a : k \in DOMAIN q \/ k = Len(q) + 1
<1> DEFINE a == Append(q, x)
<1>1. /\ a \in Seq(S) /\ Len(a) = Len(q) + 1
      /\ \A k \in 1 .. Len(q) : a[k] = q[k]
      /\ a[Len(q) + 1] = x
  BY AppendProperties
<1>2. Len(q) \in Nat /\ DOMAIN q = 1 .. Len(q) /\ DOMAIN a = 1 .. Len(a)
  BY <1>1
<1>3. a # <<>>
  BY <1>1, <1>2, EmptySeq
<1> HIDE DEF a
<1> QED BY <1>1, <1>2, <1>3 DEF a

LEMMA Shortened ==
  ASSUME NEW S, NEW q \in Seq(S), q # <<>>
  PROVE  LET t == Tail(q)
         IN  /\ t \in Seq(S) /\ DOMAIN t = 1 .. Len(q) - 1 /\ Len(t) = Len(q) - 1
             /\ DOMAIN q = 1 .. Len(q) /\ Len(q) \in Nat /\ Len(q) >= 1
             /\ Head(q) = q[1] /\ Head(q) \in S /\ 1 \in DOMAIN q
             /\ \A k \in DOMAIN t : k \in Nat /\ k + 1 \in DOMAIN q /\ t[k] = q[k + 1]
             /\ \A k \in DOMAIN q : k = 1 \/ k - 1 \in DOMAIN t
             /\ t = <<>> <=> Len(q) = 1
<1> DEFINE t == Tail(q)
<1>1. /\ t \in Seq(S) /\ Len(t) = Len(q) - 1 /\ Head(q) \in S
      /\ \A k \in 1 .. Len(t) : t[k] = q[k + 1]
  BY HeadTailProperties
<1>2. /\ Len(q) \in Nat /\ DOMAIN q = 1 .. Len(q) /\ DOMAIN t = 1 .. Len(t)
      /\ Len(q) # 0 /\ Head(q) = q[1] /\ (t = <<>> <=> Len(t) = 0)
  BY <1>1, EmptySeq
<1> HIDE DEF t
<1> QED BY <1>1, <1>2 DEF t

-----------------------------------------------------------------------------
(* The reminder.  The date asked for last is under way as the last         *)
(* request, or it is pending, or its minute has begun; or the centre has   *)
(* turned it down.                                                         *)
ReminderInv ==
  /\ Reminder!TypeOK
  /\ \A d \in pending : \A e \in pending : d = e
  /\ adding # <<>> => adding[Len(adding)] = asked
  /\ adding = <<>> /\ ~turnedDown => asked \in pending \/ asked <= now

(* The pictures.  A cell's view is bound to the address that the last row  *)
(* with one gave it, which is its own row's if that has a picture.         *)
CellsInv ==
  /\ Cells!TypeOK
  /\ \A c \in Cell : /\ webURL[c] = latest[c] /\ image[c] \in {None, latest[c]}
                     /\ row[c] # None => latest[c] = row[c]

(* The list.  There is a screen to show it, and no query of another; the   *)
(* navigation bar is hidden only together with the tab bar.                *)
ListInv ==
  /\ List!TypeOK
  /\ front # "home" => Len(table) > 0
  /\ querying \subseteq DOMAIN table
  /\ List!ShownIsStored /\ List!BarsComeBack
  /\ front = "list" /\ navigationBarHidden => tabBarHidden

(* Logging in.  As long as no two requests were under way at a time, a     *)
(* request or its answer keeps the list away, and the answer finds the     *)
(* user it has signed in.                                                  *)
AnswerOf(c) ==
  ~c.error => /\ currentUser = c.user
              /\ IF c.user = NoUser THEN infoFailed ELSE c.user = c.request.account

OneRequest ==
  \/ requests = {} /\ completed = <<>>
  \/ form # "list" /\ completed = <<>> /\ \E r \in requests : requests = {r}
  \/ /\ form # "list" /\ requests = {}
     /\ Len(completed) = 1 /\ AnswerOf(completed[1])

LoginInv ==
  /\ Login!TypeOK
  /\ \A r \in requests : r.kind = "login" => r.stage = "sent"
  /\ ~overlapped => OneRequest
  /\ Login!ListOfCurrentUser /\ Login!OwnDocument

-----------------------------------------------------------------------------
(* The call.  Where an operation can be that gRPC has been given.          *)
Waiting(q) == {q[k].completion : k \in DOMAIN q}
AtPoller == IF poller = NoOne THEN {} ELSE {poller.completion}

Distinct(q) ==
  \A j \in DOMAIN q : \A k \in DOMAIN q : q[j].completion = q[k].completion => j = k

(* Each operation is at one place: in gRPC, at the poller, or waiting.     *)
Once ==
  /\ AtPoller \cap inGrpc = {} /\ Distinct(callbacks)
  /\ Waiting(callbacks) \cap inGrpc = {} /\ Waiting(callbacks) \cap AtPoller = {}

(* One read at a time, one write, and no finish that was not asked for.    *)
Numbered(ops, underWay, last, most) ==
  /\ \A c \in ops : \A d \in ops : c.type = "read" /\ d.type = "read" => c = d
  /\ \A c \in ops : c.type = "write" => underWay /\ c.number = last
  /\ \A c \in ops : c.type = "finish" => c.number <= most

Buffered ==
  /\ \A k \in DOMAIN sent : sent[k] = k
  /\ \A k \in DOMAIN queue : queue[k] = Len(sent) + k
  /\ written = Len(sent) + Len(queue)

(* Before the start, while the stream works, while it shuts down, and      *)
(* after the release.                                                      *)
Fresh ==
  /\ callPhase = "new" /\ worker = "nothing" /\ observer
  /\ completions = {} /\ Call!Underway = {} /\ cancelled = {}
  /\ finishes = 0 /\ ~isFinishing

Working ==
  /\ callPhase = "open" /\ worker \in {"nothing", "lastWrite"} /\ observer
  /\ completions = Call!Underway /\ cancelled = {}
  /\ finishes = IF isFinishing THEN 1 ELSE 0
  /\ ~isFinishing => \E c \in Call!Underway : c.type = "read"

Stopping ==
  /\ callPhase = "open" /\ worker \in {"notify", "stop"} /\ observer
  /\ inGrpc \subseteq completions /\ Call!Underway \subseteq cancelled
  /\ finishes = IF isFinishing THEN 2 ELSE 1

Released ==
  /\ callPhase = "released" /\ worker = "nothing" /\ ~observer
  /\ completions = {} /\ inGrpc = {} /\ Call!Underway \subseteq cancelled
  /\ finishes <= 1

GrpcInv ==
  /\ Call!TypeOK /\ Once /\ Numbered(Call!Underway, active, Len(sent), finishes) /\ Buffered
  /\ Fresh \/ Working \/ Stopping \/ Released

-----------------------------------------------------------------------------
(* A step of the reminder keeps its invariant.                             *)
LEMMA ReminderStep ==
  ASSUME Reminder!BoundsAssumption, ReminderInv, [Reminder!Next]_(Reminder!vars)
  PROVE  ReminderInv'
<1> USE DEF Reminder!Date
<1>a. MaxDate \in Nat
  BY DEF Reminder!BoundsAssumption
<1>1. CASE UNCHANGED Reminder!vars
  BY <1>1 DEF Reminder!vars, ReminderInv, Reminder!TypeOK
<1>2. CASE Reminder!ViewDidLoad
  BY <1>2 DEF Reminder!ViewDidLoad, Reminder!PickerDate, ReminderInv, Reminder!TypeOK
<1>3. CASE Reminder!EnableNotificationsChecked
  BY <1>3 DEF Reminder!EnableNotificationsChecked, ReminderInv, Reminder!TypeOK
<1>4. ASSUME NEW d \in Reminder!Date, Reminder!PickDate(d) PROVE ReminderInv'
  BY <1>4 DEF Reminder!PickDate, ReminderInv, Reminder!TypeOK
<1>5. ASSUME NEW goesBack \in BOOLEAN, Reminder!ViewWillDisappear(goesBack)
      PROVE  ReminderInv'
  <2>1. CASE isOn
    <3>1. /\ adding \in Seq(Reminder!Date) /\ date \in Reminder!Date
          /\ adding' = Append(adding, date) /\ asked' = date
          /\ loaded' = ~goesBack /\ showNotifications' = isOn
          /\ UNCHANGED <<now, isOn, date, pending, turnedDown, delivered>>
      BY <1>5, <2>1 DEF Reminder!ViewWillDisappear, ReminderInv, Reminder!TypeOK
    <3>2. adding' \in Seq(Reminder!Date) /\ adding' # <<>> /\ adding'[Len(adding')] = date
      BY <3>1, Appended
    <3> QED BY <3>1, <3>2 DEF ReminderInv, Reminder!TypeOK
  <2>2. CASE ~isOn
    BY <1>5, <2>2 DEF Reminder!ViewWillDisappear, ReminderInv, Reminder!TypeOK
  <2> QED BY <2>1, <2>2
<1>6. CASE Reminder!Restart
  BY <1>6 DEF Reminder!Restart, ReminderInv, Reminder!TypeOK
<1>7. ASSUME NEW ok \in BOOLEAN, Reminder!Add(ok) PROVE ReminderInv'
  <2>1. /\ adding \in Seq(Reminder!Date) /\ adding # <<>> /\ adding' = Tail(adding)
        /\ pending' = IF ok THEN {Head(adding)} ELSE pending
        /\ turnedDown' = ~ok
        /\ UNCHANGED <<now, loaded, isOn, date, showNotifications, delivered, asked>>
    BY <1>7 DEF Reminder!Add, Reminder!ReplacePending, ReminderInv, Reminder!TypeOK
  <2>2. /\ adding' \in Seq(Reminder!Date) /\ Head(adding) = adding[1]
        /\ Head(adding) \in Reminder!Date /\ Len(adding) \in Nat /\ Len(adding) >= 1
        /\ DOMAIN adding' = 1 .. Len(adding) - 1 /\ Len(adding') = Len(adding) - 1
        /\ \A k \in DOMAIN adding' : adding'[k] = adding[k + 1]
        /\ adding' = <<>> <=> Len(adding) = 1
    BY <2>1, Shortened
  <2>3. adding' = <<>> => Head(adding) = asked
    BY <2>1, <2>2 DEF ReminderInv
  <2>4. adding' # <<>> => adding'[Len(adding')] = asked'
    <3>1. adding[Len(adding)] = asked
      BY <2>1 DEF ReminderInv
    <3>2. CASE adding' # <<>>
      <4>1. Len(adding') \in DOMAIN adding' /\ Len(adding') + 1 = Len(adding)
        BY <2>2, <3>2
      <4> QED BY <2>1, <2>2, <3>1, <4>1
    <3> QED BY <3>2
  <2> QED BY <2>1, <2>2, <2>3, <2>4 DEF ReminderInv, Reminder!TypeOK
<1>8. CASE Reminder!Tick
  BY <1>a, <1>8 DEF Reminder!Tick, ReminderInv, Reminder!TypeOK
<1> QED BY <1>1, <1>2, <1>3, <1>4, <1>5, <1>6, <1>7, <1>8 DEF Reminder!Next

(* The invariant of the reminder.                                          *)
LEMMA ReminderAlways == PartsSpec => []ReminderInv
<1>1. Reminder!Init => ReminderInv
  <2> SUFFICES ASSUME Reminder!Init PROVE ReminderInv
    OBVIOUS
  <2>1. 0 \in Reminder!Date /\ <<>> \in Seq(Reminder!Date) /\ 0 <= 0
    BY PartsAssumption, EmptySeq DEF Reminder!BoundsAssumption, Reminder!Date
  <2> QED BY <2>1 DEF Reminder!Init, ReminderInv, Reminder!TypeOK
<1>2. ReminderInv /\ [Reminder!Next]_(Reminder!vars) => ReminderInv'
  BY PartsAssumption, ReminderStep
<1> QED BY <1>1, <1>2, PartsRun, PTL DEF Reminder!Spec

(* However often the settings disappear and however many requests are      *)
(* under way: one reminder is pending at most, the one asked for last.     *)
THEOREM OneReminderAlways == PartsSpec => []OneReminder
<1>1. ReminderInv => OneReminder
  BY DEF ReminderInv, OneReminder, Reminder!OneReminder
<1> QED BY <1>1, ReminderAlways, PTL

-----------------------------------------------------------------------------
(* A step of the cells keeps theirs.                                       *)
LEMMA CellsStep ==
  ASSUME Cells!NoneAssumption, CellsInv, [Cells!Next]_(Cells!vars)
  PROVE  CellsInv'
<1> USE DEF CellsInv, Cells!TypeOK, Cells!Load
<1>1. CASE UNCHANGED Cells!vars
  BY <1>1 DEF Cells!vars
<1>2. ASSUME NEW c \in Cell, Cells!ShowRowWithoutPicture(c) PROVE CellsInv'
  BY <1>2 DEF Cells!ShowRowWithoutPicture
<1>3. ASSUME NEW c \in Cell, NEW url \in URL, Cells!ShowRow(c, url) PROVE CellsInv'
  BY <1>3 DEF Cells!ShowRow, Cells!LoadOf
<1>4. ASSUME NEW l \in loading, Cells!Loaded(l) PROVE CellsInv'
  BY <1>4 DEF Cells!Loaded, Cells!Bound
<1>5. ASSUME NEW l \in loading, Cells!LoadFails(l) PROVE CellsInv'
  BY <1>5 DEF Cells!LoadFails
<1>6. ASSUME NEW c \in Cell, Cells!ShowRowOfNoAddress(c) PROVE CellsInv'
  BY <1>6 DEF Cells!ShowRowOfNoAddress
<1> QED BY <1>1, <1>2, <1>3, <1>4, <1>5, <1>6 DEF Cells!Next, Cells!LoadEnds

(* The invariant of the cells.                                             *)
LEMMA CellsAlways == PartsSpec => []CellsInv
<1>1. Cells!Init => CellsInv
  BY DEF Cells!Init, CellsInv, Cells!TypeOK
<1>2. CellsInv /\ [Cells!Next]_(Cells!vars) => CellsInv'
  BY PartsAssumption, CellsStep
<1> QED BY <1>1, <1>2, PartsRun, PTL DEF Cells!Spec

(* A row with a picture shows its own or none, one without a picture shows *)
(* none or that of the last row with one, in whatever order loads end.     *)
THEOREM PictureIsOwn == PartsSpec => []OwnPicture
<1>1. CellsInv => OwnPicture
  BY DEF CellsInv, OwnPicture, Cells!OwnPicture
<1> QED BY <1>1, CellsAlways, PTL

-----------------------------------------------------------------------------
(* Sending a request: if nothing was under way it is the only one now.     *)
LEMMA SendStep ==
  ASSUME LoginInv, NEW kind \in {"login", "register"}, NEW a \in Account,
         Login!Send(kind, a), form # "list"
  PROVE  LoginInv'
<1> DEFINE r == [kind |-> kind, account |-> a, visit |-> visit,
                 number |-> sentRequests, stage |-> "sent"]
<1>1. /\ requests' = requests \cup {r} /\ sentRequests' = sentRequests + 1
      /\ overlapped' = (overlapped \/ requests # {} \/ completed # <<>>)
      /\ UNCHANGED <<exists, completed, currentUser, form, alert, listUser, visit>>
      /\ UNCHANGED <<crashed, documents, infoFailed>>
  BY DEF Login!Send, Login!screen
<1>2. r \in Login!Request /\ r.kind = kind /\ r.stage = "sent"
  BY DEF LoginInv, Login!TypeOK, Login!Request
<1> HIDE DEF r
<1>3. Login!TypeOK'
  BY <1>1, <1>2 DEF LoginInv, Login!TypeOK
<1>4. ~overlapped' => OneRequest'
  BY <1>1, <1>2 DEF OneRequest
<1>5. Login!ListOfCurrentUser' /\ Login!OwnDocument'
  BY <1>1 DEF LoginInv, Login!ListOfCurrentUser, Login!OwnDocument
<1> QED BY <1>1, <1>2, <1>3, <1>4, <1>5 DEF LoginInv

(* A request's answer, with the user it leaves signed in: if there was no  *)
(* other request, it is the only answer.                                   *)
LEMMA CompleteStep ==
  ASSUME LoginInv, NEW r \in requests, NEW error \in BOOLEAN, NEW u \in Login!User,
         Login!Complete(r, error, u),
         exists' \subseteq Account, infoFailed' \in BOOLEAN, infoFailed => infoFailed',
         currentUser' = IF error THEN currentUser ELSE u,
         ~error => IF u = NoUser THEN infoFailed' ELSE u = r.account,
         UNCHANGED <<form, alert, listUser, visit, sentRequests, crashed, documents,
                     overlapped>>
  PROVE  LoginInv'
<1> DEFINE c == [request |-> r, error |-> error, user |-> u]
<1>1. requests' = requests \ {r} /\ completed' = Append(completed, c)
  BY DEF Login!Complete
<1>2. c \in Login!Completion /\ c.error = error /\ c.user = u /\ c.request = r
  BY DEF LoginInv, Login!TypeOK, Login!Completion
<1> HIDE DEF c
<1>3. completed \in Seq(Login!Completion) /\ currentUser' \in Login!User
  BY DEF LoginInv, Login!TypeOK
<1>4. completed' \in Seq(Login!Completion)
      /\ (completed = <<>> => Len(completed') = 1 /\ completed'[1] = c)
  BY <1>1, <1>2, <1>3, Appended
<1>5. Login!TypeOK'
  BY <1>1, <1>3, <1>4 DEF LoginInv, Login!TypeOK
<1>6. ASSUME ~overlapped'
      PROVE  /\ form # "list" /\ OneRequest'
             /\ \A d \in documents' : d.doc = d.account
             /\ crashed' => infoFailed'
  <2>1. requests = {r} /\ completed = <<>> /\ form # "list"
    BY <1>6 DEF LoginInv, OneRequest
  <2>2. AnswerOf(c)'
    BY <1>2 DEF AnswerOf
  <2>3. requests' = {}
    BY <1>1, <2>1
  <2>4. OneRequest'
    <3>1. Len(completed') = 1 /\ AnswerOf(completed[1])'
      BY <1>4, <2>1, <2>2 DEF AnswerOf
    <3> QED BY <2>1, <2>3, <3>1 DEF OneRequest
  <2> QED BY <1>6, <2>1, <2>4 DEF LoginInv, Login!OwnDocument
<1> QED BY <1>1, <1>5, <1>6 DEF LoginInv, Login!ListOfCurrentUser, Login!OwnDocument

(* A completion runs: while no two requests overlap it is the only one,    *)
(* and finds the user it has signed in.                                    *)
LEMMA CompletionStep ==
  ASSUME LoginInv, Login!RunCompletion
  PROVE  LoginInv'
<1> DEFINE c == Head(completed)
<1>1. /\ completed # <<>> /\ ~crashed /\ completed' = Tail(completed)
      /\ UNCHANGED <<exists, requests, currentUser, sentRequests, overlapped, infoFailed>>
      /\ Login!LoginCompletes(c) \/ Login!RegisterCompletes(c)
  BY DEF Login!RunCompletion
<1>2. /\ completed \in Seq(Login!Completion) /\ currentUser \in Login!User
      /\ visit \in Nat /\ alert \in BOOLEAN
      /\ form \in {"home", "login", "register", "list"} /\ listUser \in Login!User
      /\ documents \subseteq [doc : Account, account : Account]
  BY DEF LoginInv, Login!TypeOK
<1>3. /\ completed' \in Seq(Login!Completion) /\ c \in Login!Completion
      /\ c = completed[1] /\ (completed' = <<>> <=> Len(completed) = 1)
  BY <1>1, <1>2, Shortened
<1> HIDE DEF c
<1>4. /\ c.request \in Login!Request /\ c.error \in BOOLEAN /\ c.user \in Login!User
      /\ c.request.kind \in {"login", "register"} /\ c.request.account \in Account
  BY <1>3 DEF Login!Completion, Login!Request
<1> DEFINE Shows ==
      /\ crashed' \in BOOLEAN /\ (crashed' => currentUser = NoUser)
      /\ \/ currentUser # NoUser /\ form' = "list" /\ listUser' = currentUser
         \/ UNCHANGED <<form, listUser>>
      /\ UNCHANGED <<alert, visit>>
      Adds ==
        documents' = documents \cup {[doc |-> u, account |-> c.request.account] :
                                     u \in Login!UserID}
<1>b. Login!ShowShoppingListView(c.request) => Shows
  BY Zenon DEF Login!ShowShoppingListView
<1>5. \/ /\ c.error /\ alert' \in BOOLEAN
         /\ UNCHANGED <<form, listUser, visit, crashed, documents>>
      \/ ~c.error /\ Shows /\ (documents' = documents \/ Adds)
  <2> HIDE DEF Shows, Adds
  <2>1. ASSUME Login!LoginCompletes(c), c.error
        PROVE  /\ alert' \in BOOLEAN
               /\ UNCHANGED <<form, listUser, visit, crashed, documents>>
    <3>1. alert' = (alert \/ Login!InFront(c.request))
      BY <2>1, Zenon DEF Login!LoginCompletes
    <3>2. alert' \in BOOLEAN
      BY <3>1, Zenon
    <3> QED BY <2>1, <3>2 DEF Login!LoginCompletes
  <2>2. ASSUME Login!LoginCompletes(c), ~c.error PROVE Shows /\ documents' = documents
    BY <1>b, <2>2 DEF Login!LoginCompletes
  <2>3. ASSUME Login!RegisterCompletes(c), c.error
        PROVE  UNCHANGED <<form, alert, listUser, visit, crashed, documents>>
    BY <2>3 DEF Login!RegisterCompletes, Login!screen
  <2>4. ASSUME Login!RegisterCompletes(c), ~c.error PROVE Shows /\ Adds
    BY <1>b, <2>4 DEF Login!RegisterCompletes, Adds
  <2> QED BY <1>1, <1>2, <2>1, <2>2, <2>3, <2>4
<1>6. \A u \in Login!UserID : u = currentUser /\ u # NoUser /\ u \in Account
  BY <1>2 DEF Login!UserID, Login!User
<1>7. documents' \subseteq [doc : Account, account : Account]
  BY <1>2, <1>4, <1>5, <1>6
<1>8. Login!TypeOK'
  <2>1. crashed' \in BOOLEAN
    BY <1>5 DEF LoginInv, Login!TypeOK
  <2> QED BY <1>1, <1>2, <1>3, <1>5, <1>7, <2>1 DEF LoginInv, Login!TypeOK
<1>9. ASSUME ~overlapped'
      PROVE  /\ OneRequest'
             /\ form' = "list" => listUser' = currentUser'
             /\ \A d \in documents' : d.doc = d.account
             /\ crashed' => infoFailed'
  <2>1. requests = {} /\ Len(completed) = 1 /\ form # "list" /\ AnswerOf(c)
    BY <1>1, <1>3, <1>9, EmptySeq DEF LoginInv, OneRequest
  <2>2. OneRequest'
    BY <1>1, <1>3, <2>1 DEF OneRequest
  <2>3. /\ \A d \in documents : d.doc = d.account
        /\ crashed => infoFailed
    BY <1>1, <1>9 DEF LoginInv, Login!OwnDocument
  <2>4. CASE c.error
    BY <1>1, <1>5, <2>1, <2>2, <2>3, <2>4
  <2>5. CASE ~c.error
    <3>1. currentUser = c.user /\ (IF c.user = NoUser THEN infoFailed
                                   ELSE c.user = c.request.account)
      BY <2>1, <2>5 DEF AnswerOf
    <3>2. ASSUME NEW d \in documents' PROVE d.doc = d.account
      <4>1. CASE d \in documents
        BY <2>3, <4>1
      <4>2. ASSUME NEW u \in Login!UserID, d = [doc |-> u, account |-> c.request.account]
            PROVE  d.doc = d.account
        BY <1>6, <3>1, <4>2
      <4> QED BY <1>5, <2>5, <4>1, <4>2
    <3>3. crashed' => infoFailed'
      BY <1>1, <1>5, <2>5, <3>1
    <3>4. form' = "list" => listUser' = currentUser'
      BY <1>1, <1>5, <2>1, <2>5
    <3> QED BY <2>2, <3>2, <3>3, <3>4
  <2> QED BY <1>4, <2>4, <2>5
<1> QED BY <1>1, <1>8, <1>9 DEF LoginInv, Login!ListOfCurrentUser, Login!OwnDocument

(* The screens alone: whoever leaves the list has no request under way, or *)
(* two have overlapped.                                                    *)
LEMMA ScreenStep ==
  ASSUME LoginInv,
         \/ \E f \in {"login", "register"} : Login!Open(f)
         \/ Login!GoBack \/ Login!ShowWarning \/ Login!DismissWarning
         \/ Login!Logout \/ Login!Restart \/ UNCHANGED Login!vars
  PROVE  LoginInv'
<1> USE DEF LoginInv, Login!TypeOK, Login!ListOfCurrentUser, Login!OwnDocument
<1>1. ASSUME NEW f \in {"login", "register"}, Login!Open(f) PROVE LoginInv'
  BY <1>1 DEF Login!Open, Login!CanTap, Login!history, OneRequest, AnswerOf
<1>2. CASE Login!GoBack
  BY <1>2 DEF Login!GoBack, Login!history, OneRequest, AnswerOf
<1>3. CASE Login!ShowWarning \/ Login!DismissWarning
  <2>1. /\ alert' \in BOOLEAN
        /\ UNCHANGED <<exists, requests, completed, currentUser, form, listUser, visit>>
        /\ UNCHANGED <<sentRequests, crashed, documents, overlapped, infoFailed>>
    BY <1>3 DEF Login!ShowWarning, Login!DismissWarning, Login!history
  <2>2. ~overlapped' => OneRequest'
    BY <2>1 DEF OneRequest, AnswerOf
  <2> QED BY <2>1, <2>2
<1>4. CASE Login!Logout
  <2>1. /\ form = "list" /\ currentUser' = NoUser /\ form' = "home" /\ listUser' = NoUser
        /\ visit' = visit + 1
        /\ UNCHANGED <<exists, requests, completed, alert, sentRequests, crashed>>
        /\ UNCHANGED <<documents, overlapped, infoFailed>>
    BY <1>4 DEF Login!Logout, Login!history
  <2>2. ~overlapped' => OneRequest'
    BY <2>1 DEF OneRequest
  <2> QED BY <2>1, <2>2 DEF Login!User
<1>5. CASE Login!Restart
  <2>1. <<>> \in Seq(Login!Completion)
    BY EmptySeq
  <2>2. OneRequest'
    BY <1>5 DEF Login!Restart, OneRequest
  <2> QED BY <1>5, <2>1, <2>2 DEF Login!Restart
<1>6. CASE UNCHANGED Login!vars
  BY <1>6 DEF Login!vars, Login!screen, Login!history, OneRequest, AnswerOf
<1> QED BY <1>1, <1>2, <1>3, <1>4, <1>5, <1>6

(* AccountCreated: the request goes on, as the same one.                   *)
LEMMA CreatedStep ==
  ASSUME LoginInv, NEW r \in requests, Login!AccountCreated(r)
  PROVE  LoginInv'
<1> DEFINE n == [r EXCEPT !.stage = "retrieving"]
<1>1. /\ r.kind = "register" /\ exists' = exists \cup {r.account}
      /\ requests' = (requests \ {r}) \cup {n}
      /\ UNCHANGED <<completed, currentUser, form, alert, listUser, visit, sentRequests>>
      /\ UNCHANGED <<crashed, documents, overlapped, infoFailed>>
  BY DEF Login!AccountCreated, Login!screen, Login!history
<1>2. r \in Login!Request
  BY DEF LoginInv, Login!TypeOK
<1>3. n \in Login!Request /\ n.kind = "register" /\ r.account \in Account
  BY <1>1, <1>2 DEF Login!Request
<1> HIDE DEF n
<1>4. Login!TypeOK'
  BY <1>1, <1>3 DEF LoginInv, Login!TypeOK
<1>5. ~overlapped' => OneRequest'
  <2>1. CASE ~overlapped
    <3>1. requests = {r} /\ completed = <<>> /\ form # "list"
      BY <2>1 DEF LoginInv, OneRequest
    <3>2. requests' = {n}
      BY <1>1, <3>1
    <3> QED BY <1>1, <3>1, <3>2 DEF OneRequest
  <2> QED BY <1>1, <2>1
<1> QED BY <1>1, <1>3, <1>4, <1>5
        DEF LoginInv, Login!ListOfCurrentUser, Login!OwnDocument

(* Every step of logging in keeps the invariant.                           *)
LEMMA LoginStep ==
  ASSUME Login!AccountAssumption, LoginInv, [Login!Next]_(Login!vars)
  PROVE  LoginInv'
<1>a. requests \subseteq Login!Request /\ exists \subseteq Account /\ infoFailed \in BOOLEAN
  BY DEF LoginInv, Login!TypeOK
<1>1. CASE UNCHANGED Login!vars
  BY <1>1, ScreenStep
<1>2. ASSUME NEW f \in {"login", "register"}, Login!Open(f) PROVE LoginInv'
  BY <1>2, ScreenStep
<1>3. CASE Login!GoBack \/ Login!DismissWarning \/ Login!Logout \/ Login!Restart
  BY <1>3, ScreenStep
<1>4. ASSUME NEW e \in Login!Emails \ {BadAddress}, NEW p \in Login!Passwords,
             Login!LogIn(e, p)
      PROVE  LoginInv'
  <2>1. CASE e # Empty /\ p # Empty
    <3>1. e \in Account /\ Login!Send("login", e) /\ form # "list"
      BY <1>4, <2>1 DEF Login!LogIn, Login!Emails
    <3> QED BY <3>1, SendStep
  <2>2. CASE ~ (e # Empty /\ p # Empty)
    <3>1. Login!ShowWarning
      BY <1>4, <2>2 DEF Login!LogIn
    <3> QED BY <3>1, ScreenStep
  <2> QED BY <2>1, <2>2
<1>5. ASSUME NEW e \in Login!Emails, NEW p1 \in Login!Passwords, NEW p2 \in Login!Passwords,
             Login!Register(e, p1, p2)
      PROVE  LoginInv'
  <2>1. CASE e \notin {Empty, BadAddress} /\ p1 = p2 /\ p1 = "long"
    <3>1. e \in Account /\ Login!Send("register", e) /\ form # "list"
      BY <1>5, <2>1 DEF Login!Register, Login!Emails
    <3> QED BY <3>1, SendStep
  <2>2. CASE ~ (e \notin {Empty, BadAddress} /\ p1 = p2 /\ p1 = "long")
    <3>1. Login!ShowWarning
      BY <1>5, <2>2 DEF Login!Register
    <3> QED BY <3>1, ScreenStep
  <2> QED BY <2>1, <2>2
<1>6. ASSUME NEW r \in requests, Login!AccountCreated(r) PROVE LoginInv'
  BY <1>6, CreatedStep
<1>7. ASSUME NEW r \in requests, Login!LoginSucceeds(r) \/ Login!AccountRetrieved(r)
      PROVE  LoginInv'
  <2>1. r.account \in Account /\ r.account # NoUser /\ r.account \in Login!User
    BY <1>a DEF Login!Request, Login!AccountAssumption, Login!User
  <2>2. /\ Login!Complete(r, FALSE, r.account) /\ currentUser' = r.account
        /\ UNCHANGED <<exists, infoFailed>>
        /\ UNCHANGED <<form, alert, listUser, visit, sentRequests, crashed, documents,
                       overlapped>>
    BY <1>7 DEF Login!LoginSucceeds, Login!AccountRetrieved, Login!SignIn,
                Login!UpdateCurrentUser, Login!screen
  <2> QED BY <1>a, <2>1, <2>2, CompleteStep
<1>8. ASSUME NEW r \in requests, Login!RetrievalFails(r) PROVE LoginInv'
  <2>1. /\ Login!Complete(r, FALSE, NoUser) /\ currentUser' = NoUser /\ infoFailed'
        /\ infoFailed' \in BOOLEAN /\ UNCHANGED exists
        /\ UNCHANGED <<form, alert, listUser, visit, sentRequests, crashed, documents,
                       overlapped>>
    BY <1>8 DEF Login!RetrievalFails, Login!SignIn, Login!UpdateCurrentUser, Login!screen
  <2>2. NoUser \in Login!User
    BY DEF Login!User
  <2> QED BY <1>a, <2>1, <2>2, CompleteStep
<1>9. ASSUME NEW r \in requests, Login!RequestFails(r) PROVE LoginInv'
  <2>1. /\ Login!Complete(r, TRUE, NoUser)
        /\ exists' \in {exists} \cup (IF r.kind = "register"
                                      THEN {exists \cup {r.account}} ELSE {})
        /\ UNCHANGED <<currentUser, infoFailed>>
        /\ UNCHANGED <<form, alert, listUser, visit, sentRequests, crashed, documents,
                       overlapped>>
    BY <1>9 DEF Login!RequestFails, Login!screen, Login!history
  <2>2. NoUser \in Login!User /\ exists' \subseteq Account
    BY <1>a, <2>1 DEF Login!User, Login!Request
  <2> QED BY <1>a, <2>1, <2>2, CompleteStep
<1>10. CASE Login!RunCompletion
  BY <1>10, CompletionStep
<1> QED BY <1>1, <1>2, <1>3, <1>4, <1>5, <1>6, <1>7, <1>8, <1>9, <1>10 DEF Login!Next

(* The invariant of logging in, registering and logging out.               *)
LEMMA LoginAlways == PartsSpec => []LoginInv
<1>1. Login!Init => LoginInv
  <2> SUFFICES ASSUME Login!Init PROVE LoginInv
    OBVIOUS
  <2>1. <<>> \in Seq(Login!Completion) /\ NoUser \in Login!User
    BY EmptySeq DEF Login!User
  <2> QED BY <2>1 DEF Login!Init, LoginInv, Login!TypeOK, OneRequest,
                      Login!ListOfCurrentUser, Login!OwnDocument
<1>2. LoginInv /\ [Login!Next]_(Login!vars) => LoginInv'
  BY PartsAssumption, LoginStep
<1> QED BY <1>1, <1>2, PartsRun, PTL DEF Login!Spec

(* The list in front is that of the user who is signed in, whatever was    *)
(* tapped, left or refused before, as long as no requests overlap.         *)
THEOREM ListIsOfCurrentUser == PartsSpec => []ListOfCurrentUser
<1>1. LoginInv => ListOfCurrentUser
  BY DEF LoginInv, ListOfCurrentUser
<1> QED BY <1>1, LoginAlways, PTL

(* A registration creates the document of its own account, and its         *)
(* completion finds nobody signed in only if the account could not be      *)
(* read.                                                                   *)
THEOREM DocumentIsOwn == PartsSpec => []OwnDocument
<1>1. LoginInv => OwnDocument
  BY DEF LoginInv, OwnDocument
<1> QED BY <1>1, LoginAlways, PTL

-----------------------------------------------------------------------------
(* What a sequence keeps of another when that one grows, and what is left  *)
(* of one when an element goes.                                            *)
LEMMA Itself ==
  ASSUME NEW S, NEW q \in Seq(S)
  PROVE  List!IsPrefix(q, q)
<1>1. Len(q) \in Nat
  BY LenProperties
<1> QED BY <1>1 DEF List!IsPrefix

(* A prefix stays one when the sequence grows.                             *)
LEMMA StaysPrefix ==
  ASSUME NEW S, NEW p \in Seq(S), NEW q \in Seq(S), NEW r \in Seq(S), List!IsPrefix(p, q)
  PROVE  List!IsPrefix(p, q \o r)
<1>1. /\ Len(p) \in Nat /\ Len(q) \in Nat /\ Len(r) \in Nat
      /\ q \o r \in Seq(S) /\ Len(q \o r) = Len(q) + Len(r)
      /\ Len(p) <= Len(q)
      /\ SubSeq(p, 1, Len(p)) = SubSeq(q, 1, Len(p))
  BY LenProperties, ConcatProperties DEF List!IsPrefix
<1>2. CASE Len(p) = 0
  <2>1. 1 \in Int /\ Len(p) \in Int /\ Len(p) < 1 /\ Len(p) <= Len(q) + Len(r)
    BY <1>1, <1>2
  <2>2. SubSeq(p, 1, Len(p)) = <<>> /\ SubSeq(q \o r, 1, Len(p)) = <<>>
    BY <2>1, SubSeqEmpty
  <2> QED BY <1>1, <2>1, <2>2 DEF List!IsPrefix
<1>3. CASE Len(p) # 0
  <2>1. 1 \in 1 .. Len(q) /\ Len(p) \in 1 .. Len(q) /\ Len(p) <= Len(q) + Len(r)
    BY <1>1, <1>3
  <2>2. SubSeq(q \o r, 1, Len(p)) = SubSeq(q, 1, Len(p))
    BY <2>1, SubSeqOfConcat1
  <2> QED BY <1>1, <2>1, <2>2 DEF List!IsPrefix
<1> QED BY <1>2, <1>3

(* RemoveAt gives a sequence of the same elements.                         *)
LEMMA Removed ==
  ASSUME NEW S, NEW q \in Seq(S), NEW i \in DOMAIN q
  PROVE  List!RemoveAt(q, i) \in Seq(S)
<1>1. Len(q) \in Nat /\ DOMAIN q = 1 .. Len(q) /\ \A k \in 1 .. Len(q) : q[k] \in S
  BY LenProperties, ElementOfSeq
<1>2. /\ i \in Int /\ i - 1 \in Int /\ i + 1 \in Int /\ 1 \in Int /\ Len(q) \in Int
      /\ \A k \in 1 .. i - 1 : q[k] \in S
      /\ \A k \in i + 1 .. Len(q) : q[k] \in S
  BY <1>1
<1>3. SubSeq(q, 1, i - 1) \in Seq(S)
  BY <1>2, SubSeqProperties
<1>4. SubSeq(q, i + 1, Len(q)) \in Seq(S)
  BY <1>2, SubSeqProperties
<1> QED BY <1>3, <1>4, ConcatProperties DEF List!RemoveAt

(* A reload shows the front table what the array holds.                    *)
LEMMA Reloaded ==
  ASSUME ListInv, front # "home", NEW rows \in Seq(Row), List!Reload(rows)
  PROVE  /\ table' \in Seq(Seq(Row)) /\ Len(table') = Len(table)
         /\ DOMAIN table' = DOMAIN table
         /\ table'[Len(table')] = rows
<1>1. table \in Seq(Seq(Row)) /\ Len(table) \in Nat /\ Len(table) > 0
  BY LenProperties DEF ListInv, List!TypeOK
<1>2. Len(table) \in 1 .. Len(table)
  BY <1>1
<1>3. table' = [table EXCEPT ![Len(table)] = rows]
  BY DEF List!Reload, List!Current
<1> QED BY <1>1, <1>2, <1>3, ExceptSeq

(* A step of the list keeps its invariant.                                 *)
LEMMA ListStep ==
  ASSUME List!BoundsAssumption, ListInv, [List!Next]_(List!vars)
  PROVE  ListInv'
<1> DEFINE Typed ==
      /\ array \in Seq(Row) /\ table \in Seq(Seq(Row)) /\ pictures \in Seq(Pictured)
      /\ Len(table) \in Nat /\ DOMAIN table = 1 .. Len(table)
      /\ Len(table) <= MaxLogins /\ MaxLogins \in Nat
<1>a. Typed
  BY LenProperties DEF ListInv, List!TypeOK, List!Current, List!BoundsAssumption
<1> USE DEF ListInv, List!TypeOK, List!Current, List!Screen,
            List!ShownIsStored, List!BarsComeBack
<1>1. CASE UNCHANGED List!vars
  BY <1>1 DEF List!vars, List!bars
<1>2. CASE List!ShowShoppingListView
  <2>1. /\ front = "home" /\ Len(table) < MaxLogins
        /\ table' = Append(table, array) /\ querying' = querying \cup {Len(table) + 1}
        /\ front' = "list" /\ pictures' = <<>>
        /\ navigationBarHidden' = FALSE /\ tabBarHidden' = FALSE
        /\ UNCHANGED <<array, inSettings>>
    BY <1>2 DEF List!ShowShoppingListView
  <2>2. /\ table' \in Seq(Seq(Row)) /\ Len(table') = Len(table) + 1
        /\ table'[Len(table) + 1] = array /\ DOMAIN table' = 1 .. Len(table) + 1
    BY <1>a, <2>1, Appended
  <2>3. querying' \subseteq 1 .. Len(table) + 1 /\ 1 .. Len(table) + 1 \subseteq 1 .. MaxLogins
    <3>1. querying \subseteq 1 .. Len(table)
      BY <1>a
    <3>2. /\ 1 .. Len(table) \subseteq 1 .. Len(table) + 1
          /\ Len(table) + 1 \in 1 .. Len(table) + 1
      BY <1>a
    <3>3. \A k \in 1 .. Len(table) + 1 : k \in 1 .. MaxLogins
      BY <1>a, <2>1
    <3> QED BY <2>1, <3>1, <3>2, <3>3
  <2>4. List!IsPrefix(array, array) /\ <<>> \in Seq(Pictured)
    BY <1>a, Itself, EmptySeq
  <2>5. Len(table') <= MaxLogins /\ Len(table') > 0
    BY <1>a, <2>1, <2>2
  <2> QED BY <2>1, <2>2, <2>3, <2>4, <2>5
<1>3. ASSUME NEW c \in querying, List!GetNothing(c) PROVE ListInv'
  BY <1>3 DEF List!GetNothing, List!bars
<1>4. ASSUME NEW c \in querying, NEW items \in List!Answers, List!GetItems(c, items)
      PROVE  ListInv'
  <2>1. /\ array' = array \o items /\ table' = [table EXCEPT ![c] = array \o items]
        /\ querying' = querying \ {c}
        /\ UNCHANGED <<front, inSettings, pictures, navigationBarHidden, tabBarHidden>>
    BY <1>4 DEF List!GetItems, List!AddRows, List!bars
  <2>2. items \in Seq(Row)
    <3>1. PICK n \in 0 .. 2 : items \in [1 .. n -> Row]
      BY DEF List!Answers
    <3>2. n \in Nat
      BY <3>1
    <3> QED BY <3>1, <3>2
  <2>3. array' \in Seq(Row)
    BY <1>a, <2>1, <2>2, ConcatProperties
  <2>4. /\ table' \in Seq(Seq(Row)) /\ Len(table') = Len(table)
        /\ DOMAIN table' = DOMAIN table
        /\ \A k \in 1 .. Len(table) : table'[k] = IF k = c THEN array' ELSE table[k]
    BY <1>a, <2>1, <2>3, ExceptSeq, LenProperties
  <2>5. front \notin {"home", "leaving"} => List!IsPrefix(table'[Len(table)], array')
    <3> SUFFICES ASSUME front \notin {"home", "leaving"}
                 PROVE  List!IsPrefix(table'[Len(table)], array')
      OBVIOUS
    <3>1. Len(table) \in 1 .. Len(table) /\ List!IsPrefix(table[Len(table)], array)
      BY <1>a
    <3>2. table[Len(table)] \in Seq(Row)
      BY <1>a, <3>1, ElementOfSeq
    <3>3. List!IsPrefix(table[Len(table)], array')
      BY <1>a, <2>1, <2>2, <3>1, <3>2, StaysPrefix
    <3> QED BY <2>3, <2>4, <3>1, <3>3, Itself
  <2> QED BY <1>a, <2>1, <2>3, <2>4, <2>5
<1>5. ASSUME NEW r \in Row, List!AddItemToArray(r) PROVE ListInv'
  <2>1. /\ array' = Append(array, r) /\ front = "add"
        /\ UNCHANGED <<table, querying, front, inSettings, pictures>>
        /\ UNCHANGED <<navigationBarHidden, tabBarHidden>>
    BY <1>5 DEF List!AddItemToArray, List!bars
  <2>2. array' = array \o <<r>> /\ <<r>> \in Seq(Row) /\ array' \in Seq(Row)
    BY <1>a, <2>1, AppendIsConcat, AppendProperties
  <2>3. Len(table) \in 1 .. Len(table) /\ List!IsPrefix(table[Len(table)], array)
    BY <1>a, <2>1
  <2>4. table[Len(table)] \in Seq(Row)
    BY <1>a, <2>3, ElementOfSeq
  <2>5. List!IsPrefix(table[Len(table)], array')
    BY <1>a, <2>2, <2>3, <2>4, StaysPrefix
  <2> QED BY <2>1, <2>2, <2>5
<1>6. ASSUME NEW i \in 1 .. MaxRows, List!DeleteRow(i) PROVE ListInv'
  <2>1. /\ front = "list" /\ i \in DOMAIN array /\ array' = List!RemoveAt(array, i)
        /\ List!Reload(array')
        /\ UNCHANGED <<querying, front, inSettings, pictures>>
        /\ UNCHANGED <<navigationBarHidden, tabBarHidden>>
    BY <1>6 DEF List!DeleteRow, List!bars
  <2>2. array' \in Seq(Row) /\ List!IsPrefix(array', array')
    BY <1>a, <2>1, Removed, Itself
  <2>3. /\ table' \in Seq(Seq(Row)) /\ Len(table') = Len(table)
        /\ DOMAIN table' = DOMAIN table /\ table'[Len(table')] = array'
    BY <2>1, <2>2, Reloaded
  <2> QED BY <2>1, <2>2, <2>3
<1>7. ASSUME NEW i \in 1 .. MaxRows, List!HighlightRow(i) PROVE ListInv'
  <2>1. /\ array[i] \in Pictured /\ pictures' = Append(pictures, array[i])
        /\ front = "list" /\ navigationBarHidden' = TRUE /\ tabBarHidden' = TRUE
        /\ UNCHANGED <<array, table, querying, front, inSettings>>
    BY <1>7 DEF List!HighlightRow
  <2>2. Append(pictures, array[i]) \in Seq(Pictured) /\ Append(pictures, array[i]) # <<>>
    <3>1. pictures \in Seq(Pictured)
      BY <1>a
    <3>2. ASSUME NEW x \in Pictured
          PROVE  Append(pictures, x) \in Seq(Pictured) /\ Append(pictures, x) # <<>>
      <4> DEFINE images == Pictured
      <4>1. pictures \in Seq(images) /\ x \in images
        BY <3>1
      <4> HIDE DEF images
      <4>2. Append(pictures, x) \in Seq(images) /\ Append(pictures, x) # <<>>
        BY <4>1, Appended
      <4> QED BY <4>2 DEF images
    <3> QED BY <2>1, <3>2
  <2>3. pictures' \in Seq(Pictured) /\ pictures' # <<>>
    BY <2>1, <2>2
  <2> QED BY <2>1, <2>3
<1>8. ASSUME NEW k \in DOMAIN pictures, List!HideFullscreenImage(k) PROVE ListInv'
  <2>1. List!RemoveAt(pictures, k) \in Seq(Pictured)
    BY <1>a, Removed
  <2> QED BY <1>8, <2>1 DEF List!HideFullscreenImage
<1>9. ASSUME front # "home", List!ListAppears,
             UNCHANGED <<array, querying, pictures, navigationBarHidden>>,
             inSettings' \in BOOLEAN, ~navigationBarHidden
      PROVE  ListInv'
  <2>1. front' = "list" /\ tabBarHidden' = FALSE /\ List!Reload(array)
    BY <1>9 DEF List!ListAppears
  <2>2. /\ table' \in Seq(Seq(Row)) /\ Len(table') = Len(table)
        /\ DOMAIN table' = DOMAIN table /\ table'[Len(table')] = array'
    BY <1>a, <1>9, <2>1, Reloaded
  <2>3. List!IsPrefix(array', array')
    BY <1>a, <1>9, Itself
  <2> QED BY <1>9, <2>1, <2>2, <2>3
<1>10. CASE List!SelectAddItem
  BY <1>10 DEF List!SelectAddItem, List!bars
<1>11. CASE List!SelectShoppingList
  <2>1. CASE inSettings
    BY <1>11, <2>1 DEF List!SelectShoppingList
  <2>2. CASE ~inSettings
    BY <1>9, <1>11, <2>2 DEF List!SelectShoppingList
  <2> QED BY <2>1, <2>2
<1>12. CASE List!OpenSettings
  BY <1>12 DEF List!OpenSettings
<1>13. CASE List!CloseSettings
  BY <1>9, <1>13 DEF List!CloseSettings
<1>14. CASE List!SwipeBackGivenUp
  BY <1>14 DEF List!SwipeBackGivenUp
<1>15. CASE List!LogoutPressed
  <2>1. <<>> \in Seq(Row)
    BY EmptySeq
  <2> QED BY <1>15, <2>1 DEF List!LogoutPressed, List!bars
<1>16. CASE List!ShowHome
  BY <1>16 DEF List!ShowHome, List!bars
<1> QED BY <1>1, <1>2, <1>3, <1>4, <1>5, <1>6, <1>7, <1>8, <1>10, <1>11, <1>12, <1>13,
           <1>14, <1>15, <1>16 DEF List!Next

(* The invariant of the list.                                              *)
LEMMA ListAlways == PartsSpec => []ListInv
<1>1. List!Init => ListInv
  <2> SUFFICES ASSUME List!Init PROVE ListInv
    OBVIOUS
  <2>1. <<>> \in Seq(Row) /\ <<>> \in Seq(Seq(Row)) /\ <<>> \in Seq(Pictured)
    BY EmptySeq
  <2>2. Len(table) = 0 /\ 0 <= MaxLogins
    BY PartsAssumption DEF List!Init, List!BoundsAssumption
  <2> QED BY <2>1, <2>2 DEF List!Init, ListInv, List!TypeOK, List!Current,
                            List!ShownIsStored, List!BarsComeBack
<1>2. ListInv /\ [List!Next]_(List!vars) => ListInv'
  BY PartsAssumption, ListStep
<1> QED BY <1>1, <1>2, PartsRun, PTL DEF List!Spec

(* Each row of the front table is the array's item at that index, whatever *)
(* this screen and older ones have appended, deleted or cleared.           *)
THEOREM ListShowsStored == PartsSpec => []ShownIsStored
<1>1. ListInv => ShownIsStored
  BY DEF ListInv, ShownIsStored
<1> QED BY <1>1, ListAlways, PTL

(* A hidden bar can be brought back, although pictures are stacked and     *)
(* each handler switches the bars on its own.                              *)
THEOREM BarsAlwaysComeBack == PartsSpec => []BarsComeBack
<1>1. ListInv => BarsComeBack
  BY DEF ListInv, BarsComeBack
<1> QED BY <1>1, ListAlways, PTL

-----------------------------------------------------------------------------
(* A callback put on the worker queue, and one taken off it.               *)
LEMMA Queued ==
  ASSUME NEW q \in Seq(Call!Outcome), NEW o \in Call!Outcome, Distinct(q),
         o.completion \notin Waiting(q)
  PROVE  LET a == Append(q, o)
         IN  /\ a \in Seq(Call!Outcome) /\ Distinct(a)
             /\ Waiting(a) = Waiting(q) \cup {o.completion}
<1> DEFINE a == Append(q, o)
<1>1. /\ a \in Seq(Call!Outcome) /\ Len(q) \in Nat
      /\ DOMAIN q = 1 .. Len(q) /\ DOMAIN a = 1 .. Len(q) + 1
      /\ \A k \in DOMAIN q : k \in DOMAIN a /\ a[k] = q[k]
      /\ a[Len(q) + 1] = o
      /\ \A k \in DOMAIN a : k \in DOMAIN q \/ k = Len(q) + 1
  BY Appended
<1> HIDE DEF a
<1>2. Len(q) + 1 \in DOMAIN a /\ Len(q) + 1 \notin DOMAIN q
  BY <1>1
<1>3. Waiting(a) = Waiting(q) \cup {o.completion}
  <2>1. Waiting(a) \subseteq Waiting(q) \cup {o.completion}
    BY <1>1 DEF Waiting
  <2>2. Waiting(q) \subseteq Waiting(a)
    BY <1>1 DEF Waiting
  <2>3. o.completion \in Waiting(a)
    BY <1>1, <1>2 DEF Waiting
  <2> QED BY <2>1, <2>2, <2>3
<1>4. Distinct(a)
  <2> SUFFICES ASSUME NEW j \in DOMAIN a, NEW k \in DOMAIN a,
                      a[j].completion = a[k].completion
               PROVE  j = k
    BY DEF Distinct
  <2>1. CASE j \in DOMAIN q /\ k \in DOMAIN q
    BY <1>1, <2>1 DEF Distinct
  <2>2. \A i \in DOMAIN q : a[i].completion # o.completion
    BY <1>1 DEF Waiting
  <2> QED BY <1>1, <2>1, <2>2
<1> QED BY <1>1, <1>3, <1>4 DEF a

(* The one taken off waits no more.                                        *)
LEMMA Dequeued ==
  ASSUME NEW q \in Seq(Call!Outcome), q # <<>>, Distinct(q)
  PROVE  LET t == Tail(q)
             c == Head(q).completion
         IN  /\ t \in Seq(Call!Outcome) /\ Distinct(t) /\ Head(q) \in Call!Outcome
             /\ Waiting(t) = Waiting(q) \ {c} /\ c \in Waiting(q)
<1> DEFINE t == Tail(q)
           c == Head(q).completion
<1>1. /\ t \in Seq(Call!Outcome) /\ DOMAIN q = 1 .. Len(q) /\ 1 \in DOMAIN q
      /\ Head(q) = q[1] /\ Head(q) \in Call!Outcome
      /\ \A k \in DOMAIN t : k \in Nat /\ k + 1 \in DOMAIN q /\ t[k] = q[k + 1]
      /\ \A k \in DOMAIN q : k = 1 \/ k - 1 \in DOMAIN t
      /\ Len(q) \in Nat /\ DOMAIN t = 1 .. Len(q) - 1
  BY Shortened
<1>2. \A k \in DOMAIN t : k + 1 # 1
  BY <1>1
<1>3. \A k \in DOMAIN q : (k - 1) + 1 = k
  BY <1>1
<1>4. c = q[1].completion
  BY <1>1
<1> HIDE DEF t, c
<1>5. Waiting(t) \subseteq Waiting(q) \ {c}
  <2> SUFFICES ASSUME NEW k \in DOMAIN t
               PROVE  t[k].completion \in Waiting(q) /\ t[k].completion # c
    BY DEF Waiting
  <2>1. k + 1 \in DOMAIN q /\ t[k] = q[k + 1] /\ k + 1 # 1
    BY <1>1, <1>2
  <2>2. t[k].completion \in Waiting(q)
    BY <2>1 DEF Waiting
  <2>3. q[k + 1].completion # q[1].completion
    BY <1>1, <2>1 DEF Distinct
  <2> QED BY <1>4, <2>1, <2>2, <2>3
<1>6. Waiting(q) \ {c} \subseteq Waiting(t)
  <2> SUFFICES ASSUME NEW k \in DOMAIN q, q[k].completion # c
               PROVE  q[k].completion \in Waiting(t)
    BY DEF Waiting
  <2>1. k - 1 \in DOMAIN t /\ t[k - 1] = q[k]
    BY <1>1, <1>3, <1>4
  <2> QED BY <2>1 DEF Waiting
<1>7. Distinct(t)
  <2> SUFFICES ASSUME NEW j \in DOMAIN t, NEW k \in DOMAIN t,
                      t[j].completion = t[k].completion
               PROVE  j = k
    BY DEF Distinct
  <2>1. j + 1 = k + 1
    BY <1>1 DEF Distinct
  <2> QED BY <1>1, <2>1
<1>8. c \in Waiting(q)
  BY <1>1, <1>4 DEF Waiting
<1> QED BY <1>1, <1>5, <1>6, <1>7, <1>8 DEF t, c

(* Operations that are not under way are given to gRPC.                    *)
LEMMA NoneTaken ==
  ASSUME Once, NEW N, N \cap Call!Underway = {}, inGrpc' = inGrpc \cup N,
         UNCHANGED <<poller, callbacks>>
  PROVE  Once' /\ Call!Underway' = Call!Underway \cup N
<1>1. /\ AtPoller' = AtPoller /\ Waiting(callbacks)' = Waiting(callbacks)
      /\ Distinct(callbacks)' <=> Distinct(callbacks)
  BY DEF AtPoller, Waiting, Distinct
<1>2. /\ Call!Underway = inGrpc \cup AtPoller \cup Waiting(callbacks)
      /\ Call!Underway' = inGrpc' \cup AtPoller' \cup Waiting(callbacks)'
  BY DEF Call!Underway, AtPoller, Waiting
<1> QED BY <1>1, <1>2 DEF Once

(* The first callback runs, and operations other than those still under    *)
(* way are given to gRPC.                                                  *)
LEMMA OneTaken ==
  ASSUME Once, callbacks \in Seq(Call!Outcome), callbacks # <<>>,
         callbacks' = Tail(callbacks), UNCHANGED poller,
         NEW N, inGrpc' = inGrpc \cup N,
         N \cap (Call!Underway \ {Head(callbacks).completion}) = {}
  PROVE  /\ Once' /\ callbacks' \in Seq(Call!Outcome)
         /\ Call!Underway' = (Call!Underway \ {Head(callbacks).completion}) \cup N
<1> DEFINE c == Head(callbacks).completion
           W == Waiting(Tail(callbacks))
<1>1. /\ callbacks' \in Seq(Call!Outcome) /\ Distinct(Tail(callbacks))
      /\ W = Waiting(callbacks) \ {c} /\ c \in Waiting(callbacks)
  BY Dequeued DEF Once
<1>2. AtPoller' = AtPoller /\ Waiting(callbacks)' = W /\ Distinct(callbacks)'
  BY <1>1 DEF AtPoller, Waiting, Distinct
<1>3. /\ Call!Underway = inGrpc \cup AtPoller \cup Waiting(callbacks)
      /\ Call!Underway' = inGrpc' \cup AtPoller' \cup Waiting(callbacks)'
  BY DEF Call!Underway, AtPoller, Waiting
<1> HIDE DEF c, W
<1>4. c \notin inGrpc /\ c \notin AtPoller
  BY <1>1 DEF Once
<1>5. Call!Underway' = (Call!Underway \ {c}) \cup N
  BY <1>1, <1>2, <1>3, <1>4
<1>6. N \cap (Call!Underway \ {c}) = {}
  BY DEF c
<1>7. Once'
  BY <1>1, <1>2, <1>3, <1>4, <1>6 DEF Once
<1> QED BY <1>1, <1>5, <1>7 DEF c

(* These operations, none of them under way, are given to gRPC.            *)
Issued(U, N) ==
  /\ N \subseteq Call!Completion /\ N \cap U = {} /\ inGrpc' = inGrpc \cup N
  /\ Numbered(U \cup N, active', Len(sent'), finishes')

(* A write may start: the first buffered message is given to gRPC, and it  *)
(* is the only write there.                                                *)
LEMMA MaybeWriteStep ==
  ASSUME sent \in Seq(Nat), NEW U, U \subseteq Call!Completion,
         Numbered(U, active, Len(sent), finishes),
         NEW q \in Seq(Nat), NEW a \in BOOLEAN, a => active,
         \A c \in U : c.type = "write" => a,
         NEW K, Call!MaybeWrite(q, a, K), finishes' = finishes,
         \A k \in DOMAIN sent : sent[k] = k,
         \A k \in DOMAIN q : q[k] = Len(sent) + k,
         written' = Len(sent) + Len(q)
  PROVE  /\ \E N : Issued(U, N) /\ completions' = K \cup N
         /\ queue' \in Seq(Nat) /\ sent' \in Seq(Nat) /\ active' \in BOOLEAN
         /\ Buffered'
<1>w. PICK w : w = Call!WriteCompletion
  OBVIOUS
<1>a. /\ Len(sent) \in Nat /\ DOMAIN sent = 1 .. Len(sent)
      /\ Len(q) \in Nat /\ DOMAIN q = 1 .. Len(q)
  BY LenProperties
<1>1. CASE Call!MayStartWrite(q, a)
  <2>1. /\ inGrpc' = inGrpc \cup {w} /\ completions' = K \cup {w}
        /\ sent' = Append(sent, Head(q)) /\ queue' = Tail(q) /\ active' = TRUE
        /\ q # <<>> /\ ~a
    BY <1>1, <1>w DEF Call!MaybeWrite, Call!Issue, Call!MayStartWrite
  <2>2. w.type = "write" /\ w.number = Len(sent) + 1 /\ w \in Call!Completion
    BY <1>a, <1>w DEF Call!WriteCompletion, Call!Completion
  <2>3. \A c \in U : c.type # "write"
    BY <2>1
  <2>4. /\ Tail(q) \in Seq(Nat) /\ DOMAIN Tail(q) = 1 .. Len(q) - 1
        /\ Len(Tail(q)) = Len(q) - 1 /\ Len(q) >= 1
        /\ Head(q) = q[1] /\ Head(q) \in Nat /\ 1 \in DOMAIN q
        /\ \A k \in DOMAIN Tail(q) : k \in Nat /\ k + 1 \in DOMAIN q /\ Tail(q)[k] = q[k + 1]
    BY <2>1, Shortened
  <2>5. Head(q) = Len(sent) + 1
    BY <2>4
  <2>6. /\ sent' \in Seq(Nat) /\ Len(sent') = Len(sent) + 1
        /\ DOMAIN sent' = 1 .. Len(sent) + 1
        /\ \A k \in DOMAIN sent : sent'[k] = sent[k]
        /\ sent'[Len(sent) + 1] = Head(q)
        /\ \A k \in DOMAIN sent' : k \in DOMAIN sent \/ k = Len(sent) + 1
    BY <2>1, <2>4, Appended
  <2>7. Buffered'
    <3>1. \A k \in DOMAIN sent' : sent'[k] = k
      BY <2>5, <2>6
    <3>2. ASSUME NEW k \in DOMAIN queue' PROVE queue'[k] = Len(sent') + k
      <4>1. k \in Nat /\ k + 1 \in DOMAIN q /\ queue'[k] = q[k + 1]
        BY <2>1, <2>4, <3>2
      <4>2. queue'[k] = Len(sent) + (k + 1)
        BY <4>1
      <4> QED BY <1>a, <2>6, <4>1, <4>2
    <3>3. Len(queue') = Len(q) - 1
      BY <2>1, <2>4
    <3>4. written' = Len(sent') + Len(queue')
      BY <1>a, <2>6, <3>3
    <3> QED BY <3>1, <3>2, <3>4 DEF Buffered
  <2>8. Numbered(U \cup {w}, active', Len(sent'), finishes')
    <3> SUFFICES
          /\ \A c \in U \cup {w} : \A d \in U \cup {w} :
               c.type = "read" /\ d.type = "read" => c = d
          /\ \A c \in U \cup {w} : c.type = "write" => active' /\ c.number = Len(sent')
          /\ \A c \in U \cup {w} : c.type = "finish" => c.number <= finishes'
      BY DEF Numbered
    <3>1. \A c \in U : c.type = "finish" => c.number <= finishes
      BY DEF Numbered
    <3>2. \A c \in U : \A d \in U : c.type = "read" /\ d.type = "read" => c = d
      BY DEF Numbered
    <3> QED BY <2>1, <2>2, <2>3, <2>6, <3>1, <3>2
  <2>9. {w} \cap U = {}
    BY <2>2, <2>3
  <2>10. Issued(U, {w}) /\ completions' = K \cup {w}
    BY <2>1, <2>2, <2>8, <2>9 DEF Issued
  <2> QED BY <2>1, <2>4, <2>6, <2>7, <2>10
<1>2. CASE ~Call!MayStartWrite(q, a)
  <2>1. /\ inGrpc' = inGrpc \cup {} /\ completions' = K \cup {}
        /\ queue' = q /\ active' = a /\ sent' = sent
    BY <1>2 DEF Call!MaybeWrite
  <2>2. Buffered'
    BY <2>1 DEF Buffered
  <2>3. Numbered(U \cup {}, active', Len(sent'), finishes')
    BY <2>1 DEF Numbered
  <2>4. Issued(U, {}) /\ completions' = K \cup {}
    BY <2>1, <2>3 DEF Issued
  <2> QED BY <2>1, <2>2, <2>4
<1> QED BY <1>1, <1>2

(* A stream that works is shut down, knowing all that is under way.        *)
LEMMA ShutdownStep ==
  ASSUME Call!TypeOK, NEW U, U \subseteq Call!Completion, inGrpc \subseteq U,
         Numbered(U, active, Len(sent), finishes),
         NEW end \in {"notify", "stop"}, Call!Shutdown(end, U),
         observer, callPhase = "open", cancelled = {},
         finishes = IF isFinishing THEN 1 ELSE 0,
         UNCHANGED <<isFinishing, active, sent>>
  PROVE  /\ \E N : Issued(U, N) /\ (Call!Underway' = U \cup N => Stopping' \/ Released')
         /\ callPhase' \in {"new", "open", "released"}
         /\ worker' \in {"nothing", "lastWrite", "notify", "stop"}
         /\ observer' \in BOOLEAN /\ callEnds' \in BOOLEAN /\ finishes' \in 0 .. 2
         /\ completions' \subseteq Call!Completion /\ cancelled' \subseteq Call!Completion
<1>a. isFinishing \in BOOLEAN /\ finishes \in {0, 1} /\ callEnds \in BOOLEAN
  BY DEF Call!TypeOK
<1>1. CASE U = {}
  <2>1. /\ observer' = FALSE /\ callPhase' = "released" /\ worker' = "nothing"
        /\ completions' = {} /\ UNCHANGED <<cancelled, callEnds, finishes>>
        /\ inGrpc' = inGrpc \cup {} /\ inGrpc' = {}
    BY <1>1 DEF Call!Shutdown, Call!Release
  <2>2. Numbered(U \cup {}, active', Len(sent'), finishes')
    BY <1>1 DEF Numbered
  <2>3. Call!Underway' = U \cup {} => Released'
    BY <1>1, <1>a, <2>1 DEF Released
  <2>4. finishes' = finishes /\ callEnds' = callEnds /\ cancelled' = cancelled
    BY <2>1, Zenon
  <2>5. /\ cancelled' = {} /\ callEnds' \in BOOLEAN /\ observer' \in BOOLEAN
        /\ finishes' \in {0, 1}
    BY <1>a, <2>1, <2>4, Zenon
  <2>6. inGrpc' = inGrpc \cup {}
    BY <2>1
  <2>7. Issued(U, {})
    BY <2>2, <2>6 DEF Issued
  <2>8. \E N : Issued(U, N) /\ (Call!Underway' = U \cup N => Stopping' \/ Released')
    BY <2>3, <2>7
  <2> QED BY <2>1, <2>5, <2>8
<1>2. CASE U # {}
  <2>w. PICK f : f = Call!FinishCompletion
    OBVIOUS
  <2>1. /\ completions' = U \cup {f} /\ inGrpc' = inGrpc \cup {f}
        /\ callEnds' = TRUE /\ finishes' = finishes + 1
        /\ cancelled' = U \cup {f} /\ worker' = end
        /\ UNCHANGED <<observer, callPhase>>
    BY <1>2, <2>w DEF Call!Shutdown, Call!Issue, Call!TryCancel, Call!Cancel
  <2>2. f \in Call!Completion /\ f.type = "finish" /\ f.number = finishes + 1
    BY <1>a, <2>w DEF Call!FinishCompletion, Call!Completion
  <2>3. f \notin U
    <3>1. \A c \in U : c.type = "finish" => c.number <= finishes
      BY DEF Numbered
    <3> QED BY <1>a, <2>2, <3>1
  <2>4. Numbered(U \cup {f}, active', Len(sent'), finishes')
    <3>1. \A c \in U : c.type = "finish" => c.number \in Nat /\ c.number <= finishes
      BY DEF Numbered, Call!Completion
    <3>2. \A c \in U : c.type = "finish" => c.number <= finishes'
      BY <1>a, <2>1, <3>1
    <3>3. f.number <= finishes'
      BY <1>a, <2>1, <2>2
    <3> QED BY <2>2, <3>2, <3>3 DEF Numbered
  <2>5. Call!Underway' = U \cup {f} => Stopping'
    <3>1. finishes' = IF isFinishing THEN 2 ELSE 1
      BY <1>a, <2>1
    <3> QED BY <2>1, <3>1 DEF Stopping
  <2>6. finishes' \in 0 .. 2
    BY <1>a, <2>1
  <2>7. Issued(U, {f})
    BY <2>1, <2>2, <2>3, <2>4 DEF Issued
  <2>8. callPhase' = "open" /\ observer'
    BY <2>1
  <2> QED BY <2>1, <2>2, <2>5, <2>6, <2>7, <2>8
<1> QED BY <1>1, <1>2

(* The stream starts with its first read.                                  *)
LEMMA StartStep ==
  ASSUME GrpcInv, Call!Start
  PROVE  GrpcInv'
<1>w. PICK r : r = Call!ReadCompletion(1)
  OBVIOUS
<1>1. /\ callPhase = "new" /\ callPhase' = "open" /\ worker = "nothing"
      /\ completions' = completions \cup {r} /\ inGrpc' = inGrpc \cup {r}
      /\ UNCHANGED <<observer, poller, callbacks, cancelled, worker>>
      /\ UNCHANGED <<queue, active, written, sent, isFinishing, callEnds, finishes>>
  BY <1>w DEF Call!Start, Call!Issue, Call!buffer, Call!WorkerIdle
<1>2. Fresh
  BY <1>1 DEF GrpcInv, Working, Stopping, Released
<1>3. r.type = "read" /\ r \in Call!Completion
  BY <1>w DEF Call!ReadCompletion, Call!Completion
<1>4. Once' /\ Call!Underway' = {r}
  <2>1. {r} \cap Call!Underway = {} /\ Call!Underway = {} /\ Once
    BY <1>2 DEF Fresh, GrpcInv
  <2> QED BY <1>1, <2>1, NoneTaken
<1>5. Call!TypeOK'
  BY <1>1, <1>3 DEF GrpcInv, Call!TypeOK
<1>6. Numbered(Call!Underway', active', Len(sent'), finishes')
  BY <1>3, <1>4 DEF Numbered
<1>7. Buffered'
  BY <1>1 DEF GrpcInv, Buffered
<1>8. Working'
  BY <1>1, <1>2, <1>3, <1>4 DEF Fresh, Working
<1> QED BY <1>4, <1>5, <1>6, <1>7, <1>8 DEF GrpcInv

(* A message is written: buffered, and perhaps given to gRPC.              *)
LEMMA WriteStep ==
  ASSUME GrpcInv, Working, worker' \in {"nothing", "lastWrite"},
         written' = written + 1,
         Call!MaybeWrite(Append(queue, written + 1), active, completions),
         UNCHANGED <<callPhase, observer, poller, callbacks, cancelled, isFinishing,
                     callEnds, finishes>>
  PROVE  GrpcInv'
<1>u. PICK U : U = Call!Underway
  OBVIOUS
<1> DEFINE q == Append(queue, written + 1)
<1>1. /\ Call!TypeOK /\ Once /\ Numbered(U, active, Len(sent), finishes) /\ Buffered
      /\ completions = U /\ completions \subseteq Call!Completion
      /\ sent \in Seq(Nat) /\ active \in BOOLEAN
  BY <1>u DEF GrpcInv, Working, Call!TypeOK
<1>2. /\ queue \in Seq(Nat) /\ written \in Nat /\ written + 1 \in Nat
      /\ Len(sent) \in Nat /\ DOMAIN sent = 1 .. Len(sent)
  BY LenProperties DEF GrpcInv, Call!TypeOK
<1>3. /\ q \in Seq(Nat) /\ Len(q) = Len(queue) + 1 /\ Len(queue) \in Nat
      /\ DOMAIN queue = 1 .. Len(queue) /\ DOMAIN q = 1 .. Len(queue) + 1
      /\ \A k \in DOMAIN queue : q[k] = queue[k]
      /\ q[Len(queue) + 1] = written + 1
      /\ \A k \in DOMAIN q : k \in DOMAIN queue \/ k = Len(queue) + 1
  BY <1>2, Appended
<1> HIDE DEF q
<1>4. written' = Len(sent) + Len(q) /\ \A k \in DOMAIN q : q[k] = Len(sent) + k
  <2>1. written = Len(sent) + Len(queue) /\ \A k \in DOMAIN queue : queue[k] = Len(sent) + k
    BY <1>1 DEF Buffered
  <2>2. written + 1 = Len(sent) + (Len(queue) + 1)
    BY <1>2, <1>3, <2>1
  <2> QED BY <1>3, <2>1, <2>2
<1>5. \A c \in U : c.type = "write" => active
  BY <1>1 DEF Numbered
<1>6. /\ \E N : Issued(U, N) /\ completions' = completions \cup N
      /\ queue' \in Seq(Nat) /\ sent' \in Seq(Nat) /\ active' \in BOOLEAN
      /\ Buffered'
  <2>1. \A k \in DOMAIN sent : sent[k] = k
    BY <1>1 DEF Buffered
  <2>2. Call!MaybeWrite(q, active, completions)
    BY DEF q
  <2>3. finishes' = finishes /\ U \subseteq Call!Completion
    BY <1>1
  <2>4. /\ sent \in Seq(Nat) /\ Numbered(U, active, Len(sent), finishes)
        /\ q \in Seq(Nat) /\ active \in BOOLEAN
    BY <1>1, <1>3
  <2> QED BY <1>4, <1>5, <2>1, <2>2, <2>3, <2>4, MaybeWriteStep
<1>a. PICK N : Issued(U, N) /\ completions' = completions \cup N
  BY <1>6
<1>7. Once' /\ Call!Underway' = U \cup N
  BY <1>1, <1>a, <1>u, NoneTaken DEF Issued
<1>8. Call!TypeOK'
  <2>1. written' \in Nat
    BY <1>2
  <2>2. completions' \subseteq Call!Completion /\ inGrpc' \subseteq Call!Completion
    BY <1>1, <1>a DEF Call!TypeOK, Issued
  <2> QED BY <1>1, <1>6, <2>1, <2>2 DEF Call!TypeOK
<1>9. Working'
  <2>1. completions' = Call!Underway'
    BY <1>1, <1>a, <1>7
  <2>2. ~isFinishing => \E c \in Call!Underway' : c.type = "read"
    BY <1>7, <1>u DEF Working
  <2> QED BY <2>1, <2>2 DEF Working
<1>10. Numbered(Call!Underway', active', Len(sent'), finishes')
  BY <1>a, <1>7 DEF Issued
<1> QED BY <1>6, <1>7, <1>8, <1>9, <1>10 DEF GrpcInv

(* A working stream is stopped by its observer or by the network, or after *)
(* its last write.                                                         *)
LEMMA StopStep ==
  ASSUME GrpcInv, Working, NEW end \in {"notify", "stop"}, Call!Shutdown(end, completions),
         written' \in Nat, queue' \in Seq(Nat), Buffered',
         UNCHANGED <<poller, callbacks, active, sent, isFinishing>>
  PROVE  GrpcInv'
<1>u. PICK U : U = Call!Underway
  OBVIOUS
<1>1. /\ Call!TypeOK /\ Once /\ Numbered(U, active, Len(sent), finishes)
      /\ completions = U /\ U \subseteq Call!Completion /\ inGrpc \subseteq U
      /\ observer /\ callPhase = "open" /\ cancelled = {}
      /\ finishes = IF isFinishing THEN 1 ELSE 0
  BY <1>u DEF GrpcInv, Working, Call!TypeOK, Call!Underway
<1>2. UNCHANGED <<isFinishing, active, sent>> /\ Call!Shutdown(end, U)
  BY <1>1
<1>3. /\ \E N : Issued(U, N) /\ (Call!Underway' = U \cup N => Stopping' \/ Released')
      /\ callPhase' \in {"new", "open", "released"}
      /\ worker' \in {"nothing", "lastWrite", "notify", "stop"}
      /\ observer' \in BOOLEAN /\ callEnds' \in BOOLEAN /\ finishes' \in 0 .. 2
      /\ completions' \subseteq Call!Completion /\ cancelled' \subseteq Call!Completion
  BY <1>1, <1>2, ShutdownStep
<1>4. PICK N : Issued(U, N) /\ (Call!Underway' = U \cup N => Stopping' \/ Released')
  BY <1>3
<1>5. Once' /\ Call!Underway' = U \cup N
  BY <1>1, <1>4, <1>u, NoneTaken DEF Issued
<1>6. Call!TypeOK'
  <2>1. inGrpc' \subseteq Call!Completion
    BY <1>1, <1>4 DEF Call!TypeOK, Issued
  <2>2. {active, isFinishing} \subseteq BOOLEAN /\ poller \in Call!Outcome \cup {NoOne}
        /\ callbacks \in Seq(Call!Outcome) /\ sent \in Seq(Nat)
    BY <1>1 DEF Call!TypeOK
  <2>3. {observer', active', isFinishing', callEnds'} \subseteq BOOLEAN
    BY <1>3, <2>2
  <2> QED BY <1>3, <2>1, <2>2, <2>3 DEF Call!TypeOK
<1>7. Numbered(Call!Underway', active', Len(sent'), finishes')
  BY <1>4, <1>5 DEF Issued
<1> QED BY <1>4, <1>5, <1>6, <1>7 DEF GrpcInv

(* The last write ends, or the observer or the network asks for the end.   *)
LEMMA AskedToStop ==
  ASSUME GrpcInv,
         Call!FinishImmediately \/ Call!ConnectivityChanged \/ Call!LastWriteEnds
  PROVE  GrpcInv'
<1>1. PICK end \in {"notify", "stop"} : Call!Shutdown(end, completions)
  BY DEF Call!FinishImmediately, Call!ConnectivityChanged, Call!LastWriteEnds
<1>2. /\ UNCHANGED <<poller, callbacks, queue, active, written, sent, isFinishing>>
      /\ worker = "lastWrite" \/ (worker = "nothing" /\ callPhase = "open")
  BY DEF Call!FinishImmediately, Call!ConnectivityChanged, Call!LastWriteEnds, Call!buffer,
         Call!WorkerIdle
<1>3. Working
  BY <1>2 DEF GrpcInv, Fresh, Stopping, Released
<1>4. written' \in Nat /\ queue' \in Seq(Nat) /\ Buffered'
  BY <1>2 DEF GrpcInv, Call!TypeOK, Buffered
<1> QED BY <1>1, <1>2, <1>3, <1>4, StopStep

(* The last message is written, or buffered behind a write under way.      *)
LEMMA WriteAndFinishStep ==
  ASSUME GrpcInv, Call!WriteAndFinish
  PROVE  GrpcInv'
<1> DEFINE q == Append(queue, written + 1)
<1>1. /\ worker = "nothing" /\ callPhase = "open" /\ written' = written + 1
      /\ UNCHANGED <<poller, callbacks, isFinishing>>
  BY DEF Call!WriteAndFinish, Call!WorkerIdle
<1>2. Working
  BY <1>1 DEF GrpcInv, Fresh, Stopping, Released
<1>3. CASE Call!MayStartWrite(q, active)
  <2>1. /\ Call!MaybeWrite(q, active, completions) /\ worker' = "lastWrite"
        /\ UNCHANGED <<observer, callPhase, cancelled, callEnds, finishes>>
    BY <1>3 DEF Call!WriteAndFinish
  <2>2. UNCHANGED <<callPhase, observer, poller, callbacks, cancelled, isFinishing,
                    callEnds, finishes>>
    BY <1>1, <2>1
  <2> QED BY <1>1, <1>2, <2>1, <2>2, WriteStep
<1>4. CASE ~Call!MayStartWrite(q, active)
  <2>1. Call!Shutdown("stop", completions) /\ queue' = q /\ UNCHANGED <<active, sent>>
    BY <1>4 DEF Call!WriteAndFinish
  <2>2. /\ queue \in Seq(Nat) /\ written \in Nat /\ written + 1 \in Nat /\ Len(sent) \in Nat
    BY LenProperties DEF GrpcInv, Call!TypeOK
  <2>3. /\ q \in Seq(Nat) /\ Len(q) = Len(queue) + 1 /\ Len(queue) \in Nat
        /\ \A k \in DOMAIN queue : q[k] = queue[k]
        /\ q[Len(queue) + 1] = written + 1
        /\ \A k \in DOMAIN q : k \in DOMAIN queue \/ k = Len(queue) + 1
    BY <2>2, Appended
  <2> HIDE DEF q
  <2>4. written = Len(sent) + Len(queue) /\ \A k \in DOMAIN queue : queue[k] = Len(sent) + k
    BY DEF GrpcInv, Buffered
  <2>5. written + 1 = Len(sent) + (Len(queue) + 1)
    BY <2>2, <2>3, <2>4
  <2>6. \A k \in DOMAIN sent : sent[k] = k
    BY DEF GrpcInv, Buffered
  <2>7. Buffered'
    BY <1>1, <2>1, <2>3, <2>4, <2>5, <2>6 DEF Buffered
  <2>8. written' \in Nat /\ queue' \in Seq(Nat)
        /\ UNCHANGED <<poller, callbacks, active, sent, isFinishing>>
    BY <1>1, <2>1, <2>2, <2>3
  <2> QED BY <1>2, <2>1, <2>7, <2>8, StopStep
<1> QED BY <1>3, <1>4

(* The stream is released once nothing it knows is in gRPC.                *)
LEMMA ShutdownEndsStep ==
  ASSUME GrpcInv, Call!ShutdownEnds
  PROVE  GrpcInv'
<1>1. /\ worker \in {"notify", "stop"} /\ completions \cap inGrpc = {}
      /\ ~(finishes > 1)
      /\ completions' = {} /\ observer' = FALSE /\ callPhase' = "released"
      /\ worker' = "nothing"
      /\ UNCHANGED <<inGrpc, poller, callbacks, cancelled>>
      /\ UNCHANGED <<queue, active, written, sent, isFinishing, callEnds, finishes>>
  BY DEF Call!ShutdownEnds, Call!Release, Call!OffQueue, Call!Aborted, Call!buffer
<1>2. Stopping /\ Call!TypeOK
  BY <1>1 DEF GrpcInv, Fresh, Working, Released
<1>3. Call!Underway' = Call!Underway
  BY <1>1 DEF Call!Underway
<1>4. finishes \in {0, 1}
  BY <1>1, <1>2 DEF Stopping, Call!TypeOK
<1>5. Released'
  BY <1>1, <1>2, <1>3, <1>4 DEF Stopping, Released
<1>6. Call!TypeOK'
  BY <1>1, <1>2 DEF Call!TypeOK
<1>7. Once' /\ Buffered'
  BY <1>1 DEF GrpcInv, Once, Buffered, AtPoller, Waiting, Distinct
<1>8. Numbered(Call!Underway', active', Len(sent'), finishes')
  BY <1>1, <1>3 DEF GrpcInv
<1> QED BY <1>5, <1>6, <1>7, <1>8 DEF GrpcInv

(* An operation changes its place, or none does, and the stream does not   *)
(* take notice.                                                            *)
LEMMA MoveStep ==
  ASSUME GrpcInv, Once', Call!Underway' = Call!Underway, inGrpc' \subseteq inGrpc,
         poller' \in Call!Outcome \cup {NoOne}, callbacks' \in Seq(Call!Outcome),
         callEnds' \in BOOLEAN,
         UNCHANGED <<callPhase, observer, completions, cancelled, worker>>,
         UNCHANGED <<queue, active, written, sent, isFinishing, finishes>>
  PROVE  GrpcInv'
<1>1. Call!TypeOK'
  <2>1. {observer, active, isFinishing} \subseteq BOOLEAN
    BY DEF GrpcInv, Call!TypeOK
  <2>2. {observer', active', isFinishing', callEnds'} \subseteq BOOLEAN
    BY <2>1
  <2> QED BY <2>2 DEF GrpcInv, Call!TypeOK
<1>2. Numbered(Call!Underway', active', Len(sent'), finishes') /\ Buffered'
  BY DEF GrpcInv, Buffered
<1>3. Fresh' \/ Working' \/ Stopping' \/ Released'
  <2>1. Fresh => Fresh'
    BY DEF Fresh
  <2>2. Working => Working'
    BY DEF Working
  <2>3. Stopping => Stopping'
    BY DEF Stopping
  <2>4. Released => Released'
    BY DEF Released
  <2> QED BY <2>1, <2>2, <2>3, <2>4 DEF GrpcInv
<1> QED BY <1>1, <1>2, <1>3 DEF GrpcInv

(* The connection breaks.                                                  *)
LEMMA CallBreaksStep ==
  ASSUME GrpcInv, Call!CallBreaks
  PROVE  GrpcInv'
<1>1. /\ callEnds' = TRUE
      /\ UNCHANGED <<callPhase, observer, completions, cancelled, worker>>
      /\ UNCHANGED <<queue, active, written, sent, isFinishing, finishes>>
      /\ UNCHANGED <<inGrpc, poller, callbacks>>
  BY DEF Call!CallBreaks, Call!buffer
<1>2. Once' /\ Call!Underway' = Call!Underway
  BY <1>1 DEF GrpcInv, Once, AtPoller, Waiting, Distinct, Call!Underway
<1>3. poller' \in Call!Outcome \cup {NoOne} /\ callbacks' \in Seq(Call!Outcome)
  BY <1>1 DEF GrpcInv, Call!TypeOK
<1> QED BY <1>1, <1>2, <1>3, MoveStep

(* The poller takes an operation from gRPC.                                *)
LEMMA CompleteOpStep ==
  ASSUME Call!NoOneAssumption, GrpcInv, NEW c \in inGrpc, Call!Complete(c)
  PROVE  GrpcInv'
<1>1. PICK ok \in BOOLEAN : poller' = [completion |-> c, ok |-> ok]
  <2>1. PICK ok \in Call!Outcomes(c) : poller' = Call!OutcomeOf(c, ok)
    BY DEF Call!Complete
  <2>2. c.type \in {"read", "write", "finish"}
    BY DEF GrpcInv, Call!TypeOK, Call!Completion
  <2>3. ok \in BOOLEAN
    BY <2>1, <2>2 DEF Call!Outcomes
  <2> QED BY <2>1, <2>3 DEF Call!OutcomeOf
<1>2. /\ poller = NoOne /\ inGrpc' = inGrpc \ {c}
      /\ UNCHANGED <<callPhase, observer, completions, callbacks, cancelled, worker>>
      /\ UNCHANGED <<queue, active, written, sent, isFinishing, callEnds, finishes>>
  BY DEF Call!Complete, Call!buffer
<1>3. /\ poller' \in Call!Outcome /\ poller'.completion = c
      /\ poller' # NoOne
  BY <1>1 DEF Call!Outcome, Call!NoOneAssumption, GrpcInv, Call!TypeOK
<1>4. AtPoller = {} /\ AtPoller' = {c}
  BY <1>2, <1>3 DEF AtPoller
<1>5. /\ Waiting(callbacks)' = Waiting(callbacks)
      /\ Distinct(callbacks)' <=> Distinct(callbacks)
  BY <1>2 DEF Waiting, Distinct
<1>6. Once'
  BY <1>2, <1>4, <1>5 DEF GrpcInv, Once
<1>7. Call!Underway' = Call!Underway
  <2>1. /\ Call!Underway = inGrpc \cup AtPoller \cup Waiting(callbacks)
        /\ Call!Underway' = inGrpc' \cup AtPoller' \cup Waiting(callbacks)'
    BY DEF Call!Underway, AtPoller, Waiting
  <2> QED BY <1>2, <1>4, <1>5, <2>1
<1>8. callbacks' \in Seq(Call!Outcome) /\ callEnds \in BOOLEAN
  BY <1>2 DEF GrpcInv, Call!TypeOK
<1>9. callEnds' \in BOOLEAN
  BY <1>2, <1>8
<1> QED BY <1>2, <1>3, <1>6, <1>7, <1>8, <1>9, MoveStep

(* The poller puts its callback on the worker queue.                       *)
LEMMA EnqueueStep ==
  ASSUME GrpcInv, Call!Enqueue
  PROVE  GrpcInv'
<1>1. /\ poller # NoOne /\ callbacks' = Append(callbacks, poller) /\ poller' = NoOne
      /\ UNCHANGED <<callPhase, observer, completions, cancelled, worker>>
      /\ UNCHANGED <<queue, active, written, sent, isFinishing, callEnds, finishes>>
      /\ UNCHANGED inGrpc
  BY DEF Call!Enqueue, Call!buffer
<1>2. poller \in Call!Outcome /\ callbacks \in Seq(Call!Outcome) /\ callEnds \in BOOLEAN
  BY <1>1 DEF GrpcInv, Call!TypeOK
<1>3. AtPoller = {poller.completion} /\ AtPoller' = {}
  BY <1>1 DEF AtPoller
<1>4. Distinct(callbacks) /\ poller.completion \notin Waiting(callbacks)
  BY <1>3 DEF GrpcInv, Once
<1>5. /\ callbacks' \in Seq(Call!Outcome) /\ Distinct(Append(callbacks, poller))
      /\ Waiting(Append(callbacks, poller)) = Waiting(callbacks) \cup {poller.completion}
  BY <1>1, <1>2, <1>4, Queued
<1>6. /\ Waiting(callbacks)' = Waiting(callbacks) \cup {poller.completion}
      /\ Distinct(callbacks)'
  BY <1>1, <1>5 DEF Waiting, Distinct
<1>7. Once'
  BY <1>1, <1>3, <1>6 DEF GrpcInv, Once
<1>8. Call!Underway' = Call!Underway
  <2>1. /\ Call!Underway = inGrpc \cup AtPoller \cup Waiting(callbacks)
        /\ Call!Underway' = inGrpc' \cup AtPoller' \cup Waiting(callbacks)'
    BY DEF Call!Underway, AtPoller, Waiting
  <2> QED BY <1>1, <1>3, <1>6, <2>1
<1>9. poller' \in Call!Outcome \cup {NoOne} /\ callEnds' \in BOOLEAN
  BY <1>1, <1>2
<1> QED BY <1>1, <1>5, <1>7, <1>8, <1>9, MoveStep

(* A callback has run, and the stream works on with what it has issued.    *)
LEMMA WorksOn ==
  ASSUME GrpcInv, Working, NEW U, NEW N, Issued(U, N), U \subseteq Call!Completion,
         completions' = U \cup N, Once', Call!Underway' = U \cup N,
         callbacks' \in Seq(Call!Outcome), Buffered',
         queue' \in Seq(Nat), sent' \in Seq(Nat),
         active' \in BOOLEAN, isFinishing' \in BOOLEAN,
         UNCHANGED <<callPhase, observer, poller, cancelled, worker, written, callEnds>>,
         finishes' = IF isFinishing' THEN 1 ELSE 0,
         ~isFinishing' => \E d \in U \cup N : d.type = "read"
  PROVE  GrpcInv'
<1>1. Call!TypeOK'
  <2>1. completions' \subseteq Call!Completion /\ inGrpc' \subseteq Call!Completion
    BY DEF Issued, GrpcInv, Call!TypeOK
  <2>2. finishes' \in 0 .. 2
    OBVIOUS
  <2>3. {observer, callEnds} \subseteq BOOLEAN
    BY DEF GrpcInv, Call!TypeOK
  <2>4. {observer', active', isFinishing', callEnds'} \subseteq BOOLEAN
    BY <2>3
  <2> QED BY <2>1, <2>2, <2>4 DEF GrpcInv, Call!TypeOK
<1>2. Working'
  BY DEF Working
<1>3. Numbered(Call!Underway', active', Len(sent'), finishes')
  BY DEF Issued
<1> QED BY <1>1, <1>2, <1>3 DEF GrpcInv

(* The worker queue runs a callback: the operation is under way no more.   *)
LEMMA RunCallbackStep ==
  ASSUME GrpcInv, Call!RunCallback
  PROVE  GrpcInv'
<1>h. PICK h : h = Head(callbacks)
  OBVIOUS
<1>c. PICK c : c = h.completion
  OBVIOUS
<1>u. PICK U : U = Call!Underway \ {c}
  OBVIOUS
<1>1. /\ callbacks # <<>> /\ callbacks' = Tail(callbacks) /\ UNCHANGED poller
      /\ worker = "nothing" /\ callbacks \in Seq(Call!Outcome) /\ Distinct(callbacks)
  BY DEF Call!RunCallback, Call!WorkerIdle, GrpcInv, Once, Call!TypeOK
<1>2. /\ h \in Call!Outcome /\ c \in Waiting(callbacks)
      /\ callbacks' \in Seq(Call!Outcome)
  BY <1>1, <1>c, <1>h, Dequeued
<1>3. c \in Call!Completion /\ c.type \in {"read", "write", "finish"} /\ c.number \in Nat
      /\ h.ok \in BOOLEAN
  BY <1>2, <1>c DEF Call!Outcome, Call!Completion
<1>4. c \in Call!Underway /\ c \notin inGrpc
  BY <1>2 DEF Call!Underway, Waiting, GrpcInv, Once
<1>5. Call!Underway \subseteq Call!Completion
  <2>1. inGrpc \subseteq Call!Completion /\ AtPoller \subseteq Call!Completion
    BY DEF GrpcInv, Call!TypeOK, AtPoller, Call!Outcome
  <2>2. \A k \in DOMAIN callbacks : callbacks[k] \in Call!Outcome
    BY <1>1, LenProperties, ElementOfSeq
  <2>3. Waiting(callbacks) \subseteq Call!Completion
    BY <2>2 DEF Waiting, Call!Outcome
  <2> QED BY <2>1, <2>3 DEF Call!Underway, AtPoller, Waiting
<1>6. /\ Call!TypeOK /\ Buffered /\ U \subseteq Call!Completion /\ inGrpc \subseteq U
      /\ Numbered(U, active, Len(sent), finishes)
      /\ Numbered(Call!Underway, active, Len(sent), finishes)
  BY <1>u, <1>4, <1>5 DEF GrpcInv, Numbered, Call!Underway
<1>7. ASSUME NEW N, Issued(U, N) PROVE Once' /\ Call!Underway' = U \cup N
  <2>1. N \cap (Call!Underway \ {Head(callbacks).completion}) = {} /\ inGrpc' = inGrpc \cup N
    BY <1>7, <1>u, <1>c, <1>h DEF Issued
  <2>2. Once
    BY DEF GrpcInv
  <2> QED BY <1>1, <1>u, <1>c, <1>h, <2>1, <2>2, OneTaken
<1>8. CASE c \in cancelled
  <2>1. /\ UNCHANGED <<callPhase, observer, completions, inGrpc, cancelled, worker>>
        /\ UNCHANGED <<queue, active, written, sent, isFinishing, callEnds, finishes>>
    BY <1>8, <1>c, <1>h DEF Call!RunCallback, Call!buffer
  <2>2. Released
    BY <1>1, <1>8 DEF GrpcInv, Fresh, Working, Stopping
  <2>3. Issued(U, {})
    BY <1>6, <2>1 DEF Issued
  <2>4. Once' /\ Call!Underway' = U
    BY <1>7, <2>3
  <2>5. Call!TypeOK' /\ Buffered'
    BY <1>1, <1>2, <1>6, <2>1 DEF Call!TypeOK, Buffered
  <2>6. Released'
    BY <1>u, <2>1, <2>2, <2>4 DEF Released
  <2>7. Numbered(Call!Underway', active', Len(sent'), finishes')
    BY <1>6, <2>1, <2>4
  <2> QED BY <2>4, <2>5, <2>6, <2>7 DEF GrpcInv
<1>9. CASE c \notin cancelled
  <2>1. Working
    BY <1>1, <1>4, <1>9 DEF GrpcInv, Fresh, Stopping, Released
  <2>2. /\ completions = Call!Underway /\ observer /\ callPhase = "open" /\ cancelled = {}
        /\ finishes = IF isFinishing THEN 1 ELSE 0
        /\ ~isFinishing => \E d \in Call!Underway : d.type = "read"
    BY <2>1 DEF Working
  <2>3. Call!RemoveCompletion(c) = U
    BY <1>u, <2>2 DEF Call!RemoveCompletion
  <2>4. \/ ~h.ok /\ Call!OnOperationFailed(U)
        \/ h.ok /\ c.type = "read" /\ Call!OnRead(c, U)
        \/ h.ok /\ c.type = "write" /\ Call!OnWrite(U)
        \/ h.ok /\ c.type = "finish" /\ Call!OnFinishedByServer(U)
    BY <1>9, <1>c, <1>h, <2>3 DEF Call!RunCallback
  <2>5. /\ isFinishing \in BOOLEAN /\ active \in BOOLEAN /\ finishes \in {0, 1}
        /\ queue \in Seq(Nat) /\ sent \in Seq(Nat)
    BY <1>6, <2>2 DEF Call!TypeOK
  <2>6. ASSUME Call!OnOperationFailed(U) PROVE GrpcInv'
    <3>1. /\ isFinishing' = TRUE
          /\ UNCHANGED <<queue, active, written, sent>>
          /\ UNCHANGED <<callPhase, observer, cancelled, worker, callEnds>>
          /\ IF isFinishing THEN completions' = U /\ UNCHANGED <<inGrpc, finishes>>
             ELSE Call!Issue(Call!FinishCompletion, U) /\ finishes' = finishes + 1
      BY <2>2, <2>6 DEF Call!OnOperationFailed, Call!AlreadyFinishing, Call!buffer
    <3>2. Buffered' /\ queue' \in Seq(Nat) /\ sent' \in Seq(Nat)
      BY <1>6, <2>5, <3>1 DEF Buffered
    <3>3. UNCHANGED <<callPhase, observer, poller, cancelled, worker, written, callEnds>>
          /\ active' \in BOOLEAN /\ isFinishing' \in BOOLEAN
      BY <1>1, <2>5, <3>1
    <3>4. finishes' = 1
      BY <2>2, <2>5, <3>1
    <3>5. CASE isFinishing
      <4>1. completions' = U /\ inGrpc' = inGrpc /\ finishes' = finishes
        BY <3>1, <3>5
      <4>2. Issued(U, {})
        BY <1>6, <3>1, <4>1 DEF Issued
      <4>3. Once' /\ Call!Underway' = U \cup {}
        BY <1>7, <4>2
      <4>4. completions' = U \cup {}
        BY <4>1
      <4> QED BY <1>2, <1>6, <2>1, <3>1, <3>2, <3>3, <3>4, <4>2, <4>3, <4>4, WorksOn
    <3>6. CASE ~isFinishing
      <4>f. PICK f : f = Call!FinishCompletion
        OBVIOUS
      <4>1. /\ completions' = U \cup {f} /\ inGrpc' = inGrpc \cup {f}
            /\ finishes' = 1 /\ finishes = 0
        BY <2>2, <3>1, <3>4, <3>6, <4>f DEF Call!Issue
      <4>2. f \in Call!Completion /\ f.type = "finish" /\ f.number = 1
        BY <4>1, <4>f DEF Call!FinishCompletion, Call!Completion
      <4>3. \A d \in U : d.type = "finish" => d.number <= 0
        BY <1>6, <4>1 DEF Numbered
      <4>4. f \notin U
        BY <4>2, <4>3
      <4>5. \A d \in U \cup {f} : d.type = "finish" => d.number <= 1
        <5>1. \A d \in U : d.number \in Nat
          BY <1>6 DEF Call!Completion
        <5> QED BY <4>2, <4>3, <5>1
      <4>6. Numbered(U \cup {f}, active', Len(sent'), finishes')
        BY <1>6, <3>1, <4>1, <4>2, <4>5 DEF Numbered
      <4>7. Issued(U, {f})
        BY <4>1, <4>2, <4>4, <4>6 DEF Issued
      <4>8. Once' /\ Call!Underway' = U \cup {f}
        BY <1>7, <4>7
      <4> QED BY <1>2, <1>6, <2>1, <3>1, <3>2, <3>3, <3>4, <4>1, <4>7, <4>8, WorksOn
    <3> QED BY <3>5, <3>6
  <2>7. ASSUME c.type = "read", Call!OnRead(c, U) PROVE GrpcInv'
    <3>r. PICK r : r = Call!ReadCompletion(c.number + 1)
      OBVIOUS
    <3>1. /\ completions' = U \cup {r} /\ inGrpc' = inGrpc \cup {r}
          /\ UNCHANGED <<queue, active, written, sent, isFinishing, finishes>>
          /\ UNCHANGED <<callPhase, observer, cancelled, worker, callEnds>>
      BY <2>2, <2>7, <3>r DEF Call!OnRead, Call!Read, Call!Issue, Call!buffer
    <3>2. r \in Call!Completion /\ r.type = "read"
      BY <1>3, <3>r DEF Call!ReadCompletion, Call!Completion
    <3>3. \A d \in U : d.type # "read"
      BY <1>4, <1>6, <1>u, <2>7 DEF Numbered
    <3>4. Numbered(U \cup {r}, active', Len(sent'), finishes')
      BY <1>6, <3>1, <3>2, <3>3 DEF Numbered
    <3>5. Issued(U, {r})
      BY <3>1, <3>2, <3>3, <3>4 DEF Issued
    <3>6. Once' /\ Call!Underway' = U \cup {r}
      BY <1>7, <3>5
    <3>7. Buffered' /\ queue' \in Seq(Nat) /\ sent' \in Seq(Nat)
      BY <1>6, <2>5, <3>1 DEF Buffered
    <3>8. /\ UNCHANGED <<callPhase, observer, poller, cancelled, worker, written, callEnds>>
          /\ active' \in BOOLEAN /\ isFinishing' \in BOOLEAN
          /\ finishes' = IF isFinishing' THEN 1 ELSE 0
      BY <1>1, <2>2, <2>5, <3>1
    <3>9. \E d \in U \cup {r} : d.type = "read"
      BY <3>2
    <3> QED BY <1>2, <1>6, <2>1, <3>1, <3>5, <3>6, <3>7, <3>8, <3>9, WorksOn
  <2>8. ASSUME c.type = "write", Call!OnWrite(U) PROVE GrpcInv'
    <3>1. /\ Call!MaybeWrite(queue, FALSE, U)
          /\ UNCHANGED <<callPhase, observer, cancelled, worker, written, isFinishing,
                         callEnds, finishes>>
      BY <2>2, <2>8 DEF Call!OnWrite
    <3>2. \A d \in U : d.type = "write" => FALSE
      <4>1. \A d \in Call!Underway : d.type = "write" => d.number = Len(sent)
        BY <1>6 DEF Numbered
      <4>2. \A d \in Call!Underway : d.type = "write" => d = c
        BY <1>3, <1>4, <1>5, <2>8, <4>1 DEF Call!Completion
      <4> QED BY <1>u, <4>2
    <3>3. /\ \A k \in DOMAIN sent : sent[k] = k
          /\ \A k \in DOMAIN queue : queue[k] = Len(sent) + k
          /\ written' = Len(sent) + Len(queue) /\ finishes' = finishes
      BY <1>6, <3>1 DEF Buffered
    <3>4. /\ \E N : Issued(U, N) /\ completions' = U \cup N
          /\ queue' \in Seq(Nat) /\ sent' \in Seq(Nat) /\ active' \in BOOLEAN
          /\ Buffered'
      BY <1>6, <2>5, <3>1, <3>2, <3>3, MaybeWriteStep
    <3>5. PICK N : Issued(U, N) /\ completions' = U \cup N
      BY <3>4
    <3>6. Once' /\ Call!Underway' = U \cup N
      BY <1>7, <3>5
    <3>7. /\ UNCHANGED <<callPhase, observer, poller, cancelled, worker, written, callEnds>>
          /\ isFinishing' \in BOOLEAN
          /\ finishes' = IF isFinishing' THEN 1 ELSE 0
      BY <1>1, <2>2, <2>5, <3>1
    <3>8. ~isFinishing' => \E d \in U \cup N : d.type = "read"
      BY <1>u, <2>2, <2>8, <3>1
    <3> QED BY <1>2, <1>6, <2>1, <3>4, <3>5, <3>6, <3>7, <3>8, WorksOn
  <2>9. ASSUME Call!OnFinishedByServer(U) PROVE GrpcInv'
    <3>1. /\ Call!Shutdown("notify", U)
          /\ UNCHANGED <<queue, active, written, sent, isFinishing>>
      BY <2>9 DEF Call!OnFinishedByServer, Call!buffer
    <3>2. UNCHANGED <<isFinishing, active, sent>>
      BY <3>1
    <3>3. /\ \E N : Issued(U, N) /\ (Call!Underway' = U \cup N => Stopping' \/ Released')
          /\ callPhase' \in {"new", "open", "released"}
          /\ worker' \in {"nothing", "lastWrite", "notify", "stop"}
          /\ observer' \in BOOLEAN /\ callEnds' \in BOOLEAN /\ finishes' \in 0 .. 2
          /\ completions' \subseteq Call!Completion /\ cancelled' \subseteq Call!Completion
      BY <1>6, <2>2, <3>1, <3>2, ShutdownStep
    <3>4. PICK N : Issued(U, N) /\ (Call!Underway' = U \cup N => Stopping' \/ Released')
      BY <3>3
    <3>5. Once' /\ Call!Underway' = U \cup N
      BY <1>7, <3>4
    <3>6. Call!TypeOK'
      <4>1. inGrpc' \subseteq Call!Completion
        BY <1>6, <3>4 DEF Call!TypeOK, Issued
      <4>2. {observer', active', isFinishing', callEnds'} \subseteq BOOLEAN
        BY <2>5, <3>1, <3>3
      <4> QED BY <1>1, <1>2, <1>6, <3>1, <3>3, <4>1, <4>2 DEF Call!TypeOK
    <3>7. Buffered'
      BY <1>6, <3>1 DEF Buffered
    <3>8. Numbered(Call!Underway', active', Len(sent'), finishes')
      BY <3>4, <3>5 DEF Issued
    <3> QED BY <3>4, <3>5, <3>6, <3>7, <3>8 DEF GrpcInv
  <2> QED BY <2>4, <2>6, <2>7, <2>8, <2>9
<1> QED BY <1>8, <1>9

(* A step of the call keeps its invariant.                                 *)
LEMMA CallStep ==
  ASSUME Call!NoOneAssumption, GrpcInv, [Call!Next]_(Call!vars)
  PROVE  GrpcInv'
<1>1. CASE UNCHANGED Call!vars
  <2>1. /\ UNCHANGED <<callPhase, observer, completions, cancelled, worker>>
        /\ UNCHANGED <<queue, active, written, sent, isFinishing, finishes>>
        /\ UNCHANGED <<inGrpc, poller, callbacks, callEnds>>
    BY <1>1 DEF Call!vars, Call!buffer
  <2>2. Once' /\ Call!Underway' = Call!Underway
    BY <2>1 DEF GrpcInv, Once, AtPoller, Waiting, Distinct, Call!Underway
  <2>3. poller \in Call!Outcome \cup {NoOne} /\ callbacks \in Seq(Call!Outcome)
        /\ callEnds \in BOOLEAN
    BY DEF GrpcInv, Call!TypeOK
  <2>4. poller' \in Call!Outcome \cup {NoOne} /\ callbacks' \in Seq(Call!Outcome)
        /\ callEnds' \in BOOLEAN
    BY <2>1, <2>3
  <2> QED BY <2>1, <2>2, <2>4, MoveStep
<1>2. CASE Call!Start
  BY <1>2, StartStep
<1>3. CASE Call!Write
  <2>1. /\ worker = "nothing" /\ callPhase = "open" /\ written' = written + 1
        /\ Call!MaybeWrite(Append(queue, written + 1), active, completions)
        /\ UNCHANGED <<callPhase, observer, poller, callbacks, cancelled, isFinishing,
                       callEnds, finishes>>
        /\ worker' = "nothing"
    BY <1>3 DEF Call!Write, Call!WorkerIdle
  <2>2. Working
    BY <2>1 DEF GrpcInv, Fresh, Stopping, Released
  <2>3. worker' \in {"nothing", "lastWrite"}
    BY <2>1
  <2> QED BY <2>1, <2>2, <2>3, WriteStep
<1>4. CASE Call!FinishImmediately \/ Call!ConnectivityChanged \/ Call!LastWriteEnds
  BY <1>4, AskedToStop
<1>5. CASE Call!WriteAndFinish
  BY <1>5, WriteAndFinishStep
<1>6. CASE Call!ShutdownEnds
  BY <1>6, ShutdownEndsStep
<1>7. CASE Call!RunCallback
  BY <1>7, RunCallbackStep
<1>8. CASE Call!CallBreaks
  BY <1>8, CallBreaksStep
<1>9. ASSUME NEW c \in inGrpc, Call!Complete(c) PROVE GrpcInv'
  BY <1>9, CompleteOpStep
<1>10. CASE Call!Enqueue
  BY <1>10, EnqueueStep
<1> QED BY <1>1, <1>2, <1>3, <1>4, <1>5, <1>6, <1>7, <1>8, <1>9, <1>10 DEF Call!Next

(* The invariant of the call.                                              *)
LEMMA CallAlways == PartsSpec => []GrpcInv
<1>1. Call!Init => GrpcInv
  <2> SUFFICES ASSUME Call!Init PROVE GrpcInv
    OBVIOUS
  <2>1. /\ <<>> \in Seq(Call!Outcome) /\ <<>> \in Seq(Nat) /\ Len(<<>>) = 0
        /\ DOMAIN <<>> = {}
    BY EmptySeq
  <2>2. AtPoller = {} /\ Waiting(callbacks) = {} /\ Call!Underway = {}
    BY <2>1 DEF Call!Init, AtPoller, Waiting, Call!Underway
  <2>3. Once
    BY <2>1, <2>2 DEF Call!Init, Once, Distinct
  <2>4. Call!TypeOK
    <3>1. observer = TRUE /\ active = FALSE /\ isFinishing = FALSE /\ callEnds = FALSE
      BY Zenon DEF Call!Init
    <3>2. {observer, active, isFinishing, callEnds} \subseteq BOOLEAN
      BY <3>1
    <3>3. finishes = 0 /\ 0 \in 0 .. 2
      BY DEF Call!Init
    <3> QED BY <2>1, <3>2, <3>3 DEF Call!Init, Call!TypeOK
  <2>5. Numbered(Call!Underway, active, Len(sent), finishes)
    BY <2>2 DEF Numbered
  <2>6. Buffered
    BY <2>1 DEF Call!Init, Buffered
  <2>7. Fresh
    BY <2>2 DEF Call!Init, Fresh
  <2> QED BY <2>3, <2>4, <2>5, <2>6, <2>7 DEF GrpcInv
<1>2. GrpcInv /\ [Call!Next]_(Call!vars) => GrpcInv'
  BY PartsAssumption, CallStep
<1> QED BY <1>1, <1>2, PartsRun, PTL DEF Call!Spec

(* An open stream knows exactly the operations that can call it back, and  *)
(* a released one has none in gRPC and no callback that would touch it.    *)
THEOREM StreamKnowsItsOperations == PartsSpec => []KnowsItsOperations
<1>1. ASSUME GrpcInv PROVE KnowsItsOperations
  <2>1. ASSUME callPhase = "open", worker = "nothing"
        PROVE  completions = {c \in Call!Underway : Call!Live(c)}
    <3>1. Working
      BY <1>1, <2>1 DEF GrpcInv, Fresh, Stopping, Released
    <3> QED BY <3>1 DEF Working, Call!Live
  <2>2. ASSUME callPhase = "released"
        PROVE  inGrpc = {} /\ completions = {} /\ \A c \in Call!Underway : ~Call!Live(c)
    <3>1. Released
      BY <1>1, <2>2 DEF GrpcInv, Fresh, Working, Stopping
    <3> QED BY <3>1 DEF Released, Call!Live
  <2> QED BY <2>1, <2>2 DEF KnowsItsOperations, Call!KnowsItsOperations
<1> QED BY <1>1, CallAlways, PTL

(* One write at a time, the messages in order with none skipped, and one   *)
(* read under way until an operation fails.                                *)
THEOREM OneReadAndOneWrite == PartsSpec => []OneReadOneWrite
<1>1. ASSUME GrpcInv PROVE OneReadOneWrite
  <2>1. inGrpc \subseteq Call!Underway /\ inGrpc \subseteq Call!Completion
    BY <1>1 DEF GrpcInv, Call!TypeOK, Call!Underway
  <2>2. Cardinality({c \in inGrpc : c.type = "write"}) <= 1
    <3> DEFINE W == {c \in inGrpc : c.type = "write"}
    <3>1. \A c \in W : c.type = "write" /\ c.number = Len(sent) /\ c \in Call!Completion
      BY <1>1, <2>1 DEF GrpcInv, Numbered
    <3>2. \A c \in W : \A d \in W : c = d
      BY <3>1 DEF Call!Completion
    <3>3. W = {} \/ \E c \in W : W = {c}
      BY <3>2
    <3> HIDE DEF W
    <3>4. Cardinality(W) <= 1
      <4>1. CASE W = {}
        BY <4>1, FS_EmptySet
      <4>2. ASSUME NEW c \in W, W = {c} PROVE Cardinality(W) <= 1
        BY <4>2, FS_Singleton
      <4> QED BY <3>3, <4>1, <4>2
    <3> QED BY <3>4 DEF W
  <2>3. ASSUME callPhase = "open", worker = "nothing", ~isFinishing
        PROVE  Cardinality({c \in Call!Underway : Call!Live(c) /\ c.type = "read"}) = 1
    <3> DEFINE R == {c \in Call!Underway : Call!Live(c) /\ c.type = "read"}
    <3>1. Working
      BY <1>1, <2>3 DEF GrpcInv, Fresh, Stopping, Released
    <3>2. PICK c \in Call!Underway : c.type = "read"
      BY <2>3, <3>1 DEF Working
    <3>3. R = {c}
      BY <1>1, <3>1, <3>2 DEF Working, Call!Live, GrpcInv, Numbered
    <3> HIDE DEF R
    <3>4. Cardinality(R) = 1
      BY <3>3, FS_Singleton
    <3> QED BY <3>4 DEF R
  <2>4. /\ \A k \in DOMAIN sent : sent[k] = k
        /\ \A k \in DOMAIN queue : queue[k] = Len(sent) + k
        /\ written = Len(sent) + Len(queue)
    BY <1>1 DEF GrpcInv, Buffered
  <2>5. callPhase = "open" /\ observer /\ worker = "nothing" /\ ~isFinishing
        /\ ~Call!Aborted =>
          Cardinality({c \in Call!Underway : Call!Live(c) /\ c.type = "read"}) = 1
    BY <2>3, Zenon
  <2>6. \A S : Call!Cardinality(S) = Cardinality(S)
    BY DEF Cardinality, Call!Cardinality
  <2> QED BY <2>2, <2>4, <2>5, <2>6, Zenon DEF OneReadOneWrite, Call!OneReadOneWrite
<1> QED BY <1>1, CallAlways, PTL

(* Only a shutdown finishes a call for the second time, and only after an  *)
(* operation has failed.                                                   *)
THEOREM OnlyShutdownFinishesTwice == PartsSpec => []SecondFinishByShutdown
<1>1. ASSUME GrpcInv PROVE SecondFinishByShutdown
  <2>1. ASSUME finishes > 1 PROVE Stopping
    BY <1>1, <2>1 DEF GrpcInv, Fresh, Working, Released, Call!TypeOK
  <2>2. ASSUME finishes > 1 PROVE isFinishing /\ worker # "nothing"
    BY <2>1, <2>2 DEF Stopping
  <2> QED BY <2>2 DEF SecondFinishByShutdown, Call!SecondFinishByShutdown, Call!Aborted
<1> QED BY <1>1, CallAlways, PTL

-----------------------------------------------------------------------------
(* Every variable of every part keeps its type, the local database's with  *)
(* them.                                                                   *)
THEOREM PartsTypes == PartsSpec => []PartsTypeOK
<1>1. ListInv /\ CellsInv /\ ReminderInv /\ LoginInv /\ GrpcInv /\ TypeOK => PartsTypeOK
  BY DEF ListInv, CellsInv, ReminderInv, LoginInv, GrpcInv, PartsTypeOK
<1>2. Spec => []TypeOK
  BY PartsAssumption, StoreTypes
<1> QED BY <1>1, <1>2, PartsRun, ListAlways, CellsAlways, ReminderAlways, LoginAlways,
           CallAlways, PTL

=============================================================================
