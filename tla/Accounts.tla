------------------------------ MODULE Accounts ------------------------------
(***************************************************************************)
(* Logging in, registering and logging out.  A tap sends a request and the *)
(* screen stays as it is; the client changes the current user on its work  *)
(* queue when the answer comes, and runs the completion on the main queue  *)
(* some time later.  Nothing keeps the user from tapping again, going back *)
(* or asking for another account in between.                               *)
(*                                                                         *)
(* A segue needs its controller in front with nothing presented over it,   *)
(* but makes the list controller, which reads the current user, all the    *)
(* same.                                                                   *)
(***************************************************************************)
EXTENDS Naturals, Sequences

CONSTANTS
  Account,
  NoUser,
  Empty,       \* an empty text field
  BadAddress,  \* an email that is not an address
  MaxRequests, \* bound: requests sent between restarts
  MaxVisits    \* bound: login and registration screens left between restarts

AccountAssumption == {NoUser, Empty, BadAddress} \cap Account = {}
BoundsAssumption == MaxRequests \in Nat /\ MaxVisits \in Nat

VARIABLES
  exists,      \* accounts the server knows
  requests,    \* requests under way
  completions, \* completions on the main queue
  currentUser,
  front,       \* the screen in front
  alert,       \* a warning is in front of it
  listUser,    \* userID of the list in front
  visit,       \* number of the login or registration screen in front
  sent,        \* number of requests sent
  crashed,     \* currentUser was unwrapped while nil
  documents,   \* history: documents created, and for which account
  overlapped,  \* history: a request was sent while another was not completed
  infoFailed   \* history: an account was created, reading it failed

screen == <<front, alert, listUser, visit>>
history == <<documents, overlapped, infoFailed>>
vars == <<exists, requests, completions, currentUser, screen, sent, crashed, history>>

User == Account \cup {NoUser}
Request ==
  [kind : {"login", "register"}, account : Account, visit : Nat, number : Nat,
   stage : {"sent", "retrieving"}]
Completion == [request : Request, error : BOOLEAN, user : User]

(* Every variable keeps its type; the only invariant that says no more.    *)
TypeOK ==
  /\ exists \subseteq Account
  /\ requests \subseteq Request
  /\ completions \in Seq(Completion)
  /\ currentUser \in User /\ listUser \in User
  /\ front \in {"home", "login", "register", "list"}
  /\ alert \in BOOLEAN /\ crashed \in BOOLEAN
  /\ visit \in Nat /\ sent \in Nat
  /\ documents \subseteq [doc : Account, account : Account]
  /\ overlapped \in BOOLEAN /\ infoFailed \in BOOLEAN

Init ==
  /\ exists \in SUBSET Account
  /\ requests = {} /\ completions = <<>>
  /\ currentUser = NoUser
  /\ front = "home" /\ alert = FALSE /\ listUser = NoUser /\ visit = 0
  /\ sent = 0 /\ crashed = FALSE
  /\ documents = {} /\ overlapped = FALSE /\ infoFailed = FALSE

-----------------------------------------------------------------------------
CanTap == ~alert /\ ~crashed

Open(form) ==
  /\ CanTap /\ front = "home"
  /\ front' = form
  /\ UNCHANGED <<exists, requests, completions, currentUser, alert, listUser, visit,
                 sent, crashed, history>>

GoBack ==
  /\ CanTap /\ front \in {"login", "register"}
  /\ visit < MaxVisits
  /\ front' = "home" /\ visit' = visit + 1
  /\ UNCHANGED <<exists, requests, completions, currentUser, alert, listUser, sent,
                 crashed, history>>

ShowWarning ==
  /\ alert' = TRUE
  /\ UNCHANGED <<exists, requests, completions, currentUser, front, listUser, visit,
                 sent, crashed, history>>

DismissWarning ==
  /\ alert /\ ~crashed
  /\ alert' = FALSE
  /\ UNCHANGED <<exists, requests, completions, currentUser, front, listUser, visit,
                 sent, crashed, history>>

Send(kind, account) ==
  /\ sent < MaxRequests
  /\ requests' = requests \cup {[kind |-> kind, account |-> account, visit |-> visit,
                                 number |-> sent, stage |-> "sent"]}
  /\ sent' = sent + 1
  /\ overlapped' = (overlapped \/ requests # {} \/ completions # <<>>)
  /\ UNCHANGED <<exists, completions, currentUser, screen, crashed, documents, infoFailed>>

(* logIn: both fields are filled in.  Anything else that is no account's   *)
(* email and password is for the server to refuse.                         *)
LogIn(email, password) ==
  /\ CanTap /\ front = "login"
  /\ IF email # Empty /\ password # Empty
     THEN Send("login", email)
     ELSE ShowWarning

(* registerClicked: an address and the same password twice, six characters *)
(* or more; the second guard tests the email once more.                    *)
Register(email, password, password2) ==
  /\ CanTap /\ front = "register"
  /\ IF email \notin {Empty, BadAddress} /\ password = password2 /\ password = "long"
     THEN Send("register", email)
     ELSE ShowWarning

-----------------------------------------------------------------------------
Complete(r, error, user) ==
  /\ requests' = requests \ {r}
  /\ completions' = Append(completions, [request |-> r, error |-> error, user |-> user])

(* Mutation: somebody who is signed in stays so.                           *)
KeepCurrentUser(user) == IF currentUser = NoUser THEN user ELSE currentUser

(* updateCurrentUser, on the work queue.                                   *)
UpdateCurrentUser(user) == user

SignIn(r, user) ==
  /\ currentUser' = UpdateCurrentUser(user)
  /\ Complete(r, FALSE, user)
  /\ UNCHANGED <<screen, sent, crashed, documents, overlapped>>

(* The password is right, and the account was read.                        *)
LoginSucceeds(r) ==
  /\ r.kind = "login" /\ r.account \in exists
  /\ SignIn(r, r.account)
  /\ UNCHANGED <<exists, infoFailed>>

(* A wrong password, an unknown or a taken email, no network, or no answer *)
(* from the server, which may have created the account.                    *)
RequestFails(r) ==
  /\ r.stage = "sent"
  /\ Complete(r, TRUE, NoUser)
  /\ exists' \in {exists} \cup (IF r.kind = "register" THEN {exists \cup {r.account}} ELSE {})
  /\ UNCHANGED <<currentUser, screen, sent, crashed, history>>

AccountCreated(r) ==
  /\ r.kind = "register" /\ r.stage = "sent" /\ r.account \notin exists
  /\ exists' = exists \cup {r.account}
  /\ requests' = (requests \ {r}) \cup {[r EXCEPT !.stage = "retrieving"]}
  /\ UNCHANGED <<completions, currentUser, screen, sent, crashed, history>>

AccountRetrieved(r) ==
  /\ r.stage = "retrieving"
  /\ SignIn(r, r.account)
  /\ UNCHANGED <<exists, infoFailed>>

(* The new account could not be read: createUser makes a result without a  *)
(* user and passes it on without the error.                                *)
RetrievalFails(r) ==
  /\ r.stage = "retrieving"
  /\ SignIn(r, NoUser)
  /\ infoFailed' = TRUE
  /\ UNCHANGED exists

-----------------------------------------------------------------------------
(* The controller that sent a request is in front, with nothing over it.   *)
InFront(r) == front = r.kind /\ visit = r.visit /\ ~alert

(* performSegue to a new list controller.                                  *)
ShowShoppingListView(r) ==
  /\ crashed' = (currentUser = NoUser)
  /\ IF currentUser # NoUser /\ InFront(r)
     THEN front' = "list" /\ listUser' = currentUser
     ELSE UNCHANGED <<front, listUser>>
  /\ UNCHANGED <<alert, visit>>

LoginCompletes(c) ==
  /\ c.request.kind = "login"
  /\ IF c.error
     THEN /\ alert' = (alert \/ InFront(c.request))
          /\ UNCHANGED <<front, listUser, visit, crashed>>
     ELSE ShowShoppingListView(c.request)
  /\ UNCHANGED documents

(* currentUser!.uid                                                        *)
UserID == {currentUser} \ {NoUser}

(* addUserToDatabase writes the document of whoever is signed in by then;  *)
(* an error is only printed.                                               *)
RegisterCompletes(c) ==
  /\ c.request.kind = "register"
  /\ IF c.error
     THEN UNCHANGED <<screen, crashed, documents>>
     ELSE /\ documents' = documents \cup {[doc |-> u, account |-> c.request.account] :
                                          u \in UserID}
          /\ ShowShoppingListView(c.request)

RunCompletion ==
  /\ completions # <<>> /\ ~crashed
  /\ LoginCompletes(Head(completions)) \/ RegisterCompletes(Head(completions))
  /\ completions' = Tail(completions)
  /\ UNCHANGED <<exists, requests, currentUser, sent, overlapped, infoFailed>>

(* Mutation: the segue is left to the next sign-in.                        *)
LogoutWithoutSegue ==
  /\ CanTap /\ front = "list"
  /\ currentUser' = NoUser
  /\ UNCHANGED <<exists, requests, completions, screen, sent, crashed, history>>

(* logoutPressed: the home screen is presented over everything else.       *)
Logout ==
  /\ CanTap /\ front = "list"
  /\ currentUser' = NoUser
  /\ front' = "home" /\ listUser' = NoUser /\ visit' = visit + 1
  /\ UNCHANGED <<exists, requests, completions, alert, sent, crashed, history>>

(* The process ends, by itself or by a crash, and starts again with the    *)
(* user it had stored: straight to the list if there is one.               *)
Restart ==
  /\ front' = IF currentUser = NoUser THEN "home" ELSE "list"
  /\ listUser' = currentUser
  /\ alert' = FALSE /\ visit' = 0 /\ sent' = 0 /\ crashed' = FALSE
  /\ requests' = {} /\ completions' = <<>>
  /\ overlapped' = FALSE /\ infoFailed' = FALSE
  /\ documents' = {}
  /\ UNCHANGED <<exists, currentUser>>

Emails == Account \cup {Empty, BadAddress}
Passwords == {Empty, "short", "long"}

Next ==
  \/ \E form \in {"login", "register"} : Open(form)
  \/ GoBack
  \/ DismissWarning
  \/ \E email \in Emails \ {BadAddress}, password \in Passwords : LogIn(email, password)
  \/ \E email \in Emails, p1 \in Passwords, p2 \in Passwords : Register(email, p1, p2)
  \/ \E r \in requests :
       \/ LoginSucceeds(r) \/ RequestFails(r)
       \/ AccountCreated(r) \/ AccountRetrieved(r) \/ RetrievalFails(r)
  \/ RunCompletion
  \/ Logout
  \/ Restart

Spec == Init /\ [][Next]_vars

-----------------------------------------------------------------------------
(* The list in front is that of the user who is signed in, whatever was    *)
(* tapped, left or refused before, as long as no request was sent while    *)
(* another one was under way.                                              *)
ListOfCurrentUser == front = "list" /\ ~overlapped => listUser = currentUser

(* Under the same condition a registration creates the document of its own *)
(* account and of no other, and its completion finds the current user gone *)
(* only if the new account could not be read: it asks for the current user *)
(* long after the account was created.                                     *)
OwnDocument ==
  ~overlapped => /\ \A d \in documents : d.doc = d.account
                 /\ crashed => infoFailed

=============================================================================
