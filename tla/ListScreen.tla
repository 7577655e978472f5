----------------------------- MODULE ListScreen -----------------------------
(***************************************************************************)
(* What the user sees of the list and can reach: the table's rows as of    *)
(* its last reload over the repository's array, the full-screen pictures   *)
(* laid over it, and the two bars they and the settings hide.              *)
(*                                                                         *)
(* Every login presents a new list screen over the old ones, which stay    *)
(* alive and keep answering their queries.  All handlers run on the main   *)
(* queue; a tap meets only what is in front and not hidden.                *)
(***************************************************************************)
EXTENDS Naturals, Sequences, SequencesExt

CONSTANTS
  Row,       \* items, as far as the table tells them apart
  Pictured,  \* those with a picture
  MaxRows,   \* bound: rows in the repository
  MaxLogins, \* bound: list screens presented
  MaxStack   \* bound: full-screen pictures at a time

PicturedAssumption == Pictured \subseteq Row
BoundsAssumption == MaxRows \in Nat /\ MaxLogins \in Nat /\ MaxStack \in Nat

VARIABLES
  array,            \* the repository's items, shared by all screens
  table,            \* per screen, the rows as of its last reload
  querying,         \* screens whose query is not answered
  front,            \* what is in front; "leaving" is the way from list to home
  inSettings,       \* settings lie on the list, perhaps behind the other tab
  pictures,         \* full-screen pictures over the list, oldest first
  navigationBarHidden, tabBarHidden

bars == <<navigationBarHidden, tabBarHidden>>
vars == <<array, table, querying, front, inSettings, pictures, bars>>

Screen == 1..MaxLogins
Current == Len(table)

(* Every variable keeps its type; the only invariant that says no more.    *)
TypeOK ==
  /\ array \in Seq(Row)
  /\ table \in Seq(Seq(Row)) /\ Current <= MaxLogins
  /\ querying \subseteq Screen
  /\ front \in {"home", "list", "settings", "add", "leaving"}
  /\ inSettings \in BOOLEAN
  /\ pictures \in Seq(Pictured)
  /\ navigationBarHidden \in BOOLEAN /\ tabBarHidden \in BOOLEAN

Init ==
  /\ array = <<>> /\ table = <<>> /\ querying = {}
  /\ front = "home" /\ inSettings = FALSE
  /\ pictures = <<>>
  /\ navigationBarHidden = FALSE /\ tabBarHidden = FALSE

-----------------------------------------------------------------------------
(* A reload asks the repository for its count; a row is read when its cell *)
(* comes up, so what is shown is what was there at the reload.             *)
Reload(rows) == table' = [table EXCEPT ![Current] = rows]

(* Somebody logs in, registers or is still signed in: a new list screen    *)
(* loads, queries, and appears with what the repository holds.             *)
ShowShoppingListView ==
  /\ front = "home" /\ Current < MaxLogins
  /\ table' = Append(table, array)
  /\ querying' = querying \cup {Current + 1}
  /\ front' = "list"
  /\ pictures' = <<>>
  /\ navigationBarHidden' = FALSE /\ tabBarHidden' = FALSE
  /\ UNCHANGED <<array, inSettings>>

(* Mutation: an answer that comes late replaces the rows.                  *)
SetRows(items) == items

AddRows(items) == array \o items

(* The completion of getItems: its rows are appended and its own table is  *)
(* reloaded, whichever screen is in front.                                 *)
GetItems(c, items) ==
  /\ c \in querying
  /\ Len(array) + Len(items) <= MaxRows
  /\ array' = AddRows(items)
  /\ table' = [table EXCEPT ![c] = AddRows(items)]
  /\ querying' = querying \ {c}
  /\ UNCHANGED <<front, inSettings, pictures, bars>>

(* The query failed, or found no document: nothing is reloaded.            *)
GetNothing(c) ==
  /\ c \in querying
  /\ querying' = querying \ {c}
  /\ UNCHANGED <<array, table, front, inSettings, pictures, bars>>

(* The add screen puts an item; the list is not told.                      *)
AddItemToArray(row) ==
  /\ front = "add"
  /\ Len(array) < MaxRows
  /\ array' = Append(array, row)
  /\ UNCHANGED <<table, querying, front, inSettings, pictures, bars>>

-----------------------------------------------------------------------------
Shown == 1..Len(table[Current])

(* A row is swiped away: the array's item at its index goes, and the table *)
(* reloads.                                                                *)
DeleteRow(i) ==
  /\ front = "list" /\ i \in Shown \cap DOMAIN array
  /\ array' = RemoveAt(array, i)
  /\ Reload(RemoveAt(array, i))
  /\ UNCHANGED <<querying, front, inSettings, pictures, bars>>

(* Mutation: whether the row has a picture is not looked at.               *)
HighlightAnyRow(i) ==
  /\ front = "list" /\ i \in Shown \cap DOMAIN array
  /\ Len(pictures) < MaxStack
  /\ pictures' = Append(pictures, array[i])
  /\ navigationBarHidden' = TRUE /\ tabBarHidden' = TRUE
  /\ UNCHANGED <<array, table, querying, front, inSettings>>

(* A touch highlights a row, also one that a picture does not cover: the   *)
(* array's picture at its index is laid over the list.                     *)
HighlightRow(i) ==
  /\ front = "list" /\ i \in Shown \cap DOMAIN array
  /\ array[i] \in Pictured
  /\ Len(pictures) < MaxStack
  /\ pictures' = Append(pictures, array[i])
  /\ navigationBarHidden' = TRUE /\ tabBarHidden' = TRUE
  /\ UNCHANGED <<array, table, querying, front, inSettings>>

(* Mutation: the navigation bar comes back with the list's next appearance. *)
HideKeepingNavigationBar(k) ==
  /\ front = "list" /\ k \in DOMAIN pictures
  /\ pictures' = RemoveAt(pictures, k)
  /\ tabBarHidden' = FALSE
  /\ UNCHANGED <<array, table, querying, front, inSettings, navigationBarHidden>>

(* A tap on a full-screen picture takes that one away and shows both bars. *)
HideFullscreenImage(k) ==
  /\ front = "list" /\ k \in DOMAIN pictures
  /\ pictures' = RemoveAt(pictures, k)
  /\ navigationBarHidden' = FALSE /\ tabBarHidden' = FALSE
  /\ UNCHANGED <<array, table, querying, front, inSettings>>

-----------------------------------------------------------------------------
(* viewWillAppear and viewDidAppear of the list.                           *)
ListAppears ==
  /\ front' = "list"
  /\ tabBarHidden' = FALSE
  /\ Reload(array)

SelectAddItem ==
  /\ front \in {"list", "settings"} /\ ~tabBarHidden
  /\ front' = "add"
  /\ UNCHANGED <<array, table, querying, inSettings, pictures, bars>>

(* The list's tab: the list appears, unless settings lie on it.            *)
SelectShoppingList ==
  /\ front = "add"
  /\ IF inSettings
     THEN front' = "settings" /\ UNCHANGED <<tabBarHidden, table>>
     ELSE ListAppears
  /\ UNCHANGED <<array, querying, inSettings, pictures, navigationBarHidden>>

OpenSettings ==
  /\ front = "list" /\ ~navigationBarHidden
  /\ front' = "settings" /\ inSettings' = TRUE
  /\ tabBarHidden' = TRUE
  /\ UNCHANGED <<array, table, querying, pictures, navigationBarHidden>>

CloseSettings ==
  /\ front = "settings"
  /\ inSettings' = FALSE
  /\ ListAppears
  /\ UNCHANGED <<array, querying, pictures, navigationBarHidden>>

(* A swipe back that is given up: viewWillAppear of the list has run,      *)
(* viewDidAppear does not, and viewDidLoad of the settings not again.      *)
SwipeBackGivenUp ==
  /\ front = "settings"
  /\ tabBarHidden' = FALSE
  /\ UNCHANGED <<array, table, querying, front, inSettings, pictures,
                 navigationBarHidden>>

(* logoutPressed: the segue starts, then the array is cleared; no reload.  *)
LogoutPressed ==
  /\ front = "list" /\ ~navigationBarHidden
  /\ front' = "leaving"
  /\ array' = <<>>
  /\ UNCHANGED <<table, querying, inSettings, pictures, bars>>

(* The transition of the segue ends: the list is out of sight for good.    *)
ShowHome ==
  /\ front = "leaving"
  /\ front' = "home"
  /\ UNCHANGED <<array, table, querying, inSettings, pictures, bars>>

Answers == UNION {[1..n -> Row] : n \in 0..2}

Next ==
  \/ ShowShoppingListView
  \/ \E c \in querying : GetNothing(c) \/ \E items \in Answers : GetItems(c, items)
  \/ \E row \in Row : AddItemToArray(row)
  \/ \E i \in 1..MaxRows : front = "list" /\ (DeleteRow(i) \/ HighlightRow(i))
  \/ \E k \in DOMAIN pictures : HideFullscreenImage(k)
  \/ SelectAddItem \/ SelectShoppingList
  \/ OpenSettings \/ CloseSettings \/ SwipeBackGivenUp
  \/ LogoutPressed \/ ShowHome

Spec == Init /\ [][Next]_vars

-----------------------------------------------------------------------------
(* Whatever was appended, deleted or cleared since the last reload, by this *)
(* screen or an older one: each row of the table is the repository's item  *)
(* at that index, so a deletion takes the item whose row was swiped and no *)
(* handler reads past the end.  Only while the screen is on its way out    *)
(* may it do so: logging out clears the array under the table.             *)
ShownIsStored ==
  front \notin {"home", "leaving"} => IsPrefix(table[Current], array)

(* A hidden bar can always be brought back: some picture is there to be    *)
(* tapped, or settings to be left, although pictures are stacked and each  *)
(* handler switches the bars on its own.                                   *)
BarsComeBack ==
  /\ front = "list" /\ (navigationBarHidden \/ tabBarHidden) => pictures # <<>>
  /\ front \in {"add", "settings"} => ~navigationBarHidden
  /\ front = "add" => ~tabBarHidden

=============================================================================
