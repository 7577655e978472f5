------------------------------- MODULE MCParts -------------------------------
(***************************************************************************)
(* The local database and five other parts that share no state with it or  *)
(* each other, side by side: a behaviour takes the steps of one of them,   *)
(* so the states are the sum of theirs.                                    *)
(***************************************************************************)
EXTENDS LocalStore

CONSTANTS
  Row, Pictured, MaxRows, MaxLogins, MaxStack,               \* ListScreen
  Cell, URL, None,                                           \* CellPictures
  MaxDate, MaxAdds,                                          \* Settings
  Account, NoUser, Empty, BadAddress, MaxRequests, MaxVisits,\* Accounts
  MaxWrites, MaxReads, NoOne                                 \* GrpcStream

VARIABLES
  part,  \* the part that takes its steps
  array, table, querying, front, inSettings, pictures, navigationBarHidden, tabBarHidden,
  row, image, webURL, loading, failed, latest,
  now, loaded, isOn, date, showNotifications, adding, pending, delivered, asked,
  turnedDown,
  exists, requests, completed, currentUser, form, alert, listUser, visit, sentRequests,
  crashed, documents, overlapped, infoFailed,
  callPhase, observer, completions, inGrpc, poller, callbacks, cancelled, worker, queue,
  active, isFinishing, callEnds, finishes, written, sent

listVars ==
  <<array, table, querying, front, inSettings, pictures, navigationBarHidden, tabBarHidden>>
cellsVars ==
  <<row, image, webURL, loading, failed, latest>>
reminderVars ==
  <<now, loaded, isOn, date, showNotifications, adding, pending, delivered, asked,
    turnedDown>>
loginVars ==
  <<exists, requests, completed, currentUser, form, alert, listUser, visit, sentRequests,
    crashed, documents, overlapped, infoFailed>>
callVars ==
  <<callPhase, observer, completions, inGrpc, poller, callbacks, cancelled, worker, queue,
    active, isFinishing, callEnds, finishes, written, sent>>

List == INSTANCE ListScreen
Cells == INSTANCE CellPictures
Reminder == INSTANCE Settings WITH failed <- turnedDown
Login == INSTANCE Accounts WITH
  completions <- completed, front <- form, sent <- sentRequests
Call == INSTANCE GrpcStream WITH phase <- callPhase

ASSUME PartsAssumption ==
  /\ List!PicturedAssumption /\ List!BoundsAssumption
  /\ Cells!NoneAssumption
  /\ Reminder!BoundsAssumption
  /\ Login!AccountAssumption /\ Login!BoundsAssumption
  /\ Call!BoundsAssumption /\ Call!NoOneAssumption
  /\ BoundsAssumption

PartsInit ==
  /\ List!Init /\ Cells!Init /\ Reminder!Init /\ Login!Init /\ Call!Init /\ Init
  /\ part \in {"list", "cells", "reminder", "login", "call", "database"}
  /\ part # "login" => exists = {}

Others(p) ==
  /\ part = p /\ UNCHANGED part
  /\ IF p = "list" THEN TRUE ELSE UNCHANGED listVars
  /\ IF p = "cells" THEN TRUE ELSE UNCHANGED cellsVars
  /\ IF p = "reminder" THEN TRUE ELSE UNCHANGED reminderVars
  /\ IF p = "login" THEN TRUE ELSE UNCHANGED loginVars
  /\ IF p = "call" THEN TRUE ELSE UNCHANGED callVars
  /\ IF p = "database" THEN TRUE ELSE UNCHANGED vars

PartsNext ==
  \/ Others("list") /\ List!Next
  \/ Others("cells") /\ Cells!Next
  \/ Others("reminder") /\ Reminder!Next
  \/ Others("login") /\ Login!Next
  \/ Others("call") /\ Call!Next
  \/ Others("database") /\ Next

partsVars == <<part, listVars, cellsVars, reminderVars, loginVars, callVars, vars>>

PartsSpec ==
  /\ PartsInit /\ [][PartsNext]_partsVars
  /\ Cells!Fairness /\ Call!Fairness /\ Fairness

-----------------------------------------------------------------------------
(* Every variable of every part keeps its type.                            *)
PartsTypeOK ==
  /\ List!TypeOK /\ Cells!TypeOK /\ Reminder!TypeOK
  /\ Login!TypeOK /\ Call!TypeOK /\ TypeOK

ShownIsStored == List!ShownIsStored
BarsComeBack == List!BarsComeBack
OwnPicture == Cells!OwnPicture
PictureComes == Cells!PictureComes
OneReminder == Reminder!OneReminder
ListOfCurrentUser == Login!ListOfCurrentUser
OwnDocument == Login!OwnDocument
KnowsItsOperations == Call!KnowsItsOperations
OneReadOneWrite == Call!OneReadOneWrite
SecondFinishByShutdown == Call!SecondFinishByShutdown
Unblocks == Call!Unblocks
EndIsNoticed == Call!EndIsNoticed
=============================================================================
