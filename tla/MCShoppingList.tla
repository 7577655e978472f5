--------------------------- MODULE MCShoppingList ---------------------------
(* Small instances of ShoppingList.  Users type different names, so that a *)
(* row tells who typed it.                                                 *)
EXTENDS ShoppingList

CONSTANTS alice, bob

MCChunk == {"", "/", "milk", "eggs", "tea", "2", "p1", "p2"}

(* Two users, one item name each.                                          *)
OwnNames == [u \in User |-> IF u = alice THEN {<<"milk">>} ELSE {<<"tea">>}]

(* One user, two item names.                                               *)
TwoNames == [u \in User |-> {<<"milk">>, <<"eggs">>}]

(* Names and amounts with a separator in them: "milk;eggs" and ";2".       *)
SplitNames == [u \in User |-> {<<"milk">>, <<"milk", "eggs">>}]
SplitAmounts == {<<"2">>, <<"", "2">>}

NoAmount == {<<"">>}
NoImages == {}
OneImage == {"p1"}

(* Devices are alike: nothing tells one from another.                      *)
DeviceSymmetry == Permutations(Device)
=============================================================================
