----------------------------- MODULE MCAddItem -----------------------------
(* Small instances of AddItem.                                             *)
EXTENDS AddItem

MCChunk == {"", "/", "milk", "2", "p1", "p2", "p3"}
Fields == {<<"">>, <<"milk">>}
ThreeImages == {"p1", "p2", "p3"}
=============================================================================
