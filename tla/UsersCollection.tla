-------------------------- MODULE UsersCollection --------------------------
(***************************************************************************)
(* The "users" collection as the app uses it: one document per user, whose *)
(* "items" field is an array of strings, and the three writes the app      *)
(* issues.  The Firestore client queues a write, applies it to what it     *)
(* shows locally at once, and sends the queue to the server in order.      *)
(***************************************************************************)
EXTENDS ItemCodec

CONSTANT NoDoc     \* the document does not exist

ASSUME NoDocAssumption == NoDoc \notin Seq(Text)

Document == Seq(Text) \cup {NoDoc}

(***************************************************************************)
(* "set"    setData with an empty array, when an account is created        *)
(* "union"  updateData with arrayUnion of one string, when an item is put  *)
(* "update" updateData with the whole array, when an item is deleted       *)
(***************************************************************************)
Write == [kind : {"set", "update"}, items : Seq(Text)]
           \cup [kind : {"union"}, item : Text]

(* Mutation: updateData, which creates no document, in place of setData.   *)
SetDataByUpdate == [kind |-> "update", items |-> <<>>]

SetData           == [kind |-> "set", items |-> <<>>]
ArrayUnion(str)   == [kind |-> "union", item |-> str]
UpdateItems(strs) == [kind |-> "update", items |-> strs]

Holds(doc, str) == \E k \in DOMAIN doc : doc[k] = str

(* Mutation: the string is appended whatever the array holds.              *)
UnionAlways(doc, str) == Append(doc, str)

(* arrayUnion appends the string unless the array holds it.                *)
Union(doc, str) == IF Holds(doc, str) THEN doc ELSE Append(doc, str)

(* updateData requires the document to exist; setData does not.            *)
Accepts(doc, write) == write.kind = "set" \/ doc # NoDoc

(* The effect of a write on a document, the server's or a cached one.      *)
Apply(doc, write) ==
  IF ~Accepts(doc, write) THEN doc
  ELSE IF write.kind = "union" THEN Union(doc, write.item)
  ELSE write.items

(* A cached document with a queue of writes applied to it, in order.       *)
Overlay(doc, queue) ==
  LET after[k \in 0 .. Len(queue)] ==
        IF k = 0 THEN doc ELSE Apply(after[k - 1], queue[k])
  IN  after[Len(queue)]

(* The strings in a document, and those a write brings along.              *)
Strings(doc) == IF doc = NoDoc THEN {} ELSE {doc[k] : k \in DOMAIN doc}

WriteStrings(write) ==
  IF write.kind = "union" THEN {write.item} ELSE Strings(write.items)

=============================================================================
