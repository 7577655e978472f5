----------------------------- MODULE ItemCodec -----------------------------
(***************************************************************************)
(* How a shopping-list item becomes one string of a user's document and    *)
(* how the string becomes an item again.                                   *)
(*                                                                         *)
(* A text is represented by what `components(separatedBy: ";")` makes of   *)
(* it: the non-empty sequence of the separator-free chunks between its     *)
(* semicolons.  The empty string is the single chunk Empty.  Joining texts *)
(* with ";" is then concatenation of their chunks, and splitting is        *)
(* reading them, so no characters are modelled.                            *)
(***************************************************************************)
EXTENDS Naturals, Sequences

CONSTANTS
  Chunk,    \* separator-free strings
  Empty,    \* the empty string
  Slash     \* the string "/", which stands for "no picture"

ASSUME ChunkAssumption == Empty \in Chunk /\ Slash \in Chunk

Text == Seq(Chunk) \ {<<>>}

EmptyText == <<Empty>>
NoPicture == <<Slash>>

(* A text that holds no separator. *)
Plain(text) == Len(text) = 1

Item == [name : Text, amount : Text, picture : Text, pictureName : Text]

ConvertItemToString(item) ==
  item.name \o item.amount \o item.picture \o item.pictureName

(* getItems reads four components; with fewer the array index traps. *)
Parses(string) == Len(string) >= 4

(* Mutation: link and name of the picture are read in the wrong order.     *)
ParsePictureSwapped(string) ==
  [name        |-> <<string[1]>>,
   amount      |-> <<string[2]>>,
   picture     |-> <<string[4]>>,
   pictureName |-> <<string[3]>>]

ParseItem(string) ==
  [name        |-> <<string[1]>>,
   amount      |-> <<string[2]>>,
   picture     |-> <<string[3]>>,
   pictureName |-> <<string[4]>>]

(* The strings of a whole list, and the rows a stored list is shown as.    *)
ConvertItems(items) == [k \in DOMAIN items |-> ConvertItemToString(items[k])]
ParseItems(strings) == [k \in DOMAIN strings |-> ParseItem(strings[k])]

PlainItem(item) ==
  /\ Plain(item.name)
  /\ Plain(item.amount)
  /\ Plain(item.picture)
  /\ Plain(item.pictureName)

=============================================================================
