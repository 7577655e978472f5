----------------------------- MODULE RowsProofs -----------------------------
(***************************************************************************)
(* The rows on the screen, on any number of devices and whatever users     *)
(* type: whose they are, that they are the document's once it is loaded,   *)
(* and that they stay.                                                     *)
(***************************************************************************)
EXTENDS ShoppingListProofs

-----------------------------------------------------------------------------
(* What the client shows of the signed-in user's document, what the server *)
(* will make of it, and whether other devices have written it.             *)
View(d)  == LocalView(d, user[d])
ToBe(d)  == Overlay(remote[user[d]], pending[d][user[d]])
Alone(d) == writers[user[d]] \subseteq {d}

(* A list that is not loaded yet waits for one query or its completion.    *)
OneQuery(d) ==
  session[d] \in {"loading", "early"} =>
    \/ asked[d] = <<user[d]>> /\ answers[d] = <<>>
    \/ asked[d] = <<>> /\ answers[d] = <<>>
    \/ asked[d] = <<>> /\ Len(answers[d]) = 1 /\ answers[d][1].user = user[d]

(* Before anything is put, the answer that waits is what the client shows. *)
NoRowsYet(d) ==
  session[d] = "loading" =>
    /\ itemArray[d] = <<>>
    /\ \A k \in DOMAIN answers[d] : answers[d][k].doc = View(d)

(* Items put before the reply are in any version a snapshot may show, and  *)
(* with them the answer that waits is what the client shows.               *)
PutEarly(d) ==
  session[d] = "early" /\ Alone(d) =>
    /\ ToBe(d) # NoDoc => RowStrings(d) \subseteq Strings(ToBe(d))
    /\ View(d) # NoDoc => RowStrings(d) \subseteq Strings(View(d))
    /\ \A k \in DOMAIN answers[d] : answers[d][k].doc # NoDoc =>
         /\ View(d) # NoDoc
         /\ Strings(View(d)) = Strings(answers[d][k].doc) \cup RowStrings(d)

(* A loaded list has nothing under way, and a document behind it.          *)
InStep(d) ==
  session[d] = "synced" =>
    /\ asked[d] = <<>> /\ answers[d] = <<>>
    /\ View(d) # NoDoc
    /\ Reloaded(RowStrings(d)) = Reloaded(Strings(View(d)))

ListInv(d) ==
  /\ screen[d] = "home" => session[d] = "none"
  /\ OneQuery(d) /\ NoRowsYet(d) /\ PutEarly(d) /\ InStep(d)

RowsInv == \A d \in Device : ListInv(d)

-----------------------------------------------------------------------------
(* A list nothing is claimed of, and one that was just opened.             *)
LEMMA ListOpened ==
  ASSUME NEW d \in Device,
         \/ session'[d] \in {"none", "mixed"}
         \/ /\ session'[d] = "loading" /\ asked'[d] = <<user'[d]>>
            /\ answers'[d] = <<>> /\ itemArray'[d] = <<>>,
         screen'[d] = "home" => session'[d] = "none"
  PROVE  ListInv(d)'
<1>1. CASE session'[d] \in {"none", "mixed"}
  BY <1>1 DEF ListInv, OneQuery, NoRowsYet, PutEarly, InStep
<1>2. CASE /\ session'[d] = "loading" /\ asked'[d] = <<user'[d]>>
           /\ answers'[d] = <<>> /\ itemArray'[d] = <<>>
  BY <1>2 DEF ListInv, OneQuery, NoRowsYet, PutEarly, InStep
<1> QED BY <1>1, <1>2

(* A step that leaves the screen and the queries of a list alone, and what *)
(* the client shows of its document, leaves its invariant alone.           *)
LEMMA ListFrame ==
  ASSUME NEW d \in Device, ListInv(d),
         screen'[d] = screen[d], user'[d] = user[d], itemArray'[d] = itemArray[d],
         asked'[d] = asked[d], answers'[d] = answers[d],
         \/ session'[d] = "mixed" /\ session[d] # "none"
         \/ /\ session'[d] = session[d]
            /\ session[d] # "none" =>
                 /\ View(d)' = View(d)
                 /\ Alone(d)' => Alone(d) /\ ToBe(d)' = ToBe(d)
  PROVE  ListInv(d)'
<1>1. CASE session'[d] = "mixed" /\ session[d] # "none"
  BY <1>1, ListOpened DEF ListInv
<1>2. CASE session'[d] = session[d] /\ session[d] = "none"
  BY <1>2, ListOpened
<1>3. CASE /\ session'[d] = session[d]
           /\ View(d)' = View(d)
           /\ Alone(d)' => Alone(d) /\ ToBe(d)' = ToBe(d)
  <2>1. RowStrings(d)' = RowStrings(d)
    BY DEF RowStrings
  <2>2. OneQuery(d)' /\ NoRowsYet(d)'
    BY <1>3 DEF ListInv, OneQuery, NoRowsYet
  <2>3. PutEarly(d)'
    BY <1>3, <2>1 DEF ListInv, PutEarly
  <2>4. InStep(d)'
    BY <1>3, <2>1 DEF ListInv, InStep
  <2> QED BY <1>3, <2>2, <2>3, <2>4 DEF ListInv
<1> QED BY <1>1, <1>2, <1>3

(* A step of another device reaches a list only through the server.        *)
LEMMA OtherList ==
  ASSUME NEW d \in Device, ListInv(d),
         screen'[d] = screen[d], user'[d] = user[d], itemArray'[d] = itemArray[d],
         asked'[d] = asked[d], answers'[d] = answers[d], session'[d] = session[d],
         cache'[d] = cache[d], pending'[d] = pending[d], held'[d] = held[d],
         session[d] # "none" =>
           /\ Alone(d)' => Alone(d)
           /\ remote'[user[d]] = remote[user[d]] \/ ~Alone(d)'
  PROVE  ListInv(d)'
<1>1. View(d)' = View(d)
  BY DEF View, LocalView, Known
<1>2. session[d] # "none" /\ Alone(d)' => ToBe(d)' = ToBe(d)
  BY DEF ToBe
<1> QED BY <1>1, <1>2, ListFrame

(* An item that is put is added to every document that exists.             *)
LEMMA PutAdds ==
  ASSUME NEW doc \in Document, NEW str \in Text
  PROVE  LET next == Apply(doc, ArrayUnion(str))
         IN  /\ next = NoDoc <=> doc = NoDoc
             /\ doc # NoDoc => Strings(next) = Strings(doc) \cup {str}
<1> DEFINE write == ArrayUnion(str)
<1>1. write.kind = "union" /\ write.item = str
  BY DEF ArrayUnion
<1>2. CASE doc = NoDoc
  BY <1>1, <1>2 DEF Apply, Accepts
<1>3. CASE doc # NoDoc
  <2>1. doc \in Seq(Text) /\ Apply(doc, write) = Union(doc, str)
    BY <1>1, <1>3 DEF Apply, Accepts, Document
  <2>2. Union(doc, str) \in Seq(Text) /\ Union(doc, str) # NoDoc
    BY <2>1, UnionType, NoDocAssumption
  <2>3. CASE Holds(doc, str)
    BY <1>3, <2>1, <2>2, <2>3 DEF Union, Strings, Holds
  <2>4. CASE ~Holds(doc, str)
    <3> DEFINE new == Append(doc, str)
    <3>1. /\ new \in Seq(Text) /\ Len(new) = Len(doc) + 1 /\ Len(doc) \in Nat
          /\ \A k \in 1 .. Len(doc) : new[k] = doc[k]
          /\ new[Len(doc) + 1] = str
      BY <2>1, AppendProperties
    <3>2. new = Union(doc, str)
      BY <2>4 DEF Union
    <3> HIDE DEF new
    <3>3. {new[k] : k \in DOMAIN new} = {doc[k] : k \in DOMAIN doc} \cup {str}
      <4>1. DOMAIN new = 1 .. Len(doc) + 1 /\ DOMAIN doc = 1 .. Len(doc)
        BY <2>1, <3>1
      <4>2. \A k \in DOMAIN new : k \in DOMAIN doc \/ k = Len(doc) + 1
        BY <3>1, <4>1
      <4>3. \A k \in DOMAIN doc : k \in DOMAIN new
        BY <3>1, <4>1
      <4>4. Len(doc) + 1 \in DOMAIN new
        BY <3>1, <4>1
      <4> QED BY <3>1, <4>1, <4>2, <4>3, <4>4
    <3> QED BY <1>3, <2>1, <2>2, <3>2, <3>3 DEF Strings
  <2> QED BY <2>1, <2>2, <2>3, <2>4, <1>3
<1> QED BY <1>2, <1>3

(* The documents a list is compared with.                                  *)
LEMMA ViewTypes ==
  ASSUME DataInv, SentInv, NEW d \in Device, user[d] \in User
  PROVE  /\ View(d) \in Document /\ ToBe(d) \in Document
         /\ View(d) = Overlay(Known(d, user[d]), pending[d][user[d]])
<1>1. /\ Known(d, user[d]) \in Document /\ remote[user[d]] \in Document
      /\ pending[d][user[d]] \in Seq(Write)
  BY DocumentTypes DEF Queue
<1>2. View(d) = Overlay(Known(d, user[d]), pending[d][user[d]])
  BY DEF View, LocalView
<1> QED BY <1>1, <1>2, OverlayType DEF ToBe

(* Somebody is signed in behind a list anything is claimed of.             *)
LEMMA ListSigned ==
  ASSUME DataInv, SignedInv, NEW d \in Device, ListInv(d), session[d] # "none"
  PROVE  user[d] \in User /\ screen[d] = "list"
<1>1. screen[d] = "list"
  BY DEF DataInv, ProcessInv, ListInv
<1> QED BY <1>1 DEF DataInv, KeptInv, SignedInv

(* An item is put: the row, and the write on every version.                *)
LEMMA PutKeepsList ==
  ASSUME DataInv, SentInv, SignedInv, NEW d \in Device, ListInv(d),
         NEW item \in Item, PutItemInDatabase(d, item), screen[d] = "list",
         UNCHANGED <<remote, user, cache, held, screen, asked, answers, writers>>
  PROVE  ListInv(d)'
<1> DEFINE str == ConvertItemToString(item)
<1>a. /\ itemArray \in [Device -> Seq(Item)]
      /\ pending \in [Device -> [User -> Seq(ParsedWrite)]]
      /\ session \in [Device -> {"none", "loading", "early", "synced", "mixed"}]
  BY DEF DataInv, KeptInv, ProcessInv, HistoryInv
<1>b. str \in Text
  BY ConvertedParses
<1>c. user[d] \in User
  BY DEF SignedInv, DataInv, KeptInv
<1> HIDE DEF str
<1>1. pending'[d][user[d]] = Append(pending[d][user[d]], ArrayUnion(str))
  BY <1>a, <1>c DEF PutItemInDatabase, Enqueue, str
<1>2. \A doc : Overlay(doc, pending'[d][user[d]]) =
                Apply(Overlay(doc, pending[d][user[d]]), ArrayUnion(str))
  <2>1. pending[d][user[d]] \in Seq(Write) /\ ArrayUnion(str) \in Write
    BY <1>b, <1>c, DocumentTypes DEF Queue, ArrayUnion, Write
  <2> QED BY <1>1, <2>1, OverlayAppend
<1>3. Known(d, user[d])' = Known(d, user[d])
  BY DEF Known
<1>4. /\ View(d)' = Apply(View(d), ArrayUnion(str))
      /\ ToBe(d)' = Apply(ToBe(d), ArrayUnion(str))
  BY <1>2, <1>3 DEF View, ToBe, LocalView
<1>5. /\ View(d)' = NoDoc <=> View(d) = NoDoc
      /\ View(d) # NoDoc => Strings(View(d)') = Strings(View(d)) \cup {str}
      /\ ToBe(d)' = NoDoc <=> ToBe(d) = NoDoc
      /\ ToBe(d) # NoDoc => Strings(ToBe(d)') = Strings(ToBe(d)) \cup {str}
  BY <1>4, <1>b, <1>c, ViewTypes, PutAdds
<1>6. RowStrings(d)' = RowStrings(d) \cup {str}
  <2>1. itemArray'[d] = Append(itemArray[d], item)
    BY <1>a DEF PutItemInDatabase
  <2> DEFINE rows == itemArray[d]
             more == Append(rows, item)
  <2>2. /\ rows \in Seq(Item) /\ Len(rows) \in Nat
        /\ more \in Seq(Item) /\ Len(more) = Len(rows) + 1
        /\ \A k \in 1 .. Len(rows) : more[k] = rows[k]
        /\ more[Len(rows) + 1] = item
    BY <1>a, AppendProperties
  <2>3. DOMAIN more = 1 .. Len(rows) + 1 /\ DOMAIN rows = 1 .. Len(rows)
    BY <2>2
  <2>4. itemArray'[d] = more
    BY <2>1
  <2> HIDE DEF rows, more
  <2>5. \A k \in DOMAIN more : k \in DOMAIN rows \/ k = Len(rows) + 1
    BY <2>2, <2>3
  <2>6. (\A k \in DOMAIN rows : k \in DOMAIN more) /\ Len(rows) + 1 \in DOMAIN more
    BY <2>2, <2>3
  <2>7. {ConvertItemToString(more[k]) : k \in DOMAIN more}
          = {ConvertItemToString(rows[k]) : k \in DOMAIN rows} \cup {str}
    BY <2>2, <2>3, <2>5, <2>6 DEF str
  <2> QED BY <2>4, <2>7 DEF RowStrings, rows
<1>7. session'[d] = IF session[d] = "loading" THEN "early" ELSE session[d]
  BY <1>a DEF PutItemInDatabase
<1>8. OneQuery(d)' /\ NoRowsYet(d)'
  BY <1>7 DEF ListInv, OneQuery, NoRowsYet
<1>9. ASSUME session[d] = "loading" PROVE PutEarly(d)'
  <2>1. RowStrings(d) = {}
    BY <1>9 DEF ListInv, NoRowsYet, RowStrings
  <2>2. \A k \in DOMAIN answers[d] : answers[d][k].doc = View(d)
    BY <1>9 DEF ListInv, NoRowsYet
  <2> QED BY <1>5, <1>6, <2>1, <2>2 DEF PutEarly
<1>10. ASSUME session[d] = "early" PROVE PutEarly(d)'
  <2>1. Alone(d)' => Alone(d)
    BY DEF Alone
  <2>2. PutEarly(d)
    BY DEF ListInv
  <2> QED BY <1>5, <1>6, <1>10, <2>1, <2>2 DEF PutEarly
<1>11. PutEarly(d)'
  BY <1>7, <1>9, <1>10 DEF PutEarly
<1>12. InStep(d)'
  <2> SUFFICES ASSUME session[d] = "synced" PROVE InStep(d)'
    BY <1>7 DEF InStep
  <2>1. /\ asked[d] = <<>> /\ answers[d] = <<>> /\ View(d) # NoDoc
        /\ Reloaded(RowStrings(d)) = Reloaded(Strings(View(d)))
    BY DEF ListInv, InStep
  <2>2. Reloaded(RowStrings(d) \cup {str}) = Reloaded(Strings(View(d)) \cup {str})
    BY <2>1 DEF Reloaded
  <2> QED BY <1>5, <1>6, <2>1, <2>2 DEF InStep
<1> QED BY <1>8, <1>11, <1>12 DEF ListInv

(* A row is deleted from a loaded list: what is left is the document.      *)
LEMMA DeleteKeepsList ==
  ASSUME DataInv, SentInv, SignedInv, NEW d \in Device, ListInv(d),
         NEW k \in DOMAIN itemArray[d], DeleteItem(d, k)
  PROVE  ListInv(d)'
<1> DEFINE rows == RemoveAt(itemArray[d], k)
           strs == ConvertItems(rows)
<1>a. /\ itemArray \in [Device -> Seq(Item)]
      /\ pending \in [Device -> [User -> Seq(ParsedWrite)]]
      /\ session \in [Device -> {"none", "loading", "early", "synced", "mixed"}]
  BY DEF DataInv, KeptInv, ProcessInv, HistoryInv
<1>1. /\ screen[d] = "list" /\ Enqueue(d, UpdateItems(strs))
      /\ itemArray' = [itemArray EXCEPT ![d] = rows]
      /\ session'[d] = IF session[d] = "synced" THEN "synced" ELSE "mixed"
      /\ UNCHANGED <<remote, user, cache, held, screen, asked, answers, writers>>
  BY <1>a DEF DeleteItem, CanTap, server
<1>2. CASE session[d] # "synced"
  BY <1>1, <1>2, ListOpened
<1>3. CASE session[d] = "synced"
  <2>1. /\ asked[d] = <<>> /\ answers[d] = <<>> /\ View(d) # NoDoc
    BY <1>3 DEF ListInv, InStep
  <2>2. user[d] \in User
    BY <1>3, ListSigned
  <2>3. rows \in Seq(Item)
    BY <1>a, RemoveAtType
  <2>4. strs \in Seq(Text) /\ DOMAIN strs = DOMAIN rows
        /\ \A j \in DOMAIN rows : strs[j] = ConvertItemToString(rows[j])
    BY <2>3, ConvertedParses DEF ConvertItems
  <2> HIDE DEF rows, strs
  <2>5. pending'[d][user[d]] = Append(pending[d][user[d]], UpdateItems(strs))
    BY <1>a, <1>1, <2>2 DEF Enqueue
  <2>6. View(d)' = Apply(View(d), UpdateItems(strs))
    <3>1. pending[d][user[d]] \in Seq(Write) /\ UpdateItems(strs) \in Write
      BY <2>2, <2>4, DocumentTypes DEF Queue, UpdateItems, Write
    <3>2. Known(d, user[d])' = Known(d, user[d])
      BY <1>1 DEF Known
    <3> QED BY <1>1, <2>5, <3>1, <3>2, OverlayAppend DEF View, LocalView
  <2>7. View(d)' = strs
    BY <2>1, <2>6 DEF Apply, Accepts, UpdateItems
  <2>8. View(d)' # NoDoc
    BY <2>4, <2>7, NoDocAssumption
  <2>9. RowStrings(d)' = Strings(View(d)')
    <3>1. itemArray'[d] = rows
      BY <1>a, <1>1
    <3>2. Strings(View(d)') = {strs[j] : j \in DOMAIN rows}
      BY <2>4, <2>7, <2>8 DEF Strings
    <3> QED BY <2>4, <3>1, <3>2 DEF RowStrings
  <2> QED BY <1>1, <1>3, <2>1, <2>8, <2>9 DEF ListInv, OneQuery, NoRowsYet, PutEarly, InStep
<1> QED BY <1>2, <1>3

(* A query ends without the server: the client shows what it showed.       *)
LEMMA EndKeepsView ==
  ASSUME DataInv, NEW d \in Device, user[d] \in User, NEW outstanding,
         EndQuery(d, outstanding), UNCHANGED <<user, pending>>
  PROVE  View(d)' = View(d)
<1>a. /\ cache \in [Device -> [User -> ParsedDocument]]
      /\ held \in [Device -> Seq(ParsedWrite)]
  BY DEF DataInv, KeptInv, ProcessInv
<1>1. CASE UNCHANGED <<cache, held>>
  BY <1>1 DEF View, LocalView, Known
<1>2. CASE ReleaseHeld(d)
  <2>1. cache'[d][user[d]] = Known(d, user[d]) /\ held'[d] = <<>>
    BY <1>a, <1>2 DEF ReleaseHeld
  <2>2. Known(d, user[d])' = Known(d, user[d])
    BY <2>1, OverlayEmpty DEF Known
  <2> QED BY <2>2 DEF View, LocalView
<1> QED BY <1>1, <1>2 DEF EndQuery

(* Nothing is left of one query when it is taken out.                      *)
LEMMA RemoveOnly ==
  ASSUME NEW s, s # <<>>, NEW u, s = <<u>>, NEW k \in DOMAIN s
  PROVE  RemoveAt(s, k) = <<>> /\ s[k] = u
<1>1. k = 1
  OBVIOUS
<1>2. SubSeq(s, 1, 0) = <<>> /\ SubSeq(s, 2, 1) = <<>>
  BY SubSeqEmpty
<1>3. Len(s) = 1
  OBVIOUS
<1> QED BY <1>1, <1>2, <1>3 DEF RemoveAt

(* The snapshot of the one query under way becomes the answer that waits.  *)
LEMMA SnapshotKeepsList ==
  ASSUME DataInv, SentInv, SignedInv, NEW d \in Device, ListInv(d), Snapshot(d)
  PROVE  ListInv(d)'
<1>a. /\ cache \in [Device -> [User -> ParsedDocument]]
      /\ held \in [Device -> Seq(ParsedWrite)]
      /\ asked \in [Device -> Seq(User)]
      /\ answers \in [Device -> Seq(ParsedAnswer)]
      /\ session \in [Device -> {"none", "loading", "early", "synced", "mixed"}]
  BY DEF DataInv, KeptInv, ProcessInv, HistoryInv
<1>1. PICK k \in DOMAIN asked[d], u \in User :
        /\ u = asked[d][k]
        /\ asked' = [asked EXCEPT ![d] = RemoveAt(asked[d], k)]
        /\ Refresh(d, u) \/ EndQuery(d, RemoveAt(asked[d], k))
        /\ answers' = [answers EXCEPT ![d] =
                         Append(answers[d], [user |-> u, doc |-> LocalView(d, u)'])]
        /\ UNCHANGED <<remote, user, pending, screen, itemArray, session, writers>>
  BY DEF Snapshot, server
<1>2. CASE session[d] \in {"none", "mixed"}
  BY <1>1, <1>2, ListOpened DEF ListInv
<1>3. CASE session[d] = "synced"
  BY <1>1, <1>3 DEF ListInv, InStep
<1>4. CASE session[d] \in {"loading", "early"}
  <2>1. user[d] \in User /\ screen[d] = "list"
    BY <1>4, ListSigned
  <2>2. asked[d] = <<user[d]>> /\ answers[d] = <<>>
    <3>1. asked[d] # <<>>
      BY <1>1
    <3> QED BY <1>4, <3>1 DEF ListInv, OneQuery
  <2>3. u = user[d] /\ RemoveAt(asked[d], k) = <<>>
    BY <1>1, <2>2, RemoveOnly
  <2>4. asked'[d] = <<>>
    BY <1>a, <1>1, <2>3
  <2>5. answers'[d] = <<[user |-> u, doc |-> View(d)']>>
    <3>1. View(d)' = LocalView(d, u)'
      BY <1>1, <2>3 DEF View
    <3> DEFINE answer == [user |-> u, doc |-> LocalView(d, u)']
    <3>2. answers' = [answers EXCEPT ![d] = Append(<<>>, answer)]
      BY <1>1, <2>2
    <3> HIDE DEF answer
    <3>3. answers'[d] = <<answer>>
      BY <1>a, <3>2
    <3> QED BY <3>1, <3>3 DEF answer
  <2>6. View(d)' = View(d) \/ View(d)' = ToBe(d)
    <3>1. CASE Refresh(d, u)
      <4>1. cache'[d][u] = remote[u] /\ held'[d] = <<>>
        BY <1>a, <3>1 DEF Refresh
      <4>2. Known(d, u)' = remote[u]
        BY <4>1, OverlayEmpty DEF Known
      <4> QED BY <1>1, <2>3, <4>2 DEF View, LocalView, ToBe
    <3>2. CASE EndQuery(d, RemoveAt(asked[d], k))
      BY <1>1, <2>1, <3>2, EndKeepsView
    <3> QED BY <1>1, <3>1, <3>2
  <2>7. ToBe(d)' = ToBe(d) /\ RowStrings(d)' = RowStrings(d) /\ Alone(d)' = Alone(d)
    BY <1>1 DEF ToBe, RowStrings, Alone
  <2> DEFINE shown == View(d)'
  <2>8. /\ DOMAIN answers'[d] = {1} /\ Len(answers'[d]) = 1
        /\ answers'[d][1].user = user'[d] /\ answers'[d][1].doc = shown
    <3> DEFINE answer == [user |-> u, doc |-> View(d)']
    <3>1. answer.user = user[d] /\ answer.doc = shown
      BY <2>3
    <3>2. answers'[d] = <<answer>>
      BY <2>5
    <3> HIDE DEF answer, shown
    <3>3. DOMAIN <<answer>> = {1} /\ Len(<<answer>>) = 1 /\ <<answer>>[1] = answer
      OBVIOUS
    <3> QED BY <1>1, <3>1, <3>2, <3>3
  <2>9. OneQuery(d)'
    BY <2>4, <2>8 DEF OneQuery
  <2>10. NoRowsYet(d)'
    BY <1>1, <2>8 DEF ListInv, NoRowsYet
  <2>11. PutEarly(d)'
    <3> SUFFICES ASSUME session[d] = "early", Alone(d)
                 PROVE  /\ ToBe(d) # NoDoc => RowStrings(d) \subseteq Strings(ToBe(d))
                        /\ shown # NoDoc => RowStrings(d) \subseteq Strings(shown)
      BY <1>1, <2>7, <2>8 DEF PutEarly
    <3>1. /\ ToBe(d) # NoDoc => RowStrings(d) \subseteq Strings(ToBe(d))
          /\ View(d) # NoDoc => RowStrings(d) \subseteq Strings(View(d))
      BY DEF ListInv, PutEarly
    <3> QED BY <2>6, <3>1
  <2>12. InStep(d)'
    BY <1>1, <1>4 DEF InStep
  <2> QED BY <1>1, <2>1, <2>9, <2>10, <2>11, <2>12 DEF ListInv
<1> QED BY <1>a, <1>2, <1>3, <1>4

(* The one query under way fails: the list stays as it is.                 *)
LEMMA FailKeepsList ==
  ASSUME DataInv, SentInv, SignedInv, NEW d \in Device, ListInv(d), QueryFails(d)
  PROVE  ListInv(d)'
<1>a. /\ asked \in [Device -> Seq(User)]
      /\ session \in [Device -> {"none", "loading", "early", "synced", "mixed"}]
  BY DEF DataInv, ProcessInv, HistoryInv
<1>1. PICK k \in DOMAIN asked[d] :
        /\ asked' = [asked EXCEPT ![d] = RemoveAt(asked[d], k)]
        /\ EndQuery(d, RemoveAt(asked[d], k))
        /\ UNCHANGED <<remote, user, pending, screen, itemArray, answers, session, writers>>
  BY DEF QueryFails, server
<1>2. CASE session[d] \in {"none", "mixed"}
  BY <1>1, <1>2, ListOpened DEF ListInv
<1>3. CASE session[d] = "synced"
  BY <1>1, <1>3 DEF ListInv, InStep
<1>4. CASE session[d] \in {"loading", "early"}
  <2>1. user[d] \in User /\ screen[d] = "list"
    BY <1>4, ListSigned
  <2>2. asked[d] = <<user[d]>> /\ answers[d] = <<>>
    <3>1. asked[d] # <<>>
      BY <1>1
    <3> QED BY <1>4, <3>1 DEF ListInv, OneQuery
  <2>3. asked'[d] = <<>>
    <3>1. RemoveAt(asked[d], k) = <<>>
      BY <1>1, <2>2, RemoveOnly
    <3> QED BY <1>a, <1>1, <3>1
  <2>4. View(d)' = View(d)
    BY <1>1, <2>1, EndKeepsView
  <2>5. ToBe(d)' = ToBe(d) /\ RowStrings(d)' = RowStrings(d) /\ Alone(d)' = Alone(d)
    BY <1>1 DEF ToBe, RowStrings, Alone
  <2>6. OneQuery(d)' /\ NoRowsYet(d)' /\ InStep(d)'
    BY <1>1, <1>4, <2>2, <2>3 DEF ListInv, OneQuery, NoRowsYet, InStep
  <2>7. PutEarly(d)'
    BY <1>1, <2>2, <2>4, <2>5 DEF ListInv, PutEarly
  <2> QED BY <1>1, <2>1, <2>6, <2>7 DEF ListInv
<1> QED BY <1>a, <1>2, <1>3, <1>4

(* What a document is shown as, and what it is shown as when its rows are  *)
(* saved and loaded again.                                                 *)
LEMMA RowsReload ==
  ASSUME NEW doc \in ParsedDocument, doc # NoDoc
  PROVE  LET rows == ParseItems(doc)
         IN  /\ rows \in Seq(Item)
             /\ Reloaded({ConvertItemToString(rows[k]) : k \in DOMAIN rows})
                   = Reloaded(Strings(doc))
<1> DEFINE rows == ParseItems(doc)
<1>1. doc \in Seq(ParsedText)
  BY DEF ParsedDocument
<1>2. DOMAIN rows = DOMAIN doc /\ \A k \in DOMAIN doc : rows[k] = ParseItem(doc[k])
  BY DEF ParseItems
<1>3. \A k \in DOMAIN doc : ParseItem(ConvertItemToString(rows[k])) = ParseItem(doc[k])
  BY <1>1, <1>2, ReparseIsStable DEF ParsedText, Text
<1>4. rows \in Seq(Item)
  BY RowsParsed
<1> HIDE DEF rows
<1> QED BY <1>2, <1>3, <1>4 DEF Reloaded, Strings, rows

(* The strings of rows that are added to others.                           *)
LEMMA ConcatStrings ==
  ASSUME NEW rows \in Seq(Item), NEW more \in Seq(Item)
  PROVE  {ConvertItemToString((rows \o more)[k]) : k \in DOMAIN (rows \o more)}
           = {ConvertItemToString(rows[k]) : k \in DOMAIN rows}
               \cup {ConvertItemToString(more[k]) : k \in DOMAIN more}
<1> DEFINE all == rows \o more
           n   == Len(rows)
           m   == Len(more)
<1>1. /\ n \in Nat /\ m \in Nat
      /\ Len(all) = n + m
      /\ \A k \in 1 .. n : all[k] = rows[k]
      /\ \A k \in 1 .. n + m : k > n => all[k] = more[k - n]
      /\ DOMAIN rows = 1 .. n /\ DOMAIN more = 1 .. m /\ DOMAIN all = 1 .. n + m
  <2>1. all \in Seq(Item) /\ Len(all) = n + m
    BY ConcatProperties
  <2>2. \A k \in 1 .. Len(rows) + Len(more) :
          all[k] = IF k <= Len(rows) THEN rows[k] ELSE more[k - Len(rows)]
    BY ConcatProperties
  <2>3. n \in Nat /\ m \in Nat /\ DOMAIN rows = 1 .. n /\ DOMAIN more = 1 .. m
    BY LenProperties
  <2> HIDE DEF all
  <2>4. DOMAIN all = 1 .. n + m
    BY <2>1
  <2>5. \A k \in 1 .. n + m : all[k] = IF k <= n THEN rows[k] ELSE more[k - n]
    BY <2>2
  <2> HIDE DEF n, m
  <2> QED BY <2>1, <2>3, <2>4, <2>5
<1> HIDE DEF all, n, m
<1>2. ASSUME NEW k \in DOMAIN all
      PROVE  \/ k \in DOMAIN rows /\ all[k] = rows[k]
             \/ \E j \in DOMAIN more : all[k] = more[j]
  <2>1. k \in 1 .. n + m
    BY <1>1
  <2>2. CASE k <= n
    BY <1>1, <2>1, <2>2
  <2>3. CASE k > n
    <3>1. k - n \in DOMAIN more /\ all[k] = more[k - n]
      BY <1>1, <2>1, <2>3
    <3> QED BY <3>1
  <2> QED BY <1>1, <2>1, <2>2, <2>3
<1>3. \A k \in DOMAIN rows : k \in DOMAIN all /\ all[k] = rows[k]
  BY <1>1
<1>4. \A k \in DOMAIN more : k + n \in DOMAIN all /\ all[k + n] = more[k]
  BY <1>1
<1> QED BY <1>2, <1>3, <1>4 DEF all

(* The answer that waits for a list is added to its rows.                  *)
LEMMA ReplyKeepsList ==
  ASSUME DataInv, SentInv, SignedInv, NEW d \in Device, ListInv(d), Reply(d)
  PROVE  ListInv(d)'
<1> DEFINE answer == Head(answers[d])
           rows   == IF answer.doc # NoDoc THEN ParseItems(answer.doc) ELSE <<>>
<1>a. /\ answers \in [Device -> Seq(ParsedAnswer)]
      /\ itemArray \in [Device -> Seq(Item)]
      /\ session \in [Device -> {"none", "loading", "early", "synced", "mixed"}]
  BY DEF DataInv, ProcessInv, HistoryInv
<1>1. /\ answers[d] # <<>>
      /\ itemArray'[d] = itemArray[d] \o rows
      /\ answers'[d] = Tail(answers[d])
      /\ answer.doc # NoDoc =>
           session'[d] = Loaded(session[d], writers[answer.user] \subseteq {d})
      /\ answer.doc = NoDoc => session'[d] = session[d]
      /\ UNCHANGED <<remote, user, cache, held, pending, screen, asked, writers>>
  BY <1>a DEF Reply, Due, server, kept
<1>2. View(d)' = View(d) /\ ToBe(d)' = ToBe(d) /\ Alone(d)' = Alone(d)
  BY <1>1 DEF View, ToBe, Alone, LocalView, Known
<1>3. answer \in ParsedAnswer /\ answer = answers[d][1] /\ 1 \in DOMAIN answers[d]
  BY <1>a, <1>1, HeadTailProperties, LenProperties, EmptySeq
<1>4. CASE session[d] \in {"none", "mixed"}
  <2>1. session'[d] = session[d]
    BY <1>1, <1>4 DEF Loaded
  <2> QED BY <1>1, <1>4, <2>1, ListOpened DEF ListInv
<1>5. CASE session[d] = "synced"
  BY <1>1, <1>5 DEF ListInv, InStep
<1>6. CASE session[d] \in {"loading", "early"}
  <2>1. user[d] \in User /\ screen[d] = "list"
    BY <1>6, ListSigned
  <2>2. asked[d] = <<>> /\ Len(answers[d]) = 1 /\ answer.user = user[d]
    BY <1>1, <1>3, <1>6 DEF ListInv, OneQuery
  <2>3. answers'[d] = <<>>
    <3>1. Tail(answers[d]) \in Seq(ParsedAnswer) /\ Len(Tail(answers[d])) = 0
      BY <1>a, <1>1, <2>2, HeadTailProperties
    <3> QED BY <1>1, <3>1, EmptySeq
  <2>4. asked'[d] = <<>> /\ user'[d] = user[d] /\ screen'[d] = "list"
    BY <1>1, <2>1, <2>2
  <2>5. CASE answer.doc = NoDoc
    <3>1. itemArray'[d] = itemArray[d] /\ session'[d] = session[d]
      BY <1>a, <1>1, <2>5, ConcatEmptySeq
    <3>2. RowStrings(d)' = RowStrings(d)
      BY <3>1 DEF RowStrings
    <3>3. OneQuery(d)' /\ NoRowsYet(d)' /\ InStep(d)'
      BY <1>6, <2>3, <2>4, <3>1 DEF ListInv, OneQuery, NoRowsYet, InStep
    <3>4. PutEarly(d)'
      BY <1>2, <2>3, <3>1, <3>2 DEF ListInv, PutEarly
    <3> QED BY <2>4, <3>3, <3>4 DEF ListInv
  <2>6. CASE answer.doc # NoDoc
    <3> DEFINE strs == {ConvertItemToString(rows[k]) : k \in DOMAIN rows}
    <3>1. /\ answer.doc \in ParsedDocument /\ rows = ParseItems(answer.doc)
          /\ session'[d] = Loaded(session[d], Alone(d))
      BY <1>1, <1>3, <2>2, <2>6 DEF ParsedAnswer, Alone
    <3>2. rows \in Seq(Item) /\ Reloaded(strs) = Reloaded(Strings(answer.doc))
      BY <2>6, <3>1, RowsReload
    <3>3. RowStrings(d)' = RowStrings(d) \cup strs
      <4> DEFINE former == itemArray[d]
      <4>1. former \in Seq(Item) /\ rows \in Seq(Item) /\ itemArray'[d] = former \o rows
        BY <1>a, <1>1, <3>2
      <4> HIDE DEF rows, former
      <4>2. {ConvertItemToString((former \o rows)[k]) : k \in DOMAIN (former \o rows)}
              = {ConvertItemToString(former[k]) : k \in DOMAIN former} \cup strs
        BY <4>1, ConcatStrings
      <4> QED BY <4>1, <4>2 DEF RowStrings, former
    <3>4. CASE session[d] = "loading"
      <4>1. session'[d] = "synced" /\ RowStrings(d) = {} /\ answer.doc = View(d)
        BY <1>3, <3>1, <3>4 DEF ListInv, NoRowsYet, RowStrings, Loaded
      <4>2. Reloaded(RowStrings(d)') = Reloaded(Strings(View(d)))
        BY <3>2, <3>3, <4>1
      <4> QED BY <1>2, <2>3, <2>4, <2>6, <4>1, <4>2
              DEF ListInv, OneQuery, NoRowsYet, PutEarly, InStep
    <3>5. CASE session[d] = "early" /\ Alone(d)
      <4>1. /\ View(d) # NoDoc
            /\ Strings(View(d)) = Strings(answer.doc) \cup RowStrings(d)
        BY <1>3, <2>6, <3>5 DEF ListInv, PutEarly
      <4>2. Reloaded(RowStrings(d)') = Reloaded(Strings(View(d)))
        <5> DEFINE former == RowStrings(d)
                   more   == Strings(answer.doc)
        <5>1. Reloaded(strs) = Reloaded(more)
          BY <3>2
        <5> HIDE DEF strs, former, more
        <5>2. Reloaded(former \cup strs) = Reloaded(former) \cup Reloaded(strs)
          BY DEF Reloaded
        <5>3. Reloaded(more \cup former) = Reloaded(more) \cup Reloaded(former)
          BY DEF Reloaded
        <5>4. RowStrings(d)' = former \cup strs /\ Strings(View(d)) = more \cup former
          BY <3>3, <4>1 DEF former, more
        <5> QED BY <5>1, <5>2, <5>3, <5>4
      <4>3. session'[d] = "synced"
        BY <3>1, <3>5 DEF Loaded
      <4> QED BY <1>2, <2>3, <2>4, <4>1, <4>2, <4>3
              DEF ListInv, OneQuery, NoRowsYet, PutEarly, InStep
    <3>6. CASE session[d] = "early" /\ ~Alone(d)
      <4>1. session'[d] = "mixed"
        BY <3>1, <3>6 DEF Loaded
      <4> QED BY <2>4, <4>1, ListOpened
    <3> QED BY <1>6, <3>4, <3>5, <3>6
  <2> QED BY <2>5, <2>6
<1> QED BY <1>a, <1>4, <1>5, <1>6

(* A write the server takes was counted on by the device that alone has    *)
(* written the document.                                                   *)
LEMMA CommitKeepsToBe ==
  ASSUME DataInv, SentInv, ConvergeInv, NEW d \in Device, Alone(d), Commit(d)
  PROVE  ToBe(d)' = ToBe(d)
<1> DEFINE u     == user[d]
           n     == Len(sent[d])
           there == remote[u]
           queue == pending[d][u]
           write == queue[n + 1]
<1>a. /\ remote \in [User -> ParsedDocument]
      /\ user \in [Device -> User \cup {NoUser}]
      /\ sent \in [Device -> Seq(Outcome)]
  BY DEF DataInv, ServerInv, KeptInv, ProcessInv
<1>1. /\ u \in User
      /\ n < Len(queue)
      /\ \A k \in DOMAIN sent[d] : sent[d][k] # "rejected"
      /\ remote' = [remote EXCEPT ![u] = Apply(there, write)]
      /\ UNCHANGED <<user, pending>>
  BY <1>a DEF Commit, kept
<1>2. ToBe(d)' = Overlay(Apply(there, write), queue) /\ ToBe(d) = Overlay(there, queue)
  BY <1>a, <1>1 DEF ToBe
<1>3. CASE ~Accepts(there, write)
  BY <1>2, <1>3 DEF Apply
<1>4. CASE Accepts(there, write)
  <2>1. there \in Document /\ queue \in Queue /\ n \in Nat
    BY <1>a, <1>1, DocumentTypes, LenProperties
  <2>2. Fixed(there, queue, n)
    <3>1. Converging(d, u) /\ Outcomes(d, u) = sent[d]
      BY <1>1 DEF ConvergeInv, Alone, Outcomes
    <3>2. CASE there # NoDoc
      BY <3>1, <3>2 DEF Converging, Good
    <3>3. CASE there = NoDoc
      <4>1. \A k \in DOMAIN sent[d] : sent[d][k] = "rejected"
        BY <3>1, <3>3 DEF Converging, Good
      <4>2. DOMAIN sent[d] = {}
        BY <1>1, <4>1
      <4>3. DOMAIN sent[d] = 1 .. n
        BY <1>a, LenProperties
      <4> HIDE DEF n
      <4>4. n = 0
        <5> SUFFICES ASSUME n # 0 PROVE FALSE
          OBVIOUS
        <5>1. 1 \in 1 .. n
          BY <2>1
        <5> QED BY <4>2, <4>3, <5>1
      <4> QED BY <4>4, FixedNone
    <3> QED BY <3>2, <3>3
  <2> HIDE DEF there, queue, n
  <2> QED BY <1>1, <1>2, <1>4, <2>1, <2>2, FixedCommit DEF write
<1> QED BY <1>3, <1>4

(* Nor does an answer change what it counts on, unless the write was       *)
(* turned down.                                                            *)
LEMMA AnswerKeepsToBe ==
  ASSUME DataInv, SentInv, ConvergeInv, NEW d \in Device, Alone(d), Acknowledge(d),
         Head(sent[d]) # "rejected"
  PROVE  ToBe(d)' = ToBe(d)
<1> DEFINE u     == user[d]
           queue == pending[d][u]
           there == remote[u]
<1>a. /\ user \in [Device -> User \cup {NoUser}]
      /\ pending \in [Device -> [User -> Seq(ParsedWrite)]]
      /\ sent \in [Device -> Seq(Outcome)]
  BY DEF DataInv, KeptInv, ProcessInv
<1>1. /\ u \in User /\ sent[d] # <<>>
      /\ pending'[d][u] = Tail(queue)
      /\ UNCHANGED <<remote, user>>
  BY <1>a DEF Acknowledge, Answered, server
<1>2. Head(sent[d]) = sent[d][1] /\ 1 \in DOMAIN sent[d] /\ Len(sent[d]) \in Nat \ {0}
  BY <1>a, <1>1, HeadTailProperties, EmptySeq, LenProperties
<1>3. Good(there, Known(d, u), queue, sent[d], held[d], dropped[d][u])
  BY <1>1 DEF Alone, ConvergeInv, Converging, Outcomes, Acked
<1>4. queue \in Queue /\ Len(sent[d]) <= Len(queue) /\ Len(queue) \in Nat
  <2>1. queue \in Queue /\ Len(sent[d]) <= Len(queue)
    BY <1>1, DocumentTypes DEF Outcomes
  <2> QED BY <2>1 DEF Queue
<1>5. ToBe(d)' = Overlay(there, Tail(queue)) /\ ToBe(d) = Overlay(there, queue)
  BY <1>1 DEF ToBe
<1> HIDE DEF there, queue, u
<1>6. Fixed(there, queue, Len(sent[d]))
  BY <1>2, <1>3 DEF Good
<1>7. Len(sent[d]) \in 1 .. Len(queue)
  BY <1>2, <1>4
<1> QED BY <1>4, <1>5, <1>6, <1>7, FixedTail

(* The server takes a write of some device: another device's document is   *)
(* not touched, another device of the same user is no longer alone, and    *)
(* the device itself had counted on it.                                    *)
LEMMA CommitKeepsList ==
  ASSUME DataInv, SentInv, SignedInv, ConvergeInv, NEW d \in Device, ListInv(d),
         NEW e \in Device, Commit(e)
  PROVE  ListInv(d)'
<1> DEFINE u     == user[e]
           n     == Len(sent[e])
           write == pending[e][u][n + 1]
<1>a. /\ remote \in [User -> ParsedDocument] /\ writers \in [User -> SUBSET Device]
      /\ user \in [Device -> User \cup {NoUser}]
      /\ sent \in [Device -> Seq(Outcome)]
  BY DEF DataInv, ServerInv, KeptInv, ProcessInv, HistoryInv
<1>1. /\ u \in User
      /\ n < Len(pending[e][u])
      /\ \A k \in DOMAIN sent[e] : sent[e][k] # "rejected"
      /\ remote' = [remote EXCEPT ![u] = Apply(remote[u], write)]
      /\ writers' = [writers EXCEPT ![u] =
                       IF Accepts(remote[u], write) THEN writers[u] \cup {e} ELSE writers[u]]
      /\ UNCHANGED <<user, cache, pending, held, screen, itemArray, asked, answers, session>>
  BY <1>a DEF Commit, kept
<1>2. user[d] \in User => writers[user[d]] \subseteq writers'[user[d]]
  BY <1>a, <1>1
<1>3. user[d] \in User /\ Alone(d)' => Alone(d)
  BY <1>1, <1>2 DEF Alone
<1>4. CASE ~(user[d] = u /\ e = d /\ Accepts(remote[u], write))
  <2>1. ASSUME user[d] \in User, remote'[user[d]] # remote[user[d]]
        PROVE  ~Alone(d)'
    <3>1. user[d] = u /\ Accepts(remote[u], write)
      BY <1>a, <1>1, <2>1 DEF Apply
    <3>2. e \in writers'[user[d]] /\ e # d
      BY <1>a, <1>1, <1>4, <3>1
    <3> QED BY <1>1, <3>2 DEF Alone
  <2>2. session[d] # "none" => user[d] \in User
    BY ListSigned
  <2> QED BY <1>1, <1>3, <2>1, <2>2, OtherList
<1>5. CASE user[d] = u /\ e = d /\ Accepts(remote[u], write)
  <2>1. Alone(d) => ToBe(d)' = ToBe(d)
    BY <1>5, CommitKeepsToBe
  <2>2. View(d)' = View(d)
    BY <1>1 DEF View, LocalView, Known
  <2> QED BY <1>1, <1>3, <1>5, <2>1, <2>2, ListFrame
<1> QED BY <1>4, <1>5

(* An answer to a write moves it from the queue to the cached version: the *)
(* client shows what it showed, or the list is one nothing is claimed of.  *)
LEMMA AcknowledgeKeepsList ==
  ASSUME DataInv, SentInv, SignedInv, ConvergeInv, NEW d \in Device, ListInv(d),
         Acknowledge(d)
  PROVE  ListInv(d)'
<1> DEFINE u       == user[d]
           queue   == pending[d][u]
           write   == Head(queue)
           outcome == Head(sent[d])
           here    == Known(d, u)
           there   == remote[u]
<1>a. /\ user \in [Device -> User \cup {NoUser}]
      /\ pending \in [Device -> [User -> Seq(ParsedWrite)]]
      /\ sent \in [Device -> Seq(Outcome)]
      /\ session \in [Device -> {"none", "loading", "early", "synced", "mixed"}]
  BY DEF DataInv, KeptInv, ProcessInv, HistoryInv
<1>1. /\ u \in User /\ sent[d] # <<>>
      /\ pending'[d][u] = Tail(queue)
      /\ session'[d] = IF session[d] # "none" /\ Disturbs(d, outcome)
                         THEN "mixed" ELSE session[d]
      /\ UNCHANGED <<remote, user, screen, itemArray, asked, answers, writers>>
  BY <1>a DEF Acknowledge, Answered, server
<1>2. CASE session[d] = "none" \/ Disturbs(d, outcome)
  <2>1. session'[d] \in {"none", "mixed"}
    BY <1>1, <1>2
  <2>2. screen'[d] = "home" => session'[d] = "none"
    BY <1>1 DEF ListInv
  <2> QED BY <2>1, <2>2, ListOpened
<1>3. CASE session[d] # "none" /\ ~Disturbs(d, outcome)
  <2>1. /\ outcome \in {"applied", "passed", "known"} /\ outcome = sent[d][1]
        /\ 1 \in DOMAIN sent[d] /\ Len(sent[d]) \in Nat \ {0}
    <3>1. outcome \in Outcome /\ outcome = sent[d][1] /\ Len(sent[d]) \in Nat \ {0}
      BY <1>a, <1>1, HeadTailProperties, EmptySeq, LenProperties
    <3> QED BY <1>3, <3>1 DEF Disturbs, Outcome
  <2>2. outcome = "known" => Alone(d)
    BY <1>3 DEF Disturbs, Alone
  <2>3. Alone(d) => Good(there, here, queue, sent[d], held[d], dropped[d][u])
    BY <1>1 DEF Alone, ConvergeInv, Converging, Outcomes, Acked
  <2>4. /\ here \in Document /\ there \in Document /\ queue \in Queue
        /\ Len(sent[d]) <= Len(queue) /\ Len(queue) \in Nat /\ queue # <<>>
    <3>1. /\ here \in Document /\ there \in Document /\ queue \in Queue
          /\ Len(sent[d]) <= Len(queue)
      BY <1>1, DocumentTypes DEF Outcomes
    <3>2. Len(queue) \in Nat /\ Len(queue) # 0
      BY <2>1, <3>1 DEF Queue
    <3> QED BY <3>1, <3>2, EmptySeq
  <2>5. Known(d, u)' = CacheOnAck(here, write, outcome)
    <3>1. outcome = "known" => held[d] = <<>>
      BY <2>1, <2>2, <2>3 DEF Good
    <3> QED BY <1>1, <3>1, KnownAnswered
  <2>6. /\ View(d) = Overlay(here, queue)
        /\ View(d)' = Overlay(CacheOnAck(here, write, outcome), Tail(queue))
    BY <1>1, <2>5 DEF View, LocalView
  <2> HIDE DEF here, there, queue, outcome, u
  <2>7. View(d)' = View(d)
    <3>1. CASE outcome = "known"
      <4>1. PICK n \in 0 .. Len(sent[d]) :
              /\ \A k \in DOMAIN sent[d] : sent[d][k] = "known" <=> k <= n
              /\ Fixed(here, queue, n)
        BY <2>2, <2>3, <3>1 DEF Good
      <4>2. n \in 1 .. Len(queue)
        <5>1. 1 <= n
          BY <2>1, <3>1, <4>1
        <5>2. n \in Int /\ n <= Len(sent[d])
          BY <2>1, <4>1
        <5> QED BY <2>1, <2>4, <5>1, <5>2
      <4>3. Overlay(here, Tail(queue)) = Overlay(here, queue)
        BY <2>4, <4>1, <4>2, FixedTail
      <4> QED BY <2>6, <3>1, <4>3 DEF CacheOnAck
    <3>2. CASE outcome \in {"applied", "passed"}
      <4>1. Overlay(here, queue) = Overlay(Apply(here, write), Tail(queue))
        BY <2>4, OverlayHead DEF Queue
      <4> QED BY <2>6, <3>2, <4>1 DEF CacheOnAck
    <3> QED BY <2>1, <3>1, <3>2
  <2>8. Alone(d) => ToBe(d)' = ToBe(d)
    BY <2>1, AnswerKeepsToBe DEF outcome
  <2>9. Alone(d)' = Alone(d)
    BY <1>1 DEF Alone
  <2> QED BY <1>1, <1>3, <2>7, <2>8, <2>9, ListFrame
<1> QED BY <1>2, <1>3

(* What one device does reaches no other device's list but through a       *)
(* document on the server.                                                 *)
LEMMA ElsewhereKeepsList ==
  ASSUME DataInv, SentInv, NEW d \in Device, ListInv(d), NEW e \in Device, e # d,
         \/ Account(e) \/ Edit(e) \/ Snapshot(e) \/ QueryFails(e) \/ Reply(e)
         \/ Transfer(e) \/ Acknowledge(e)
  PROVE  ListInv(d)'
<1>a. /\ user \in [Device -> User \cup {NoUser}]
      /\ cache \in [Device -> [User -> ParsedDocument]]
      /\ pending \in [Device -> [User -> Seq(ParsedWrite)]]
      /\ held \in [Device -> Seq(ParsedWrite)]
      /\ screen \in [Device -> {"home", "list"}]
      /\ itemArray \in [Device -> Seq(Item)]
      /\ asked \in [Device -> Seq(User)]
      /\ answers \in [Device -> Seq(ParsedAnswer)]
      /\ session \in [Device -> {"none", "loading", "early", "synced", "mixed"}]
  BY DEF DataInv, KeptInv, ProcessInv, HistoryInv
<1> DEFINE Apart ==
  /\ UNCHANGED <<remote, writers>>
  /\ screen'[d] = screen[d] /\ user'[d] = user[d] /\ itemArray'[d] = itemArray[d]
  /\ asked'[d] = asked[d] /\ answers'[d] = answers[d] /\ session'[d] = session[d]
  /\ cache'[d] = cache[d] /\ pending'[d] = pending[d] /\ held'[d] = held[d]
<1>1. ASSUME NEW u \in User, Login(e, u) PROVE Apart
  BY <1>a, <1>1 DEF Login, SwitchUser, OpenList, DropHeld, server
<1>2. ASSUME NEW u \in User, Register(e, u) PROVE Apart
  BY <1>a, <1>2 DEF Register, SwitchUser, OpenList, DropHeld
<1>3. ASSUME NEW u \in User, RegisterUnanswered(e, u) PROVE Apart
  BY <1>3 DEF RegisterUnanswered, kept, process
<1>4. ASSUME Logout(e) PROVE Apart
  BY <1>a, <1>4 DEF Logout, SwitchUser, ClearItemArray, DropHeld, server
<1>5. ASSUME Restart(e) PROVE Apart
  BY <1>a, <1>5 DEF Restart, DropHeld, server
<1>6. ASSUME NEW name, NEW amount, AddItemWithoutImage(e, name, amount) PROVE Apart
  BY <1>a, <1>6 DEF AddItemWithoutImage, PutItemInDatabase, Enqueue, server
<1>7. ASSUME NEW name, NEW amount, NEW image, AddItemAndImage(e, name, amount, image)
      PROVE  Apart
  BY <1>7 DEF AddItemAndImage, server, kept
<1>8. ASSUME NEW k \in DOMAIN itemArray[e], DeleteItem(e, k) PROVE Apart
  BY <1>a, <1>8 DEF DeleteItem, Enqueue, server
<1>9. ASSUME Snapshot(e) PROVE Apart
  <2>1. /\ UNCHANGED <<remote, writers, user, pending, screen, itemArray, session>>
        /\ asked'[d] = asked[d] /\ answers'[d] = answers[d]
        /\ \/ \E u \in User : Refresh(e, u)
           \/ \E outstanding : EndQuery(e, outstanding)
    BY <1>a, <1>9 DEF Snapshot, server
  <2>2. cache'[d] = cache[d] /\ held'[d] = held[d]
    BY <1>a, <2>1 DEF Refresh, EndQuery, ReleaseHeld
  <2> QED BY <2>1, <2>2
<1>10. ASSUME QueryFails(e) PROVE Apart
  BY <1>a, <1>10 DEF QueryFails, EndQuery, ReleaseHeld, server
<1>11. ASSUME Reply(e) PROVE Apart
  BY <1>a, <1>11 DEF Reply, server, kept
<1>12. ASSUME PictureStored(e) \/ UploadFails(e) PROVE Apart
  BY <1>12 DEF PictureStored, UploadFails, kept, history
<1>13. ASSUME LinkReady(e) PROVE Apart
  BY <1>a, <1>13 DEF LinkReady, PutItemInDatabase, Enqueue, server
<1>14. ASSUME Acknowledge(e) PROVE Apart
  BY <1>a, <1>14 DEF Acknowledge, server
<1>15. Apart
  BY <1>1, <1>2, <1>3, <1>4, <1>5, <1>6, <1>7, <1>8, <1>9, <1>10, <1>11, <1>12, <1>13,
     <1>14 DEF Account, Edit, Transfer
<1> QED BY <1>15, OtherList DEF Alone

(* A list is opened when somebody signs in, and closed when they sign out  *)
(* or the process ends.                                                    *)
LEMMA AccountKeepsList ==
  ASSUME DataInv, SentInv, NEW d \in Device, ListInv(d), Account(d)
  PROVE  ListInv(d)'
<1>a. /\ user \in [Device -> User \cup {NoUser}]
      /\ screen \in [Device -> {"home", "list"}]
      /\ itemArray \in [Device -> Seq(Item)]
      /\ asked \in [Device -> Seq(User)]
      /\ answers \in [Device -> Seq(ParsedAnswer)]
      /\ session \in [Device -> {"none", "loading", "early", "synced", "mixed"}]
  BY DEF DataInv, KeptInv, ProcessInv, HistoryInv
<1>1. ASSUME NEW u \in User, Login(d, u) \/ Register(d, u) PROVE ListInv(d)'
  <2>1. /\ screen'[d] = "list" /\ user'[d] = u
        /\ asked'[d] = Append(asked[d], u)
        /\ session'[d] = IF asked[d] = <<>> /\ answers[d] = <<>> /\ itemArray[d] = <<>>
                           THEN "loading" ELSE "mixed"
        /\ UNCHANGED <<answers, itemArray>>
    BY <1>a, <1>1 DEF Login, Register, SwitchUser, OpenList
  <2>2. Append(<<>>, u) = <<u>>
    OBVIOUS
  <2> QED BY <2>1, <2>2, ListOpened
<1>2. ASSUME NEW u \in User, RegisterUnanswered(d, u) PROVE ListInv(d)'
  <2>1. UNCHANGED <<remote, writers, user, cache, pending, held, screen, itemArray, asked,
                    answers, session>>
    BY <1>2 DEF RegisterUnanswered, kept, process
  <2> QED BY <2>1, OtherList DEF Alone
<1>3. ASSUME Logout(d) PROVE ListInv(d)'
  <2>1. session'[d] = "none"
    BY <1>a, <1>3 DEF Logout
  <2> QED BY <2>1, ListOpened
<1>4. ASSUME Restart(d) PROVE ListInv(d)'
  <2>1. /\ itemArray'[d] = <<>> /\ answers'[d] = <<>> /\ user'[d] = user[d]
        /\ \/ screen'[d] = "list" /\ asked'[d] = <<user[d]>> /\ session'[d] = "loading"
           \/ session'[d] = "none"
    BY <1>a, <1>4 DEF Restart
  <2> QED BY <2>1, ListOpened
<1> QED BY <1>1, <1>2, <1>3, <1>4 DEF Account

(* Items are put, with a picture or without, and rows deleted.             *)
LEMMA EditKeepsList ==
  ASSUME DataInv, SentInv, SignedInv, NEW d \in Device, ListInv(d), Edit(d) \/ Transfer(d)
  PROVE  ListInv(d)'
<1>1. ASSUME NEW name \in Text, NEW amount \in Text, AddItemWithoutImage(d, name, amount)
      PROVE  ListInv(d)'
  <2> DEFINE item == [name |-> name, amount |-> amount,
                      picture |-> NoPicture, pictureName |-> NoPicture]
  <2>1. /\ screen[d] = "list" /\ PutItemInDatabase(d, item)
        /\ UNCHANGED <<remote, user, cache, held, screen, asked, answers, writers>>
    BY <1>1 DEF AddItemWithoutImage, CanTap, server
  <2>2. item \in Item
    BY ConstantTypes DEF Item
  <2> HIDE DEF item
  <2> QED BY <2>1, <2>2, PutKeepsList
<1>2. ASSUME LinkReady(d)
      PROVE  ListInv(d)'
  <2> DEFINE item == [name |-> upload[d].name, amount |-> upload[d].amount,
                      picture |-> upload[d].image, pictureName |-> upload[d].image]
  <2>1. /\ upload[d].stage = "linking" /\ PutItemInDatabase(d, item)
        /\ UNCHANGED <<remote, user, cache, held, screen, asked, answers, writers>>
    BY <1>2 DEF LinkReady, server
  <2>2. screen[d] = "list"
    BY <2>1 DEF SignedInv
  <2>3. item \in Item
    BY DEF DataInv, ProcessInv, Item, Upload
  <2> HIDE DEF item
  <2> QED BY <2>1, <2>2, <2>3, PutKeepsList
<1>3. ASSUME NEW name, NEW amount, NEW image,
             AddItemAndImage(d, name, amount, image) \/ PictureStored(d) \/ UploadFails(d)
      PROVE  ListInv(d)'
  <2>1. UNCHANGED <<remote, writers, user, cache, pending, held, screen, itemArray, asked,
                    answers, session>>
    BY <1>3 DEF AddItemAndImage, PictureStored, UploadFails, server, kept, history
  <2> QED BY <2>1, OtherList DEF Alone
<1> QED BY <1>1, <1>2, <1>3, DeleteKeepsList, ConstantTypes, AmountsAssumption
        DEF Edit, Transfer, Typed

(* Every step leaves every list as the invariant says.                     *)
LEMMA RowsNext ==
  ASSUME DataInv, SentInv, SignedInv, ConvergeInv, RowsInv, [Next]_vars
  PROVE  RowsInv'
<1> SUFFICES ASSUME NEW d \in Device PROVE ListInv(d)'
  BY DEF RowsInv
<1>a. ListInv(d)
  BY DEF RowsInv
<1>1. ASSUME UNCHANGED <<remote, writers, user, cache, pending, held, screen, itemArray,
                         asked, answers, session>>
      PROVE  ListInv(d)'
  BY <1>a, <1>1, OtherList DEF Alone
<1>2. ASSUME NEW e \in Device, StreamBreaks(e) \/ DeletionEnds(e) \/ UNCHANGED vars
      PROVE  ListInv(d)'
  BY <1>1, <1>2 DEF StreamBreaks, DeletionEnds, vars, server, kept, process, history
<1>3. ASSUME NEW e \in Device, Commit(e)
      PROVE  ListInv(d)'
  BY <1>a, <1>3, CommitKeepsList
<1>4. ASSUME NEW e \in Device, e # d,
             \/ Account(e) \/ Edit(e) \/ Snapshot(e) \/ QueryFails(e) \/ Reply(e)
             \/ Transfer(e) \/ Acknowledge(e)
      PROVE  ListInv(d)'
  BY <1>a, <1>4, ElsewhereKeepsList
<1>5. ASSUME \/ Account(d) \/ Edit(d) \/ Snapshot(d) \/ QueryFails(d) \/ Reply(d)
             \/ Transfer(d) \/ Acknowledge(d)
      PROVE  ListInv(d)'
  BY <1>a, <1>5, AccountKeepsList, EditKeepsList, SnapshotKeepsList, FailKeepsList,
     ReplyKeepsList, AcknowledgeKeepsList
<1> QED BY <1>2, <1>3, <1>4, <1>5 DEF Next, Sync

(* What holds of every state, at first and after every step.               *)
LEMMA RowsAlways == Spec => [](DataInv /\ SignedInv /\ RowsInv)
<1>1. Init => SignedInv /\ RowsInv
  BY DEF Init, SignedInv, NoUpload, RowsInv, ListInv, OneQuery, NoRowsYet, PutEarly, InStep
<1>2. DataInv /\ SentInv /\ SignedInv /\ ConvergeInv /\ RowsInv /\ [Next]_vars
        => SignedInv' /\ ConvergeInv' /\ RowsInv'
  BY SignedNext, ConvergeNext, RowsNext
<1> QED BY <1>1, <1>2, ConvergeInit, DataAlways, PTL DEF Spec

(* A loaded list shows the items of the document as the device knows it,   *)
(* whatever is put, deleted, sent, turned down, answered, held back, seen  *)
(* and lost, in whatever order.                                            *)
THEOREM RowsAgree == Spec => []Agreement
<1>1. RowsInv => Agreement
  BY DEF RowsInv, ListInv, InStep, View, Agreement
<1> QED BY <1>1, RowsAlways, PTL

(* The rows of a loaded list change by what its user does, and by nothing  *)
(* that arrives.                                                           *)
THEOREM SettledRows == Spec => SettledRowsStay
<1> DEFINE Stay ==
  \A d \in Device :
    session[d] = "synced" /\ session'[d] = "synced" /\ itemArray'[d] # itemArray[d]
      => edits' # edits \/ upload'[d] # upload[d]
<1>1. DataInv /\ SignedInv /\ RowsInv /\ [Next]_vars => [Stay]_vars
  <2> SUFFICES ASSUME DataInv, RowsInv, [Next]_vars, NEW d \in Device,
                      session[d] = "synced", session'[d] = "synced",
                      itemArray'[d] # itemArray[d]
               PROVE  edits' # edits \/ upload'[d] # upload[d]
    OBVIOUS
  <2>a. /\ itemArray \in [Device -> Seq(Item)] /\ edits \in Nat
        /\ upload \in [Device -> Upload]
        /\ session \in [Device -> {"none", "loading", "early", "synced", "mixed"}]
        /\ answers[d] = <<>>
    BY DEF DataInv, ProcessInv, BoundsInv, HistoryInv, RowsInv, ListInv, InStep
  <2>1. ASSUME NEW e \in Device, Account(e) PROVE FALSE
    <3>1. CASE \E u \in User : Login(e, u) \/ Register(e, u) \/ RegisterUnanswered(e, u)
      BY <3>1 DEF Login, Register, RegisterUnanswered, process
    <3>2. CASE Logout(e)
      BY <2>a, <3>2 DEF Logout, ClearItemArray
    <3>3. CASE Restart(e)
      BY <2>a, <3>3 DEF Restart
    <3> QED BY <2>1, <3>1, <3>2, <3>3 DEF Account
  <2>2. ASSUME NEW e \in Device, Edit(e) PROVE edits' # edits
    <3>1. CountEdit
      BY <2>2 DEF Edit, AddItemWithoutImage, AddItemAndImage, DeleteItem
    <3> QED BY <2>a, <3>1 DEF CountEdit
  <2>3. ASSUME NEW e \in Device, Transfer(e) PROVE upload'[d] # upload[d]
    <3>1. LinkReady(e) /\ e = d
      BY <2>a, <2>3 DEF Transfer, PictureStored, UploadFails, LinkReady, PutItemInDatabase
    <3> QED BY <2>a, <3>1 DEF LinkReady, NoUpload
  <2>4. ASSUME NEW e \in Device, Reply(e) PROVE FALSE
    BY <2>a, <2>4 DEF Reply, Due
  <2>5. ASSUME NEW e \in Device,
               \/ Snapshot(e) \/ QueryFails(e) \/ DeletionEnds(e) \/ Sync(e)
               \/ StreamBreaks(e) \/ UNCHANGED vars
        PROVE  FALSE
    BY <2>5 DEF Snapshot, QueryFails, DeletionEnds, Sync, Commit, Acknowledge,
                StreamBreaks, vars, process
  <2> QED BY <2>1, <2>2, <2>3, <2>4, <2>5 DEF Next
<1> QED BY <1>1, RowsAlways, PTL DEF Spec, SettledRowsStay

-----------------------------------------------------------------------------
(* Whose items are whose: mine[u] are the items of u, as they were made,   *)
(* or as they are when they were saved and loaded.                         *)
Closed(mine) ==
  /\ mine \in [User -> SUBSET Item]
  /\ \A u \in User : \A item \in mine[u] :
       ParseItem(ConvertItemToString(item)) \in mine[u]

(* What is made of them: strings, documents and writes, answers.           *)
OwnText(mine, u) == {str \in ParsedText : ParseItem(str) \in mine[u]}
OwnDocument(mine, u) == Seq(OwnText(mine, u)) \cup {NoDoc}
OwnWrite(mine, u) == [kind : {"set", "update"}, items : Seq(OwnText(mine, u))]
                       \cup [kind : {"union"}, item : OwnText(mine, u)]
OwnAnswer(mine) ==
  {answer \in ParsedAnswer : answer.doc \in OwnDocument(mine, answer.user)}

DocumentsOwn(mine) ==
  /\ \A u \in User : remote[u] \in OwnDocument(mine, u)
  /\ \A d \in Device, u \in User : cache[d][u] \in OwnDocument(mine, u)

QueuesOwn(mine) ==
  \A d \in Device, u \in User :
    /\ pending[d][u] \in Seq(OwnWrite(mine, u))
    /\ user[d] = u => held[d] \in Seq(OwnWrite(mine, u))

AnswersOwn(mine) == \A d \in Device : answers[d] \in Seq(OwnAnswer(mine))

(* Once a reply came late, the rows are the user's in a list that was      *)
(* opened with nothing else under way.  Before that, the home screen is    *)
(* shown over an empty array, and with a user that is still signed in only *)
(* after a restart, when nothing is under way.                             *)
Followed(d) == session[d] \in {"loading", "early", "synced"}

RowsOwn(mine) ==
  \A d \in Device :
    /\ user[d] \in User /\ (leaked => Followed(d)) => itemArray[d] \in Seq(mine[user[d]])
    /\ screen[d] = "home" /\ ~leaked =>
         /\ itemArray[d] = <<>>
         /\ user[d] = NoUser \/ (asked[d] = <<>> /\ answers[d] = <<>>)

OwnInv(mine) == DocumentsOwn(mine) /\ QueuesOwn(mine) /\ AnswersOwn(mine) /\ RowsOwn(mine)

(* The items a device puts: the one that is typed, the one whose picture   *)
(* was uploaded.                                                           *)
TypedItem(name, amount) == [name |-> name, amount |-> amount,
                            picture |-> NoPicture, pictureName |-> NoPicture]
UploadedItem(d) == [name |-> upload[d].name, amount |-> upload[d].amount,
                    picture |-> upload[d].image, pictureName |-> upload[d].image]

PutsOwn(mine, d) ==
  /\ \A name \in Text, amount \in Text :
       Typed(d, name, amount) => TypedItem(name, amount) \in mine[user[d]]
  /\ LinkReady(d) => UploadedItem(d) \in mine[user[d]]

-----------------------------------------------------------------------------
(* A concatenation begins as its first part does.                          *)
LEMMA FirstOfConcat ==
  ASSUME NEW s \in Seq(Chunk), NEW t \in Seq(Chunk), Len(s) >= 1
  PROVE  s \o t \in Seq(Chunk) /\ Len(s \o t) >= 1 /\ (s \o t)[1] = s[1]
<1>1. Len(s) \in Nat /\ Len(t) \in Nat /\ Len(s \o t) = Len(s) + Len(t)
  OBVIOUS
<1>2. \A k \in 1 .. Len(s) : (s \o t)[k] = s[k]
  BY ConcatProperties
<1>3. 1 \in 1 .. Len(s)
  BY <1>1
<1> QED BY <1>1, <1>2, <1>3, ConcatProperties

(* A string begins with the name of its item.                              *)
LEMMA FirstIsName ==
  ASSUME NEW item \in Item
  PROVE  ConvertItemToString(item)[1] = item.name[1]
<1> DEFINE two   == item.name \o item.amount
           three == two \o item.picture
           four  == three \o item.pictureName
<1>1. /\ item.name \in Seq(Chunk) /\ Len(item.name) >= 1
      /\ item.amount \in Seq(Chunk) /\ item.picture \in Seq(Chunk)
      /\ item.pictureName \in Seq(Chunk)
  BY DEF Item, Text
<1>2. two \in Seq(Chunk) /\ Len(two) >= 1 /\ two[1] = item.name[1]
  BY <1>1, FirstOfConcat
<1> HIDE DEF two
<1>3. three \in Seq(Chunk) /\ Len(three) >= 1 /\ three[1] = item.name[1]
  BY <1>1, <1>2, FirstOfConcat
<1> HIDE DEF three
<1>4. four[1] = item.name[1]
  BY <1>1, <1>3, FirstOfConcat
<1>5. ConvertItemToString(item) = four
  BY DEF ConvertItemToString, four, three, two
<1> QED BY <1>4, <1>5

(* The app's writes of a user's rows are that user's.                      *)
LEMMA OwnWrites ==
  ASSUME NEW mine, Closed(mine),
         NEW u \in User
  PROVE  /\ SetData \in OwnWrite(mine, u)
         /\ \A item \in mine[u] : ArrayUnion(ConvertItemToString(item)) \in OwnWrite(mine, u)
         /\ \A rows \in Seq(mine[u]) : UpdateItems(ConvertItems(rows)) \in OwnWrite(mine, u)
<1>1. \A item \in mine[u] : ConvertItemToString(item) \in OwnText(mine, u)
  BY ConvertedParses DEF Closed, OwnText, ParsedText
<1>2. ASSUME NEW rows \in Seq(mine[u]) PROVE ConvertItems(rows) \in Seq(OwnText(mine, u))
  BY <1>1 DEF ConvertItems
<1>3. <<>> \in Seq(OwnText(mine, u))
  BY EmptySeq
<1> QED BY <1>1, <1>2, <1>3 DEF OwnWrite, SetData, ArrayUnion, UpdateItems

(* The rows made of a user's document are that user's.                     *)
LEMMA OwnRows ==
  ASSUME NEW mine, Closed(mine),
         NEW u \in User, NEW doc \in OwnDocument(mine, u), doc # NoDoc
  PROVE  ParseItems(doc) \in Seq(mine[u])
<1>1. doc \in Seq(OwnText(mine, u))
  BY DEF OwnDocument
<1>2. \A str \in OwnText(mine, u) : ParseItem(str) \in mine[u]
  BY DEF OwnText
<1>3. \A k \in DOMAIN doc : ParseItem(doc[k]) \in mine[u]
  BY <1>1, <1>2
<1> QED BY <1>1, <1>3 DEF ParseItems

(* A user's write keeps a document the user's.                             *)
LEMMA OwnApply ==
  ASSUME NEW mine, Closed(mine),
         NEW u \in User, NEW doc \in OwnDocument(mine, u), NEW write \in OwnWrite(mine, u)
  PROVE  Apply(doc, write) \in OwnDocument(mine, u)
<1>1. CASE ~Accepts(doc, write)
  BY <1>1 DEF Apply
<1>2. CASE Accepts(doc, write) /\ write.kind = "union"
  <2>1. write.item \in OwnText(mine, u) /\ doc \in Seq(OwnText(mine, u))
    BY <1>2 DEF Accepts, OwnWrite, OwnDocument
  <2>2. Union(doc, write.item) \in Seq(OwnText(mine, u))
    BY <2>1, AppendProperties DEF Union
  <2> QED BY <1>2, <2>2 DEF Apply, OwnDocument
<1>3. CASE Accepts(doc, write) /\ write.kind # "union"
  BY <1>3 DEF Apply, OwnWrite, OwnDocument
<1> QED BY <1>1, <1>2, <1>3

(* So does a queue of them.                                                *)
LEMMA OwnOverlay ==
  ASSUME NEW mine, Closed(mine),
         NEW u \in User, NEW doc \in OwnDocument(mine, u), NEW queue \in Seq(OwnWrite(mine, u))
  PROVE  Overlay(doc, queue) \in OwnDocument(mine, u)
<1>1. \A k \in 1 .. Len(queue) : \A e \in OwnDocument(mine, u) :
        Apply(e, queue[k]) \in OwnDocument(mine, u)
  BY OwnApply
<1> QED BY <1>1, OverlayStaysIn

(* What a device knows of a user's document is the user's.                 *)
LEMMA OwnKnown ==
  ASSUME NEW mine, Closed(mine),
         DocumentsOwn(mine), QueuesOwn(mine), NEW d \in Device, NEW u \in User
  PROVE  Known(d, u) \in OwnDocument(mine, u)
BY OwnOverlay DEF Known, DocumentsOwn, QueuesOwn

-----------------------------------------------------------------------------
(* A snapshot, or the end of a query without one, leaves cached versions   *)
(* and held writes with their users.                                       *)
LEMMA OwnCached ==
  ASSUME NEW mine, Closed(mine),
         DataInv, DocumentsOwn(mine), QueuesOwn(mine), NEW d \in Device,
         \/ \E u \in User : Refresh(d, u)
         \/ \E outstanding : EndQuery(d, outstanding),
         UNCHANGED user
  PROVE  \A e \in Device, v \in User :
           /\ cache'[e][v] \in OwnDocument(mine, v)
           /\ user'[e] = v => held'[e] \in Seq(OwnWrite(mine, v))
<1>a. cache \in [Device -> [User -> ParsedDocument]] /\ held \in [Device -> Seq(ParsedWrite)]
  BY DEF DataInv, KeptInv, ProcessInv
<1>1. CASE UNCHANGED <<cache, held>>
  BY <1>1 DEF DocumentsOwn, QueuesOwn
<1>2. ASSUME NEW docs, \A v \in User : docs[v] \in OwnDocument(mine, v),
             cache' = [cache EXCEPT ![d] = docs], held' = [held EXCEPT ![d] = <<>>]
      PROVE  \A e \in Device, v \in User :
               /\ cache'[e][v] \in OwnDocument(mine, v)
               /\ user'[e] = v => held'[e] \in Seq(OwnWrite(mine, v))
  <2> TAKE e \in Device, v \in User
  <2>1. CASE e = d
    BY <1>a, <1>2, <2>1, EmptySeq
  <2>2. CASE e # d
    BY <1>a, <1>2, <2>2 DEF DocumentsOwn, QueuesOwn
  <2> QED BY <2>1, <2>2
<1>3. ASSUME NEW u \in User, Refresh(d, u)
      PROVE  \E docs : /\ \A v \in User : docs[v] \in OwnDocument(mine, v)
                       /\ cache' = [cache EXCEPT ![d] = docs]
                       /\ held' = [held EXCEPT ![d] = <<>>]
  <2> DEFINE docs == [v \in User |-> IF v = u THEN remote[u] ELSE Known(d, v)]
  <2>1. \A v \in User : docs[v] \in OwnDocument(mine, v)
    BY OwnKnown DEF DocumentsOwn
  <2>2. cache' = [cache EXCEPT ![d] = docs] /\ held' = [held EXCEPT ![d] = <<>>]
    BY <1>3 DEF Refresh
  <2> HIDE DEF docs
  <2> QED BY <2>1, <2>2
<1>4. ASSUME ReleaseHeld(d)
      PROVE  \E docs : /\ \A v \in User : docs[v] \in OwnDocument(mine, v)
                       /\ cache' = [cache EXCEPT ![d] = docs]
                       /\ held' = [held EXCEPT ![d] = <<>>]
  <2> DEFINE docs == [v \in User |-> Known(d, v)]
  <2>1. \A v \in User : docs[v] \in OwnDocument(mine, v)
    BY OwnKnown
  <2>2. cache' = [cache EXCEPT ![d] = docs] /\ held' = [held EXCEPT ![d] = <<>>]
    BY <1>4 DEF ReleaseHeld
  <2> HIDE DEF docs
  <2> QED BY <2>1, <2>2
<1> QED BY <1>1, <1>2, <1>3, <1>4 DEF EndQuery

(* A write that is queued is the signed-in user's.                         *)
LEMMA OwnEnqueued ==
  ASSUME NEW mine, Closed(mine),
         DataInv, QueuesOwn(mine), NEW d \in Device, user[d] \in User,
         NEW write \in OwnWrite(mine, user[d]), Enqueue(d, write), UNCHANGED <<user, held>>
  PROVE  QueuesOwn(mine)'
<1>a. pending \in [Device -> [User -> Seq(ParsedWrite)]]
  BY DEF DataInv, KeptInv
<1>1. ASSUME NEW e \in Device, NEW u \in User
      PROVE  pending'[e][u] \in Seq(OwnWrite(mine, u))
  <2>1. pending[e][u] \in Seq(OwnWrite(mine, u))
    BY DEF QueuesOwn
  <2>2. CASE e = d /\ u = user[d]
    <3>1. pending'[e][u] = Append(pending[e][u], write)
      BY <1>a, <2>2 DEF Enqueue
    <3> QED BY <2>1, <2>2, <3>1, AppendProperties
  <2>3. CASE ~(e = d /\ u = user[d])
    BY <1>a, <2>1, <2>3 DEF Enqueue
  <2> QED BY <2>2, <2>3
<1> QED BY <1>1 DEF QueuesOwn

(* An item that is put, and the rows left by a deletion.                   *)
LEMMA OwnPut ==
  ASSUME NEW mine, Closed(mine),
         DataInv, SignedInv, OwnInv(mine), NEW d \in Device, user[d] \in User,
         NEW item \in mine[user[d]], PutItemInDatabase(d, item), screen[d] = "list",
         UNCHANGED <<user, held, screen, asked, answers, leaked>>
  PROVE  QueuesOwn(mine)' /\ RowsOwn(mine)'
<1>a. /\ itemArray \in [Device -> Seq(Item)]
      /\ session \in [Device -> {"none", "loading", "early", "synced", "mixed"}]
  BY DEF DataInv, ProcessInv, HistoryInv
<1>1. QueuesOwn(mine)'
  <2>1. ArrayUnion(ConvertItemToString(item)) \in OwnWrite(mine, user[d])
    BY OwnWrites
  <2> QED BY <2>1, OwnEnqueued DEF PutItemInDatabase, OwnInv
<1>2. itemArray[d] \in Seq(mine[user[d]])
        => Append(itemArray[d], item) \in Seq(mine[user[d]])
  BY AppendProperties
<1>3. /\ itemArray' = [itemArray EXCEPT ![d] = Append(itemArray[d], item)]
      /\ session' = [session EXCEPT ![d] = IF @ = "loading" THEN "early" ELSE @]
  BY DEF PutItemInDatabase
<1>4. \A e \in Device : Followed(e)' => Followed(e)
  BY <1>a, <1>3 DEF Followed
<1> HIDE DEF Followed
<1>5. RowsOwn(mine)'
  BY <1>a, <1>2, <1>3, <1>4 DEF OwnInv, RowsOwn
<1> QED BY <1>1, <1>5

-----------------------------------------------------------------------------
(* The user of a device changes, or its process starts anew: what it holds *)
(* goes, its rows are none or not followed, queues stay with their users.  *)
LEMMA OwnAccount ==
  ASSUME NEW mine, Closed(mine),
         DataInv, SignedInv, OwnInv(mine), NEW d \in Device, Account(d)
  PROVE  OwnInv(mine)'
<1>a. /\ user \in [Device -> User \cup {NoUser}]
      /\ pending \in [Device -> [User -> Seq(ParsedWrite)]]
      /\ screen \in [Device -> {"home", "list"}]
      /\ itemArray \in [Device -> Seq(Item)]
      /\ asked \in [Device -> Seq(User)]
      /\ answers \in [Device -> Seq(ParsedAnswer)]
      /\ held \in [Device -> Seq(ParsedWrite)]
      /\ session \in [Device -> {"none", "loading", "early", "synced", "mixed"}]
  BY DEF DataInv, KeptInv, ProcessInv, HistoryInv
<1>b. DocumentsOwn(mine) /\ QueuesOwn(mine) /\ AnswersOwn(mine) /\ RowsOwn(mine)
  BY DEF OwnInv
<1>0. ASSUME NEW u \in User, RegisterUnanswered(d, u)
      PROVE  OwnInv(mine)'
  BY <1>b, <1>0 DEF RegisterUnanswered, kept, process, OwnInv, DocumentsOwn, QueuesOwn,
                    AnswersOwn, RowsOwn, Followed
<1>1. UNCHANGED <<remote, cache>> => DocumentsOwn(mine)'
  BY <1>b DEF DocumentsOwn
<1>2. ASSUME NEW v \in User \cup {NoUser}, SwitchUser(d, v)
      PROVE  \A e \in Device, u \in User : user'[e] = u => held'[e] \in Seq(OwnWrite(mine, u))
  <2> TAKE e \in Device, u \in User
  <2>1. CASE DropHeld(d) /\ e = d
    BY <1>a, <2>1, EmptySeq DEF DropHeld
  <2>2. CASE DropHeld(d) /\ e # d
    BY <1>a, <1>b, <1>2, <2>2 DEF DropHeld, SwitchUser, QueuesOwn
  <2>3. CASE user[d] = v /\ UNCHANGED held
    BY <1>a, <1>b, <1>2, <2>3 DEF SwitchUser, QueuesOwn
  <2> QED BY <1>2, <2>1, <2>2, <2>3 DEF SwitchUser
<1>3. ASSUME NEW u \in User, Login(d, u) \/ Register(d, u)
      PROVE  OwnInv(mine)'
  <2>1. /\ SwitchUser(d, u) /\ screen[d] = "home" /\ OpenList(d, u, asked[d])
        /\ UNCHANGED <<remote, cache, itemArray, answers, leaked>>
    BY <1>3 DEF Login, Register, server
  <2>2. (leaked => Followed(d)') => itemArray[d] = <<>>
    BY <1>a, <1>b, <2>1 DEF RowsOwn, Followed, OpenList
  <2>3. \A e \in Device : user'[e] = IF e = d THEN u ELSE user[e]
    BY <1>a, <2>1 DEF SwitchUser
  <2>4. QueuesOwn(mine)'
    <3>1. ASSUME NEW e \in Device, NEW v \in User
          PROVE  pending'[e][v] \in Seq(OwnWrite(mine, v))
      <4>1. pending[e][v] \in Seq(OwnWrite(mine, v))
        BY <1>b DEF QueuesOwn
      <4>2. \/ pending'[e][v] = pending[e][v]
            \/ v = u /\ pending'[e][v] = Append(pending[e][v], SetData)
        <5>1. CASE Login(d, u)
          BY <5>1 DEF Login
        <5>2. CASE Register(d, u)
          <6>1. pending' = [pending EXCEPT ![d][u] = Append(pending[d][u], SetData)]
            BY <5>2 DEF Register
          <6> QED BY <1>a, <6>1
        <5> QED BY <1>3, <5>1, <5>2
      <4>3. SetData \in OwnWrite(mine, u)
        BY OwnWrites
      <4>4. Append(pending[e][u], SetData) \in Seq(OwnWrite(mine, u)) \/ v # u
        BY <4>1, <4>3, AppendProperties
      <4> QED BY <4>1, <4>2, <4>4
    <3> QED BY <1>2, <2>1, <3>1 DEF QueuesOwn
  <2>5. AnswersOwn(mine)'
    BY <1>b, <2>1 DEF AnswersOwn
  <2>6. RowsOwn(mine)'
    <3> SUFFICES ASSUME NEW e \in Device
                 PROVE  /\ user'[e] \in User /\ (leaked => Followed(e)')
                             => itemArray[e] \in Seq(mine[user'[e]])
                        /\ screen'[e] = "home" /\ ~leaked =>
                             /\ itemArray[e] = <<>>
                             /\ \/ user'[e] = NoUser
                                \/ asked'[e] = <<>> /\ answers[e] = <<>>
      BY <2>1 DEF RowsOwn
    <3>1. CASE e = d
      BY <1>a, <2>1, <2>2, <2>3, <3>1, EmptySeq DEF OpenList
    <3>2. CASE e # d
      <4>1. Followed(e)' => Followed(e)
        BY <1>a, <2>1, <3>2 DEF Followed, OpenList
      <4> QED BY <1>a, <1>b, <2>1, <2>3, <3>2, <4>1 DEF OpenList, RowsOwn
    <3> QED BY <3>1, <3>2
  <2> QED BY <1>1, <2>1, <2>4, <2>5, <2>6 DEF OwnInv
<1>4. ASSUME Logout(d)
      PROVE  OwnInv(mine)'
  <2>1. /\ SwitchUser(d, NoUser)
        /\ screen' = [screen EXCEPT ![d] = "home"]
        /\ itemArray' = [itemArray EXCEPT ![d] = <<>>]
        /\ session' = [session EXCEPT ![d] = "none"]
        /\ UNCHANGED <<remote, cache, pending, asked, answers, leaked>>
    BY <1>4 DEF Logout, ClearItemArray, server
  <2>2. \A e \in Device : user'[e] = IF e = d THEN NoUser ELSE user[e]
    BY <1>a, <2>1 DEF SwitchUser
  <2>3. QueuesOwn(mine)'
    BY <1>b, <1>2, <2>1 DEF QueuesOwn
  <2>4. AnswersOwn(mine)'
    BY <1>b, <2>1 DEF AnswersOwn
  <2>5. RowsOwn(mine)'
    <3> SUFFICES ASSUME NEW e \in Device
                 PROVE  /\ user'[e] \in User /\ (leaked => Followed(e)')
                             => itemArray'[e] \in Seq(mine[user'[e]])
                        /\ screen'[e] = "home" /\ ~leaked =>
                             /\ itemArray'[e] = <<>>
                             /\ \/ user'[e] = NoUser
                                \/ asked[e] = <<>> /\ answers[e] = <<>>
      BY <2>1 DEF RowsOwn
    <3>1. CASE e = d
      BY <1>a, <2>1, <2>2, <3>1, UserAssumption
    <3>2. CASE e # d
      <4>1. Followed(e)' => Followed(e)
        BY <1>a, <2>1, <3>2 DEF Followed
      <4> QED BY <1>a, <1>b, <2>1, <2>2, <3>2, <4>1 DEF RowsOwn
    <3> QED BY <3>1, <3>2
  <2> QED BY <1>1, <2>1, <2>3, <2>4, <2>5 DEF OwnInv
<1>5. ASSUME Restart(d)
      PROVE  OwnInv(mine)'
  <2>1. /\ DropHeld(d)
        /\ itemArray' = [itemArray EXCEPT ![d] = <<>>]
        /\ answers' = [answers EXCEPT ![d] = <<>>]
        /\ \/ /\ screen' = [screen EXCEPT ![d] = "list"]
              /\ \E s : asked' = [asked EXCEPT ![d] = s]
           \/ /\ screen' = [screen EXCEPT ![d] = "home"]
              /\ asked' = [asked EXCEPT ![d] = <<>>]
        /\ \E s : session' = [session EXCEPT ![d] = s]
        /\ UNCHANGED <<remote, cache, pending, user, leaked>>
    BY <1>5 DEF Restart, server
  <2>2. QueuesOwn(mine)'
    <3>1. ASSUME NEW e \in Device, NEW u \in User, user[e] = u
          PROVE  held'[e] \in Seq(OwnWrite(mine, u))
      BY <1>a, <1>b, <2>1, <3>1, EmptySeq DEF DropHeld, QueuesOwn
    <3> QED BY <1>b, <2>1, <3>1 DEF QueuesOwn
  <2>3. AnswersOwn(mine)'
    BY <1>a, <1>b, <2>1, EmptySeq DEF AnswersOwn
  <2>4. RowsOwn(mine)'
    <3> SUFFICES ASSUME NEW e \in Device
                 PROVE  /\ user[e] \in User /\ (leaked => Followed(e)')
                             => itemArray'[e] \in Seq(mine[user[e]])
                        /\ screen'[e] = "home" /\ ~leaked =>
                             /\ itemArray'[e] = <<>>
                             /\ \/ user[e] = NoUser
                                \/ asked'[e] = <<>> /\ answers'[e] = <<>>
      BY <2>1 DEF RowsOwn
    <3>1. CASE e = d
      BY <1>a, <2>1, <3>1, EmptySeq
    <3>2. CASE e # d
      <4>1. Followed(e)' => Followed(e)
        BY <1>a, <2>1, <3>2 DEF Followed
      <4> QED BY <1>a, <1>b, <2>1, <3>2, <4>1 DEF RowsOwn
    <3> QED BY <3>1, <3>2
  <2> QED BY <1>1, <2>1, <2>2, <2>3, <2>4 DEF OwnInv
<1> QED BY <1>0, <1>3, <1>4, <1>5 DEF Account

(* Items are saved and rows deleted by the user in front of the list.      *)
LEMMA OwnEdit ==
  ASSUME NEW mine, Closed(mine),
         DataInv, SignedInv, OwnInv(mine), NEW d \in Device, Edit(d) \/ Transfer(d),
         PutsOwn(mine, d), leaked' => ~torn'
  PROVE  OwnInv(mine)'
<1>a. /\ user \in [Device -> User \cup {NoUser}]
      /\ screen \in [Device -> {"home", "list"}]
      /\ itemArray \in [Device -> Seq(Item)]
      /\ session \in [Device -> {"none", "loading", "early", "synced", "mixed"}]
  BY DEF DataInv, KeptInv, ProcessInv, HistoryInv
<1>b. DocumentsOwn(mine) /\ QueuesOwn(mine) /\ AnswersOwn(mine) /\ RowsOwn(mine)
  BY DEF OwnInv
<1>c. screen[d] = "list" => user[d] \in User
  BY <1>a DEF SignedInv
<1>1. UNCHANGED <<remote, cache, answers>> => DocumentsOwn(mine)' /\ AnswersOwn(mine)'
  BY <1>b DEF DocumentsOwn, AnswersOwn
<1>2. ASSUME NEW name \in Text, NEW amount \in Text, Typed(d, name, amount),
             AddItemWithoutImage(d, name, amount)
      PROVE  OwnInv(mine)'
  <2>1. /\ screen[d] = "list" /\ PutItemInDatabase(d, TypedItem(name, amount))
        /\ UNCHANGED <<remote, cache, user, held, screen, asked, answers, leaked>>
    BY <1>2 DEF AddItemWithoutImage, CanTap, server, TypedItem
  <2>2. TypedItem(name, amount) \in mine[user[d]]
    BY <1>2 DEF PutsOwn
  <2>3. QueuesOwn(mine)' /\ RowsOwn(mine)'
    BY <1>c, <2>1, <2>2, OwnPut
  <2> QED BY <1>1, <2>1, <2>3 DEF OwnInv
<1>3. ASSUME UNCHANGED <<remote, cache, pending, user, held, screen, itemArray, asked,
                         answers, leaked, session>>
      PROVE  OwnInv(mine)'
  BY <1>b, <1>1, <1>3 DEF OwnInv, QueuesOwn, RowsOwn, Followed
<1>4. ASSUME NEW k \in DOMAIN itemArray[d], DeleteItem(d, k)
      PROVE  OwnInv(mine)'
  <2> DEFINE rows  == RemoveAt(itemArray[d], k)
             write == UpdateItems(ConvertItems(rows))
  <2>1. /\ screen[d] = "list" /\ Enqueue(d, write)
        /\ itemArray' = [itemArray EXCEPT ![d] = rows]
        /\ session' = [session EXCEPT ![d] = IF @ = "synced" THEN @ ELSE "mixed"]
        /\ session[d] # "synced" => torn'
        /\ UNCHANGED <<remote, cache, user, held, screen, asked, answers, leaked>>
    BY <1>4 DEF DeleteItem, CanTap, server
  <2>2. itemArray[d] \in Seq(mine[user[d]]) /\ k \in 1 .. Len(itemArray[d])
    BY <1>a, <1>b, <1>c, <2>1 DEF RowsOwn, Followed
  <2>3. rows \in Seq(mine[user[d]])
    BY <2>2, RemoveAtType
  <2>4. write \in OwnWrite(mine, user[d])
    BY <1>c, <2>1, <2>3, OwnWrites
  <2>5. \A e \in Device : Followed(e)' => Followed(e)
    BY <1>a, <2>1 DEF Followed
  <2> HIDE DEF rows, write
  <2>6. QueuesOwn(mine)'
    BY <1>b, <1>c, <2>1, <2>4, OwnEnqueued
  <2>7. RowsOwn(mine)'
    BY <1>a, <1>b, <2>1, <2>3, <2>5 DEF RowsOwn
  <2> QED BY <1>1, <2>1, <2>6, <2>7 DEF OwnInv
<1>5. ASSUME LinkReady(d)
      PROVE  OwnInv(mine)'
  <2>1. /\ upload[d].stage = "linking" /\ PutItemInDatabase(d, UploadedItem(d))
        /\ UNCHANGED <<remote, cache, user, held, screen, asked, answers, leaked>>
    BY <1>5 DEF LinkReady, server, UploadedItem
  <2>2. screen[d] = "list"
    BY <2>1 DEF SignedInv
  <2>3. UploadedItem(d) \in mine[user[d]]
    BY <1>5 DEF PutsOwn
  <2>4. QueuesOwn(mine)' /\ RowsOwn(mine)'
    BY <1>c, <2>1, <2>2, <2>3, OwnPut
  <2> QED BY <1>1, <2>1, <2>4 DEF OwnInv
<1>6. ASSUME NEW name \in Text, NEW amount \in Text, NEW image \in Image,
             AddItemAndImage(d, name, amount, image)
      PROVE  OwnInv(mine)'
  BY <1>3, <1>6 DEF AddItemAndImage, server, kept
<1>7. ASSUME PictureStored(d) \/ UploadFails(d)
      PROVE  OwnInv(mine)'
  BY <1>3, <1>7 DEF PictureStored, UploadFails, kept, history
<1>8. \A name \in UNION {Names[u] : u \in User} : name \in Text
  BY ConstantTypes
<1> QED BY <1>2, <1>4, <1>5, <1>6, <1>7, <1>8, AmountsAssumption DEF Edit, Transfer

(* What the client and the server do leaves everything with its user.      *)
LEMMA OwnSync ==
  ASSUME NEW mine, Closed(mine),
         DataInv, SentInv, OwnInv(mine), NEW d \in Device,
         Snapshot(d) \/ QueryFails(d) \/ Sync(d) \/ StreamBreaks(d) \/ DeletionEnds(d)
  PROVE  OwnInv(mine)'
<1>a. /\ user \in [Device -> User \cup {NoUser}]
      /\ remote \in [User -> ParsedDocument]
      /\ cache \in [Device -> [User -> ParsedDocument]]
      /\ pending \in [Device -> [User -> Seq(ParsedWrite)]]
      /\ held \in [Device -> Seq(ParsedWrite)]
      /\ asked \in [Device -> Seq(User)]
      /\ answers \in [Device -> Seq(ParsedAnswer)]
      /\ sent \in [Device -> Seq(Outcome)]
      /\ session \in [Device -> {"none", "loading", "early", "synced", "mixed"}]
  BY DEF DataInv, ServerInv, KeptInv, ProcessInv, HistoryInv
<1>b. DocumentsOwn(mine) /\ QueuesOwn(mine) /\ AnswersOwn(mine) /\ RowsOwn(mine)
  BY DEF OwnInv
<1>1. ASSUME NEW outstanding, NEW k \in DOMAIN asked[d],
             asked' = [asked EXCEPT ![d] = outstanding],
             \/ \E u \in User : Refresh(d, u)
             \/ EndQuery(d, outstanding),
             \/ answers' = answers
             \/ \E answer : answers' = [answers EXCEPT ![d] = Append(@, answer)],
             UNCHANGED <<user, pending, remote, screen, itemArray, session, leaked>>
      PROVE  DocumentsOwn(mine)' /\ QueuesOwn(mine)' /\ RowsOwn(mine)'
  <2>1. \A e \in Device, v \in User :
          /\ cache'[e][v] \in OwnDocument(mine, v)
          /\ user'[e] = v => held'[e] \in Seq(OwnWrite(mine, v))
    BY <1>1, <1>b, OwnCached
  <2>2. DocumentsOwn(mine)' /\ QueuesOwn(mine)'
    BY <1>b, <1>1, <2>1 DEF DocumentsOwn, QueuesOwn
  <2>3. RowsOwn(mine)'
    <3> SUFFICES ASSUME NEW e \in Device
                 PROVE  /\ user[e] \in User /\ (leaked => Followed(e))
                             => itemArray[e] \in Seq(mine[user[e]])
                        /\ screen[e] = "home" /\ ~leaked =>
                             /\ itemArray[e] = <<>>
                             /\ \/ user[e] = NoUser
                                \/ asked'[e] = <<>> /\ answers'[e] = <<>>
      BY <1>1 DEF RowsOwn, Followed
    <3>1. CASE e = d
      <4>1. asked[d] # <<>>
        BY <1>1
      <4> QED BY <1>b, <3>1, <4>1 DEF RowsOwn
    <3>2. CASE e # d
      BY <1>a, <1>b, <1>1, <3>2 DEF RowsOwn
    <3> QED BY <3>1, <3>2
  <2> QED BY <2>2, <2>3
<1>2. ASSUME Snapshot(d)
      PROVE  OwnInv(mine)'
  <2>1. PICK k \in DOMAIN asked[d], u \in User :
          /\ asked' = [asked EXCEPT ![d] = RemoveAt(@, k)]
          /\ Refresh(d, u) \/ EndQuery(d, RemoveAt(asked[d], k))
          /\ UNCHANGED user /\ UNCHANGED pending
          /\ answers' = [answers EXCEPT ![d] =
                           Append(@, [user |-> u, doc |-> LocalView(d, u)'])]
          /\ UNCHANGED <<server, screen, itemArray, session, leaked>>
    BY <1>2 DEF Snapshot
  <2>2. DocumentsOwn(mine)' /\ QueuesOwn(mine)' /\ RowsOwn(mine)'
    BY <1>1, <2>1 DEF server
  <2>3. LocalView(d, u)' \in OwnDocument(mine, u)
    <3>1. /\ cache'[d][u] \in OwnDocument(mine, u)
          /\ pending'[d][u] \in Seq(OwnWrite(mine, u))
          /\ user'[d] = u => held'[d] \in Seq(OwnWrite(mine, u))
      BY <2>2 DEF DocumentsOwn, QueuesOwn
    <3>2. user'[d] = u => Overlay(cache'[d][u], held'[d]) \in OwnDocument(mine, u)
      BY <3>1, OwnOverlay
    <3> QED BY <3>1, <3>2, OwnOverlay DEF LocalView, Known
  <2> DEFINE answer == [user |-> u, doc |-> LocalView(d, u)']
  <2>4. answer \in OwnAnswer(mine)
    <3>1. OwnDocument(mine, u) \subseteq ParsedDocument
      <4>1. OwnText(mine, u) \subseteq ParsedText
        BY DEF OwnText
      <4> QED BY <4>1, SeqMonotonic DEF OwnDocument, ParsedDocument
    <3> QED BY <2>3, <3>1 DEF OwnAnswer, ParsedAnswer
  <2>5. answers' = [answers EXCEPT ![d] = Append(answers[d], answer)]
    BY <2>1
  <2> HIDE DEF answer
  <2>6. Append(answers[d], answer) \in Seq(OwnAnswer(mine))
    BY <1>b, <2>4, AppendProperties DEF AnswersOwn
  <2>7. AnswersOwn(mine)'
    BY <1>a, <1>b, <2>5, <2>6 DEF AnswersOwn
  <2> QED BY <2>2, <2>7 DEF OwnInv
<1>3. ASSUME QueryFails(d)
      PROVE  OwnInv(mine)'
  <2>1. PICK k \in DOMAIN asked[d] :
          /\ asked' = [asked EXCEPT ![d] = RemoveAt(asked[d], k)]
          /\ EndQuery(d, RemoveAt(asked[d], k))
          /\ UNCHANGED <<server, user, pending, screen, itemArray, answers, session, leaked>>
    BY <1>3 DEF QueryFails
  <2>2. DocumentsOwn(mine)' /\ QueuesOwn(mine)' /\ RowsOwn(mine)'
    BY <1>1, <2>1 DEF server
  <2> QED BY <1>b, <2>1, <2>2 DEF AnswersOwn, OwnInv
<1>4. ASSUME Commit(d)
      PROVE  OwnInv(mine)'
  <2> DEFINE u     == user[d]
             write == pending[d][u][Len(sent[d]) + 1]
  <2>1. /\ u \in User /\ Len(sent[d]) < Len(pending[d][u])
        /\ remote' = [remote EXCEPT ![u] = Apply(@, write)]
        /\ UNCHANGED <<user, cache, pending, held, screen, itemArray, asked, answers,
                       session, leaked>>
    BY <1>a, <1>4 DEF Commit, kept
  <2>2. write \in OwnWrite(mine, u)
    <3>1. pending[d][u] \in Seq(OwnWrite(mine, u)) /\ Len(sent[d]) \in Nat
      BY <1>a, <1>b, <2>1 DEF QueuesOwn
    <3>2. Len(sent[d]) + 1 \in 1 .. Len(pending[d][u])
      BY <2>1, <3>1
    <3> QED BY <3>1, <3>2, ElementOfSeq
  <2>3. Apply(remote[u], write) \in OwnDocument(mine, u)
    BY <1>b, <2>1, <2>2, OwnApply DEF DocumentsOwn
  <2> HIDE DEF u, write
  <2>4. DocumentsOwn(mine)'
    BY <1>a, <1>b, <2>1, <2>3 DEF DocumentsOwn
  <2>5. QueuesOwn(mine)' /\ AnswersOwn(mine)' /\ RowsOwn(mine)'
    BY <1>b, <2>1 DEF QueuesOwn, AnswersOwn, RowsOwn, Followed
  <2> QED BY <2>4, <2>5 DEF OwnInv
<1>5. ASSUME Acknowledge(d)
      PROVE  OwnInv(mine)'
  <2> DEFINE u     == user[d]
             write == Head(pending[d][u])
             doc   == CacheOnAck(cache[d][u], write, Head(sent[d]))
  <2>1. /\ u \in User /\ sent[d] # <<>>
        /\ pending' = [pending EXCEPT ![d][u] = Tail(pending[d][u])]
        /\ \/ held' = [held EXCEPT ![d] = Append(held[d], write)] /\ UNCHANGED cache
           \/ cache' = [cache EXCEPT ![d][u] = doc] /\ UNCHANGED held
        /\ UNCHANGED <<remote, user, screen, itemArray, asked, answers, leaked>>
        /\ \E s : session' = [session EXCEPT ![d] = IF @ # "none" /\ s THEN "mixed" ELSE @]
    BY <1>a, <1>5 DEF Acknowledge, Answered, server
  <2>2. pending[d][u] \in Seq(OwnWrite(mine, u)) /\ pending[d][u] # <<>>
    <3>1. Len(sent[d]) <= Len(pending[d][u]) /\ sent[d] \in Seq(Outcome)
      BY <1>a, <2>1 DEF SentInv
    <3>2. pending[d][u] \in Seq(OwnWrite(mine, u))
      BY <1>b, <2>1 DEF QueuesOwn
    <3> QED BY <2>1, <3>1, <3>2
  <2>3. write \in OwnWrite(mine, u) /\ Tail(pending[d][u]) \in Seq(OwnWrite(mine, u))
    BY <2>2, HeadTailProperties
  <2>4. doc \in OwnDocument(mine, u)
    BY <1>b, <2>1, <2>3, OwnApply DEF CacheOnAck, DocumentsOwn
  <2>5. Append(held[d], write) \in Seq(OwnWrite(mine, u))
    BY <1>b, <2>1, <2>3, AppendProperties DEF QueuesOwn
  <2> HIDE DEF u, write, doc
  <2>6. DocumentsOwn(mine)'
    <3>1. ASSUME NEW e \in Device, NEW v \in User
          PROVE  cache'[e][v] \in OwnDocument(mine, v)
      <4>1. cache[e][v] \in OwnDocument(mine, v)
        BY <1>b DEF DocumentsOwn
      <4>2. CASE cache' = [cache EXCEPT ![d][u] = doc]
        <5>1. cache'[e][v] = IF e = d /\ v = u THEN doc ELSE cache[e][v]
          BY <1>a, <4>2
        <5> QED BY <2>4, <4>1, <5>1
      <4> QED BY <2>1, <4>1, <4>2
    <3> QED BY <1>b, <2>1, <3>1 DEF DocumentsOwn
  <2>7. QueuesOwn(mine)'
    <3> SUFFICES ASSUME NEW e \in Device, NEW v \in User
                 PROVE  /\ pending'[e][v] \in Seq(OwnWrite(mine, v))
                        /\ user[e] = v => held'[e] \in Seq(OwnWrite(mine, v))
      BY <2>1 DEF QueuesOwn
    <3>1. pending'[e][v] \in Seq(OwnWrite(mine, v))
      BY <1>a, <1>b, <2>1, <2>3 DEF QueuesOwn
    <3>2. user[e] = v => held'[e] \in Seq(OwnWrite(mine, v))
      BY <1>a, <1>b, <2>1, <2>5 DEF QueuesOwn, u
    <3> QED BY <3>1, <3>2
  <2>8. AnswersOwn(mine)' /\ RowsOwn(mine)'
    <3>1. \A e \in Device : Followed(e)' => Followed(e)
      BY <1>a, <2>1 DEF Followed
    <3> QED BY <1>b, <2>1, <3>1 DEF AnswersOwn, RowsOwn
  <2> QED BY <2>6, <2>7, <2>8 DEF OwnInv
<1>6. ASSUME StreamBreaks(d) \/ DeletionEnds(d)
      PROVE  OwnInv(mine)'
  BY <1>b, <1>6 DEF StreamBreaks, DeletionEnds, server, kept, OwnInv, DocumentsOwn,
                    QueuesOwn, AnswersOwn, RowsOwn, Followed, history
<1> QED BY <1>2, <1>3, <1>4, <1>5, <1>6 DEF Sync

(* A reply in time adds rows of the signed-in user; one that is late is    *)
(* noted as such, and finds no list that is followed.                      *)
LEMMA OwnReply ==
  ASSUME NEW mine, Closed(mine),
         DataInv, SignedInv, RowsInv, OwnInv(mine), NEW d \in Device, Reply(d)
  PROVE  OwnInv(mine)'
<1>a. /\ user \in [Device -> User \cup {NoUser}]
      /\ screen \in [Device -> {"home", "list"}]
      /\ itemArray \in [Device -> Seq(Item)]
      /\ answers \in [Device -> Seq(ParsedAnswer)]
      /\ session \in [Device -> {"none", "loading", "early", "synced", "mixed"}]
  BY DEF DataInv, KeptInv, ProcessInv, HistoryInv
<1>b. DocumentsOwn(mine) /\ QueuesOwn(mine) /\ AnswersOwn(mine) /\ RowsOwn(mine)
  BY DEF OwnInv
<1> DEFINE answer == Head(answers[d])
           rows   == IF answer.doc # NoDoc THEN ParseItems(answer.doc) ELSE <<>>
<1>1. /\ answers[d] # <<>>
      /\ itemArray' = [itemArray EXCEPT ![d] = itemArray[d] \o rows]
      /\ leaked \/ (rows # <<>> /\ user[d] # answer.user) <=> leaked'
      /\ \E s : session' = [session EXCEPT ![d] =
                              IF answer.doc # NoDoc THEN Loaded(session[d], s) ELSE @]
      /\ answers' = [answers EXCEPT ![d] = Tail(answers[d])]
      /\ UNCHANGED <<remote, user, cache, pending, screen, asked, held>>
  BY DEF Reply, Due, server, kept
<1>2. answer \in OwnAnswer(mine) /\ Tail(answers[d]) \in Seq(OwnAnswer(mine))
  BY <1>b, <1>1, HeadTailProperties DEF AnswersOwn
<1>3. /\ answer.user \in User /\ rows \in Seq(mine[answer.user])
  BY <1>2, OwnRows, EmptySeq DEF OwnAnswer, ParsedAnswer
<1>c. \A e \in Device : Followed(e)' => Followed(e)
  BY <1>a, <1>1 DEF Followed, Loaded
<1>d. Followed(d) => user[d] = answer.user
  <2>1. answers[d] \in Seq(ParsedAnswer) /\ answer = answers[d][1]
    BY <1>a, <1>1
  <2> QED BY <1>1, <2>1 DEF RowsInv, ListInv, OneQuery, InStep, Followed
<1> HIDE DEF answer, rows
<1>4. AnswersOwn(mine)'
  BY <1>a, <1>b, <1>1, <1>2 DEF AnswersOwn
<1>5. RowsOwn(mine)'
  <2> SUFFICES ASSUME NEW e \in Device
               PROVE  /\ user[e] \in User /\ (leaked' => Followed(e)')
                           => itemArray'[e] \in Seq(mine[user[e]])
                      /\ screen[e] = "home" /\ ~leaked' =>
                           /\ itemArray'[e] = <<>>
                           /\ \/ user[e] = NoUser
                              \/ asked[e] = <<>> /\ answers'[e] = <<>>
    BY <1>1 DEF RowsOwn
  <2>1. CASE e = d /\ rows = <<>>
    <3>1. itemArray'[d] = itemArray[d]
      BY <1>a, <1>1, <2>1, ConcatEmptySeq
    <3> QED BY <1>b, <1>c, <1>1, <2>1, <3>1 DEF RowsOwn
  <2>2. CASE e = d /\ user[d] = answer.user
    <3>1. /\ user[d] \in User
          /\ ~leaked => screen[d] # "home"
      BY <1>b, <1>1, <1>3, <2>2, UserAssumption DEF RowsOwn
    <3>2. itemArray[d] \in Seq(mine[user[d]]) => itemArray[d] \o rows \in Seq(mine[user[d]])
      BY <1>3, <2>2, ConcatProperties
    <3> QED BY <1>a, <1>b, <1>c, <1>1, <2>2, <3>1, <3>2 DEF RowsOwn
  <2>3. CASE e # d
    BY <1>a, <1>b, <1>c, <1>1, <2>3 DEF RowsOwn
  <2>4. CASE e = d /\ rows # <<>> /\ user[d] # answer.user
    BY <1>c, <1>d, <1>1, <2>4
  <2> QED BY <2>1, <2>2, <2>3, <2>4
<1>6. DocumentsOwn(mine)' /\ QueuesOwn(mine)'
  BY <1>b, <1>1 DEF DocumentsOwn, QueuesOwn
<1> QED BY <1>4, <1>5, <1>6 DEF OwnInv

(* No step but a late reply takes anything from one user to another, until *)
(* a list that it came to is written back.                                 *)
LEMMA OwnNext ==
  ASSUME NEW mine, Closed(mine),
         DataInv, SentInv, SignedInv, RowsInv, OwnInv(mine), [Next]_vars,
         \A d \in Device : PutsOwn(mine, d), leaked' => ~torn'
  PROVE  OwnInv(mine)'
<1>1. CASE UNCHANGED vars
  BY <1>1 DEF vars, server, kept, process, history, OwnInv, DocumentsOwn, QueuesOwn,
              AnswersOwn, RowsOwn, Followed
<1> QED BY <1>1, OwnAccount, OwnEdit, OwnSync, OwnReply DEF Next

(* What happened once has happened.                                        *)
LEMMA HistoryStays ==
  ASSUME [Next]_vars
  PROVE  (leaked => leaked') /\ (torn => torn')
<1>1. CASE UNCHANGED vars
  BY <1>1 DEF vars, history
<1>2. ASSUME NEW d \in Device, Account(d) \/ Snapshot(d) \/ QueryFails(d) \/ Sync(d)
      PROVE  UNCHANGED <<leaked, torn>>
  BY <1>2 DEF Account, Login, Register, RegisterUnanswered, Logout, Restart, Snapshot,
              QueryFails, Sync, Commit, Acknowledge
<1>3. ASSUME NEW d \in Device, Transfer(d) \/ DeletionEnds(d) \/ StreamBreaks(d)
      PROVE  UNCHANGED <<leaked, torn>>
  BY <1>3 DEF Transfer, PictureStored, UploadFails, LinkReady, DeletionEnds, StreamBreaks,
              history
<1>4. ASSUME NEW d \in Device, Edit(d) \/ Reply(d)
      PROVE  (leaked => leaked') /\ (torn => torn')
  <2>1. CASE Reply(d)
    <3>1. UNCHANGED torn /\ \E s : leaked' = (leaked \/ s)
      BY <2>1 DEF Reply
    <3> QED BY <3>1
  <2>2. CASE \E k \in DOMAIN itemArray[d] : DeleteItem(d, k)
    <3>1. PICK k \in DOMAIN itemArray[d] : DeleteItem(d, k)
      BY <2>2
    <3>2. /\ UNCHANGED leaked
          /\ \E s : torn' = (torn \/ session[d] # "synced" \/ dropped[d][user[d]] \/ s)
      BY <3>1 DEF DeleteItem
    <3> QED BY <3>2
  <2>3. CASE \E name, amount, image : \/ AddItemWithoutImage(d, name, amount)
                                      \/ AddItemAndImage(d, name, amount, image)
    BY <2>3 DEF AddItemWithoutImage, AddItemAndImage
  <2> QED BY <1>4, <2>1, <2>2, <2>3 DEF Edit
<1> QED BY <1>1, <1>2, <1>3, <1>4 DEF Next

-----------------------------------------------------------------------------
(* The items whose names u typed, and the uploads of them.                 *)
ItemsTyped == [u \in User |-> {item \in Item : TypedBy(u, item.name)}]

UploadsTyped ==
  \A d \in Device : upload[d].stage \in {"sending", "linking"} =>
    TypedBy(user[d], upload[d].name)

(* A string begins with the name of its item, also once it is loaded.      *)
LEMMA TypedClosed == Closed(ItemsTyped)
<1> SUFFICES ASSUME NEW u \in User, NEW item \in Item, TypedBy(u, item.name)
             PROVE  /\ ParseItem(ConvertItemToString(item)) \in Item
                    /\ TypedBy(u, ParseItem(ConvertItemToString(item)).name)
  BY DEF Closed, ItemsTyped
<1> DEFINE str == ConvertItemToString(item)
<1>1. str \in Seq(Chunk) /\ Parses(str) /\ str[1] = item.name[1]
  BY ConvertedParses, FirstIsName DEF Text
<1> HIDE DEF str
<1>2. ParseItem(str) \in Item /\ ParseItem(str).name[1] = str[1]
  BY <1>1, ParsedIsPlain DEF ParseItem
<1> QED BY <1>1, <1>2 DEF TypedBy, str

(* The user does not change during an upload.                              *)
LEMMA UploadsNext ==
  ASSUME DataInv, SignedInv, UploadsTyped, [Next]_vars
  PROVE  UploadsTyped'
<1>a. /\ user \in [Device -> User \cup {NoUser}]
      /\ upload \in [Device -> Upload]
  BY DEF DataInv, KeptInv, ProcessInv
<1>1. CASE UNCHANGED <<user, upload>>
  BY <1>1 DEF UploadsTyped
<1>2. ASSUME NEW d \in Device, Account(d)
      PROVE  UploadsTyped'
  <2>1. CASE UNCHANGED <<user, upload>>
    BY <1>1, <2>1
  <2>2. CASE upload[d].stage = "none" /\ UNCHANGED upload
              /\ \E v : user' = [user EXCEPT ![d] = v]
    BY <1>a, <2>2 DEF UploadsTyped
  <2>3. CASE upload' = [upload EXCEPT ![d] = NoUpload] /\ UNCHANGED user
    BY <1>a, <2>3 DEF UploadsTyped, NoUpload
  <2> QED BY <1>2, <2>1, <2>2, <2>3 DEF Account, Login, Register, RegisterUnanswered, Logout,
                Restart, SwitchUser, CanTap, SignedInv, kept, process
<1>3. ASSUME NEW d \in Device, Edit(d) \/ Transfer(d)
      PROVE  UploadsTyped'
  <2>1. CASE \E name, amount : AddItemWithoutImage(d, name, amount)
    BY <1>1, <2>1 DEF AddItemWithoutImage
  <2>2. ASSUME NEW name, NEW amount, NEW image, Typed(d, name, amount),
               AddItemAndImage(d, name, amount, image)
        PROVE  UploadsTyped'
    <3>1. UNCHANGED user /\ upload'[d].name = name
          /\ \A e \in Device : e # d => upload'[e] = upload[e]
      BY <1>a, <2>2 DEF AddItemAndImage, kept
    <3>2. TypedBy(user[d], name)
      BY <2>2 DEF Typed, TypedBy
    <3> QED BY <3>1, <3>2 DEF UploadsTyped
  <2>3. CASE \E k \in DOMAIN itemArray[d] : DeleteItem(d, k)
    BY <1>1, <2>3 DEF DeleteItem
  <2>4. CASE PictureStored(d) \/ UploadFails(d)
    <3>1. /\ UNCHANGED user /\ upload[d].stage \in {"sending", "linking"}
          /\ upload'[d].name = upload[d].name
          /\ \A e \in Device : e # d => upload'[e] = upload[e]
      BY <1>a, <2>4 DEF PictureStored, UploadFails, kept, Upload
    <3> QED BY <3>1 DEF UploadsTyped
  <2>5. CASE LinkReady(d)
    BY <1>a, <2>5 DEF LinkReady, UploadsTyped, NoUpload
  <2> QED BY <1>3, <2>1, <2>2, <2>3, <2>4, <2>5 DEF Edit, Transfer
<1>4. ASSUME NEW d \in Device, Snapshot(d) \/ QueryFails(d) \/ Reply(d) \/ DeletionEnds(d)
                                 \/ Sync(d) \/ StreamBreaks(d)
      PROVE  UNCHANGED <<user, upload>>
  BY <1>4 DEF Snapshot, QueryFails, Reply, DeletionEnds, Sync, Commit, Acknowledge,
              StreamBreaks, kept
<1>5. CASE UNCHANGED vars
  BY <1>1, <1>5 DEF vars, kept, process
<1> QED BY <1>1, <1>2, <1>3, <1>4, <1>5 DEF Next

(* What is typed and uploaded is the typist's.                             *)
LEMMA TypedPuts ==
  ASSUME DataInv, SignedInv, UploadsTyped, NEW d \in Device
  PROVE  PutsOwn(ItemsTyped, d)
<1>1. ASSUME NEW name \in Text, NEW amount \in Text, Typed(d, name, amount)
      PROVE  TypedItem(name, amount) \in ItemsTyped[user[d]]
  <2>1. user[d] \in User /\ TypedBy(user[d], name)
    BY <1>1 DEF Typed, TypedBy, DataInv, KeptInv
  <2>2. TypedItem(name, amount) \in Item /\ TypedItem(name, amount).name = name
    BY ConstantTypes DEF TypedItem, Item
  <2> QED BY <2>1, <2>2 DEF ItemsTyped
<1>2. ASSUME LinkReady(d)
      PROVE  UploadedItem(d) \in ItemsTyped[user[d]]
  <2>0. user[d] \in User
    BY <1>2 DEF LinkReady, SignedInv, DataInv, KeptInv, ProcessInv
  <2>1. upload[d] \in Upload
    BY DEF DataInv, ProcessInv
  <2>2. UploadedItem(d) \in Item /\ UploadedItem(d).name = upload[d].name
    BY <2>1 DEF UploadedItem, Item, Upload
  <2>3. TypedBy(user[d], upload[d].name)
    BY <1>2 DEF LinkReady, UploadsTyped
  <2> QED BY <2>0, <2>2, <2>3 DEF ItemsTyped
<1> QED BY <1>1, <1>2 DEF PutsOwn

(* Nothing has happened yet.                                               *)
LEMMA OwnInit ==
  ASSUME NEW mine, Closed(mine), Init
  PROVE  OwnInv(mine)
<1>1. \A u \in User : <<>> \in Seq(OwnWrite(mine, u)) /\ <<>> \in Seq(mine[u])
  BY EmptySeq
<1>2. DocumentsOwn(mine)
  BY DEF Init, DocumentsOwn, OwnDocument
<1>3. QueuesOwn(mine)
  BY <1>1 DEF Init, QueuesOwn
<1>4. AnswersOwn(mine)
  BY EmptySeq DEF Init, AnswersOwn
<1>5. RowsOwn(mine)
  BY <1>1, UserAssumption DEF Init, RowsOwn
<1> QED BY <1>2, <1>3, <1>4, <1>5 DEF OwnInv

(* As long as no reply came late, what is on a user's screen, in the       *)
(* user's document and in the user's queues was typed by that user,        *)
(* whatever signs in and out, restarts, fails and is sent again.           *)
THEOREM ItemsStayWithTheirUser == Spec => []IsolatedUnlessLeaked
<1> DEFINE Own == ~leaked => OwnInv(ItemsTyped)
<1>1. Init => UploadsTyped /\ Own
  <2>1. Init => UploadsTyped
    BY DEF Init, UploadsTyped, NoUpload
  <2> QED BY <2>1, OwnInit, TypedClosed
<1>2. DataInv /\ SentInv /\ SignedInv /\ RowsInv /\ UploadsTyped /\ Own /\ [Next]_vars
        => UploadsTyped' /\ Own'
  BY UploadsNext, TypedPuts, OwnNext, HistoryStays, TypedClosed
<1>3. DataInv /\ Own => IsolatedUnlessLeaked
  <2> SUFFICES ASSUME DataInv, OwnInv(ItemsTyped), ~leaked PROVE IsolatedUnlessLeaked
    BY DEF IsolatedUnlessLeaked
  <2>a. \A u \in User : \A item \in ItemsTyped[u] : item \in Item /\ TypedBy(u, item.name)
    BY DEF ItemsTyped
  <2>1. ASSUME NEW d \in Device, user[d] # NoUser, NEW str \in RowStrings(d)
        PROVE  TypedBy(user[d], str)
    <3>1. itemArray[d] \in Seq(ItemsTyped[user[d]])
      BY <2>1 DEF DataInv, KeptInv, OwnInv, RowsOwn
    <3>2. PICK k \in DOMAIN itemArray[d] : str = ConvertItemToString(itemArray[d][k])
      BY DEF RowStrings
    <3>3. itemArray[d][k] \in ItemsTyped[user[d]] /\ user[d] \in User
      BY <2>1, <3>1 DEF DataInv, KeptInv
    <3> QED BY <2>a, <3>2, <3>3, FirstIsName DEF TypedBy
  <2>2. ASSUME NEW u \in User, NEW doc \in OwnDocument(ItemsTyped, u), NEW str \in Strings(doc)
        PROVE  TypedBy(u, str)
    <3>1. doc \in Seq(OwnText(ItemsTyped, u))
      BY DEF OwnDocument, Strings
    <3>2. str \in OwnText(ItemsTyped, u)
      BY <3>1 DEF Strings, OwnDocument
    <3>3. TypedBy(u, ParseItem(str).name)
      BY <2>a, <3>2 DEF OwnText
    <3> QED BY <3>3 DEF TypedBy, ParseItem
  <2>3. ASSUME NEW u \in User, NEW write \in OwnWrite(ItemsTyped, u), NEW str \in WriteStrings(write)
        PROVE  TypedBy(u, str)
    <3>1. CASE write.kind = "union"
      <4>1. str \in OwnText(ItemsTyped, u)
        BY <3>1 DEF OwnWrite, WriteStrings
      <4>2. TypedBy(u, ParseItem(str).name)
        BY <2>a, <4>1 DEF OwnText
      <4> QED BY <4>2 DEF TypedBy, ParseItem
    <3>2. CASE write.kind # "union"
      <4>1. write.items \in OwnDocument(ItemsTyped, u)
        BY <3>2 DEF OwnWrite, OwnDocument
      <4> QED BY <2>2, <3>2, <4>1 DEF WriteStrings
    <3> QED BY <3>1, <3>2
  <2>4. ASSUME NEW d \in Device, NEW u \in User, NEW k \in DOMAIN pending[d][u]
        PROVE  pending[d][u][k] \in OwnWrite(ItemsTyped, u)
    BY DEF OwnInv, QueuesOwn
  <2> QED BY <2>1, <2>2, <2>3, <2>4 DEF IsolatedUnlessLeaked, OwnInv, DocumentsOwn
<1> HIDE DEF Own
<1> QED BY <1>1, <1>2, <1>3, DataAlways, RowsAlways, PTL DEF Spec

=============================================================================
