------------------------- MODULE ShoppingListProofs -------------------------
(***************************************************************************)
(* Safety of the app on any number of devices, for any users, texts and    *)
(* pictures, and whatever the bounds on edits, sessions and losses.        *)
(***************************************************************************)
EXTENDS ShoppingList, UsersCollectionProofs

-----------------------------------------------------------------------------
(* Types alone are not inductive: a reply makes rows of an answer, and a   *)
(* row is an item only if the string it comes from has four components.    *)
(* The strengthened types carry that through every place a string is at.   *)
ParsedText == {string \in Text : Parses(string)}
ParsedDocument == Seq(ParsedText) \cup {NoDoc}
ParsedWrite == [kind : {"set", "update"}, items : Seq(ParsedText)]
                 \cup [kind : {"union"}, item : ParsedText]
ParsedAnswer == [user : User, doc : ParsedDocument]

ServerInv ==
  /\ accounts \subseteq User
  /\ remote \in [User -> ParsedDocument]
  /\ images \subseteq Image

KeptInv ==
  /\ user \in [Device -> User \cup {NoUser}]
  /\ cache \in [Device -> [User -> ParsedDocument]]
  /\ pending \in [Device -> [User -> Seq(ParsedWrite)]]

ProcessInv ==
  /\ screen \in [Device -> {"home", "list"}]
  /\ itemArray \in [Device -> Seq(Item)]
  /\ asked \in [Device -> Seq(User)]
  /\ answers \in [Device -> Seq(ParsedAnswer)]
  /\ sent \in [Device -> Seq(Outcome)]
  /\ held \in [Device -> Seq(ParsedWrite)]
  /\ upload \in [Device -> Upload]
  /\ deletions \in [Device -> SUBSET Text]

BoundsInv == edits \in Nat /\ sessions \in Nat /\ lost \in Nat

HistoryInv ==
  /\ named \subseteq Image
  /\ session \in [Device -> {"none", "loading", "early", "synced", "mixed"}]
  /\ leaked \in BOOLEAN /\ torn \in BOOLEAN
  /\ writers \in [User -> SUBSET Device]
  /\ undocumented \subseteq User
  /\ dropped \in [Device -> [User -> BOOLEAN]]

DataInv == ServerInv /\ KeptInv /\ ProcessInv /\ BoundsInv /\ HistoryInv

(* An answer belongs to a write: no more writes are sent than are queued.  *)
SentInv ==
  \A d \in Device : user[d] \in User => Len(sent[d]) <= Len(pending[d][user[d]])

-----------------------------------------------------------------------------
(* What is left of a sequence when an element is taken out.                *)
LEMMA RemoveAtType ==
  ASSUME NEW S, NEW s \in Seq(S), NEW k \in 1 .. Len(s)
  PROVE  RemoveAt(s, k) \in Seq(S)
<1>1. SubSeq(s, 1, k - 1) \in Seq(S) /\ SubSeq(s, k + 1, Len(s)) \in Seq(S)
  BY SubSeqProperties
<1> QED BY <1>1, ConcatProperties DEF RemoveAt

(* The constants of the model that are texts or made of texts.             *)
LEMMA ConstantTypes ==
  /\ EmptyText \in Text /\ NoPicture \in Text
  /\ \A i \in Image : <<i>> \in Text
  /\ \A u \in User : Names[u] \subseteq Text
  /\ NoUpload \in Upload
<1>1. \A c \in Chunk : <<c>> \in Text
  BY DEF Text
<1> QED BY <1>1, ChunkAssumption, ImageAssumption, NamesAssumption
        DEF EmptyText, NoPicture, NoUpload, Upload

(* The app's three writes hold only strings that parse.                    *)
LEMMA WritesParse ==
  /\ SetData \in ParsedWrite
  /\ \A item \in Item : ArrayUnion(ConvertItemToString(item)) \in ParsedWrite
  /\ \A rows \in Seq(Item) : UpdateItems(ConvertItems(rows)) \in ParsedWrite
<1>1. <<>> \in Seq(ParsedText)
  BY EmptySeq
<1>2. \A item \in Item : ConvertItemToString(item) \in ParsedText
  BY ConvertedParses DEF ParsedText
<1>3. ASSUME NEW rows \in Seq(Item) PROVE ConvertItems(rows) \in Seq(ParsedText)
  BY <1>2 DEF ConvertItems
<1> QED BY <1>1, <1>2, <1>3 DEF ParsedWrite, SetData, ArrayUnion, UpdateItems

(* The strengthened types are within the types of TypeOK.                  *)
LEMMA ParsedIsTyped ==
  /\ ParsedDocument \subseteq Document
  /\ ParsedWrite \subseteq Write
  /\ ParsedAnswer \subseteq Answer
  /\ Seq(ParsedWrite) \subseteq Seq(Write)
  /\ Seq(ParsedAnswer) \subseteq Seq(Answer)
<1>1. Seq(ParsedText) \subseteq Seq(Text)
  BY SeqMonotonic DEF ParsedText
<1>2. ParsedDocument \subseteq Document
  BY <1>1 DEF ParsedDocument, Document
<1>3. ParsedWrite \subseteq Write
  BY <1>1 DEF ParsedWrite, Write, ParsedText
<1>4. ParsedAnswer \subseteq Answer
  BY <1>2 DEF ParsedAnswer, Answer
<1> QED BY <1>2, <1>3, <1>4, SeqMonotonic

(* A write that brings strings that parse leaves a document of strings that *)
(* parse.                                                                  *)
LEMMA ApplyParsed ==
  ASSUME NEW doc \in ParsedDocument, NEW write \in ParsedWrite
  PROVE  Apply(doc, write) \in ParsedDocument
<1>1. CASE ~Accepts(doc, write)
  BY <1>1 DEF Apply
<1>2. CASE Accepts(doc, write) /\ write.kind = "union"
  <2>1. write.item \in ParsedText /\ doc \in Seq(ParsedText)
    BY <1>2 DEF Accepts, ParsedWrite, ParsedDocument
  <2>2. Union(doc, write.item) \in Seq(ParsedText)
    BY <2>1, AppendProperties DEF Union
  <2> QED BY <1>2, <2>2 DEF Apply, ParsedDocument
<1>3. CASE Accepts(doc, write) /\ write.kind # "union"
  BY <1>3 DEF Apply, ParsedWrite, ParsedDocument
<1> QED BY <1>1, <1>2, <1>3

(* So does a queue of such writes.                                         *)
LEMMA OverlayParsed ==
  ASSUME NEW doc \in ParsedDocument, NEW queue \in Seq(ParsedWrite)
  PROVE  Overlay(doc, queue) \in ParsedDocument
<1>1. \A k \in 1 .. Len(queue) : \A e \in ParsedDocument :
        Apply(e, queue[k]) \in ParsedDocument
  BY ApplyParsed
<1> QED BY <1>1, OverlayStaysIn

(* The rows of a document whose strings parse.                             *)
LEMMA RowsParsed ==
  ASSUME NEW doc \in ParsedDocument, doc # NoDoc
  PROVE  ParseItems(doc) \in Seq(Item)
<1>1. doc \in Seq(ParsedText)
  BY DEF ParsedDocument
<1>2. \A string \in ParsedText : ParseItem(string) \in Item
  BY ParsedIsPlain DEF ParsedText, Text
<1>3. \A k \in DOMAIN doc : ParseItem(doc[k]) \in Item
  BY <1>1, <1>2
<1> QED BY <1>1, <1>3 DEF ParseItems

(* Replacing one entry of a table by device and user keeps its type.       *)
LEMMA EntryType ==
  ASSUME NEW S, NEW f \in [Device -> [User -> S]], NEW d \in Device, NEW u \in User,
         NEW v \in S
  PROVE  [f EXCEPT ![d][u] = v] \in [Device -> [User -> S]]
<1> DEFINE row == [f[d] EXCEPT ![u] = v]
<1>1. row \in [User -> S]
  OBVIOUS
<1>2. [f EXCEPT ![d][u] = v] = [f EXCEPT ![d] = row]
  OBVIOUS
<1> HIDE DEF row
<1> QED BY <1>1, <1>2

(* Dropping the held writes, with or without a change of user, keeps the   *)
(* types.                                                                  *)
LEMMA DropParsed ==
  ASSUME DataInv, NEW d \in Device, DropHeld(d)
  PROVE  /\ held' \in [Device -> Seq(ParsedWrite)]
         /\ dropped' \in [Device -> [User -> BOOLEAN]]
<1>a. ProcessInv /\ HistoryInv
  BY DEF DataInv
<1>1. held' \in [Device -> Seq(ParsedWrite)]
  BY <1>a, EmptySeq DEF DropHeld, ProcessInv
<1> DEFINE marks == [dropped[d] EXCEPT ![user[d]] = TRUE]
<1>2. marks \in [User -> BOOLEAN]
  BY <1>a DEF HistoryInv
<1>3. dropped' = dropped \/ dropped' = [dropped EXCEPT ![d] = marks]
  BY DEF DropHeld
<1> HIDE DEF marks
<1>4. dropped' \in [Device -> [User -> BOOLEAN]]
  BY <1>a, <1>2, <1>3 DEF HistoryInv
<1> QED BY <1>1, <1>4

(* A change of user keeps the types.                                       *)
LEMMA SwitchParsed ==
  ASSUME DataInv, NEW d \in Device, NEW u \in User \cup {NoUser}, SwitchUser(d, u)
  PROVE  /\ user' \in [Device -> User \cup {NoUser}]
         /\ held' \in [Device -> Seq(ParsedWrite)]
         /\ sent' \in [Device -> Seq(Outcome)]
         /\ dropped' \in [Device -> [User -> BOOLEAN]]
<1>a. KeptInv /\ ProcessInv /\ HistoryInv
  BY DEF DataInv
<1>1. user' \in [Device -> User \cup {NoUser}]
  BY <1>a DEF SwitchUser, KeptInv
<1>2. sent' \in [Device -> Seq(Outcome)]
  BY <1>a, EmptySeq DEF SwitchUser, RestartStream, ProcessInv
<1>3. DropHeld(d) \/ UNCHANGED <<held, dropped>>
  BY DEF SwitchUser
<1> QED BY <1>a, <1>1, <1>2, <1>3, DropParsed DEF ProcessInv, HistoryInv

(* What a device knows of a document consists of strings that parse.       *)
LEMMA KnownParsed ==
  ASSUME DataInv, NEW d \in Device, NEW u \in User
  PROVE  Known(d, u) \in ParsedDocument
<1>1. cache[d][u] \in ParsedDocument /\ held[d] \in Seq(ParsedWrite)
  BY DEF DataInv, KeptInv, ProcessInv
<1> QED BY <1>1, OverlayParsed DEF Known

(* A snapshot from the server keeps the types, and the number of writes    *)
(* that are sent.                                                          *)
LEMMA RefreshParsed ==
  ASSUME DataInv, NEW d \in Device, NEW u \in User, Refresh(d, u)
  PROVE  /\ cache' \in [Device -> [User -> ParsedDocument]]
         /\ held' \in [Device -> Seq(ParsedWrite)]
         /\ sent' \in [Device -> Seq(Outcome)]
         /\ dropped' \in [Device -> [User -> BOOLEAN]]
         /\ \A e \in Device : Len(sent'[e]) = Len(sent[e])
<1>a. ServerInv /\ KeptInv /\ ProcessInv /\ HistoryInv
  BY DEF DataInv
<1> DEFINE docs  == [v \in User |-> IF v = u THEN remote[u] ELSE Known(d, v)]
           marks == [dropped[d] EXCEPT ![u] = FALSE]
           seen  == [k \in DOMAIN sent[d] |-> Seen(d, u, sent[d][k])]
<1>1. docs \in [User -> ParsedDocument]
  BY <1>a, KnownParsed DEF ServerInv
<1>2. marks \in [User -> BOOLEAN]
  BY <1>a DEF HistoryInv
<1>3. seen \in Seq(Outcome) /\ Len(seen) = Len(sent[d])
  <2>1. sent[d] \in Seq(Outcome)
    BY <1>a DEF ProcessInv
  <2>2. \A k \in DOMAIN sent[d] : Seen(d, u, sent[d][k]) \in Outcome
    BY <2>1 DEF Outcome, Seen
  <2> QED BY <2>1, <2>2
<1>4. /\ cache' = [cache EXCEPT ![d] = docs]
      /\ dropped' = [dropped EXCEPT ![d] = marks]
      /\ held' = [held EXCEPT ![d] = <<>>]
  BY DEF Refresh
<1>5. sent' = [sent EXCEPT ![d] = seen]
  BY <1>a DEF Refresh, ProcessInv
<1> HIDE DEF docs, marks, seen
<1>6. cache' \in [Device -> [User -> ParsedDocument]]
  BY <1>a, <1>1, <1>4 DEF KeptInv
<1>7. dropped' \in [Device -> [User -> BOOLEAN]]
  BY <1>a, <1>2, <1>4 DEF HistoryInv
<1>8. sent' \in [Device -> Seq(Outcome)] /\ \A e \in Device : Len(sent'[e]) = Len(sent[e])
  BY <1>a, <1>3, <1>5 DEF ProcessInv
<1>9. held' \in [Device -> Seq(ParsedWrite)]
  BY <1>a, <1>4, EmptySeq DEF ProcessInv
<1> QED BY <1>6, <1>7, <1>8, <1>9

(* So does a query that ends without one.                                  *)
LEMMA EndParsed ==
  ASSUME DataInv, NEW d \in Device, NEW outstanding, EndQuery(d, outstanding)
  PROVE  /\ cache' \in [Device -> [User -> ParsedDocument]]
         /\ held' \in [Device -> Seq(ParsedWrite)]
         /\ sent' \in [Device -> Seq(Outcome)]
         /\ dropped' \in [Device -> [User -> BOOLEAN]]
<1>a. KeptInv /\ ProcessInv /\ HistoryInv
  BY DEF DataInv
<1>1. UNCHANGED <<sent, dropped>>
  BY DEF EndQuery
<1>2. CASE ReleaseHeld(d)
  <2> DEFINE docs == [u \in User |-> Known(d, u)]
  <2>1. docs \in [User -> ParsedDocument]
    BY KnownParsed
  <2>2. cache' = [cache EXCEPT ![d] = docs] /\ held' = [held EXCEPT ![d] = <<>>]
    BY <1>2 DEF ReleaseHeld
  <2> HIDE DEF docs
  <2>3. cache' \in [Device -> [User -> ParsedDocument]]
    BY <1>a, <2>1, <2>2 DEF KeptInv
  <2>4. held' \in [Device -> Seq(ParsedWrite)]
    BY <1>a, <2>2, EmptySeq DEF ProcessInv
  <2> QED BY <1>a, <1>1, <2>3, <2>4 DEF ProcessInv, HistoryInv
<1>3. CASE UNCHANGED <<cache, held>>
  BY <1>a, <1>1, <1>3 DEF KeptInv, ProcessInv, HistoryInv
<1> QED BY <1>2, <1>3 DEF EndQuery

(* Queueing a write that parses.  The document written is that of the      *)
(* signed-in user; with nobody signed in the queue would not change.       *)
LEMMA EnqueueParsed ==
  ASSUME KeptInv, NEW d \in Device, NEW write \in ParsedWrite, Enqueue(d, write)
  PROVE  pending' \in [Device -> [User -> Seq(ParsedWrite)]]
<1> DEFINE row == [pending[d] EXCEPT ![user[d]] = Append(@, write)]
<1>1. pending' = [pending EXCEPT ![d] = row]
  BY DEF Enqueue
<1>2. pending[d] \in [User -> Seq(ParsedWrite)]
  BY DEF KeptInv
<1>3. row \in [User -> Seq(ParsedWrite)]
  <2>1. CASE user[d] \in User
    <3>1. Append(pending[d][user[d]], write) \in Seq(ParsedWrite)
      BY <1>2, <2>1, AppendProperties
    <3> QED BY <1>2, <2>1, <3>1
  <2>2. CASE user[d] \notin User
    BY <1>2, <2>2
  <2> QED BY <2>1, <2>2
<1> HIDE DEF row
<1> QED BY <1>1, <1>3 DEF KeptInv

(* No step takes a string that does not parse, or a value of another type, *)
(* to any place.                                                           *)
LEMMA DataNext ==
  ASSUME DataInv, SentInv, [Next]_vars
  PROVE  DataInv'
<1>a. ServerInv /\ KeptInv /\ ProcessInv /\ BoundsInv /\ HistoryInv /\ SentInv
  BY DEF DataInv
<1>b. CASE UNCHANGED vars
  BY <1>a, <1>b DEF vars, DataInv, ServerInv, KeptInv, ProcessInv, BoundsInv,
     HistoryInv, server, kept, process, bounds, history
<1>1. ASSUME NEW d \in Device, NEW u \in User, Login(d, u)
      PROVE  DataInv'
  <2>1. /\ user' \in [Device -> User \cup {NoUser}]
        /\ held' \in [Device -> Seq(ParsedWrite)]
        /\ sent' \in [Device -> Seq(Outcome)]
        /\ dropped' \in [Device -> [User -> BOOLEAN]]
    BY <1>1, SwitchParsed DEF Login
  <2>2. asked' \in [Device -> Seq(User)]
    BY <1>a, <1>1, AppendProperties DEF Login, OpenList, ProcessInv
  <2>11. ServerInv'
    BY <1>a, <1>1 DEF Login, OpenList, CountSession, ServerInv, server
  <2>12. KeptInv'
    BY <1>a, <1>1, <2>1 DEF Login, OpenList, CountSession, KeptInv, kept
  <2>13. ProcessInv'
    BY <1>a, <1>1, <2>1, <2>2 DEF Login, OpenList, CountSession, ProcessInv, process
  <2>14. BoundsInv'
    BY <1>a, <1>1 DEF Login, OpenList, CountSession, BoundsInv, bounds
  <2>15. HistoryInv'
    BY <1>a, <1>1, <2>1 DEF Login, OpenList, CountSession, HistoryInv, history
  <2> QED BY <2>11, <2>12, <2>13, <2>14, <2>15 DEF DataInv
<1>2. ASSUME NEW d \in Device, NEW u \in User, Register(d, u)
      PROVE  DataInv'
  <2>1. /\ user' \in [Device -> User \cup {NoUser}]
        /\ held' \in [Device -> Seq(ParsedWrite)]
        /\ sent' \in [Device -> Seq(Outcome)]
        /\ dropped' \in [Device -> [User -> BOOLEAN]]
    BY <1>2, SwitchParsed DEF Register
  <2>2. asked' \in [Device -> Seq(User)]
    BY <1>a, <1>2, AppendProperties DEF Register, OpenList, ProcessInv
  <2>3. pending' = [pending EXCEPT ![d][u] = Append(pending[d][u], SetData)]
    BY <1>2 DEF Register
  <2>4. Append(pending[d][u], SetData) \in Seq(ParsedWrite)
    BY <1>a, WritesParse, AppendProperties DEF KeptInv
  <2>5. pending' \in [Device -> [User -> Seq(ParsedWrite)]]
    BY <1>a, <2>3, <2>4, EntryType DEF KeptInv
  <2>11. ServerInv'
    BY <1>a, <1>2 DEF Register, OpenList, CountSession, ServerInv, server
  <2>12. KeptInv'
    BY <1>a, <1>2, <2>1, <2>5 DEF Register, OpenList, CountSession, KeptInv, kept
  <2>13. ProcessInv'
    BY <1>a, <1>2, <2>1, <2>2 DEF Register, OpenList, CountSession, ProcessInv, process
  <2>14. BoundsInv'
    BY <1>a, <1>2 DEF Register, OpenList, CountSession, BoundsInv, bounds
  <2>15. HistoryInv'
    BY <1>a, <1>2, <2>1 DEF Register, OpenList, CountSession, HistoryInv, history
  <2> QED BY <2>11, <2>12, <2>13, <2>14, <2>15 DEF DataInv
<1>3. ASSUME NEW d \in Device, NEW u \in User, RegisterUnanswered(d, u)
      PROVE  DataInv'
  BY <1>a, <1>3 DEF RegisterUnanswered, CountLost, DataInv, ServerInv, KeptInv, ProcessInv, BoundsInv,
     HistoryInv, server, kept, process, bounds, history
<1>4. ASSUME NEW d \in Device, Logout(d)
      PROVE  DataInv'
  <2>1. /\ user' \in [Device -> User \cup {NoUser}]
        /\ held' \in [Device -> Seq(ParsedWrite)]
        /\ sent' \in [Device -> Seq(Outcome)]
        /\ dropped' \in [Device -> [User -> BOOLEAN]]
    BY <1>4, SwitchParsed DEF Logout
  <2> QED BY <1>a, <1>4, <2>1, EmptySeq
          DEF Logout, ClearItemArray, DataInv, ServerInv, KeptInv, ProcessInv,
              BoundsInv, HistoryInv, server, bounds
<1>5. ASSUME NEW d \in Device, Restart(d)
      PROVE  DataInv'
  <2>1. asked' \in [Device -> Seq(User)] /\ screen' \in [Device -> {"home", "list"}]
    <3>1. CASE /\ user[d] # NoUser
               /\ screen' = [screen EXCEPT ![d] = "list"]
               /\ asked' = [asked EXCEPT ![d] = <<user[d]>>]
      <4>1. <<user[d]>> \in Seq(User)
        BY <1>a, <3>1 DEF KeptInv
      <4> QED BY <1>a, <3>1, <4>1 DEF ProcessInv
    <3>2. CASE /\ screen' = [screen EXCEPT ![d] = "home"]
               /\ asked' = [asked EXCEPT ![d] = <<>>]
      BY <1>a, <3>2, EmptySeq DEF ProcessInv
    <3> QED BY <1>5, <3>1, <3>2 DEF Restart
  <2>2. answers' \in [Device -> Seq(ParsedAnswer)] /\ itemArray' \in [Device -> Seq(Item)]
    BY <1>a, <1>5, EmptySeq DEF Restart, ProcessInv
  <2>3. /\ held' \in [Device -> Seq(ParsedWrite)]
        /\ dropped' \in [Device -> [User -> BOOLEAN]]
    BY <1>5, DropParsed DEF Restart
  <2>4. sent' \in [Device -> Seq(Outcome)]
    BY <1>a, <1>5, EmptySeq DEF Restart, RestartStream, ProcessInv
  <2>11. ServerInv'
    BY <1>a, <1>5 DEF Restart, CountSession, ServerInv, server
  <2>12. KeptInv'
    BY <1>a, <1>5 DEF Restart, CountSession, KeptInv, kept
  <2>13. ProcessInv'
    BY <1>a, <1>5, <2>1, <2>2, <2>3, <2>4, ConstantTypes DEF Restart, CountSession, ProcessInv, process
  <2>14. BoundsInv'
    BY <1>a, <1>5 DEF Restart, CountSession, BoundsInv, bounds
  <2>15. HistoryInv'
    BY <1>a, <1>5, <2>3 DEF Restart, CountSession, HistoryInv, history
  <2> QED BY <2>11, <2>12, <2>13, <2>14, <2>15 DEF DataInv
<1>6. ASSUME NEW d \in Device, Snapshot(d)
      PROVE  DataInv'
  <2>1. PICK k \in DOMAIN asked[d], u \in User :
          /\ asked' = [asked EXCEPT ![d] = RemoveAt(@, k)]
          /\ Refresh(d, u) \/ EndQuery(d, RemoveAt(asked[d], k))
          /\ UNCHANGED user /\ UNCHANGED pending
          /\ answers' = [answers EXCEPT ![d] =
                           Append(@, [user |-> u, doc |-> LocalView(d, u)'])]
          /\ UNCHANGED <<server, screen, itemArray, upload, deletions, bounds, named,
                         session, leaked, torn, writers, undocumented>>
    BY <1>6 DEF Snapshot
  <2>2. asked[d] \in Seq(User) /\ k \in 1 .. Len(asked[d])
    BY <1>a DEF ProcessInv
  <2>3. /\ cache' \in [Device -> [User -> ParsedDocument]]
        /\ held' \in [Device -> Seq(ParsedWrite)]
        /\ sent' \in [Device -> Seq(Outcome)]
        /\ dropped' \in [Device -> [User -> BOOLEAN]]
    BY <2>1, RefreshParsed, EndParsed
  <2>4. LocalView(d, u)' \in ParsedDocument
    <3>1. /\ cache'[d][u] \in ParsedDocument
          /\ held'[d] \in Seq(ParsedWrite)
          /\ pending'[d][u] \in Seq(ParsedWrite)
      BY <1>a, <2>1, <2>3 DEF KeptInv
    <3>2. Overlay(cache'[d][u], held'[d]) \in ParsedDocument
      BY <3>1, OverlayParsed
    <3> QED BY <3>1, <3>2, OverlayParsed DEF LocalView, Known
  <2>5. [user |-> u, doc |-> LocalView(d, u)'] \in ParsedAnswer
    BY <2>4 DEF ParsedAnswer
  <2>6. RemoveAt(asked[d], k) \in Seq(User)
    BY <2>2, RemoveAtType
  <2> DEFINE answer == [user |-> u, doc |-> LocalView(d, u)']
  <2>7. /\ answer \in ParsedAnswer
        /\ answers' = [answers EXCEPT ![d] = Append(@, answer)]
    BY <2>1, <2>5
  <2> HIDE DEF answer
  <2>8. answers' \in [Device -> Seq(ParsedAnswer)]
    <3>1. Append(answers[d], answer) \in Seq(ParsedAnswer)
      BY <1>a, <2>7, AppendProperties DEF ProcessInv
    <3> QED BY <1>a, <2>7, <3>1 DEF ProcessInv
  <2>11. ServerInv'
    BY <1>a, <1>6, <2>1 DEF bounds, ServerInv, server
  <2>12. KeptInv'
    BY <1>a, <1>6, <2>1, <2>3 DEF bounds, KeptInv, kept
  <2>13. ProcessInv'
    BY <1>a, <1>6, <2>1, <2>3, <2>6, <2>8 DEF bounds, ProcessInv, process
  <2>14. BoundsInv'
    BY <1>a, <1>6, <2>1 DEF bounds, BoundsInv, bounds
  <2>15. HistoryInv'
    BY <1>a, <1>6, <2>1, <2>3 DEF bounds, HistoryInv, history
  <2> QED BY <2>11, <2>12, <2>13, <2>14, <2>15 DEF DataInv
<1>7. ASSUME NEW d \in Device, QueryFails(d)
      PROVE  DataInv'
  <2>1. PICK k \in DOMAIN asked[d] :
          /\ asked' = [asked EXCEPT ![d] = RemoveAt(asked[d], k)]
          /\ EndQuery(d, RemoveAt(asked[d], k))
          /\ UNCHANGED <<server, user, pending, screen, itemArray, answers, upload,
                         deletions, bounds, named, session, leaked, torn, writers,
                         undocumented>>
    BY <1>7 DEF QueryFails
  <2>2. RemoveAt(asked[d], k) \in Seq(User)
    BY <1>a, RemoveAtType DEF ProcessInv
  <2>3. /\ cache' \in [Device -> [User -> ParsedDocument]]
        /\ held' \in [Device -> Seq(ParsedWrite)]
        /\ sent' \in [Device -> Seq(Outcome)]
        /\ dropped' \in [Device -> [User -> BOOLEAN]]
    BY <2>1, EndParsed
  <2>11. ServerInv'
    BY <1>a, <1>7, <2>1 DEF bounds, ServerInv, server
  <2>12. KeptInv'
    BY <1>a, <1>7, <2>1, <2>3 DEF bounds, KeptInv, kept
  <2>13. ProcessInv'
    BY <1>a, <1>7, <2>1, <2>2, <2>3 DEF bounds, ProcessInv, process
  <2>14. BoundsInv'
    BY <1>a, <1>7, <2>1 DEF bounds, BoundsInv, bounds
  <2>15. HistoryInv'
    BY <1>a, <1>7, <2>1, <2>3 DEF bounds, HistoryInv, history
  <2> QED BY <2>11, <2>12, <2>13, <2>14, <2>15 DEF DataInv
<1>8. ASSUME NEW d \in Device, Reply(d)
      PROVE  DataInv'
  <2> DEFINE answer == Head(answers[d])
             rows   == IF answer.doc # NoDoc THEN ParseItems(answer.doc) ELSE <<>>
  <2>1. answers[d] \in Seq(ParsedAnswer) /\ answers[d] # <<>>
    BY <1>a, <1>8 DEF ProcessInv, Reply, Due
  <2>2. answer \in ParsedAnswer /\ Tail(answers[d]) \in Seq(ParsedAnswer)
    BY <2>1, HeadTailProperties
  <2>3. rows \in Seq(Item)
    BY <2>2, RowsParsed, EmptySeq DEF ParsedAnswer
  <2>4. /\ itemArray' = [itemArray EXCEPT ![d] = @ \o rows]
        /\ answers' = [answers EXCEPT ![d] = Tail(@)]
    BY <1>8 DEF Reply
  <2>5. itemArray[d] \o rows \in Seq(Item)
    BY <1>a, <2>3, ConcatProperties DEF ProcessInv
  <2> HIDE DEF rows, answer
  <2>6. /\ itemArray' \in [Device -> Seq(Item)]
        /\ answers' \in [Device -> Seq(ParsedAnswer)]
    BY <1>a, <2>2, <2>4, <2>5 DEF ProcessInv
  <2>11. ServerInv'
    BY <1>a, <1>8 DEF Reply, ServerInv, server
  <2>12. KeptInv'
    BY <1>a, <1>8 DEF Reply, KeptInv, kept
  <2>13. ProcessInv'
    BY <1>a, <1>8, <2>6 DEF Reply, ProcessInv, process
  <2>14. BoundsInv'
    BY <1>a, <1>8 DEF Reply, BoundsInv, bounds
  <2>15. HistoryInv'
    <3>1. session' \in [Device -> {"none", "loading", "early", "synced", "mixed"}]
      BY <1>a, <1>8 DEF Reply, Loaded, HistoryInv
    <3>2. leaked' \in BOOLEAN
      BY <1>8 DEF Reply
    <3>3. UNCHANGED <<named, torn, writers, undocumented, dropped>>
      BY <1>8 DEF Reply
    <3> QED BY <1>a, <3>1, <3>2, <3>3 DEF HistoryInv
  <2> QED BY <2>11, <2>12, <2>13, <2>14, <2>15 DEF DataInv
<1>9. ASSUME NEW d \in Device, NEW name \in Text, NEW amount \in Text, AddItemWithoutImage(d, name, amount)
      PROVE  DataInv'
  <2> DEFINE item == [name |-> name, amount |-> amount,
                     picture |-> NoPicture, pictureName |-> NoPicture]
             write == ArrayUnion(ConvertItemToString(item))
  <2>1. item \in Item
    BY <1>a, ConstantTypes DEF Item
  <2>2. write \in ParsedWrite
    BY <2>1, WritesParse
  <2>3. PutItemInDatabase(d, item)
    BY <1>9 DEF AddItemWithoutImage
  <2> HIDE DEF item, write
  <2>4. Enqueue(d, write) /\ itemArray' = [itemArray EXCEPT ![d] = Append(@, item)]
    BY <2>3 DEF PutItemInDatabase, write
  <2>5. itemArray'[d] \in Seq(Item) /\ itemArray' \in [Device -> Seq(Item)]
    BY <1>a, <2>1, <2>4, AppendProperties DEF ProcessInv
  <2>6. pending' \in [Device -> [User -> Seq(ParsedWrite)]]
    BY <1>a, <2>2, <2>4, EnqueueParsed
  <2>11. ServerInv'
    BY <1>a, <1>9 DEF AddItemWithoutImage, CountEdit, ServerInv, server
  <2>12. KeptInv'
    BY <1>a, <1>9, <2>6 DEF AddItemWithoutImage, CountEdit, KeptInv, kept
  <2>13. ProcessInv'
    BY <1>a, <1>9, <2>5 DEF AddItemWithoutImage, CountEdit, ProcessInv, process
  <2>14. BoundsInv'
    BY <1>a, <1>9 DEF AddItemWithoutImage, CountEdit, BoundsInv, bounds
  <2>15. HistoryInv'
    BY <1>a, <1>9, <2>3 DEF HistoryInv, AddItemWithoutImage, PutItemInDatabase
  <2> QED BY <2>11, <2>12, <2>13, <2>14, <2>15 DEF DataInv
<1>10. ASSUME NEW d \in Device, NEW name \in Text, NEW amount \in Text, NEW image \in Image, 
             AddItemAndImage(d, name, amount, image)
      PROVE  DataInv'
  <2>1. [stage |-> "sending", image |-> <<image>>, name |-> name, amount |-> amount]
          \in Upload
    BY ConstantTypes DEF Upload
  <2>11. ServerInv'
    BY <1>a, <1>10 DEF AddItemAndImage, CountEdit, ServerInv, server
  <2>12. KeptInv'
    BY <1>a, <1>10 DEF AddItemAndImage, CountEdit, KeptInv, kept
  <2>13. ProcessInv'
    BY <1>a, <1>10, <2>1 DEF AddItemAndImage, CountEdit, ProcessInv, process
  <2>14. BoundsInv'
    BY <1>a, <1>10 DEF AddItemAndImage, CountEdit, BoundsInv, bounds
  <2>15. HistoryInv'
    BY <1>a, <1>10 DEF AddItemAndImage, CountEdit, HistoryInv, history
  <2> QED BY <2>11, <2>12, <2>13, <2>14, <2>15 DEF DataInv
<1>11. ASSUME NEW d \in Device, PictureStored(d)
      PROVE  DataInv'
  <2>1. [upload[d] EXCEPT !.stage = "linking"] \in Upload
    BY <1>a DEF ProcessInv, Upload
  <2>2. upload' = [upload EXCEPT ![d] = [upload[d] EXCEPT !.stage = "linking"]]
    BY <1>a, <1>11 DEF PictureStored, ProcessInv
  <2>11. ServerInv'
    BY <1>a, <1>11 DEF PictureStored, Picture, kept, bounds, ServerInv, server
  <2>12. KeptInv'
    BY <1>a, <1>11 DEF PictureStored, Picture, kept, bounds, KeptInv, kept
  <2>13. ProcessInv'
    BY <1>a, <1>11, <2>1, <2>2 DEF PictureStored, Picture, kept, bounds, ProcessInv, process
  <2>14. BoundsInv'
    BY <1>a, <1>11 DEF PictureStored, Picture, kept, bounds, BoundsInv, bounds
  <2>15. HistoryInv'
    BY <1>a, <1>11 DEF PictureStored, Picture, kept, bounds, HistoryInv, history
  <2> QED BY <2>11, <2>12, <2>13, <2>14, <2>15 DEF DataInv
<1>12. ASSUME NEW d \in Device, UploadFails(d)
      PROVE  DataInv'
  <2>1. [upload[d] EXCEPT !.stage = "failed"] \in Upload
    BY <1>a DEF ProcessInv, Upload
  <2>2. upload' = [upload EXCEPT ![d] = [upload[d] EXCEPT !.stage = "failed"]]
    BY <1>a, <1>12 DEF UploadFails, ProcessInv
  <2>11. ServerInv'
    BY <1>a, <1>12 DEF UploadFails, Picture, kept, bounds, ServerInv, server
  <2>12. KeptInv'
    BY <1>a, <1>12 DEF UploadFails, Picture, kept, bounds, KeptInv, kept
  <2>13. ProcessInv'
    BY <1>a, <1>12, <2>1, <2>2 DEF UploadFails, Picture, kept, bounds, ProcessInv, process
  <2>14. BoundsInv'
    BY <1>a, <1>12 DEF UploadFails, Picture, kept, bounds, BoundsInv, bounds
  <2>15. HistoryInv'
    BY <1>a, <1>12 DEF UploadFails, Picture, kept, bounds, HistoryInv, history
  <2> QED BY <2>11, <2>12, <2>13, <2>14, <2>15 DEF DataInv
<1>13. ASSUME NEW d \in Device, LinkReady(d)
      PROVE  DataInv'
  <2> DEFINE item == [name |-> upload[d].name, amount |-> upload[d].amount,
                     picture |-> upload[d].image, pictureName |-> upload[d].image]
             write == ArrayUnion(ConvertItemToString(item))
  <2>1. item \in Item
    BY <1>a DEF Item, ProcessInv, Upload
  <2>2. write \in ParsedWrite
    BY <2>1, WritesParse
  <2>3. PutItemInDatabase(d, item)
    BY <1>13 DEF LinkReady
  <2> HIDE DEF item, write
  <2>4. Enqueue(d, write) /\ itemArray' = [itemArray EXCEPT ![d] = Append(@, item)]
    BY <2>3 DEF PutItemInDatabase, write
  <2>5. itemArray'[d] \in Seq(Item) /\ itemArray' \in [Device -> Seq(Item)]
    BY <1>a, <2>1, <2>4, AppendProperties DEF ProcessInv
  <2>6. pending' \in [Device -> [User -> Seq(ParsedWrite)]]
    BY <1>a, <2>2, <2>4, EnqueueParsed
  <2>11. ServerInv'
    BY <1>a, <1>13 DEF LinkReady, ServerInv, server
  <2>12. KeptInv'
    BY <1>a, <1>13, <2>6 DEF LinkReady, KeptInv, kept
  <2>13. ProcessInv'
    BY <1>a, <1>13, <2>5, ConstantTypes DEF LinkReady, ProcessInv, process
  <2>14. BoundsInv'
    BY <1>a, <1>13 DEF LinkReady, BoundsInv, bounds
  <2>15. HistoryInv'
    BY <1>a, <1>13, <2>3 DEF HistoryInv, LinkReady, PutItemInDatabase
  <2> QED BY <2>11, <2>12, <2>13, <2>14, <2>15 DEF DataInv
<1>14. ASSUME NEW d \in Device, NEW k \in DOMAIN itemArray[d], DeleteItem(d, k)
      PROVE  DataInv'
  <2> DEFINE rows  == RemoveAt(itemArray[d], k)
             write == UpdateItems(ConvertItems(rows))
  <2>1. itemArray[d] \in Seq(Item) /\ k \in 1 .. Len(itemArray[d])
    BY <1>a DEF ProcessInv
  <2>2. rows \in Seq(Item)
    BY <2>1, RemoveAtType
  <2>3. write \in ParsedWrite
    BY <2>2, WritesParse
  <2>4. PictureOf(d, k) \subseteq Text
    <3>1. itemArray[d][k] \in Item
      BY <2>1, ElementOfSeq
    <3> QED BY <3>1 DEF PictureOf, Item
  <2>5. /\ itemArray' = [itemArray EXCEPT ![d] = rows]
        /\ deletions' = [deletions EXCEPT ![d] = @ \cup PictureOf(d, k)]
        /\ Enqueue(d, write)
    BY <1>14 DEF DeleteItem
  <2> HIDE DEF rows, write
  <2>6. pending' \in [Device -> [User -> Seq(ParsedWrite)]]
    BY <1>a, <2>3, <2>5, EnqueueParsed
  <2>11. ServerInv'
    BY <1>a, <1>14 DEF DeleteItem, CountEdit, ServerInv, server
  <2>12. KeptInv'
    BY <1>a, <1>14, <2>6 DEF DeleteItem, CountEdit, KeptInv, kept
  <2>13. ProcessInv'
    BY <1>a, <1>14, <2>2, <2>4, <2>5 DEF DeleteItem, CountEdit, ProcessInv, process
  <2>14. BoundsInv'
    BY <1>a, <1>14 DEF DeleteItem, CountEdit, BoundsInv, bounds
  <2>15. HistoryInv'
    <3>1. session' \in [Device -> {"none", "loading", "early", "synced", "mixed"}]
      BY <1>a, <1>14 DEF DeleteItem, HistoryInv
    <3>2. torn' \in BOOLEAN
      BY <1>14 DEF DeleteItem
    <3>3. UNCHANGED <<named, leaked, writers, undocumented, dropped>>
      BY <1>14 DEF DeleteItem
    <3> QED BY <1>a, <3>1, <3>2, <3>3 DEF HistoryInv
  <2> QED BY <2>11, <2>12, <2>13, <2>14, <2>15 DEF DataInv
<1>15. ASSUME NEW d \in Device, DeletionEnds(d)
      PROVE  DataInv'
  BY <1>a, <1>15 DEF DeletionEnds, DataInv, ServerInv, KeptInv, ProcessInv, BoundsInv,
     HistoryInv, server, kept, process, bounds, history
<1>16. ASSUME NEW d \in Device, Commit(d)
      PROVE  DataInv'
  <2> DEFINE u       == user[d]
             write   == pending[d][u][Len(sent[d]) + 1]
             outcome == IF Accepts(remote[u], write) THEN "applied" ELSE "rejected"
  <2>1. u \in User /\ pending[d][u] \in Seq(ParsedWrite) /\ sent[d] \in Seq(Outcome)
    BY <1>a, <1>16 DEF Commit, KeptInv, ProcessInv
  <2>2. write \in ParsedWrite
    <3>1. Len(sent[d]) + 1 \in 1 .. Len(pending[d][u])
      BY <1>16, <2>1 DEF Commit
    <3> QED BY <2>1, <3>1, ElementOfSeq
  <2>3. Apply(remote[u], write) \in ParsedDocument
    BY <1>a, <2>1, <2>2, ApplyParsed DEF ServerInv
  <2>4. /\ remote' = [remote EXCEPT ![u] = Apply(@, write)]
        /\ sent' = [sent EXCEPT ![d] = Append(@, outcome)]
    BY <1>16 DEF Commit
  <2>5. Append(sent[d], outcome) \in Seq(Outcome)
    BY <2>1, AppendProperties DEF Outcome
  <2> HIDE DEF outcome
  <2>11. ServerInv'
    BY <1>a, <1>16, <2>1, <2>3, <2>4 DEF Commit, kept, bounds, ServerInv, server
  <2>12. KeptInv'
    BY <1>a, <1>16 DEF Commit, kept, bounds, KeptInv, kept
  <2>13. ProcessInv'
    BY <1>a, <1>16, <2>4, <2>5 DEF Commit, kept, bounds, ProcessInv, process
  <2>14. BoundsInv'
    BY <1>a, <1>16 DEF Commit, kept, bounds, BoundsInv, bounds
  <2>15. HistoryInv'
    BY <1>a, <1>16 DEF Commit, kept, bounds, HistoryInv, history
  <2> QED BY <2>11, <2>12, <2>13, <2>14, <2>15 DEF DataInv
<1>17. ASSUME NEW d \in Device, Acknowledge(d)
      PROVE  DataInv'
  <2> DEFINE u       == user[d]
             write   == Head(pending[d][u])
             outcome == Head(sent[d])
  <2>1. /\ u \in User /\ pending[d][u] \in Seq(ParsedWrite) /\ pending[d][u] # <<>>
        /\ sent[d] \in Seq(Outcome) /\ sent[d] # <<>>
    <3>1. u \in User /\ sent[d] \in Seq(Outcome) /\ sent[d] # <<>>
      BY <1>a, <1>17 DEF Acknowledge, Answered, KeptInv, ProcessInv
    <3>2. pending[d][u] \in Seq(ParsedWrite) /\ Len(sent[d]) <= Len(pending[d][u])
      BY <1>a, <3>1 DEF KeptInv, SentInv
    <3> QED BY <3>1, <3>2
  <2>2. /\ write \in ParsedWrite /\ Tail(pending[d][u]) \in Seq(ParsedWrite)
        /\ Tail(sent[d]) \in Seq(Outcome)
    BY <2>1, HeadTailProperties
  <2>3. cache[d][u] \in ParsedDocument
    BY <1>a, <2>1 DEF KeptInv
  <2>4. CacheOnAck(cache[d][u], write, outcome) \in ParsedDocument
    BY <2>2, <2>3, ApplyParsed DEF CacheOnAck
  <2>5. /\ \/ /\ held' = [held EXCEPT ![d] = Append(held[d], write)]
              /\ UNCHANGED cache
           \/ /\ cache' = [cache EXCEPT ![d][u] = CacheOnAck(cache[d][u], write, outcome)]
              /\ UNCHANGED held
        /\ pending' = [pending EXCEPT ![d][u] = Tail(@)]
        /\ sent' = [sent EXCEPT ![d] = Tail(@)]
        /\ user' = user
    BY <1>17 DEF Acknowledge
  <2>6. Append(held[d], write) \in Seq(ParsedWrite)
    BY <1>a, <2>2, AppendProperties DEF ProcessInv
  <2> HIDE DEF u, write, outcome
  <2>11. ServerInv'
    BY <1>a, <1>17 DEF Acknowledge, bounds, ServerInv, server
  <2>12. KeptInv'
    <3>1. pending' \in [Device -> [User -> Seq(ParsedWrite)]]
      BY <1>a, <2>1, <2>2, <2>5 DEF KeptInv
    <3>2. cache' \in [Device -> [User -> ParsedDocument]]
      <4>1. [cache EXCEPT ![d][u] = CacheOnAck(cache[d][u], write, outcome)]
              \in [Device -> [User -> ParsedDocument]]
        BY <1>a, <2>1, <2>4, EntryType DEF KeptInv
      <4> QED BY <1>a, <2>5, <4>1 DEF KeptInv
    <3> QED BY <1>a, <2>5, <3>1, <3>2 DEF KeptInv
  <2>13. ProcessInv'
    <3>1. held' \in [Device -> Seq(ParsedWrite)]
      BY <1>a, <2>5, <2>6 DEF ProcessInv
    <3>2. sent' \in [Device -> Seq(Outcome)]
      BY <1>a, <2>2, <2>5 DEF ProcessInv
    <3> QED BY <1>a, <1>17, <3>1, <3>2 DEF Acknowledge, ProcessInv
  <2>14. BoundsInv'
    BY <1>a, <1>17 DEF Acknowledge, bounds, BoundsInv, bounds
  <2>15. HistoryInv'
    BY <1>a, <1>17 DEF Acknowledge, bounds, HistoryInv, history
  <2> QED BY <2>11, <2>12, <2>13, <2>14, <2>15 DEF DataInv
<1>18. ASSUME NEW d \in Device, StreamBreaks(d)
      PROVE  DataInv'
  BY <1>a, <1>18, EmptySeq DEF StreamBreaks, RestartStream, CountLost, DataInv, ServerInv, KeptInv, ProcessInv, BoundsInv,
     HistoryInv, server, kept, process, bounds, history
<1> QED
  BY <1>b, <1>1, <1>2, <1>3, <1>4, <1>5, <1>6, <1>7, <1>8, <1>9, <1>10, <1>11, <1>12, <1>13, <1>14, <1>15, <1>16, <1>17, <1>18,
     ConstantTypes, AmountsAssumption
  DEF Next, Account, Edit, Typed, Transfer, Sync

(* An item is put, or a row deleted: of what is synchronized, only the     *)
(* queue changes, by one write.                                            *)
LEMMA EditEnqueues ==
  ASSUME DataInv, NEW d \in Device,
         \/ \E name \in Text, amount \in Text : AddItemWithoutImage(d, name, amount)
         \/ LinkReady(d)
         \/ \E k \in DOMAIN itemArray[d] : DeleteItem(d, k)
  PROVE  /\ UNCHANGED <<accounts, remote, user, cache, sent, held, writers, undocumented,
                        dropped>>
         /\ \E write \in ParsedWrite : Enqueue(d, write) /\ write.kind # "set"
<1>1. ASSUME NEW name \in Text, NEW amount \in Text, AddItemWithoutImage(d, name, amount)
      PROVE  \E write \in ParsedWrite : Enqueue(d, write) /\ write.kind # "set"
  <2>1. [name |-> name, amount |-> amount,
         picture |-> NoPicture, pictureName |-> NoPicture] \in Item
    BY ConstantTypes DEF Item
  <2> QED BY <1>1, <2>1, WritesParse DEF AddItemWithoutImage, PutItemInDatabase, ArrayUnion
<1>2. ASSUME LinkReady(d)
      PROVE  \E write \in ParsedWrite : Enqueue(d, write) /\ write.kind # "set"
  <2>1. [name |-> upload[d].name, amount |-> upload[d].amount,
         picture |-> upload[d].image, pictureName |-> upload[d].image] \in Item
    BY DEF DataInv, ProcessInv, Upload, Item
  <2> QED BY <1>2, <2>1, WritesParse DEF LinkReady, PutItemInDatabase, ArrayUnion
<1>3. ASSUME NEW k \in DOMAIN itemArray[d], DeleteItem(d, k)
      PROVE  \E write \in ParsedWrite : Enqueue(d, write) /\ write.kind # "set"
  <2>1. RemoveAt(itemArray[d], k) \in Seq(Item)
    BY RemoveAtType DEF DataInv, ProcessInv
  <2> QED BY <1>3, <2>1, WritesParse DEF DeleteItem, UpdateItems
<1>4. UNCHANGED <<accounts, remote, user, cache, sent, held, writers, undocumented, dropped>>
  BY DEF AddItemWithoutImage, LinkReady, DeleteItem, server
<1> QED BY <1>1, <1>2, <1>3, <1>4

(* No step sends a write that is not queued, or takes one from the queue   *)
(* without its answer.                                                     *)
LEMMA SentNext ==
  ASSUME DataInv, SentInv, [Next]_vars
  PROVE  SentInv'
<1>a. /\ user \in [Device -> User \cup {NoUser}]
      /\ pending \in [Device -> [User -> Seq(ParsedWrite)]]
      /\ sent \in [Device -> Seq(Outcome)]
  BY DEF DataInv, KeptInv, ProcessInv
<1>1. CASE UNCHANGED <<user, pending, sent>>
  BY <1>1 DEF SentInv
<1>2. ASSUME NEW d \in Device, sent' = [sent EXCEPT ![d] = <<>>],
             \A e \in Device \ {d} : user'[e] = user[e] /\ pending'[e] = pending[e],
             pending' \in [Device -> [User -> Seq(ParsedWrite)]]
      PROVE  SentInv'
  BY <1>a, <1>2 DEF SentInv
<1>3. ASSUME NEW d \in Device,
             \/ \E u \in User : Login(d, u) \/ Register(d, u)
             \/ Logout(d) \/ Restart(d) \/ StreamBreaks(d)
      PROVE  SentInv'
  <2>1. sent' = [sent EXCEPT ![d] = <<>>]
    BY <1>3 DEF Login, Register, Logout, Restart, StreamBreaks, SwitchUser, RestartStream
  <2>2. \A e \in Device \ {d} : user'[e] = user[e] /\ pending'[e] = pending[e]
    BY <1>a, <1>3 DEF Login, Register, Logout, Restart, StreamBreaks, SwitchUser, kept
  <2>3. pending' \in [Device -> [User -> Seq(ParsedWrite)]]
    <3>1. DataInv'
      BY DataNext
    <3> QED BY <3>1 DEF DataInv, KeptInv
  <2> QED BY <1>2, <2>1, <2>2, <2>3
<1>4. ASSUME NEW d \in Device, NEW write, Enqueue(d, write), UNCHANGED <<user, sent>>
      PROVE  SentInv'
  <2>1. ASSUME NEW e \in Device, user[e] \in User
        PROVE  Len(pending'[e][user[e]]) \in Nat
                 /\ Len(pending[e][user[e]]) <= Len(pending'[e][user[e]])
    <3>1. pending[e][user[e]] \in Seq(ParsedWrite)
      BY <1>a, <2>1
    <3>2. CASE e = d
      <4>1. pending'[e][user[e]] = Append(pending[e][user[e]], write)
        BY <1>a, <1>4, <2>1, <3>2 DEF Enqueue
      <4>2. Len(Append(pending[e][user[e]], write)) = Len(pending[e][user[e]]) + 1
        BY <3>1
      <4> QED BY <3>1, <4>1, <4>2
    <3>3. CASE e # d
      BY <1>a, <1>4, <3>1, <3>3 DEF Enqueue
    <3> QED BY <3>2, <3>3
  <2>2. \A e \in Device : Len(sent[e]) \in Nat
    BY <1>a
  <2>3. ASSUME NEW e \in Device, user[e] \in User
        PROVE  Len(sent[e]) <= Len(pending'[e][user[e]])
    <3>1. Len(sent[e]) <= Len(pending[e][user[e]])
      BY <2>3 DEF SentInv
    <3>2. pending[e][user[e]] \in Seq(ParsedWrite)
      BY <1>a, <2>3
    <3> QED BY <2>1, <2>2, <2>3, <3>1, <3>2
  <2> QED BY <1>4, <2>3 DEF SentInv
<1>5. ASSUME NEW d \in Device,
             \/ \E name \in Text, amount \in Text : AddItemWithoutImage(d, name, amount)
             \/ LinkReady(d)
             \/ \E k \in DOMAIN itemArray[d] : DeleteItem(d, k)
      PROVE  SentInv'
  <2>1. UNCHANGED <<user, sent>> /\ \E write \in ParsedWrite : Enqueue(d, write)
    BY <1>5, EditEnqueues
  <2> QED BY <1>4, <2>1
<1>6. ASSUME NEW d \in Device, Snapshot(d)
      PROVE  SentInv'
  <2>1. PICK u \in User : /\ \/ Refresh(d, u)
                             \/ \E outstanding \in Seq(User) : EndQuery(d, outstanding)
                          /\ UNCHANGED <<user, pending>>
    <3>1. \A k \in DOMAIN asked[d] : RemoveAt(asked[d], k) \in Seq(User)
      BY RemoveAtType DEF DataInv, ProcessInv
    <3> QED BY <1>6, <3>1 DEF Snapshot
  <2>2. \A e \in Device : Len(sent'[e]) = Len(sent[e])
    BY <2>1, RefreshParsed DEF EndQuery
  <2> QED BY <2>1, <2>2 DEF SentInv
<1>7. ASSUME NEW d \in Device, Commit(d)
      PROVE  SentInv'
  <2> DEFINE outcome == IF Accepts(remote[user[d]], pending[d][user[d]][Len(sent[d]) + 1])
                          THEN "applied" ELSE "rejected"
  <2>1. /\ sent' = [sent EXCEPT ![d] = Append(sent[d], outcome)]
        /\ Len(sent[d]) < Len(pending[d][user[d]])
        /\ UNCHANGED <<user, pending>>
        /\ user[d] \in User
    BY <1>a, <1>7 DEF Commit, kept
  <2> HIDE DEF outcome
  <2>2. /\ Len(Append(sent[d], outcome)) = Len(sent[d]) + 1
        /\ Len(sent[d]) \in Nat /\ Len(pending[d][user[d]]) \in Nat
    BY <1>a, <2>1
  <2> QED BY <1>a, <2>1, <2>2 DEF SentInv
<1>8. ASSUME NEW d \in Device, Acknowledge(d)
      PROVE  SentInv'
  <2>1. /\ user[d] \in User /\ sent[d] # <<>>
        /\ sent' = [sent EXCEPT ![d] = Tail(sent[d])]
        /\ pending' = [pending EXCEPT ![d][user[d]] = Tail(pending[d][user[d]])]
        /\ UNCHANGED user
    BY <1>a, <1>8 DEF Acknowledge, Answered
  <2>2. Len(sent[d]) <= Len(pending[d][user[d]])
    BY <2>1 DEF SentInv
  <2>3. /\ sent[d] \in Seq(Outcome) /\ pending[d][user[d]] \in Seq(ParsedWrite)
    BY <1>a, <2>1
  <2>4. Len(Tail(sent[d])) <= Len(Tail(pending[d][user[d]]))
    BY <2>1, <2>2, <2>3
  <2>5. pending'[d][user[d]] = Tail(pending[d][user[d]])
    BY <1>a, <2>1
  <2>6. \A e \in Device \ {d} : pending'[e] = pending[e] /\ sent'[e] = sent[e]
    BY <1>a, <2>1
  <2> QED BY <1>a, <2>1, <2>4, <2>5, <2>6 DEF SentInv
<1>9. ASSUME NEW d \in Device,
             \/ \E u \in User : RegisterUnanswered(d, u)
             \/ \E name \in Text, amount \in Text, image \in Image :
                  AddItemAndImage(d, name, amount, image)
             \/ QueryFails(d) \/ Reply(d) \/ PictureStored(d) \/ UploadFails(d)
             \/ DeletionEnds(d)
      PROVE  UNCHANGED <<user, pending, sent>>
  BY <1>9 DEF RegisterUnanswered, AddItemAndImage, QueryFails, EndQuery, Reply,
              PictureStored, UploadFails, DeletionEnds, kept, process
<1>10. UNCHANGED vars => UNCHANGED <<user, pending, sent>>
  BY DEF vars, kept, process
<1> QED
  BY <1>1, <1>3, <1>5, <1>6, <1>7, <1>8, <1>9, <1>10, ConstantTypes, AmountsAssumption
  DEF Next, Account, Edit, Typed, Transfer, Sync

(* Nothing that does not parse, and nothing of another type, is ever in    *)
(* any place.                                                              *)
LEMMA DataAlways == Spec => [](DataInv /\ SentInv)
<1>1. Init => DataInv
  <2> SUFFICES ASSUME Init PROVE DataInv
    OBVIOUS
  <2>1. ServerInv
    BY DEF Init, ServerInv, ParsedDocument
  <2>2. KeptInv
    <3>1. <<>> \in Seq(ParsedWrite)
      BY EmptySeq
    <3> QED BY <3>1 DEF Init, KeptInv, ParsedDocument
  <2>3. ProcessInv
    <3>1. <<>> \in Seq(Item) /\ <<>> \in Seq(User) /\ <<>> \in Seq(ParsedAnswer)
      BY EmptySeq
    <3> QED BY <3>1, ConstantTypes DEF Init, ProcessInv
  <2>4. BoundsInv /\ HistoryInv
    BY DEF Init, BoundsInv, HistoryInv
  <2> QED BY <2>1, <2>2, <2>3, <2>4 DEF DataInv
<1>2. Init => SentInv
  BY DEF Init, SentInv
<1>3. DataInv /\ SentInv /\ [Next]_vars => DataInv' /\ SentInv'
  BY DataNext, SentNext
<1> QED BY <1>1, <1>2, <1>3, PTL DEF Spec

(* Every variable keeps its type, in particular every row is an item with  *)
(* all four texts.                                                         *)
THEOREM TypeCorrect == Spec => []TypeOK
<1>1. DataInv => TypeOK
  <2> SUFFICES ASSUME DataInv PROVE TypeOK
    OBVIOUS
  <2>1. accounts \subseteq User /\ images \subseteq Image /\ BoundsInv /\ HistoryInv
    BY DEF DataInv, ServerInv
  <2>2. remote \in [User -> Document]
    BY ParsedIsTyped DEF DataInv, ServerInv
  <2>3. user \in [Device -> User \cup {NoUser}]
    BY DEF DataInv, KeptInv
  <2>4. cache \in [Device -> [User -> Document]]
    BY ParsedIsTyped DEF DataInv, KeptInv
  <2>5. /\ pending \in [Device -> [User -> Seq(Write)]]
        /\ held \in [Device -> Seq(Write)]
    BY ParsedIsTyped DEF DataInv, KeptInv, ProcessInv
  <2>6. answers \in [Device -> Seq(Answer)]
    BY ParsedIsTyped DEF DataInv, ProcessInv
  <2>7. ProcessInv
    BY DEF DataInv
  <2> QED BY <2>1, <2>2, <2>3, <2>4, <2>5, <2>6, <2>7
          DEF TypeOK, BoundsInv, HistoryInv, ProcessInv
<1> QED BY <1>1, DataAlways, PTL

(* The four-component read of getItems never traps: whatever is typed, in  *)
(* whatever order writes, snapshots and restarts come, every string of the *)
(* server, the caches, the queues and the answers has four components.     *)
THEOREM EveryStringParses == Spec => []DocumentsParse
<1>1. DataInv => DocumentsParse
  <2> SUFFICES ASSUME DataInv PROVE DocumentsParse
    OBVIOUS
  <2>1. \A doc \in ParsedDocument : AllParse(Strings(doc))
    BY DEF ParsedDocument, ParsedText, AllParse, Strings
  <2>2. ASSUME NEW write \in ParsedWrite PROVE AllParse(WriteStrings(write))
    <3>1. CASE write.kind = "union"
      BY <3>1 DEF ParsedWrite, ParsedText, AllParse, WriteStrings
    <3>2. CASE write.kind # "union"
      <4>1. write.items \in ParsedDocument
        BY <3>2 DEF ParsedWrite, ParsedDocument
      <4> QED BY <2>1, <3>2, <4>1 DEF WriteStrings
    <3> QED BY <3>1, <3>2
  <2>3. \A u \in User : AllParse(Strings(remote[u]))
    BY <2>1 DEF DataInv, ServerInv
  <2>4. \A d \in Device, u \in User :
          /\ AllParse(Strings(cache[d][u]))
          /\ \A k \in DOMAIN pending[d][u] : AllParse(WriteStrings(pending[d][u][k]))
    BY <2>1, <2>2 DEF DataInv, KeptInv
  <2>6. \A d \in Device : \A k \in DOMAIN held[d] : AllParse(WriteStrings(held[d][k]))
    BY <2>2 DEF DataInv, ProcessInv
  <2>5. \A d \in Device : \A k \in DOMAIN answers[d] :
          AllParse(Strings(answers[d][k].doc))
    <3> SUFFICES ASSUME NEW d \in Device, NEW k \in DOMAIN answers[d]
                 PROVE  AllParse(Strings(answers[d][k].doc))
      OBVIOUS
    <3>1. answers[d] \in Seq(ParsedAnswer)
      BY DEF DataInv, ProcessInv
    <3>2. answers[d][k] \in ParsedAnswer
      BY <3>1, ElementOfSeq
    <3> QED BY <2>1, <3>2 DEF ParsedAnswer
  <2> QED BY <2>3, <2>4, <2>5, <2>6 DEF DocumentsParse
<1> QED BY <1>1, DataAlways, PTL

(* What separators tear apart is torn apart once: loading a stored string, *)
(* saving the row and loading it again changes nothing any more.           *)
THEOREM ReloadAlwaysStable == Spec => []ReloadIsStable
<1>1. DataInv => ReloadIsStable
  <2> SUFFICES ASSUME DataInv, NEW u \in User, NEW str \in Strings(remote[u])
               PROVE  ParseItem(ConvertItemToString(ParseItem(str))) = ParseItem(str)
    BY DEF ReloadIsStable
  <2>1. remote[u] \in ParsedDocument
    BY DEF DataInv, ServerInv
  <2>2. str \in ParsedText
    BY <2>1 DEF Strings, ParsedDocument
  <2> QED BY <2>2, ReparseIsStable DEF ParsedText, Text
<1> QED BY <1>1, DataAlways, PTL

-----------------------------------------------------------------------------
(* Why currentUser may be unwrapped: the list is on the screen only while  *)
(* somebody is signed in, and an upload, which outlives the tap that       *)
(* started it, keeps the list on the screen.                               *)
SignedInv ==
  \A d \in Device :
    /\ screen[d] = "list" => user[d] # NoUser
    /\ upload[d].stage # "none" => screen[d] = "list"

(* Each step keeps somebody signed in behind the list.                     *)
LEMMA SignedNext ==
  ASSUME DataInv, SignedInv, [Next]_vars
  PROVE  SignedInv'
<1>1. /\ user \in [Device -> User \cup {NoUser}]
      /\ screen \in [Device -> {"home", "list"}]
      /\ upload \in [Device -> Upload]
  BY DEF DataInv, KeptInv, ProcessInv
<1>2. NoUpload.stage = "none"
  BY DEF NoUpload
<1>3. CASE UNCHANGED <<user, screen, upload>>
  BY <1>3 DEF SignedInv
<1>4. ASSUME NEW d \in Device, NEW u \in User, Login(d, u) \/ Register(d, u)
      PROVE  SignedInv'
  BY <1>1, <1>4, UserAssumption DEF Login, Register, SwitchUser, OpenList, SignedInv
<1>5. ASSUME NEW d \in Device, Logout(d)
      PROVE  SignedInv'
  BY <1>1, <1>5 DEF Logout, SwitchUser, CanTap, SignedInv
<1>6. ASSUME NEW d \in Device, Restart(d)
      PROVE  SignedInv'
  BY <1>1, <1>2, <1>6 DEF Restart, SignedInv, kept
<1>7. ASSUME NEW d \in Device, NEW name \in Text, NEW amount \in Text, NEW image \in Image,
             AddItemAndImage(d, name, amount, image)
      PROVE  SignedInv'
  BY <1>1, <1>7 DEF AddItemAndImage, CanTap, SignedInv, kept
<1>8. ASSUME NEW d \in Device, Transfer(d)
      PROVE  SignedInv'
  <2>1. CASE PictureStored(d)
    BY <1>1, <2>1 DEF PictureStored, SignedInv, kept
  <2>2. CASE UploadFails(d)
    BY <1>1, <2>2 DEF UploadFails, SignedInv, kept
  <2>3. CASE LinkReady(d)
    BY <1>1, <1>2, <2>3 DEF LinkReady, SignedInv
  <2> QED BY <1>8, <2>1, <2>2, <2>3 DEF Transfer
<1>9. ASSUME NEW d \in Device,
             \/ \E u \in User : RegisterUnanswered(d, u)
             \/ \E name \in Text, amount \in Text : AddItemWithoutImage(d, name, amount)
             \/ \E k \in DOMAIN itemArray[d] : DeleteItem(d, k)
             \/ Snapshot(d) \/ QueryFails(d) \/ Reply(d)
             \/ DeletionEnds(d) \/ Sync(d) \/ StreamBreaks(d)
      PROVE  UNCHANGED <<user, screen, upload>>
  BY <1>9 DEF RegisterUnanswered, AddItemWithoutImage, DeleteItem, Snapshot, QueryFails,
              Reply, DeletionEnds, Sync, Commit, Acknowledge, StreamBreaks, kept, process
<1>10. UNCHANGED vars => UNCHANGED <<user, screen, upload>>
  BY DEF vars, kept, process
<1> QED
  BY <1>3, <1>4, <1>5, <1>6, <1>7, <1>8, <1>9, <1>10, ConstantTypes, AmountsAssumption
  DEF Next, Account, Edit, Typed

(* deleteItem, saveClicked and the completion that puts an uploaded item   *)
(* unwrap currentUser only while somebody is signed in, for every order of *)
(* taps, completions, sign-outs and restarts.                              *)
THEOREM UnwrapsAreSafe == Spec => []NeverUnwrapsNil
<1>1. Init => SignedInv
  BY DEF Init, SignedInv, NoUpload
<1>2. DataInv /\ SignedInv /\ [Next]_vars => SignedInv'
  BY SignedNext
<1>3. DataInv /\ SignedInv => NeverUnwrapsNil
  BY DEF SignedInv, NeverUnwrapsNil, CanTap
<1> QED BY <1>1, <1>2, <1>3, DataAlways, PTL DEF Spec

-----------------------------------------------------------------------------
(* When the server turns a write down.  An account gets its document from  *)
(* the first write of the device it was registered on, unless the answer   *)
(* to the registration was lost.                                           *)
SetQueued(d, u) == \E k \in DOMAIN pending[d][u] : pending[d][u][k].kind = "set"

(* Only accounts sign in and write.                                        *)
AccountsWrite ==
  /\ \A d \in Device : user[d] \in User => user[d] \in accounts
  /\ \A d \in Device : \A u \in User \ accounts : pending[d][u] = <<>>

(* The setData of a registration is the first write of its queue.          *)
SetFirst ==
  \A d \in Device, u \in User : \A k \in DOMAIN pending[d][u] :
    pending[d][u][k].kind = "set" => k = 1

(* An account has a document, will get one, or never had an answer; once   *)
(* writes of a queue that begins with setData are sent, it has one.        *)
DocumentComes ==
  /\ \A u \in accounts :
       remote[u] # NoDoc \/ u \in undocumented \/ \E d \in Device : SetQueued(d, u)
  /\ \A d \in Device :
       user[d] \in User /\ sent[d] # <<>> /\ SetQueued(d, user[d]) => remote[user[d]] # NoDoc

AccountsInv == AccountsWrite /\ SetFirst /\ DocumentComes

(* A queue that is written to from the list gets no setData, and one that  *)
(* was empty has sent nothing.                                             *)
LEMMA AccountsEnqueue ==
  ASSUME DataInv, SentInv, SignedInv, AccountsInv, NEW d \in Device,
         NEW write \in ParsedWrite, write.kind # "set", user[d] # NoUser, Enqueue(d, write),
         UNCHANGED <<accounts, remote, user, sent, undocumented>>
  PROVE  AccountsInv'
<1>a. /\ pending \in [Device -> [User -> Seq(ParsedWrite)]]
      /\ user \in [Device -> User \cup {NoUser}]
  BY DEF DataInv, KeptInv
<1>b. AccountsWrite /\ SetFirst /\ DocumentComes
  BY DEF AccountsInv
<1> DEFINE v == user[d]
           former == pending[d][v]
           longer == Append(former, write)
<1>1. v \in User
  BY <1>a
<1>2. /\ former \in Seq(ParsedWrite) /\ Len(former) \in Nat
      /\ longer \in Seq(ParsedWrite) /\ Len(longer) = Len(former) + 1
      /\ \A k \in 1 .. Len(former) : longer[k] = former[k]
      /\ longer[Len(former) + 1] = write
  BY <1>a, <1>1, AppendProperties
<1>3. \A e \in Device, u \in User :
        pending'[e][u] = IF e = d /\ u = v THEN longer ELSE pending[e][u]
  BY <1>a, <1>1 DEF Enqueue
<1> HIDE DEF former, longer
<1>4. \A k \in DOMAIN longer : longer[k].kind = "set" =>
        k \in DOMAIN former /\ former[k].kind = "set"
  <2> SUFFICES ASSUME NEW k \in DOMAIN longer, longer[k].kind = "set"
               PROVE  k \in DOMAIN former /\ former[k].kind = "set"
    OBVIOUS
  <2>1. k \in 1 .. Len(former) + 1 /\ k # Len(former) + 1
    BY <1>2
  <2> QED BY <1>2, <2>1
<1>5. \A k \in DOMAIN former : k \in DOMAIN longer /\ longer[k] = former[k]
  BY <1>2
<1>6. \A e \in Device, u \in User : SetQueued(e, u)' <=> SetQueued(e, u)
  BY <1>3, <1>4, <1>5 DEF SetQueued, former
<1>7. SetFirst'
  BY <1>b, <1>3, <1>4 DEF SetFirst, former
<1>8. AccountsWrite'
  BY <1>b, <1>1, <1>3 DEF AccountsWrite
<1>9. DocumentComes'
  <2>1. accounts \subseteq User
    BY DEF DataInv, ServerInv
  <2> QED BY <1>b, <1>6, <2>1 DEF DocumentComes
<1> QED BY <1>7, <1>8, <1>9 DEF AccountsInv

(* Accounts are created, and documents once setData arrives.               *)
LEMMA AccountsNext ==
  ASSUME DataInv, SentInv, SignedInv, AccountsInv, [Next]_vars
  PROVE  AccountsInv'
<1>a. /\ accounts \subseteq User
      /\ pending \in [Device -> [User -> Seq(ParsedWrite)]]
      /\ user \in [Device -> User \cup {NoUser}]
      /\ remote \in [User -> ParsedDocument]
      /\ sent \in [Device -> Seq(Outcome)]
      /\ upload \in [Device -> Upload] /\ itemArray \in [Device -> Seq(Item)]
  BY DEF DataInv, ServerInv, KeptInv, ProcessInv
<1>b. AccountsWrite /\ SetFirst /\ DocumentComes
  BY DEF AccountsInv
<1>1. ASSUME UNCHANGED <<accounts, remote, pending, undocumented>>,
             \A d \in Device : \/ user'[d] = user[d] /\ (sent'[d] # <<>> => sent[d] # <<>>)
                               \/ user'[d] \in accounts \cup {NoUser} /\ sent'[d] = <<>>
      PROVE  AccountsInv'
  <2>1. \A d \in Device, u \in User : SetQueued(d, u)' <=> SetQueued(d, u)
    BY <1>1 DEF SetQueued
  <2>2. AccountsWrite' /\ SetFirst'
    BY <1>b, <1>1, UserAssumption DEF AccountsWrite, SetFirst
  <2>3. DocumentComes'
    BY <1>a, <1>b, <1>1, <2>1 DEF DocumentComes
  <2> QED BY <2>2, <2>3 DEF AccountsInv
<1>2. ASSUME NEW e \in Device, \/ \E u \in User : Login(e, u)
                               \/ Logout(e) \/ Restart(e) \/ StreamBreaks(e)
      PROVE  AccountsInv'
  <2>1. /\ UNCHANGED <<accounts, remote, pending, undocumented>>
        /\ \A d \in Device \ {e} : user'[d] = user[d] /\ sent'[d] = sent[d]
        /\ sent'[e] = <<>> /\ user'[e] \in accounts \cup {NoUser, user[e]}
    BY <1>a, <1>2 DEF Login, Logout, Restart, StreamBreaks, SwitchUser, RestartStream,
                      server, kept, history
  <2> QED BY <1>1, <2>1
<1>3. ASSUME NEW e \in Device, Snapshot(e) \/ QueryFails(e)
      PROVE  AccountsInv'
  <2>1. UNCHANGED <<accounts, remote, user, pending, undocumented>>
    BY <1>3 DEF Snapshot, QueryFails, server
  <2>2. \/ UNCHANGED sent
        \/ \E u \in User : sent' = [sent EXCEPT ![e] =
                                      [k \in DOMAIN sent[e] |-> Seen(e, u, sent[e][k])]]
    BY <1>3 DEF Snapshot, QueryFails, Refresh, EndQuery
  <2>3. \A d \in Device : sent'[d] # <<>> => sent[d] # <<>>
    <3> SUFFICES ASSUME NEW d \in Device, sent[d] = <<>> PROVE sent'[d] = <<>>
      OBVIOUS
    <3>1. CASE UNCHANGED sent
      BY <3>1
    <3>2. ASSUME NEW u \in User,
                 sent' = [sent EXCEPT ![e] = [k \in DOMAIN sent[e] |-> Seen(e, u, sent[e][k])]]
          PROVE  sent'[d] = <<>>
      <4>1. CASE d # e
        BY <1>a, <3>2, <4>1
      <4>2. CASE d = e
        <5>1. sent'[d] = [k \in DOMAIN sent[d] |-> Seen(e, u, sent[d][k])]
          BY <1>a, <3>2, <4>2
        <5>2. DOMAIN sent[d] = {}
          OBVIOUS
        <5>3. [k \in DOMAIN sent[d] |-> Seen(e, u, sent[d][k])] = <<>>
          BY <5>2
        <5> QED BY <5>1, <5>3
      <4> QED BY <4>1, <4>2
    <3> QED BY <2>2, <3>1, <3>2
  <2> QED BY <1>1, <2>1, <2>3
<1>4. ASSUME NEW e \in Device,
             \/ \E name \in Text, amount \in Text, image \in Image :
                  AddItemAndImage(e, name, amount, image)
             \/ Reply(e) \/ PictureStored(e) \/ UploadFails(e) \/ DeletionEnds(e)
      PROVE  AccountsInv'
  <2>1. UNCHANGED <<accounts, remote, user, pending, sent, undocumented>>
    BY <1>4 DEF AddItemAndImage, Reply, PictureStored, UploadFails, DeletionEnds,
                server, kept, process, history
  <2> QED BY <1>1, <2>1
<1>5. ASSUME NEW e \in Device, NEW u \in User, RegisterUnanswered(e, u)
      PROVE  AccountsInv'
  <2>1. /\ accounts' = accounts \cup {u} /\ undocumented' = undocumented \cup {u}
        /\ UNCHANGED <<remote, user, pending, sent>>
    BY <1>5 DEF RegisterUnanswered, kept, process
  <2>2. AccountsWrite' /\ SetFirst'
    BY <1>b, <2>1 DEF AccountsWrite, SetFirst
  <2>3. DocumentComes'
    BY <1>b, <2>1 DEF DocumentComes, SetQueued
  <2> QED BY <2>2, <2>3 DEF AccountsInv
<1>6. ASSUME NEW e \in Device, NEW u \in User, Register(e, u)
      PROVE  AccountsInv'
  <2>1. /\ u \notin accounts /\ accounts' = accounts \cup {u}
        /\ \A d \in Device : user'[d] = IF d = e THEN u ELSE user[d]
        /\ \A d \in Device : sent'[d] = IF d = e THEN <<>> ELSE sent[d]
        /\ pending' = [pending EXCEPT ![e][u] = Append(pending[e][u], SetData)]
        /\ UNCHANGED <<remote, undocumented>>
    BY <1>a, <1>6 DEF Register, SwitchUser, RestartStream
  <2>2. Append(pending[e][u], SetData) = <<SetData>>
    <3>1. pending[e][u] = <<>>
      BY <1>b, <2>1 DEF AccountsWrite
    <3> QED BY <3>1
  <2>3. \A d \in Device, v \in User :
          pending'[d][v] = IF d = e /\ v = u THEN <<SetData>> ELSE pending[d][v]
    BY <1>a, <2>1, <2>2
  <2>4. DOMAIN <<SetData>> = {1} /\ <<SetData>>[1].kind = "set"
    BY DEF SetData
  <2>5. SetFirst'
    BY <1>b, <2>3, <2>4 DEF SetFirst
  <2>6. AccountsWrite'
    BY <1>b, <2>1, <2>3 DEF AccountsWrite
  <2>7. /\ SetQueued(e, u)'
        /\ \A d \in Device, v \in User : d # e \/ v # u => (SetQueued(d, v)' <=> SetQueued(d, v))
    BY <2>3, <2>4 DEF SetQueued
  <2>8. DocumentComes'
    BY <1>a, <1>b, <2>1, <2>7 DEF DocumentComes
  <2> QED BY <2>5, <2>6, <2>8 DEF AccountsInv
<1>7. ASSUME NEW e \in Device,
             \/ \E name \in Text, amount \in Text : AddItemWithoutImage(e, name, amount)
             \/ LinkReady(e)
             \/ \E k \in DOMAIN itemArray[e] : DeleteItem(e, k)
      PROVE  AccountsInv'
  <2>1. PICK write \in ParsedWrite :
          /\ Enqueue(e, write) /\ write.kind # "set"
          /\ UNCHANGED <<accounts, remote, user, sent, undocumented>>
    BY <1>7, EditEnqueues
  <2>2. user[e] # NoUser
    BY <1>7 DEF AddItemWithoutImage, LinkReady, DeleteItem, CanTap, SignedInv
  <2> QED BY <2>1, <2>2, AccountsEnqueue
<1>8. ASSUME NEW e \in Device, Commit(e)
      PROVE  AccountsInv'
  <2> DEFINE v     == user[e]
             write == pending[e][v][Len(sent[e]) + 1]
             next  == IF Accepts(remote[v], write) THEN "applied" ELSE "rejected"
  <2>1. /\ v \in User
        /\ remote' = [remote EXCEPT ![v] = Apply(remote[v], write)]
        /\ sent' = [sent EXCEPT ![e] = Append(sent[e], next)]
        /\ Len(sent[e]) < Len(pending[e][v])
        /\ UNCHANGED <<accounts, user, pending, undocumented>>
    BY <1>a, <1>8 DEF Commit, kept
  <2>2. Len(sent[e]) \in Nat /\ Len(pending[e][v]) \in Nat /\ write \in ParsedWrite
    BY <1>a, <2>1, LenProperties, ElementOfSeq
  <2>3. /\ remote[v] # NoDoc => Apply(remote[v], write) # NoDoc
        /\ write.kind = "set" => Apply(remote[v], write) # NoDoc
    <3>1. remote[v] \in Document /\ write \in Write
      BY <1>a, <2>1, <2>2, ParsedIsTyped
    <3> HIDE DEF write, v
    <3>2. ASSUME Accepts(remote[v], write) PROVE Apply(remote[v], write) # NoDoc
      <4>1. CASE write.kind = "union"
        <5>1. remote[v] \in Seq(Text) /\ write.item \in Text
          BY <3>1, <3>2, <4>1 DEF Accepts, Document, Write
        <5> QED BY <3>2, <4>1, <5>1, UnionType, NoDocAssumption DEF Apply
      <4>2. CASE write.kind # "union"
        BY <3>1, <3>2, <4>2, NoDocAssumption DEF Apply, Write
      <4> QED BY <4>1, <4>2
    <3> QED BY <3>2 DEF Accepts
  <2> HIDE DEF write, next
  <2>4. \A u \in User : remote[u] # NoDoc => remote'[u] # NoDoc
    BY <1>a, <2>1, <2>3
  <2>5. \A d \in Device, u \in User : SetQueued(d, u)' <=> SetQueued(d, u)
    BY <2>1 DEF SetQueued
  <2>6. AccountsWrite' /\ SetFirst'
    BY <1>b, <2>1 DEF AccountsWrite, SetFirst
  <2>7. ASSUME NEW d \in Device, user[d] \in User, sent'[d] # <<>>, SetQueued(d, user[d])
        PROVE  remote'[user[d]] # NoDoc
    <3>1. CASE sent[d] # <<>>
      BY <1>b, <2>4, <2>7, <3>1 DEF DocumentComes
    <3>2. CASE sent[d] = <<>>
      <4>1. d = e
        BY <1>a, <2>1, <2>7, <3>2
      <4>2. pending[d][v][1].kind = "set"
        BY <1>b, <2>1, <2>7, <4>1 DEF SetQueued, SetFirst
      <4>3. write.kind = "set"
        BY <3>2, <4>1, <4>2 DEF write
      <4> QED BY <1>a, <2>1, <2>3, <4>1, <4>3
    <3> QED BY <3>1, <3>2
  <2>8. DocumentComes'
    BY <1>a, <1>b, <2>1, <2>4, <2>5, <2>7 DEF DocumentComes
  <2> QED BY <2>6, <2>8 DEF AccountsInv
<1>9. ASSUME NEW e \in Device, Acknowledge(e)
      PROVE  AccountsInv'
  <2> DEFINE v     == user[e]
             queue == pending[e][v]
  <2>1. /\ v \in User /\ sent[e] # <<>>
        /\ pending' = [pending EXCEPT ![e][v] = Tail(pending[e][v])]
        /\ sent' = [sent EXCEPT ![e] = Tail(sent[e])]
        /\ UNCHANGED <<accounts, remote, user, undocumented>>
    BY <1>a, <1>9 DEF Acknowledge, Answered, server
  <2>2. /\ queue \in Seq(ParsedWrite) /\ Len(queue) \in Nat \ {0}
        /\ Len(Tail(queue)) = Len(queue) - 1 /\ Tail(queue) \in Seq(ParsedWrite)
        /\ \A k \in 1 .. Len(queue) - 1 : Tail(queue)[k] = queue[k + 1]
    <3>1. Len(sent[e]) <= Len(queue) /\ Len(sent[e]) \in Nat \ {0}
      BY <1>a, <2>1, EmptySeq, LenProperties DEF SentInv
    <3>2. queue \in Seq(ParsedWrite) /\ Len(queue) \in Nat /\ queue # <<>>
      BY <1>a, <2>1, <3>1, EmptySeq, LenProperties
    <3> QED BY <3>1, <3>2, HeadTailProperties
  <2>3. \A d \in Device, u \in User :
          pending'[d][u] = IF d = e /\ u = v THEN Tail(queue) ELSE pending[d][u]
    BY <1>a, <2>1
  <2>4. ASSUME NEW k \in DOMAIN Tail(queue) PROVE Tail(queue)[k].kind # "set"
    <3>1. k \in 1 .. Len(queue) - 1 /\ k + 1 \in DOMAIN queue /\ k + 1 # 1
      BY <2>2
    <3>2. queue[k + 1].kind # "set"
      BY <1>b, <2>1, <3>1 DEF SetFirst
    <3> QED BY <2>2, <3>1, <3>2
  <2> HIDE DEF queue
  <2>5. \A d \in Device, u \in User :
          SetQueued(d, u)' <=> (d # e \/ u # v) /\ SetQueued(d, u)
    <3> SUFFICES ASSUME NEW d \in Device, NEW u \in User
                 PROVE  SetQueued(d, u)' <=> (d # e \/ u # v) /\ SetQueued(d, u)
      OBVIOUS
    <3>1. CASE d # e \/ u # v
      <4>1. pending'[d][u] = pending[d][u]
        BY <2>3, <3>1
      <4> QED BY <3>1, <4>1 DEF SetQueued
    <3>2. CASE d = e /\ u = v
      <4>1. pending'[d][u] = Tail(queue)
        BY <2>3, <3>2
      <4> QED BY <2>4, <3>2, <4>1 DEF SetQueued
    <3> QED BY <3>1, <3>2
  <2>6. SetFirst'
    <3> SUFFICES ASSUME NEW d \in Device, NEW u \in User, NEW k \in DOMAIN pending'[d][u],
                        pending'[d][u][k].kind = "set"
                 PROVE  k = 1
      BY DEF SetFirst
    <3>1. CASE d # e \/ u # v
      <4>1. pending'[d][u] = pending[d][u]
        BY <2>3, <3>1
      <4> QED BY <1>b, <4>1 DEF SetFirst
    <3>2. CASE d = e /\ u = v
      <4>1. pending'[d][u] = Tail(queue)
        BY <2>3, <3>2
      <4> QED BY <2>4, <4>1
    <3> QED BY <3>1, <3>2
  <2>7. AccountsWrite'
    BY <1>b, <2>1, <2>3 DEF AccountsWrite
  <2>8. SetQueued(e, v) => remote[v] # NoDoc
    BY <1>b, <2>1 DEF DocumentComes
  <2>9. \A d \in Device \ {e} : sent'[d] = sent[d]
    BY <1>a, <2>1
  <2>10. \A u \in accounts :
           remote[u] # NoDoc \/ u \in undocumented \/ \E d \in Device : SetQueued(d, u)'
    BY <1>a, <1>b, <2>5, <2>8 DEF DocumentComes
  <2>11. ASSUME NEW d \in Device, NEW u \in User, user[d] = u, sent'[d] # <<>>,
                SetQueued(d, u)'
         PROVE  remote[u] # NoDoc
    <3>1. (d # e \/ u # v) /\ SetQueued(d, u)
      BY <2>5, <2>11
    <3>2. sent[d] # <<>>
      BY <2>9, <2>11, <3>1
    <3> QED BY <1>b, <2>11, <3>1, <3>2 DEF DocumentComes
  <2>12. DocumentComes'
    BY <2>1, <2>10, <2>11 DEF DocumentComes
  <2> QED BY <2>6, <2>7, <2>12 DEF AccountsInv
<1>10. ASSUME UNCHANGED vars
       PROVE  AccountsInv'
  BY <1>1, <1>10 DEF vars, server, kept, process, history
<1> QED
  BY <1>2, <1>3, <1>4, <1>5, <1>6, <1>7, <1>8, <1>9, <1>10, ConstantTypes,
     AmountsAssumption
  DEF Next, Account, Edit, Typed, Transfer, Sync

(* A write is turned down only where no document exists: the account was   *)
(* registered without an answer, or on another device, whose setData is    *)
(* still queued there.                                                     *)
THEOREM RejectedForWantOfADocument == Spec => RejectedOnlyWhileUndocumented
<1> DEFINE Rejected ==
  \A d \in Device : \A n \in DOMAIN sent'[d] \ DOMAIN sent[d] :
    sent'[d][n] = "rejected" =>
      \/ user[d] \in undocumented
      \/ \E e \in Device \ {d} : \E k \in DOMAIN pending[e][user[d]] :
           pending[e][user[d]][k].kind = "set"
<1>1. Init => SignedInv /\ AccountsInv
  BY UserAssumption DEF Init, SignedInv, NoUpload, AccountsInv, AccountsWrite, SetFirst,
                        DocumentComes
<1>2. DataInv /\ SentInv /\ SignedInv /\ AccountsInv /\ [Next]_vars
        => SignedInv' /\ AccountsInv'
  BY SignedNext, AccountsNext
<1>3. DataInv /\ SentInv /\ AccountsInv /\ [Next]_vars => [Rejected]_vars
  <2> SUFFICES ASSUME DataInv, SentInv, AccountsInv, [Next]_vars, NEW d \in Device,
                      NEW n \in DOMAIN sent'[d] \ DOMAIN sent[d], sent'[d][n] = "rejected"
               PROVE  \/ user[d] \in undocumented
                      \/ \E e \in Device \ {d} : SetQueued(e, user[d])
    BY DEF SetQueued
  <2>a. /\ sent \in [Device -> Seq(Outcome)]
        /\ user \in [Device -> User \cup {NoUser}]
        /\ pending \in [Device -> [User -> Seq(ParsedWrite)]]
        /\ accounts \subseteq User
    BY DEF DataInv, ServerInv, KeptInv, ProcessInv
  <2>b. AccountsWrite /\ SetFirst /\ DocumentComes
    BY DEF AccountsInv
  <2>1. Commit(d)
    <3>1. ASSUME DOMAIN sent'[d] \subseteq DOMAIN sent[d] PROVE FALSE
      BY <3>1
    <3>2. ASSUME NEW e \in Device, \/ \E u \in User : Login(e, u) \/ Register(e, u)
                                   \/ Logout(e) \/ Restart(e) \/ StreamBreaks(e)
          PROVE  FALSE
      <4>1. sent'[d] = sent[d] \/ sent'[d] = <<>>
        BY <2>a, <3>2 DEF Login, Register, Logout, Restart, StreamBreaks, SwitchUser,
                          RestartStream
      <4>2. DOMAIN <<>> = {}
        OBVIOUS
      <4> QED BY <3>1, <4>1, <4>2
    <3>3. ASSUME NEW e \in Device, Snapshot(e) \/ QueryFails(e) PROVE FALSE
      <4>1. \/ UNCHANGED sent
            \/ \E u \in User : sent' = [sent EXCEPT ![e] =
                                          [k \in DOMAIN sent[e] |-> Seen(e, u, sent[e][k])]]
        BY <3>3 DEF Snapshot, QueryFails, Refresh, EndQuery
      <4>2. ASSUME NEW u \in User,
                   sent' = [sent EXCEPT ![e] = [k \in DOMAIN sent[e] |-> Seen(e, u, sent[e][k])]]
            PROVE  DOMAIN sent'[d] = DOMAIN sent[d]
        <5>1. CASE d # e
          BY <2>a, <4>2, <5>1
        <5>2. CASE d = e
          <6>1. sent'[d] = [k \in DOMAIN sent[d] |-> Seen(d, u, sent[d][k])]
            BY <2>a, <4>2, <5>2
          <6> QED BY <6>1
        <5> QED BY <5>1, <5>2
      <4> QED BY <3>1, <4>1, <4>2
    <3>4. ASSUME NEW e \in Device, Acknowledge(e) PROVE FALSE
      <4>1. sent'[d] = sent[d] \/ (sent[d] # <<>> /\ sent'[d] = Tail(sent[d]))
        BY <2>a, <3>4 DEF Acknowledge, Answered
      <4>2. sent[d] # <<>> => DOMAIN Tail(sent[d]) \subseteq DOMAIN sent[d]
        <5> DEFINE s == sent[d]
        <5>1. s \in Seq(Outcome)
          BY <2>a
        <5> HIDE DEF s
        <5>2. s # <<>> => /\ Tail(s) \in Seq(Outcome) /\ Len(Tail(s)) = Len(s) - 1
                          /\ Len(s) \in Nat
          BY <5>1, HeadTailProperties, LenProperties
        <5>3. s # <<>> => DOMAIN Tail(s) \subseteq DOMAIN s
          BY <5>1, <5>2
        <5> QED BY <5>3 DEF s
      <4> QED BY <3>1, <4>1, <4>2
    <3>5. ASSUME NEW e \in Device, e # d, Commit(e) PROVE FALSE
      BY <2>a, <3>1, <3>5 DEF Commit
    <3>6. ASSUME NEW e \in Device,
                 \/ \E u \in User : RegisterUnanswered(e, u)
                 \/ Edit(e) \/ Transfer(e) \/ Reply(e) \/ DeletionEnds(e) \/ UNCHANGED vars
          PROVE  FALSE
      <4>1. UNCHANGED sent
        BY <3>6 DEF RegisterUnanswered, Edit, AddItemWithoutImage, AddItemAndImage,
                    DeleteItem, Transfer, PictureStored, UploadFails, LinkReady, Reply,
                    DeletionEnds, vars, process
      <4> QED BY <3>1, <4>1
    <3> QED BY <3>2, <3>3, <3>4, <3>5, <3>6 DEF Next, Account, Sync
  <2> DEFINE v     == user[d]
             write == pending[d][v][Len(sent[d]) + 1]
             next  == IF Accepts(remote[v], write) THEN "applied" ELSE "rejected"
  <2>2. v \in User /\ v \in accounts /\ sent'[d] = Append(sent[d], next)
    BY <2>a, <2>b, <2>1 DEF Commit, AccountsWrite
  <2>3. Len(sent[d]) \in Nat /\ n = Len(sent[d]) + 1 /\ sent'[d][n] = next
    <3> DEFINE s == sent[d]
    <3>1. s \in Seq(Outcome) /\ Append(s, next) \in Seq(Outcome)
      BY <2>a, <2>2, AppendProperties DEF Outcome
    <3>2. next \in Outcome
      BY DEF Outcome
    <3> HIDE DEF s, next
    <3>3. /\ Len(s) \in Nat /\ Len(Append(s, next)) = Len(s) + 1
          /\ Append(s, next)[Len(s) + 1] = next
      BY <3>1, <3>2, AppendProperties
    <3>4. n \in 1 .. Len(s) + 1 /\ n \notin 1 .. Len(s)
      BY <2>2, <3>1, <3>3 DEF s
    <3>5. n = Len(s) + 1
      BY <3>3, <3>4
    <3> QED BY <2>2, <3>3, <3>5 DEF s
  <2>4. remote[v] = NoDoc /\ write.kind # "set"
    BY <2>3 DEF Accepts
  <2>5. v \in undocumented \/ \E e \in Device : SetQueued(e, v)
    BY <2>b, <2>2, <2>4 DEF DocumentComes
  <2>6. ASSUME SetQueued(d, v) PROVE FALSE
    <3>1. pending[d][v][1].kind = "set"
      BY <2>b, <2>2, <2>6 DEF SetQueued, SetFirst
    <3>2. sent[d] # <<>>
      <4>1. Len(sent[d]) # 0
        BY <2>3, <2>4, <3>1
      <4> QED BY <4>1
    <3> QED BY <2>b, <2>2, <2>4, <2>6, <3>2 DEF DocumentComes
  <2> QED BY <2>5, <2>6
<1> QED BY <1>1, <1>2, <1>3, DataAlways, PTL DEF Spec, RejectedOnlyWhileUndocumented

-----------------------------------------------------------------------------
(* A device whose writes alone have reached a document knows what the      *)
(* server will hold once its queue is sent.                                *)
(*                                                                         *)
(* Between a commit and its answer a write is on the server and still      *)
(* queued.  It may be sent again, when the stream breaks, and a snapshot   *)
(* may bring its effect before its answer comes.  The invariant says what  *)
(* keeps both harmless: the server's version is fixed under the writes     *)
(* that were sent, and what the device knows is fixed under those of them  *)
(* that a snapshot has shown.                                              *)

(* One document: the server's version, what a device knows of it, the      *)
(* device's queue, what became of its first writes, those acknowledged but *)
(* held, and whether held ones were dropped.                               *)
Good(there, here, queue, outcomes, acked, gone) ==
  /\ here # NoDoc => there # NoDoc
  /\ \A k \in DOMAIN outcomes : outcomes[k] = "rejected" <=> there = NoDoc
  /\ there # NoDoc => Fixed(there, queue, Len(outcomes))
  /\ \E n \in 0 .. Len(outcomes) :
       /\ \A k \in DOMAIN outcomes : outcomes[k] = "known" <=> k <= n
       /\ Fixed(here, queue, n)
  /\ (\E k \in DOMAIN outcomes : outcomes[k] = "known") => acked = <<>>
  /\ here # NoDoc /\ ~gone => Overlay(there, queue) = Overlay(here, queue)

(* The signed-in user's; of any other user nothing is sent or held.        *)
Outcomes(d, u) == IF user[d] = u THEN sent[d] ELSE <<>>
Acked(d, u)    == IF user[d] = u THEN held[d] ELSE <<>>

Converging(d, u) ==
  Good(remote[u], Known(d, u), pending[d][u], Outcomes(d, u), Acked(d, u),
       dropped[d][u])

ConvergeInv ==
  \A d \in Device, u \in User : writers[u] \subseteq {d} => Converging(d, u)

-----------------------------------------------------------------------------
(* Nothing is sent yet: what is known may fall back, if that is recorded.  *)
LEMMA GoodRestart ==
  ASSUME NEW there, NEW here, NEW queue, NEW outcomes, NEW acked, NEW gone \in BOOLEAN,
         Good(there, here, queue, outcomes, acked, gone),
         NEW next, NEW left, NEW lost2 \in BOOLEAN,
         next # NoDoc => here # NoDoc,
         lost2 \/ (next = here /\ lost2 = gone)
  PROVE  Good(there, next, queue, <<>>, left, lost2)
<1>1. DOMAIN <<>> = {} /\ Len(<<>>) = 0 /\ 0 \in 0 .. 0
  OBVIOUS
<1>2. Fixed(there, queue, 0) /\ Fixed(next, queue, 0)
  BY FixedNone
<1>3. next # NoDoc => there # NoDoc
  BY DEF Good
<1>4. next # NoDoc /\ ~lost2 => Overlay(there, queue) = Overlay(next, queue)
  BY DEF Good
<1> QED BY <1>1, <1>2, <1>3, <1>4 DEF Good

(* A write is queued.                                                      *)
LEMMA GoodAppend ==
  ASSUME NEW there, NEW here, NEW queue \in Queue,
         NEW outcomes \in Seq(Outcome), Len(outcomes) <= Len(queue),
         NEW acked, NEW gone \in BOOLEAN,
         Good(there, here, queue, outcomes, acked, gone), NEW write \in Write
  PROVE  Good(there, here, Append(queue, write), outcomes, acked, gone)
<1> DEFINE longer == Append(queue, write)
           l      == Len(outcomes)
<1>1. l \in 0 .. Len(queue)
  BY DEF Queue
<1>2. ASSUME NEW doc, NEW n \in 0 .. l, Fixed(doc, queue, n) PROVE Fixed(doc, longer, n)
  <2>1. n \in 0 .. Len(queue)
    BY <1>1 DEF Queue
  <2> QED BY <1>2, <2>1, FixedAppend
<1>3. \A doc : Overlay(doc, longer) = Apply(Overlay(doc, queue), write)
  BY OverlayAppend DEF Queue
<1>4. l \in 0 .. l
  BY <1>1
<1> HIDE DEF longer
<1>5. there # NoDoc => Fixed(there, longer, l)
  BY <1>2, <1>4 DEF Good
<1>6. \E n \in 0 .. l : /\ \A k \in DOMAIN outcomes : outcomes[k] = "known" <=> k <= n
                        /\ Fixed(here, longer, n)
  BY <1>2 DEF Good
<1>7. here # NoDoc /\ ~gone => Overlay(there, longer) = Overlay(here, longer)
  BY <1>3 DEF Good
<1> QED BY <1>5, <1>6, <1>7 DEF Good, longer

(* The server takes the next write, or rejects it.                         *)
LEMMA GoodCommit ==
  ASSUME NEW there \in Document, NEW here, NEW queue \in Queue,
         NEW outcomes \in Seq(Outcome), Len(outcomes) < Len(queue),
         NEW acked, NEW gone \in BOOLEAN,
         Good(there, here, queue, outcomes, acked, gone),
         \A k \in DOMAIN outcomes : outcomes[k] # "rejected"
  PROVE  LET write == queue[Len(outcomes) + 1]
             next  == IF Accepts(there, write) THEN "applied" ELSE "rejected"
         IN  Good(Apply(there, write), here, queue, Append(outcomes, next), acked, gone)
<1> DEFINE l      == Len(outcomes)
           write  == queue[l + 1]
           next   == IF Accepts(there, write) THEN "applied" ELSE "rejected"
           longer == Append(outcomes, next)
           new    == Apply(there, write)
<1>1. l \in Nat /\ l < Len(queue) /\ l + 1 \in 1 .. Len(queue) /\ Len(queue) \in Nat
  BY DEF Queue
<1>2. write \in Write
  BY <1>1, ElementOfSeq DEF Queue
<1>3. next \in Outcome /\ next # "known"
  BY DEF Outcome
<1>4. /\ Len(longer) = l + 1 /\ DOMAIN longer = 1 .. l + 1 /\ DOMAIN outcomes = 1 .. l
      /\ \A k \in 1 .. l : longer[k] = outcomes[k]
      /\ longer[l + 1] = next
  BY <1>3, AppendProperties, LenProperties
<1>5. there = NoDoc => l = 0
  BY <1>1, <1>4 DEF Good
<1>6. Fixed(there, queue, l)
  <2>1. CASE there = NoDoc
    BY <1>5, <2>1, FixedNone
  <2>2. CASE there # NoDoc
    BY <2>2 DEF Good
  <2> QED BY <2>1, <2>2
<1>7. PICK n \in 0 .. l : /\ \A k \in 1 .. l : outcomes[k] = "known" <=> k <= n
                          /\ Fixed(here, queue, n)
  BY <1>4 DEF Good
<1> HIDE DEF longer, next
<1>8. \E m \in 0 .. l + 1 : /\ \A k \in 1 .. l + 1 : longer[k] = "known" <=> k <= m
                            /\ Fixed(here, queue, m)
  <2>1. \A k \in 1 .. l + 1 : longer[k] = "known" <=> k <= n
    <3> SUFFICES ASSUME NEW k \in 1 .. l + 1 PROVE longer[k] = "known" <=> k <= n
      OBVIOUS
    <3>1. CASE k = l + 1
      BY <1>1, <1>3, <1>4, <3>1
    <3>2. CASE k # l + 1
      <4>1. k \in 1 .. l
        BY <1>1, <3>2
      <4> QED BY <1>4, <1>7, <4>1
    <3> QED BY <3>1, <3>2
  <2> QED BY <1>1, <1>7, <2>1
<1>9. (\E k \in 1 .. l + 1 : longer[k] = "known") => acked = <<>>
  <2> SUFFICES ASSUME NEW k \in 1 .. l + 1, longer[k] = "known" PROVE acked = <<>>
    OBVIOUS
  <2>1. k \in 1 .. l
    BY <1>1, <1>3, <1>4
  <2> QED BY <1>4, <2>1 DEF Good
<1>10. CASE Accepts(there, write)
  <2>1. Fixed(new, queue, l + 1) /\ Overlay(new, queue) = Overlay(there, queue)
    BY <1>1, <1>6, <1>10, FixedCommit
  <2>2. new # NoDoc
    <3>1. CASE write.kind = "union"
      <4>1. there \in Seq(Text) /\ write.item \in Text /\ new = Union(there, write.item)
        BY <1>2, <1>10, <3>1 DEF Accepts, Apply, Document, Write
      <4> QED BY <4>1, UnionType, NoDocAssumption
    <3>2. CASE write.kind # "union"
      BY <1>2, <1>10, <3>2, NoDocAssumption DEF Apply, Write
    <3> QED BY <3>1, <3>2
  <2>3. \A k \in 1 .. l + 1 : longer[k] # "rejected"
    <3>1. next = "applied"
      BY <1>10 DEF next
    <3> QED BY <1>1, <1>4, <3>1
  <2>4. here # NoDoc /\ ~gone => Overlay(new, queue) = Overlay(here, queue)
    BY <2>1 DEF Good
  <2> HIDE DEF new
  <2>5. Good(new, here, queue, longer, acked, gone)
    BY <1>4, <1>8, <1>9, <2>1, <2>2, <2>3, <2>4 DEF Good
  <2> QED BY <2>5 DEF new, longer, next
<1>11. CASE ~Accepts(there, write)
  <2>1. there = NoDoc /\ new = there
    BY <1>11 DEF Accepts, Apply
  <2>2. l = 0 /\ longer[1] = "rejected"
    BY <1>4, <1>5, <1>11, <2>1 DEF next
  <2>3. \A k \in 1 .. l + 1 : longer[k] = "rejected"
    BY <2>2
  <2> HIDE DEF new
  <2>4. Good(new, here, queue, longer, acked, gone)
    BY <1>4, <1>8, <1>9, <2>1, <2>3 DEF Good
  <2> QED BY <2>4 DEF new, longer, next
<1> QED BY <1>10, <1>11

(* Held writes are applied, or a snapshot of another document is seen.     *)
LEMMA GoodSeen ==
  ASSUME NEW there, NEW here, NEW queue, NEW outcomes \in Seq(Outcome),
         NEW acked, NEW gone \in BOOLEAN,
         Good(there, here, queue, outcomes, acked, gone),
         NEW next \in Seq(Outcome), Len(next) = Len(outcomes),
         \A k \in DOMAIN outcomes :
           /\ next[k] = "rejected" <=> outcomes[k] = "rejected"
           /\ next[k] = "known" <=> outcomes[k] = "known",
         NEW left, left = acked \/ left = <<>>
  PROVE  Good(there, here, queue, next, left, gone)
<1>1. DOMAIN next = DOMAIN outcomes
  BY LenProperties
<1>2. \E n \in 0 .. Len(outcomes) :
        /\ \A k \in DOMAIN outcomes : outcomes[k] = "known" <=> k <= n
        /\ Fixed(here, queue, n)
  BY DEF Good
<1>3. \E n \in 0 .. Len(next) :
        /\ \A k \in DOMAIN next : next[k] = "known" <=> k <= n
        /\ Fixed(here, queue, n)
  BY <1>1, <1>2
<1> QED BY <1>1, <1>3 DEF Good

(* A snapshot of the document itself is seen.                              *)
LEMMA GoodRefresh ==
  ASSUME NEW there, NEW here, NEW queue, NEW outcomes \in Seq(Outcome),
         NEW acked, NEW gone \in BOOLEAN,
         Good(there, here, queue, outcomes, acked, gone),
         NEW next \in Seq(Outcome), Len(next) = Len(outcomes),
         \A k \in DOMAIN outcomes :
           next[k] = IF outcomes[k] = "rejected" THEN outcomes[k] ELSE "known"
  PROVE  Good(there, there, queue, next, <<>>, FALSE)
<1>1. /\ DOMAIN next = 1 .. Len(next) /\ DOMAIN outcomes = 1 .. Len(next)
      /\ Len(next) \in Nat
  BY LenProperties
<1>2. \A k \in DOMAIN next : next[k] = "rejected" <=> there = NoDoc
  BY <1>1 DEF Good
<1>3. CASE there = NoDoc
  <2>1. \A k \in DOMAIN next : next[k] = "known" <=> k <= 0
    BY <1>1, <1>2, <1>3
  <2>2. Fixed(there, queue, 0) /\ 0 \in 0 .. Len(next)
    BY <1>1, FixedNone
  <2> QED BY <1>2, <1>3, <2>1, <2>2 DEF Good
<1>4. CASE there # NoDoc
  <2>1. \A k \in DOMAIN next : next[k] = "known" <=> k <= Len(next)
    BY <1>1, <1>4 DEF Good
  <2>2. Fixed(there, queue, Len(next)) /\ Len(next) \in 0 .. Len(next)
    BY <1>1, <1>4 DEF Good
  <2> QED BY <1>2, <2>1, <2>2 DEF Good
<1> QED BY <1>3, <1>4

(* The answer to the head of the queue arrives.                            *)
LEMMA GoodAnswer ==
  ASSUME NEW there \in Document, NEW here \in Document, NEW queue \in Queue,
         NEW outcomes \in Seq(Outcome), outcomes # <<>>, Len(outcomes) <= Len(queue),
         NEW acked, NEW gone \in BOOLEAN,
         Good(there, here, queue, outcomes, acked, gone),
         NEW left, left = acked \/ Head(outcomes) # "known"
  PROVE  Good(there, CacheOnAck(here, Head(queue), Head(outcomes)), Tail(queue),
              Tail(outcomes), left, gone)
<1> DEFINE l    == Len(outcomes)
           next == Tail(outcomes)
           new  == CacheOnAck(here, Head(queue), Head(outcomes))
<1>1. /\ l \in Nat \ {0} /\ l \in 1 .. Len(queue) /\ queue # <<>>
      /\ Len(next) = l - 1 /\ DOMAIN next = 1 .. l - 1 /\ DOMAIN outcomes = 1 .. l
      /\ \A k \in 1 .. l - 1 : next[k] = outcomes[k + 1]
      /\ Head(outcomes) = outcomes[1] /\ outcomes[1] \in Outcome
  <2>1. l \in Nat \ {0} /\ Len(queue) \in Nat
    BY EmptySeq DEF Queue
  <2>2. queue # <<>>
    BY <2>1, EmptySeq
  <2>3. /\ next \in Seq(Outcome) /\ Len(next) = l - 1
        /\ \A k \in 1 .. Len(next) : next[k] = outcomes[k + 1]
    BY HeadTailProperties
  <2> HIDE DEF next
  <2>4. DOMAIN next = 1 .. l - 1
    BY <2>3, LenProperties
  <2>5. Head(outcomes) = outcomes[1] /\ outcomes[1] \in Outcome
    BY <2>1, ElementOfSeq
  <2> QED BY <2>1, <2>2, <2>3, <2>4, <2>5
<1>2. Head(queue) \in Write
  BY <1>1, HeadTailProperties DEF Queue
<1>3. PICK n \in 0 .. l : /\ \A k \in 1 .. l : outcomes[k] = "known" <=> k <= n
                          /\ Fixed(here, queue, n)
  BY <1>1 DEF Good
<1>4. there # NoDoc => /\ Fixed(there, Tail(queue), l - 1)
                       /\ Overlay(there, Tail(queue)) = Overlay(there, queue)
  <2> SUFFICES ASSUME there # NoDoc
               PROVE  /\ Fixed(there, Tail(queue), l - 1)
                      /\ Overlay(there, Tail(queue)) = Overlay(there, queue)
    OBVIOUS
  <2>1. Fixed(there, queue, l)
    BY DEF Good
  <2> HIDE DEF l
  <2> QED BY <1>1, <2>1, FixedTail
<1>5. \A k \in 1 .. l - 1 : next[k] = "rejected" <=> there = NoDoc
  <2> SUFFICES ASSUME NEW k \in 1 .. l - 1
               PROVE  next[k] = "rejected" <=> there = NoDoc
    OBVIOUS
  <2>1. k + 1 \in 1 .. l
    BY <1>1
  <2> QED BY <1>1, <2>1 DEF Good
<1>6. \A k \in 1 .. l - 1 : next[k] = "known" <=> k <= n - 1
  <2> SUFFICES ASSUME NEW k \in 1 .. l - 1 PROVE next[k] = "known" <=> k <= n - 1
    OBVIOUS
  <2>1. k + 1 \in 1 .. l /\ (k + 1 <= n <=> k <= n - 1)
    BY <1>1
  <2> QED BY <1>1, <1>3, <2>1
<1>7. (\E k \in 1 .. l - 1 : next[k] = "known") => left = <<>>
  <2> SUFFICES ASSUME NEW k \in 1 .. l - 1, next[k] = "known" PROVE left = <<>>
    OBVIOUS
  <2>1. 1 \in 1 .. l /\ 1 <= n
    BY <1>1, <1>6
  <2>2. outcomes[1] = "known"
    BY <1>3, <2>1
  <2> QED BY <1>1, <2>1, <2>2 DEF Good
<1>8. 1 \in 1 .. l /\ (outcomes[1] = "rejected" <=> there = NoDoc)
  BY <1>1 DEF Good
<1>9. CASE outcomes[1] = "known"
  <2>1. 1 <= n /\ n \in 1 .. Len(queue) /\ n - 1 \in 0 .. l - 1
    BY <1>1, <1>3, <1>8, <1>9
  <2>2. Fixed(here, Tail(queue), n - 1) /\ Overlay(here, Tail(queue)) = Overlay(here, queue)
    BY <1>3, <2>1, FixedTail
  <2>3. new = here
    BY <1>1, <1>9 DEF CacheOnAck
  <2>4. there # NoDoc
    BY <1>8, <1>9
  <2>5. /\ here # NoDoc /\ ~gone => Overlay(there, Tail(queue)) = Overlay(here, Tail(queue))
        /\ here # NoDoc => there # NoDoc
    BY <1>4, <2>2, <2>4 DEF Good
  <2> HIDE DEF new, next, l
  <2> QED BY <1>1, <1>4, <1>5, <1>6, <1>7, <2>1, <2>2, <2>3, <2>5 DEF Good, new, next
<1>10. CASE outcomes[1] # "known"
  <2>1. n = 0
    BY <1>1, <1>3, <1>8, <1>10
  <2>2. /\ \A k \in 1 .. l - 1 : next[k] = "known" <=> k <= 0
        /\ 0 \in 0 .. l - 1
        /\ Fixed(new, Tail(queue), 0)
    BY <1>1, <1>6, <2>1, FixedNone
  <2>3. CASE outcomes[1] = "rejected"
    <3>1. there = NoDoc /\ new = here /\ here = NoDoc
      BY <1>1, <1>8, <2>3 DEF CacheOnAck, Good
    <3> HIDE DEF new, next, l
    <3> QED BY <1>1, <1>5, <1>7, <2>2, <3>1 DEF Good, new, next
  <2>4. CASE outcomes[1] # "rejected"
    <3>1. there # NoDoc /\ new = Apply(here, Head(queue))
      BY <1>1, <1>8, <1>10, <2>4 DEF CacheOnAck, Outcome
    <3>2. Overlay(there, queue) = Overlay(Apply(there, Head(queue)), Tail(queue))
      BY <1>1, OverlayHead DEF Queue
    <3>3. Overlay(here, queue) = Overlay(new, Tail(queue))
      BY <1>1, <3>1, OverlayHead DEF Queue
    <3>4. ASSUME here = NoDoc, new # NoDoc PROVE new = Apply(there, Head(queue))
      <4>1. Accepts(here, Head(queue)) /\ Head(queue).kind = "set"
        BY <3>1, <3>4 DEF Apply, Accepts
      <4> QED BY <1>2, <3>1, <4>1 DEF Apply, Accepts, Write
    <3>5. new # NoDoc /\ ~gone => Overlay(there, Tail(queue)) = Overlay(new, Tail(queue))
      <4> SUFFICES ASSUME new # NoDoc, ~gone
                   PROVE  Overlay(there, Tail(queue)) = Overlay(new, Tail(queue))
        OBVIOUS
      <4>1. CASE here = NoDoc
        BY <1>4, <3>1, <3>2, <3>4, <4>1
      <4>2. CASE here # NoDoc
        <5>1. Overlay(there, queue) = Overlay(here, queue)
          BY <4>2 DEF Good
        <5> QED BY <1>4, <3>1, <3>3, <5>1
      <4> QED BY <4>1, <4>2
    <3> HIDE DEF new, next, l
    <3> QED BY <1>1, <1>4, <1>5, <1>7, <2>2, <3>1, <3>5 DEF Good, new, next
  <2> QED BY <2>3, <2>4
<1> QED BY <1>9, <1>10

-----------------------------------------------------------------------------
(* The types of one document and queue.                                    *)
LEMMA DocumentTypes ==
  ASSUME DataInv, SentInv, NEW d \in Device, NEW u \in User
  PROVE  /\ remote[u] \in Document
         /\ cache[d][u] \in Document
         /\ Known(d, u) \in Document
         /\ pending[d][u] \in Queue
         /\ held[d] \in Queue
         /\ Outcomes(d, u) \in Seq(Outcome)
         /\ Len(Outcomes(d, u)) <= Len(pending[d][u])
         /\ dropped[d][u] \in BOOLEAN
<1>1. ServerInv /\ KeptInv /\ ProcessInv /\ HistoryInv
  BY DEF DataInv
<1>2. remote[u] \in Document /\ cache[d][u] \in Document
  BY <1>1, ParsedIsTyped DEF ServerInv, KeptInv
<1>3. Known(d, u) \in Document
  BY KnownParsed, ParsedIsTyped
<1>4. pending[d][u] \in Queue
  <2>1. pending[d][u] \in Seq(ParsedWrite)
    BY <1>1 DEF KeptInv
  <2> QED BY <2>1, ParsedIsTyped DEF Queue
<1>5. held[d] \in Queue
  <2>1. held[d] \in Seq(ParsedWrite)
    BY <1>1 DEF ProcessInv
  <2> QED BY <2>1, ParsedIsTyped DEF Queue
<1>6. /\ Outcomes(d, u) \in Seq(Outcome)
      /\ Len(Outcomes(d, u)) <= Len(pending[d][u])
  <2>1. CASE user[d] = u
    <3>1. sent[d] \in Seq(Outcome) /\ Outcomes(d, u) = sent[d]
      BY <1>1, <2>1 DEF ProcessInv, Outcomes
    <3> QED BY <2>1, <3>1 DEF SentInv
  <2>2. CASE user[d] # u
    <3>1. Outcomes(d, u) = <<>> /\ Len(pending[d][u]) \in Nat
      BY <1>4, <2>2 DEF Outcomes, Queue
    <3> QED BY <3>1, EmptySeq
  <2> QED BY <2>1, <2>2
<1>7. dropped[d][u] \in BOOLEAN
  BY <1>1 DEF HistoryInv
<1> QED BY <1>2, <1>3, <1>4, <1>5, <1>6, <1>7

(* Nothing of it changes.                                                  *)
LEMMA FrameConverges ==
  ASSUME NEW d \in Device, NEW u \in User, Converging(d, u),
         remote'[u] = remote[u], user'[d] = user[d],
         cache'[d][u] = cache[d][u], pending'[d][u] = pending[d][u],
         dropped'[d][u] = dropped[d][u],
         user[d] = u => sent'[d] = sent[d] /\ held'[d] = held[d]
  PROVE  Converging(d, u)'
<1>1. CASE user[d] = u
  BY <1>1 DEF Converging, Known, Outcomes, Acked
<1>2. CASE user[d] # u
  BY <1>2 DEF Converging, Known, Outcomes, Acked
<1> QED BY <1>1, <1>2

(* The write stream starts anew, for another user or after a restart with  *)
(* what was held dropped.                                                  *)
LEMMA RestartConverges ==
  ASSUME DataInv, SentInv, NEW d \in Device, NEW u \in User, Converging(d, u),
         remote'[u] = remote[u], cache'[d][u] = cache[d][u], RestartStream(d),
         DropHeld(d) \/ (UNCHANGED <<held, dropped>> /\ user'[d] = user[d])
  PROVE  Good(remote'[u], Known(d, u)', pending[d][u], Outcomes(d, u)',
              Acked(d, u)', dropped'[d][u])
<1>0. /\ sent \in [Device -> Seq(Outcome)] /\ held \in [Device -> Seq(ParsedWrite)]
      /\ dropped \in [Device -> [User -> BOOLEAN]]
  BY DEF DataInv, ProcessInv, HistoryInv
<1>1. Outcomes(d, u)' = <<>>
  BY <1>0 DEF RestartStream, Outcomes
<1>2. /\ dropped[d][u] \in BOOLEAN /\ dropped'[d][u] \in BOOLEAN
      /\ dropped[d][u] => dropped'[d][u]
  BY <1>0 DEF DropHeld
<1> DEFINE next == Known(d, u)'
           here == Known(d, u)
           lost2 == dropped'[d][u]
<1>3. /\ next # NoDoc => here # NoDoc
      /\ lost2 \/ (next = here /\ lost2 = dropped[d][u])
  <2>1. CASE DropHeld(d)
    <3>1. held'[d] = <<>>
      BY <1>0, <2>1 DEF DropHeld
    <3>2. next = cache[d][u]
      BY <3>1, OverlayEmpty DEF Known
    <3>3. CASE user[d] = u /\ held[d] # <<>>
      <4>1. lost2
        BY <1>0, <2>1, <3>3 DEF DropHeld
      <4>2. cache[d][u] # NoDoc => here # NoDoc
        <5> SUFFICES ASSUME cache[d][u] # NoDoc PROVE here # NoDoc
          OBVIOUS
        <5>1. cache[d][u] \in Seq(Text) /\ held[d] \in Queue
          BY DocumentTypes DEF Document
        <5>2. Overlay(cache[d][u], held[d]) \in Seq(Text)
          BY <5>1, OverlayKeeps DEF Queue
        <5> QED BY <3>3, <5>2, NoDocAssumption DEF Known
      <4> HIDE DEF next, here, lost2
      <4> QED BY <3>2, <4>1, <4>2
    <3>4. CASE ~(user[d] = u /\ held[d] # <<>>)
      <4>1. here = cache[d][u]
        BY <3>4, OverlayEmpty DEF Known
      <4>2. dropped'[d][u] = dropped[d][u]
        BY <1>0, <2>1, <3>4 DEF DropHeld
      <4> QED BY <3>2, <4>1, <4>2
    <3> QED BY <3>3, <3>4
  <2>2. CASE UNCHANGED <<held, dropped>> /\ user'[d] = user[d]
    BY <2>2 DEF Known
  <2> QED BY <2>1, <2>2
<1>4. Good(remote[u], here, pending[d][u], Outcomes(d, u), Acked(d, u), dropped[d][u])
  BY DEF Converging
<1> HIDE DEF next, here
<1>5. Good(remote[u], next, pending[d][u], <<>>, Acked(d, u)', lost2)
  BY <1>2, <1>3, <1>4, GoodRestart
<1> QED BY <1>1, <1>5 DEF next

(* A write is queued.                                                      *)
LEMMA AppendConverges ==
  ASSUME DataInv, SentInv, NEW d \in Device, NEW u \in User, Converging(d, u),
         NEW write \in Write, Enqueue(d, write),
         UNCHANGED <<remote, user, cache, sent, held, dropped>>
  PROVE  Converging(d, u)'
<1>1. pending \in [Device -> [User -> Seq(ParsedWrite)]]
  BY DEF DataInv, KeptInv
<1>2. CASE user[d] = u
  <2>1. pending'[d][u] = Append(pending[d][u], write)
    BY <1>1, <1>2 DEF Enqueue
  <2>2. Good(remote[u], Known(d, u), Append(pending[d][u], write), Outcomes(d, u),
             Acked(d, u), dropped[d][u])
    BY DocumentTypes, GoodAppend DEF Converging
  <2>3. /\ Known(d, u)' = Known(d, u) /\ Outcomes(d, u)' = Outcomes(d, u)
        /\ Acked(d, u)' = Acked(d, u)
    BY DEF Known, Outcomes, Acked
  <2> QED BY <2>1, <2>2, <2>3 DEF Converging
<1>3. CASE user[d] # u
  <2>1. pending'[d][u] = pending[d][u]
    BY <1>1, <1>3 DEF Enqueue
  <2> QED BY <2>1, FrameConverges
<1> QED BY <1>2, <1>3

(* Held writes are applied to what is cached, and a snapshot of another    *)
(* document may have been seen.                                            *)
LEMMA ReleaseConverges ==
  ASSUME DataInv, SentInv, NEW d \in Device, NEW u \in User, Converging(d, u),
         UNCHANGED <<remote, user, pending>>,
         cache'[d][u] = Known(d, u), held'[d] = <<>>, dropped'[d][u] = dropped[d][u],
         \/ sent'[d] = sent[d]
         \/ \E v \in User \ {u} : sent'[d] = [k \in DOMAIN sent[d] |-> Seen(d, v, sent[d][k])]
  PROVE  Converging(d, u)'
<1> DEFINE here     == Known(d, u)
           outcomes == Outcomes(d, u)
           next     == Outcomes(d, u)'
           acked    == Acked(d, u)
           gone     == dropped[d][u]
<1>1. Good(remote[u], here, pending[d][u], outcomes, acked, gone)
  BY DEF Converging
<1>2. outcomes \in Seq(Outcome) /\ gone \in BOOLEAN
  BY DocumentTypes
<1>3. Known(d, u)' = here /\ Acked(d, u)' = <<>>
  BY OverlayEmpty DEF Known, Acked
<1>4. /\ next \in Seq(Outcome) /\ Len(next) = Len(outcomes)
      /\ \A k \in DOMAIN outcomes : /\ next[k] = "rejected" <=> outcomes[k] = "rejected"
                                    /\ next[k] = "known" <=> outcomes[k] = "known"
  <2>1. CASE sent'[d] = sent[d] \/ user[d] # u
    <3>1. next = outcomes
      BY <2>1 DEF Outcomes
    <3> HIDE DEF outcomes, next
    <3> QED BY <1>2, <3>1
  <2>2. CASE sent'[d] # sent[d] /\ user[d] = u
    <3>1. PICK v \in User \ {u} : sent'[d] = [k \in DOMAIN sent[d] |-> Seen(d, v, sent[d][k])]
      BY <2>2
    <3> DEFINE seen == [k \in DOMAIN sent[d] |-> Seen(d, v, sent[d][k])]
    <3>2. outcomes = sent[d] /\ next = seen
      BY <2>2, <3>1 DEF Outcomes
    <3>3. sent[d] \in Seq(Outcome)
      BY DEF DataInv, ProcessInv
    <3>4. \A o \in Outcome : /\ Seen(d, v, o) \in Outcome
                             /\ Seen(d, v, o) = "rejected" <=> o = "rejected"
                             /\ Seen(d, v, o) = "known" <=> o = "known"
      BY <2>2 DEF Seen, Outcome
    <3>5. \A k \in DOMAIN sent[d] : sent[d][k] \in Outcome
      BY <3>3, ElementOfSeq, LenProperties
    <3>6. seen \in Seq(Outcome) /\ Len(seen) = Len(sent[d])
      BY <3>3, <3>4, <3>5
    <3>7. \A k \in DOMAIN sent[d] : /\ seen[k] = "rejected" <=> sent[d][k] = "rejected"
                                    /\ seen[k] = "known" <=> sent[d][k] = "known"
      BY <3>4, <3>5
    <3> HIDE DEF seen, outcomes, next
    <3> QED BY <3>2, <3>6, <3>7
  <2> QED BY <2>1, <2>2
<1> HIDE DEF here, outcomes, next, acked, gone
<1>5. Good(remote[u], here, pending[d][u], next, <<>>, gone)
  BY <1>1, <1>2, <1>4, GoodSeen
<1> QED BY <1>3, <1>5 DEF Converging, next, here, gone

(* A snapshot comes from the server.                                       *)
LEMMA RefreshConverges ==
  ASSUME DataInv, SentInv, NEW d \in Device, NEW u \in User, Converging(d, u),
         UNCHANGED <<remote, user, pending>>, NEW v \in User, Refresh(d, v)
  PROVE  Converging(d, u)'
<1>0. /\ sent \in [Device -> Seq(Outcome)] /\ held \in [Device -> Seq(ParsedWrite)]
      /\ dropped \in [Device -> [User -> BOOLEAN]]
      /\ cache \in [Device -> [User -> ParsedDocument]]
  BY DEF DataInv, KeptInv, ProcessInv, HistoryInv
<1>1. /\ cache'[d][u] = IF u = v THEN remote[v] ELSE Known(d, u)
      /\ held'[d] = <<>>
      /\ dropped'[d][u] = IF u = v THEN FALSE ELSE dropped[d][u]
      /\ sent'[d] = [k \in DOMAIN sent[d] |-> Seen(d, v, sent[d][k])]
  BY <1>0 DEF Refresh
<1>2. CASE u # v
  BY <1>1, <1>2, ReleaseConverges
<1>3. CASE u = v
  <2> DEFINE outcomes == Outcomes(d, u)
             next     == Outcomes(d, u)'
  <2>1. Good(remote[u], Known(d, u), pending[d][u], outcomes, Acked(d, u), dropped[d][u])
    BY DEF Converging
  <2>2. outcomes \in Seq(Outcome) /\ dropped[d][u] \in BOOLEAN
    BY DocumentTypes
  <2>3. Known(d, u)' = remote[u] /\ Acked(d, u)' = <<>> /\ dropped'[d][u] = FALSE
    BY <1>1, <1>3, OverlayEmpty DEF Known, Acked
  <2>4. /\ next \in Seq(Outcome) /\ Len(next) = Len(outcomes)
        /\ \A k \in DOMAIN outcomes :
             next[k] = IF outcomes[k] = "rejected" THEN outcomes[k] ELSE "known"
    <3>1. CASE user[d] # u
      <4>1. next = <<>> /\ outcomes = <<>>
        BY <3>1 DEF Outcomes
      <4> HIDE DEF outcomes, next
      <4> QED BY <4>1, EmptySeq
    <3>2. CASE user[d] = u
      <4> DEFINE seen == [k \in DOMAIN sent[d] |-> Seen(d, v, sent[d][k])]
      <4>1. outcomes = sent[d] /\ next = seen
        BY <1>1, <3>2 DEF Outcomes
      <4>2. sent[d] \in Seq(Outcome)
        BY <1>0
      <4>3. \A o \in Outcome :
              /\ Seen(d, v, o) \in Outcome
              /\ Seen(d, v, o) = IF o = "rejected" THEN o ELSE "known"
        BY <1>3, <3>2 DEF Seen, Outcome
      <4>4. \A k \in DOMAIN sent[d] : sent[d][k] \in Outcome
        BY <4>2, ElementOfSeq, LenProperties
      <4>5. seen \in Seq(Outcome) /\ Len(seen) = Len(sent[d])
        BY <4>2, <4>3, <4>4
      <4>6. \A k \in DOMAIN sent[d] :
              seen[k] = IF sent[d][k] = "rejected" THEN sent[d][k] ELSE "known"
        BY <4>3, <4>4
      <4> HIDE DEF seen, outcomes, next
      <4> QED BY <4>1, <4>5, <4>6
    <3> QED BY <3>1, <3>2
  <2> DEFINE there == remote[u]
             here  == Known(d, u)
             queue == pending[d][u]
             acked == Acked(d, u)
             gone  == dropped[d][u]
  <2>5. Good(there, here, queue, outcomes, acked, gone) /\ gone \in BOOLEAN
    BY <2>1, <2>2
  <2> HIDE DEF outcomes, next, there, here, queue, acked, gone
  <2>6. Good(there, there, queue, next, <<>>, FALSE)
    BY <2>2, <2>4, <2>5, GoodRefresh
  <2> QED BY <2>3, <2>6 DEF Converging, next, there, queue
<1> QED BY <1>2, <1>3

(* A query ends without the server.                                        *)
LEMMA EndConverges ==
  ASSUME DataInv, SentInv, NEW d \in Device, NEW u \in User, Converging(d, u),
         UNCHANGED <<remote, user, pending>>, NEW outstanding, EndQuery(d, outstanding)
  PROVE  Converging(d, u)'
<1>0. /\ held \in [Device -> Seq(ParsedWrite)]
      /\ cache \in [Device -> [User -> ParsedDocument]]
  BY DEF DataInv, KeptInv, ProcessInv
<1>1. CASE UNCHANGED <<cache, held>>
  BY <1>1, FrameConverges DEF EndQuery
<1>2. CASE ReleaseHeld(d)
  <2>1. cache'[d][u] = Known(d, u) /\ held'[d] = <<>>
    BY <1>0, <1>2 DEF ReleaseHeld
  <2> QED BY <2>1, ReleaseConverges DEF EndQuery
<1> QED BY <1>1, <1>2 DEF EndQuery

(* The server takes the next write of the signed-in user, or rejects it.   *)
LEMMA CommitConverges ==
  ASSUME DataInv, SentInv, NEW d \in Device, NEW u \in User, Converging(d, u), Commit(d)
  PROVE  Converging(d, u)'
<1>0. /\ sent \in [Device -> Seq(Outcome)] /\ remote \in [User -> ParsedDocument]
      /\ UNCHANGED <<user, cache, pending, held, dropped>>
  BY DEF DataInv, ServerInv, ProcessInv, Commit, kept
<1>1. CASE user[d] # u
  <2>1. remote'[u] = remote[u]
    BY <1>0, <1>1 DEF Commit
  <2> QED BY <1>0, <1>1, <2>1, FrameConverges
<1>2. CASE user[d] = u
  <2> DEFINE queue == pending[d][u]
             write == queue[Len(sent[d]) + 1]
             next  == IF Accepts(remote[u], write) THEN "applied" ELSE "rejected"
  <2>1. /\ remote'[u] = Apply(remote[u], write)
        /\ sent'[d] = Append(sent[d], next)
        /\ Len(sent[d]) < Len(queue)
        /\ \A k \in DOMAIN sent[d] : sent[d][k] # "rejected"
    BY <1>0, <1>2 DEF Commit
  <2>2. /\ Outcomes(d, u) = sent[d] /\ Outcomes(d, u)' = Append(sent[d], next)
        /\ Known(d, u)' = Known(d, u) /\ Acked(d, u)' = Acked(d, u)
    BY <1>0, <1>2, <2>1 DEF Outcomes, Known, Acked
  <2>3. /\ remote[u] \in Document /\ queue \in Queue /\ sent[d] \in Seq(Outcome)
        /\ dropped[d][u] \in BOOLEAN
    BY <1>0, DocumentTypes
  <2>4. Good(remote[u], Known(d, u), queue, sent[d], Acked(d, u), dropped[d][u])
    BY <2>2 DEF Converging
  <2> HIDE DEF queue
  <2>5. Good(Apply(remote[u], write), Known(d, u), queue, Append(sent[d], next),
             Acked(d, u), dropped[d][u])
    BY <2>1, <2>3, <2>4, GoodCommit
  <2> HIDE DEF next, write
  <2>6. Good(remote'[u], Known(d, u)', queue, Outcomes(d, u)', Acked(d, u)', dropped[d][u])
    BY <2>1, <2>2, <2>5
  <2> QED BY <1>0, <2>6 DEF Converging, queue
<1> QED BY <1>1, <1>2

(* The answer to a write does to what is known what it does to the cached  *)
(* version, whether the write is held back or not.                         *)
LEMMA KnownAnswered ==
  ASSUME DataInv, SentInv, NEW d \in Device, NEW u \in User, user[d] = u,
         Acknowledge(d),
         Head(sent[d]) = "known" => held[d] = <<>>
  PROVE  LET outcome == Head(sent[d])
         IN  /\ Known(d, u)' = CacheOnAck(Known(d, u), Head(pending[d][u]), outcome)
             /\ held'[d] = held[d] \/ outcome # "known"
<1> DEFINE queue   == pending[d][u]
           write   == Head(queue)
           outcome == Head(sent[d])
           here    == Known(d, u)
<1>0. /\ sent \in [Device -> Seq(Outcome)] /\ held \in [Device -> Seq(ParsedWrite)]
      /\ cache \in [Device -> [User -> ParsedDocument]]
      /\ user' = user /\ sent[d] # <<>>
  BY DEF DataInv, KeptInv, ProcessInv, Acknowledge, Answered
<1>1. /\ queue \in Queue /\ Len(sent[d]) <= Len(queue)
  BY DocumentTypes DEF Outcomes
<1>2. outcome \in Outcome
  BY <1>0, HeadTailProperties
<1>3. CASE HeldBack(d, outcome)
  <2>1. outcome \in {"applied", "passed"}
    BY <1>2, <1>3 DEF HeldBack, Outcome
  <2>2. held'[d] = Append(held[d], write) /\ cache'[d][u] = cache[d][u]
    BY <1>0, <1>3 DEF Acknowledge
  <2>3. held[d] \in Seq(Write) /\ write \in Write
    <3>1. Len(sent[d]) \in Nat \ {0} /\ Len(queue) \in Nat
      BY <1>0, <1>1, EmptySeq DEF Queue
    <3>2. queue # <<>>
      BY <1>1, <3>1, EmptySeq
    <3> QED BY <1>0, <1>1, <3>2, ParsedIsTyped, HeadTailProperties DEF Queue
  <2>4. Overlay(cache[d][u], Append(held[d], write))
          = Apply(Overlay(cache[d][u], held[d]), write)
    BY <2>3, OverlayAppend
  <2>5. Known(d, u)' = Overlay(cache[d][u], Append(held[d], write))
    BY <1>0, <2>2 DEF Known
  <2>6. here = Overlay(cache[d][u], held[d])
    BY DEF Known
  <2> HIDE DEF here, write, outcome
  <2>7. Known(d, u)' = CacheOnAck(here, write, outcome) /\ outcome # "known"
    BY <2>1, <2>4, <2>5, <2>6 DEF CacheOnAck
  <2> QED BY <2>7 DEF here, write, outcome, queue
<1>4. CASE ~HeldBack(d, outcome)
  <2>1. held'[d] = held[d] /\ cache'[d][u] = CacheOnAck(cache[d][u], write, outcome)
    BY <1>0, <1>4 DEF Acknowledge
  <2>2. /\ here = Overlay(cache[d][u], held[d])
        /\ Known(d, u)' = Overlay(cache'[d][u], held[d])
    BY <1>0, <2>1 DEF Known
  <2>3. held[d] = <<>> \/ outcome = "rejected"
    BY <1>2, <1>4 DEF HeldBack, Outcome
  <2>4. Known(d, u)' = CacheOnAck(here, write, outcome)
    <3>1. CASE held[d] = <<>>
      <4> HIDE DEF here, write, outcome
      <4> QED BY <2>1, <2>2, <3>1, OverlayEmpty
    <3>2. CASE outcome = "rejected"
      <4> HIDE DEF here, write
      <4> QED BY <2>1, <2>2, <3>2 DEF CacheOnAck
    <3> QED BY <2>3, <3>1, <3>2
  <2> QED BY <2>1, <2>4
<1> QED BY <1>3, <1>4

(* The answer to the head of the signed-in user's queue arrives.           *)
LEMMA AcknowledgeConverges ==
  ASSUME DataInv, SentInv, NEW d \in Device, NEW u \in User, Converging(d, u),
         Acknowledge(d)
  PROVE  Converging(d, u)'
<1>0. /\ sent \in [Device -> Seq(Outcome)] /\ held \in [Device -> Seq(ParsedWrite)]
      /\ cache \in [Device -> [User -> ParsedDocument]]
      /\ pending \in [Device -> [User -> Seq(ParsedWrite)]]
      /\ UNCHANGED <<remote, user, dropped>>
  BY DEF DataInv, KeptInv, ProcessInv, Acknowledge, server
<1>1. CASE user[d] # u
  <2>1. cache'[d][u] = cache[d][u] /\ pending'[d][u] = pending[d][u]
    BY <1>0, <1>1 DEF Acknowledge
  <2> QED BY <1>0, <1>1, <2>1, FrameConverges
<1>2. CASE user[d] = u
  <2> DEFINE queue   == pending[d][u]
             write   == Head(queue)
             outcome == Head(sent[d])
             here    == Known(d, u)
             gone    == dropped[d][u]
  <2>1. /\ sent'[d] = Tail(sent[d]) /\ sent[d] # <<>>
        /\ pending'[d][u] = Tail(queue)
    BY <1>0, <1>2 DEF Acknowledge, Answered
  <2>2. /\ Outcomes(d, u) = sent[d] /\ Outcomes(d, u)' = Tail(sent[d])
        /\ Acked(d, u) = held[d] /\ Acked(d, u)' = held'[d]
    BY <1>0, <1>2, <2>1 DEF Outcomes, Acked
  <2>3. /\ remote[u] \in Document /\ here \in Document /\ queue \in Queue
        /\ sent[d] \in Seq(Outcome) /\ Len(sent[d]) <= Len(queue)
        /\ gone \in BOOLEAN
    BY <2>2, DocumentTypes
  <2>4. Good(remote[u], here, queue, sent[d], held[d], gone)
    BY <2>2 DEF Converging
  <2>5. outcome = "known" => held[d] = <<>>
    <3>1. 1 \in DOMAIN sent[d] /\ outcome = sent[d][1]
      BY <1>0, <2>1, HeadTailProperties, EmptySeq, LenProperties
    <3> QED BY <2>4, <3>1 DEF Good
  <2>6. /\ Known(d, u)' = CacheOnAck(here, write, outcome)
        /\ held'[d] = held[d] \/ outcome # "known"
    BY <1>2, <2>5, KnownAnswered
  <2> DEFINE there == remote[u]
             acked == held[d]
             left  == held'[d]
             outcomes == sent[d]
  <2>7. /\ there \in Document /\ here \in Document /\ queue \in Queue /\ gone \in BOOLEAN
        /\ outcomes \in Seq(Outcome) /\ outcomes # <<>> /\ Len(outcomes) <= Len(queue)
        /\ Good(there, here, queue, outcomes, acked, gone)
        /\ left = acked \/ Head(outcomes) # "known"
    BY <2>1, <2>3, <2>4, <2>6
  <2>8. /\ remote'[u] = there /\ dropped'[d][u] = gone /\ pending'[d][u] = Tail(queue)
        /\ Outcomes(d, u)' = Tail(outcomes) /\ Acked(d, u)' = left
        /\ Known(d, u)' = CacheOnAck(here, Head(queue), Head(outcomes))
    BY <1>0, <2>1, <2>2, <2>6
  <2> HIDE DEF there, here, queue, gone, outcomes, acked, left
  <2>9. Good(there, CacheOnAck(here, Head(queue), Head(outcomes)), Tail(queue),
              Tail(outcomes), left, gone)
    BY <2>7, GoodAnswer
  <2> QED BY <2>8, <2>9 DEF Converging
<1> QED BY <1>1, <1>2

-----------------------------------------------------------------------------
(* Each step keeps every document that one device alone has written        *)
(* converging.                                                             *)
LEMMA ConvergeNext ==
  ASSUME DataInv, SentInv, ConvergeInv, [Next]_vars
  PROVE  ConvergeInv'
<1>a. /\ user \in [Device -> User \cup {NoUser}]
      /\ cache \in [Device -> [User -> ParsedDocument]]
      /\ pending \in [Device -> [User -> Seq(ParsedWrite)]]
      /\ sent \in [Device -> Seq(Outcome)]
      /\ held \in [Device -> Seq(ParsedWrite)]
      /\ dropped \in [Device -> [User -> BOOLEAN]]
      /\ writers \in [User -> SUBSET Device]
      /\ remote \in [User -> ParsedDocument]
  BY DEF DataInv, ServerInv, KeptInv, ProcessInv, HistoryInv
<1>1. CASE UNCHANGED <<remote, user, cache, pending, sent, held, dropped, writers>>
  BY <1>1 DEF ConvergeInv, Converging, Known, Outcomes, Acked
<1>2. ASSUME NEW e \in Device, UNCHANGED <<remote, writers>>,
             \A d \in Device \ {e} :
               /\ user'[d] = user[d] /\ cache'[d] = cache[d] /\ pending'[d] = pending[d]
               /\ sent'[d] = sent[d] /\ held'[d] = held[d] /\ dropped'[d] = dropped[d],
             \A u \in User : Converging(e, u) => Converging(e, u)'
      PROVE  ConvergeInv'
  <2> SUFFICES ASSUME NEW d \in Device, NEW u \in User, writers[u] \subseteq {d}
               PROVE  Converging(d, u)'
    BY <1>2 DEF ConvergeInv
  <2>1. Converging(d, u)
    BY DEF ConvergeInv
  <2>2. CASE d = e
    BY <1>2, <2>1, <2>2
  <2>3. CASE d # e
    <3>1. /\ user'[d] = user[d] /\ cache'[d] = cache[d] /\ pending'[d] = pending[d]
          /\ sent'[d] = sent[d] /\ held'[d] = held[d] /\ dropped'[d] = dropped[d]
          /\ remote' = remote
      BY <1>2, <2>3
    <3> QED BY <2>1, <3>1, FrameConverges
  <2> QED BY <2>2, <2>3
<1>3. ASSUME NEW e \in Device, RestartStream(e), UNCHANGED <<remote, cache, writers>>,
             DropHeld(e) \/ (UNCHANGED <<held, dropped>> /\ user'[e] = user[e]),
             \A d \in Device \ {e} : user'[d] = user[d] /\ pending'[d] = pending[d],
             \A u \in User : \/ pending'[e][u] = pending[e][u]
                             \/ pending'[e][u] = Append(pending[e][u], SetData)
      PROVE  ConvergeInv'
  <2>1. \A d \in Device \ {e} :
          /\ user'[d] = user[d] /\ cache'[d] = cache[d] /\ pending'[d] = pending[d]
          /\ sent'[d] = sent[d] /\ held'[d] = held[d] /\ dropped'[d] = dropped[d]
    BY <1>a, <1>3 DEF RestartStream, DropHeld
  <2>2. ASSUME NEW u \in User, Converging(e, u)
        PROVE  Converging(e, u)'
    <3> DEFINE there == remote'[u]
               here  == Known(e, u)'
               queue == pending[e][u]
               next  == pending'[e][u]
               acked == Acked(e, u)'
               gone  == dropped'[e][u]
    <3>1. Outcomes(e, u)' = <<>>
      BY <1>a, <1>3 DEF RestartStream, Outcomes
    <3>2. Good(there, here, queue, <<>>, acked, gone)
      BY <1>3, <2>2, <3>1, RestartConverges
    <3>3. queue \in Queue /\ SetData \in Write
      BY DocumentTypes, WritesParse, ParsedIsTyped
    <3>4. gone \in BOOLEAN
      BY <1>a, <1>3, DropParsed
    <3>5. <<>> \in Seq(Outcome) /\ Len(<<>>) = 0 /\ Len(<<>>) <= Len(queue)
      BY <3>3, EmptySeq DEF Queue
    <3>6. next = queue \/ next = Append(queue, SetData)
      BY <1>3
    <3> HIDE DEF there, here, queue, next, acked, gone
    <3>7. Good(there, here, next, <<>>, acked, gone)
      BY <3>2, <3>3, <3>4, <3>5, <3>6, GoodAppend
    <3> QED BY <3>1, <3>7 DEF Converging, there, here, next, acked, gone
  <2> QED BY <1>2, <1>3, <2>1, <2>2
<1>4. ASSUME NEW e \in Device,
             \/ \E u \in User : Login(e, u) \/ Register(e, u)
             \/ Logout(e) \/ Restart(e) \/ StreamBreaks(e)
      PROVE  ConvergeInv'
  <2>1. RestartStream(e) /\ UNCHANGED <<remote, cache, writers>>
    BY <1>4 DEF Login, Register, Logout, Restart, StreamBreaks, SwitchUser, server, kept,
                history
  <2>2. DropHeld(e) \/ (UNCHANGED <<held, dropped>> /\ user'[e] = user[e])
    BY <1>a, <1>4 DEF Login, Register, Logout, Restart, StreamBreaks, SwitchUser, kept, history
  <2>3. \A d \in Device \ {e} : user'[d] = user[d] /\ pending'[d] = pending[d]
    BY <1>a, <1>4 DEF Login, Register, Logout, Restart, StreamBreaks, SwitchUser, kept
  <2>4. \A u \in User : \/ pending'[e][u] = pending[e][u]
                        \/ pending'[e][u] = Append(pending[e][u], SetData)
    <3>1. CASE pending' = pending
      BY <3>1
    <3>2. CASE \E u \in User : Register(e, u)
      BY <1>a, <3>2 DEF Register
    <3> QED BY <1>4, <3>1, <3>2 DEF Login, Logout, Restart, StreamBreaks, kept
  <2> QED BY <1>3, <2>1, <2>2, <2>3, <2>4
<1>5. ASSUME NEW e \in Device,
             \/ \E name \in Text, amount \in Text : AddItemWithoutImage(e, name, amount)
             \/ LinkReady(e)
             \/ \E k \in DOMAIN itemArray[e] : DeleteItem(e, k)
      PROVE  ConvergeInv'
  <2>1. PICK write \in ParsedWrite :
          /\ Enqueue(e, write)
          /\ UNCHANGED <<remote, user, cache, sent, held, writers, dropped>>
    BY <1>5, EditEnqueues
  <2>2. \A d \in Device \ {e} : pending'[d] = pending[d]
    BY <1>a, <2>1 DEF Enqueue
  <2>3. \A u \in User : Converging(e, u) => Converging(e, u)'
    BY <2>1, AppendConverges, ParsedIsTyped
  <2> QED BY <1>2, <2>1, <2>2, <2>3
<1>6. ASSUME NEW e \in Device, UNCHANGED <<remote, user, pending, writers>>,
             \/ \E v \in User : Refresh(e, v)
             \/ \E outstanding \in Seq(User) : EndQuery(e, outstanding)
      PROVE  ConvergeInv'
  <2>1. \A d \in Device \ {e} :
          /\ cache'[d] = cache[d] /\ sent'[d] = sent[d]
          /\ held'[d] = held[d] /\ dropped'[d] = dropped[d]
    BY <1>a, <1>6 DEF Refresh, EndQuery, ReleaseHeld
  <2>2. \A u \in User : Converging(e, u) => Converging(e, u)'
    BY <1>6, RefreshConverges, EndConverges
  <2> QED BY <1>2, <1>6, <2>1, <2>2
<1>7. ASSUME NEW e \in Device, Snapshot(e) \/ QueryFails(e)
      PROVE  ConvergeInv'
  <2>1. \A k \in DOMAIN asked[e] : RemoveAt(asked[e], k) \in Seq(User)
    BY RemoveAtType DEF DataInv, ProcessInv
  <2>2. /\ UNCHANGED <<remote, user, pending, writers>>
        /\ \/ \E v \in User : Refresh(e, v)
           \/ \E outstanding \in Seq(User) : EndQuery(e, outstanding)
    BY <1>7, <2>1 DEF Snapshot, QueryFails, server
  <2> QED BY <1>6, <2>2
<1>8. ASSUME NEW e \in Device, Commit(e)
      PROVE  ConvergeInv'
  <2>1. /\ UNCHANGED <<user, cache, pending, held, dropped>>
        /\ user[e] \in User
        /\ \A d \in Device \ {e} : sent'[d] = sent[d]
    BY <1>a, <1>8 DEF Commit, kept
  <2> DEFINE write == pending[e][user[e]][Len(sent[e]) + 1]
  <2>2. /\ remote' = [remote EXCEPT ![user[e]] = Apply(@, write)]
        /\ writers' = [writers EXCEPT ![user[e]] =
                         IF Accepts(remote[user[e]], write) THEN @ \cup {e} ELSE @]
    BY <1>8 DEF Commit
  <2> HIDE DEF write
  <2> SUFFICES ASSUME NEW d \in Device, NEW u \in User, writers'[u] \subseteq {d}
               PROVE  Converging(d, u)'
    BY DEF ConvergeInv
  <2>3. writers[u] \subseteq {d}
    BY <1>a, <2>2
  <2>4. Converging(d, u)
    BY <2>3 DEF ConvergeInv
  <2>5. CASE d = e
    BY <1>8, <2>4, <2>5, CommitConverges
  <2>6. CASE d # e
    <3>1. remote'[u] = remote[u]
      <4>1. CASE u # user[e]
        BY <1>a, <2>2, <4>1
      <4>2. CASE u = user[e]
        <5>1. ~Accepts(remote[u], write)
          BY <1>a, <2>2, <2>6, <4>2
        <5> QED BY <1>a, <2>2, <4>2, <5>1 DEF Apply
      <4> QED BY <4>1, <4>2
    <3> QED BY <2>1, <2>4, <2>6, <3>1, FrameConverges
  <2> QED BY <2>5, <2>6
<1>9. ASSUME NEW e \in Device, Acknowledge(e)
      PROVE  ConvergeInv'
  <2>1. /\ UNCHANGED <<remote, writers, user, dropped>>
        /\ \A d \in Device \ {e} : /\ cache'[d] = cache[d] /\ pending'[d] = pending[d]
                                   /\ sent'[d] = sent[d] /\ held'[d] = held[d]
    BY <1>a, <1>9 DEF Acknowledge, server
  <2>2. \A u \in User : Converging(e, u) => Converging(e, u)'
    BY <1>9, AcknowledgeConverges
  <2> QED BY <1>2, <2>1, <2>2
<1>10. ASSUME NEW e \in Device,
              \/ \E u \in User : RegisterUnanswered(e, u)
              \/ \E name \in Text, amount \in Text, image \in Image :
                   AddItemAndImage(e, name, amount, image)
              \/ Reply(e) \/ PictureStored(e) \/ UploadFails(e) \/ DeletionEnds(e)
       PROVE  UNCHANGED <<remote, user, cache, pending, sent, held, dropped, writers>>
  BY <1>10 DEF RegisterUnanswered, AddItemAndImage, Reply, PictureStored, UploadFails,
               DeletionEnds, server, kept, process, history
<1>11. UNCHANGED vars =>
         UNCHANGED <<remote, user, cache, pending, sent, held, dropped, writers>>
  BY DEF vars, server, kept, process, history
<1> QED
  BY <1>1, <1>4, <1>5, <1>7, <1>8, <1>9, <1>10, <1>11, ConstantTypes, AmountsAssumption
  DEF Next, Account, Edit, Typed, Transfer, Sync

(* At first there is no document, and nothing is queued, sent or held.     *)
LEMMA ConvergeInit == Init => ConvergeInv
<1> SUFFICES ASSUME Init, NEW d \in Device, NEW u \in User PROVE Converging(d, u)
  BY DEF ConvergeInv
<1>1. /\ remote[u] = NoDoc /\ cache[d][u] = NoDoc /\ user[d] = NoUser
      /\ dropped[d][u] = FALSE
  BY DEF Init
<1>2. Known(d, u) = NoDoc /\ Outcomes(d, u) = <<>>
  BY <1>1, UserAssumption DEF Known, Outcomes
<1>3. DOMAIN <<>> = {} /\ Len(<<>>) = 0 /\ 0 \in 0 .. 0
  OBVIOUS
<1>4. Fixed(NoDoc, pending[d][u], 0)
  BY FixedNone
<1> QED BY <1>1, <1>2, <1>3, <1>4 DEF Converging, Good

(* While nobody else's writes have reached a document, the device that     *)
(* writes it knows what the server will hold once its queue is sent,       *)
(* whatever was sent twice and in whatever order answers and snapshots     *)
(* came, unless a held write was dropped.                                  *)
THEOREM AlwaysCaughtUp == Spec => []CaughtUp
<1>1. DataInv /\ SentInv /\ ConvergeInv /\ [Next]_vars => ConvergeInv'
  BY ConvergeNext
<1>2. ConvergeInv => CaughtUp
  BY DEF ConvergeInv, Converging, Good, CaughtUp
<1> QED BY <1>1, <1>2, ConvergeInit, DataAlways, PTL DEF Spec

=============================================================================
