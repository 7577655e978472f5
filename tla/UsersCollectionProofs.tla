----------------------- MODULE UsersCollectionProofs -----------------------
(***************************************************************************)
(* What the encoding of items guarantees for every set of chunks; what the *)
(* writes of the app do to documents, for documents and queues of every    *)
(* length; and what is left of where a queue of writes started, and what   *)
(* sending a part of it again does.  Overlay is a recursive function; the  *)
(* lemmas that open it are proved from the existence of a least element in *)
(* every non-empty set of naturals, which is itself proved from the        *)
(* pigeonhole principle.                                                   *)
(***************************************************************************)
EXTENDS UsersCollection, Integers, FiniteSetTheorems, SequenceTheorems, TLAPS

-----------------------------------------------------------------------------
(* The encoding of items.                                                  *)

(* A text has at least one chunk.                                          *)
LEMMA TextLength ==
  ASSUME NEW text \in Text
  PROVE  text \in Seq(Chunk) /\ Len(text) \in Nat /\ Len(text) >= 1
BY DEF Text

(* Concatenation adds up what is known of the lengths.                     *)
LEMMA ConcatLength ==
  ASSUME NEW m \in Nat, NEW n \in Nat,
         NEW s \in Seq(Chunk), NEW t \in Seq(Chunk), Len(s) >= m, Len(t) >= n
  PROVE  s \o t \in Seq(Chunk) /\ Len(s \o t) >= m + n
<1> DEFINE ls  == Len(s)
           lt  == Len(t)
           lst == Len(s \o t)
<1>1. ls \in Nat /\ lt \in Nat /\ ls >= m /\ lt >= n
  OBVIOUS
<1>2. s \o t \in Seq(Chunk) /\ lst = ls + lt
  BY ConcatProperties
<1> HIDE DEF ls, lt, lst
<1>3. lst >= m + n
  BY <1>1, <1>2
<1> QED BY <1>2, <1>3 DEF lst

(* Four texts make a string of at least four chunks, ...                   *)
LEMMA FourTexts ==
  ASSUME NEW a \in Text, NEW b \in Text, NEW c \in Text, NEW d \in Text
  PROVE  a \o b \o c \o d \in Seq(Chunk) /\ Len(a \o b \o c \o d) >= 4
<1>1. a \o b \in Seq(Chunk) /\ Len(a \o b) >= 1 + 1
  BY TextLength, ConcatLength
<1>2. a \o b \o c \in Seq(Chunk) /\ Len(a \o b \o c) >= 2 + 1
  BY <1>1, TextLength, ConcatLength
<1> DEFINE abc == a \o b \o c
<1>3. abc \in Seq(Chunk) /\ Len(abc) >= 3 /\ d \in Seq(Chunk) /\ Len(d) >= 1
  BY <1>2, TextLength
<1> HIDE DEF abc
<1>4. abc \o d \in Seq(Chunk) /\ Len(abc \o d) >= 3 + 1
  BY <1>3, ConcatLength
<1> QED BY <1>4 DEF abc

(* ... and one chunk each make it of exactly these four.                   *)
LEMMA FourChunks ==
  ASSUME NEW a \in Chunk, NEW b \in Chunk, NEW c \in Chunk, NEW d \in Chunk
  PROVE  LET s == <<a>> \o <<b>> \o <<c>> \o <<d>>
         IN  s[1] = a /\ s[2] = b /\ s[3] = c /\ s[4] = d
<1> DEFINE ab   == <<a>> \o <<b>>
           abc  == ab \o <<c>>
           abcd == abc \o <<d>>
<1>1. ASSUME NEW s \in Seq(Chunk), NEW e \in Chunk
      PROVE  /\ s \o <<e>> \in Seq(Chunk)
             /\ Len(s \o <<e>>) = Len(s) + 1
             /\ \A k \in 1 .. Len(s) : (s \o <<e>>)[k] = s[k]
             /\ (s \o <<e>>)[Len(s) + 1] = e
  BY AppendIsConcat, AppendProperties
<1>2. ab \in Seq(Chunk) /\ Len(ab) = 2 /\ ab[1] = a /\ ab[2] = b
  <2>1. <<a>> \in Seq(Chunk) /\ Len(<<a>>) = 1 /\ <<a>>[1] = a
    OBVIOUS
  <2> QED BY <1>1, <2>1
<1> HIDE DEF ab
<1>3. abc \in Seq(Chunk) /\ Len(abc) = 3 /\ abc[1] = a /\ abc[2] = b /\ abc[3] = c
  <2>1. /\ abc \in Seq(Chunk) /\ Len(abc) = Len(ab) + 1
        /\ \A k \in 1 .. Len(ab) : abc[k] = ab[k]
        /\ abc[Len(ab) + 1] = c
    BY <1>1, <1>2
  <2> HIDE DEF abc
  <2> QED BY <1>2, <2>1
<1> HIDE DEF abc
<1>4. abcd[1] = a /\ abcd[2] = b /\ abcd[3] = c /\ abcd[4] = d
  <2>1. /\ \A k \in 1 .. Len(abc) : abcd[k] = abc[k]
        /\ abcd[Len(abc) + 1] = d
    BY <1>1, <1>3
  <2> HIDE DEF abcd
  <2> QED BY <1>3, <2>1
<1> QED BY <1>4 DEF ab, abc

(* The string of an item is a text of four chunks at least: getItems finds *)
(* its four components in whatever convertItemToString has written.        *)
THEOREM ConvertedParses ==
  ASSUME NEW item \in Item
  PROVE  /\ ConvertItemToString(item) \in Text
         /\ Parses(ConvertItemToString(item))
<1> DEFINE string == ConvertItemToString(item)
<1>1. /\ item.name \in Text /\ item.amount \in Text
      /\ item.picture \in Text /\ item.pictureName \in Text
  BY DEF Item
<1>2. string \in Seq(Chunk) /\ Len(string) >= 4
  BY <1>1, FourTexts DEF ConvertItemToString
<1> HIDE DEF string
<1>3. string # <<>>
  BY <1>2
<1> QED BY <1>2, <1>3 DEF string, Parses, Text

(* Every row getItems makes of a string with four components is an item    *)
(* without separators.                                                     *)
THEOREM ParsedIsPlain ==
  ASSUME NEW string \in Seq(Chunk), Parses(string)
  PROVE  ParseItem(string) \in Item /\ PlainItem(ParseItem(string))
<1>1. \A k \in 1 .. 4 : string[k] \in Chunk
  BY DEF Parses
<1>2. \A chunk \in Chunk : <<chunk>> \in Text /\ Len(<<chunk>>) = 1
  BY DEF Text
<1> QED BY <1>1, <1>2 DEF ParseItem, Item, PlainItem, Plain

(* An item without separators is loaded as it was saved.                   *)
THEOREM RoundTrip ==
  ASSUME NEW item \in Item, PlainItem(item)
  PROVE  ParseItem(ConvertItemToString(item)) = item
<1>1. ASSUME NEW text \in Text, Plain(text)
      PROVE  \E chunk \in Chunk : text = <<chunk>>
  <2>1. text = <<text[1]>> /\ text[1] \in Chunk
    BY <1>1 DEF Text, Plain
  <2> QED BY <2>1
<1>2. PICK a \in Chunk : item.name = <<a>>
  BY <1>1 DEF Item, PlainItem
<1>3. PICK b \in Chunk : item.amount = <<b>>
  BY <1>1 DEF Item, PlainItem
<1>4. PICK c \in Chunk : item.picture = <<c>>
  BY <1>1 DEF Item, PlainItem
<1>5. PICK d \in Chunk : item.pictureName = <<d>>
  BY <1>1 DEF Item, PlainItem
<1>6. ParseItem(ConvertItemToString(item)) =
        [name |-> <<a>>, amount |-> <<b>>, picture |-> <<c>>, pictureName |-> <<d>>]
  BY <1>2, <1>3, <1>4, <1>5, FourChunks DEF ConvertItemToString, ParseItem
<1> QED BY <1>2, <1>3, <1>4, <1>5, <1>6 DEF Item

(* However a string was torn apart when it was loaded, the row it gave is  *)
(* saved and loaded again unchanged.                                       *)
THEOREM ReparseIsStable ==
  ASSUME NEW string \in Seq(Chunk), Parses(string)
  PROVE  ParseItem(ConvertItemToString(ParseItem(string))) = ParseItem(string)
BY ParsedIsPlain, RoundTrip

-----------------------------------------------------------------------------
(* Documents and queues of writes.                                         *)

(* If T had no least element, the initial segment of the naturals up to a  *)
(* member of T that avoids T would be closed under successor, so that      *)
(* k |-> k + 1 would map it one-to-one into itself without 0.              *)
LEMMA LeastElement ==
  ASSUME NEW T \in SUBSET Nat, T # {}
  PROVE  \E m \in T : \A k \in T : m <= k
<1> SUFFICES ASSUME ~ \E m \in T : \A k \in T : m <= k PROVE FALSE
  OBVIOUS
<1>1. PICK n \in T : TRUE
  OBVIOUS
<1> DEFINE A == {k \in 0 .. n : \A j \in 0 .. k : j \notin T}
<1>2. n \in Nat /\ n \notin A /\ A \in SUBSET (0 .. n)
  BY <1>1
<1>3. 0 \in A
  <2>1. 0 \notin T
    OBVIOUS
  <2> QED BY <2>1, <1>2
<1>4. ASSUME NEW k \in A PROVE k + 1 \in A
  <2>1. k # n /\ k \in Nat /\ k + 1 \in 0 .. n
    BY <1>2
  <2>2. \A j \in 0 .. k : j \notin T
    OBVIOUS
  <2>3. k + 1 \notin T
    <3> SUFFICES ASSUME k + 1 \in T PROVE FALSE
      OBVIOUS
    <3>1. \A j \in T : k + 1 <= j
      BY <2>1, <2>2
    <3> QED BY <3>1
  <2> QED BY <2>1, <2>2, <2>3
<1>5. IsFiniteSet(A)
  <2> HIDE DEF A
  <2>1. IsFiniteSet(0 .. n)
    BY <1>2, FS_Interval
  <2> QED BY <1>2, <2>1, FS_Subset
<1>6. IsFiniteSet(A \ {0}) /\ Cardinality(A \ {0}) < Cardinality(A)
  <2> HIDE DEF A
  <2>1. Cardinality(A) \in Nat
    BY <1>5, FS_CardinalityType
  <2>2. IsFiniteSet(A \ {0}) /\ Cardinality(A \ {0}) = IF 0 \in A THEN Cardinality(A) - 1 ELSE Cardinality(A)
    BY <1>5, FS_RemoveElement
  <2> QED BY <1>3, <2>1, <2>2
<1> DEFINE f == [k \in A |-> k + 1]
<1>7. f \in [A -> A \ {0}]
  BY <1>4, <1>2
<1>8. PICK x \in A, y \in A : x # y /\ f[x] = f[y]
  <2> HIDE DEF A, f
  <2> QED BY <1>5, <1>6, <1>7, FS_PigeonHole
<1>9. x \in Nat /\ y \in Nat
  BY <1>2
<1> QED BY <1>8, <1>9

(* The documents a queue leads through, from doc on.                       *)
Steps(f, n, doc, queue) ==
  f = [k \in 0 .. n |-> IF k = 0 THEN doc ELSE Apply(f[k - 1], queue[k])]

(* The documents on the way, one from the other.                           *)
LEMMA StepsValues ==
  ASSUME NEW n \in Nat, NEW doc, NEW queue, NEW f, Steps(f, n, doc, queue)
  PROVE  /\ f[0] = doc
         /\ \A k \in 1 .. n : f[k] = Apply(f[k - 1], queue[k])
BY DEF Steps

(* Every queue leads somewhere: the recursive function of Overlay exists.  *)
LEMMA StepsExist ==
  ASSUME NEW n \in Nat, NEW doc, NEW queue
  PROVE  \E f : Steps(f, n, doc, queue)
<1> DEFINE T == {m \in Nat : ~ \E f : Steps(f, m, doc, queue)}
<1> SUFFICES ASSUME T # {} PROVE FALSE
  OBVIOUS
<1>1. PICK m \in T : \A k \in T : m <= k
  <2>1. T \in SUBSET Nat
    OBVIOUS
  <2> HIDE DEF T
  <2> QED BY <2>1, LeastElement
<1>2. m # 0
  <2>1. Steps([k \in 0 .. 0 |-> doc], 0, doc, queue)
    BY DEF Steps
  <2> QED BY <2>1
<1>3. m \in Nat /\ m - 1 \in Nat /\ m - 1 \notin T
  BY <1>1, <1>2
<1>4. PICK f : Steps(f, m - 1, doc, queue)
  BY <1>3
<1> DEFINE g == [k \in 0 .. m |-> IF k = m THEN Apply(f[m - 1], queue[m]) ELSE f[k]]
<1>5. \A k \in 0 .. m : g[k] = IF k = 0 THEN doc ELSE Apply(g[k - 1], queue[k])
  <2> SUFFICES ASSUME NEW k \in 0 .. m
               PROVE  g[k] = IF k = 0 THEN doc ELSE Apply(g[k - 1], queue[k])
    OBVIOUS
  <2>1. CASE k = 0
    BY <1>2, <1>3, <1>4, <2>1, StepsValues
  <2>2. CASE k = m
    BY <1>2, <1>3, <2>2
  <2>3. CASE k # 0 /\ k # m
    <3>1. k \in 1 .. m - 1 /\ k - 1 \in 0 .. m /\ k - 1 # m
      BY <1>3, <2>3
    <3>2. f[k] = Apply(f[k - 1], queue[k])
      BY <1>3, <1>4, <3>1, StepsValues
    <3> QED BY <2>3, <3>1, <3>2
  <2> QED BY <2>1, <2>2, <2>3
<1>6. Steps(g, m, doc, queue)
  <2>1. g = [k \in 0 .. m |-> g[k]]
    OBVIOUS
  <2> HIDE DEF g
  <2> QED BY <1>5, <2>1 DEF Steps
<1> QED BY <1>6

(* Queues that begin alike lead through the same documents.                *)
LEMMA StepsAgree ==
  ASSUME NEW m \in Nat, NEW n \in Nat, m <= n, NEW doc, NEW p, NEW q,
         \A k \in 1 .. m : p[k] = q[k],
         NEW f, Steps(f, m, doc, p), NEW g, Steps(g, n, doc, q)
  PROVE  \A k \in 0 .. m : f[k] = g[k]
<1> DEFINE T == {k \in 0 .. m : f[k] # g[k]}
<1> SUFFICES ASSUME T # {} PROVE FALSE
  OBVIOUS
<1>1. PICK k \in T : \A j \in T : k <= j
  <2>1. T \in SUBSET Nat
    OBVIOUS
  <2> HIDE DEF T
  <2> QED BY <2>1, LeastElement
<1>2. f[0] = doc /\ g[0] = doc
  BY StepsValues
<1>3. k \in 1 .. m /\ k \in 1 .. n
  BY <1>2
<1>4. f[k] = Apply(f[k - 1], p[k])
  BY <1>3, StepsValues
<1>5. g[k] = Apply(g[k - 1], q[k])
  BY <1>3, StepsValues
<1>6. k - 1 \in 0 .. m /\ k - 1 \notin T
  BY <1>1, <1>3
<1>7. f[k - 1] = g[k - 1]
  BY <1>6
<1> QED BY <1>3, <1>4, <1>5, <1>7

(* Overlay returns the last of these documents.                            *)
LEMMA OverlaySteps ==
  ASSUME NEW S, NEW queue \in Seq(S), NEW doc
  PROVE  \E f : Steps(f, Len(queue), doc, queue) /\ Overlay(doc, queue) = f[Len(queue)]
<1> DEFINE after == CHOOSE f : Steps(f, Len(queue), doc, queue)
<1>1. Steps(after, Len(queue), doc, queue)
  BY StepsExist
<1>2. Overlay(doc, queue) = after[Len(queue)]
  BY DEF Overlay, Steps
<1> QED BY <1>1, <1>2

(* An empty queue changes nothing.                                         *)
LEMMA OverlayEmpty ==
  ASSUME NEW doc
  PROVE  Overlay(doc, <<>>) = doc
<1>1. <<>> \in Seq({}) /\ Len(<<>>) = 0
  BY EmptySeq
<1>2. PICK f : Steps(f, Len(<<>>), doc, <<>>) /\ Overlay(doc, <<>>) = f[Len(<<>>)]
  BY <1>1, OverlaySteps
<1>3. Steps(f, 0, doc, <<>>) /\ Overlay(doc, <<>>) = f[0]
  BY <1>1, <1>2
<1>4. f[0] = doc
  BY <1>3, StepsValues
<1> QED BY <1>3, <1>4

(* A write that is queued is applied last.                                 *)
LEMMA OverlayAppend ==
  ASSUME NEW S, NEW queue \in Seq(S), NEW write \in S, NEW doc
  PROVE  Overlay(doc, Append(queue, write)) = Apply(Overlay(doc, queue), write)
<1> DEFINE longer == Append(queue, write)
           n      == Len(queue)
<1>1. /\ longer \in Seq(S) /\ Len(longer) = n + 1 /\ n \in Nat
      /\ \A k \in 1 .. n : longer[k] = queue[k]
      /\ longer[n + 1] = write
  BY AppendProperties
<1>2. PICK f : Steps(f, Len(queue), doc, queue) /\ Overlay(doc, queue) = f[Len(queue)]
  BY OverlaySteps
<1>3. PICK g : Steps(g, Len(longer), doc, longer) /\ Overlay(doc, longer) = g[Len(longer)]
  <2> HIDE DEF longer
  <2> QED BY <1>1, OverlaySteps
<1> HIDE DEF longer
<1>4. f[n] = g[n]
  <2> DEFINE l     == n + 1
             short == queue
  <2>1. n \in Nat /\ l \in Nat /\ n <= l
    BY <1>1
  <2>2. Steps(f, n, doc, short) /\ Steps(g, l, doc, longer)
    BY <1>1, <1>2, <1>3
  <2>3. \A k \in 1 .. n : short[k] = longer[k]
    BY <1>1
  <2> HIDE DEF n, l, short
  <2>4. \A k \in 0 .. n : f[k] = g[k]
    BY <2>1, <2>2, <2>3, StepsAgree
  <2> QED BY <2>1, <2>4
<1>5. g[n + 1] = Apply(g[n], longer[n + 1])
  BY <1>1, <1>3, StepsValues
<1> QED BY <1>1, <1>2, <1>3, <1>4, <1>5 DEF longer

(* The head of a queue is applied first.                                   *)
LEMMA OverlayHead ==
  ASSUME NEW S, NEW queue \in Seq(S), queue # <<>>, NEW doc
  PROVE  Overlay(doc, queue) = Overlay(Apply(doc, Head(queue)), Tail(queue))
<1> DEFINE rest == Tail(queue)
           n    == Len(rest)
           next == Apply(doc, queue[1])
<1>1. /\ rest \in Seq(S) /\ n \in Nat /\ Len(queue) = n + 1
      /\ \A k \in 1 .. n : rest[k] = queue[k + 1]
  BY HeadTailProperties
<1>2. PICK f : Steps(f, Len(queue), doc, queue) /\ Overlay(doc, queue) = f[Len(queue)]
  BY OverlaySteps
<1> HIDE DEF rest
<1>3. PICK g : Steps(g, n, next, rest) /\ Overlay(next, rest) = g[n]
  BY <1>1, OverlaySteps
<1> DEFINE h == [k \in 0 .. n |-> f[k + 1]]
<1>4. Steps(h, n, next, rest)
  <2>1. f[0] = doc /\ \A k \in 1 .. n + 1 : f[k] = Apply(f[k - 1], queue[k])
    BY <1>1, <1>2, StepsValues
  <2>2. \A k \in 0 .. n : h[k] = IF k = 0 THEN next ELSE Apply(h[k - 1], rest[k])
    <3> SUFFICES ASSUME NEW k \in 0 .. n
                 PROVE  h[k] = IF k = 0 THEN next ELSE Apply(h[k - 1], rest[k])
      OBVIOUS
    <3>1. CASE k = 0
      BY <1>1, <2>1, <3>1
    <3>2. CASE k # 0
      <4>1. k \in 1 .. n /\ k + 1 \in 1 .. n + 1 /\ k - 1 \in 0 .. n /\ (k + 1) - 1 = k
            /\ (k - 1) + 1 = k
        BY <1>1, <3>2
      <4>2. f[k + 1] = Apply(f[k], queue[k + 1])
        BY <2>1, <4>1
      <4>3. h[k - 1] = f[k] /\ h[k] = f[k + 1] /\ rest[k] = queue[k + 1]
        BY <1>1, <4>1
      <4> QED BY <3>2, <4>2, <4>3
    <3> QED BY <3>1, <3>2
  <2>3. h = [k \in 0 .. n |-> h[k]]
    OBVIOUS
  <2> HIDE DEF h, next
  <2> QED BY <2>2, <2>3 DEF Steps
<1>5. h[n] = g[n]
  <2> HIDE DEF h, next
  <2>1. \A k \in 0 .. n : h[k] = g[k]
    BY <1>1, <1>3, <1>4, StepsAgree
  <2> QED BY <1>1, <2>1
<1>6. h[n] = f[n + 1]
  BY <1>1
<1>7. Head(queue) = queue[1]
  OBVIOUS
<1> HIDE DEF h
<1> QED BY <1>1, <1>2, <1>3, <1>5, <1>6, <1>7 DEF rest

(* A set of documents that every write from some place on stays in, once   *)
(* entered, is not left.                                                   *)
LEMMA StepsStayIn ==
  ASSUME NEW n \in Nat, NEW doc, NEW queue, NEW f, Steps(f, n, doc, queue),
         NEW D, NEW m \in 0 .. n, f[m] \in D,
         \A k \in m + 1 .. n : \A e \in D : Apply(e, queue[k]) \in D
  PROVE  \A k \in m .. n : f[k] \in D
<1>1. \A k \in 1 .. n : f[k] = Apply(f[k - 1], queue[k])
  BY StepsValues
<1> DEFINE T == {k \in m .. n : f[k] \notin D}
<1> SUFFICES ASSUME T # {} PROVE FALSE
  OBVIOUS
<1>2. PICK k \in T : \A j \in T : k <= j
  <2>1. T \in SUBSET Nat
    OBVIOUS
  <2> HIDE DEF T
  <2> QED BY <2>1, LeastElement
<1>3. k \in m + 1 .. n /\ k \in 1 .. n
  <2>1. k # m
    OBVIOUS
  <2> QED BY <2>1
<1>4. k - 1 \in m .. n /\ k - 1 \notin T
  BY <1>2, <1>3
<1>5. f[k - 1] \in D
  BY <1>4
<1> QED BY <1>1, <1>3, <1>5

(* A set of documents that every write of a queue stays in holds the       *)
(* document the queue leads to.                                            *)
LEMMA OverlayStaysIn ==
  ASSUME NEW S, NEW queue \in Seq(S), NEW D, NEW doc \in D,
         \A k \in 1 .. Len(queue) : \A e \in D : Apply(e, queue[k]) \in D
  PROVE  Overlay(doc, queue) \in D
<1> DEFINE n == Len(queue)
<1>1. n \in Nat /\ 0 \in 0 .. n
  OBVIOUS
<1>2. PICK f : Steps(f, Len(queue), doc, queue) /\ Overlay(doc, queue) = f[Len(queue)]
  BY OverlaySteps
<1>3. f[0] \in D
  BY <1>1, <1>2, StepsValues
<1>4. \A k \in 0 + 1 .. n : \A e \in D : Apply(e, queue[k]) \in D
  OBVIOUS
<1> HIDE DEF n
<1>5. \A k \in 0 .. n : f[k] \in D
  BY <1>1, <1>2, <1>3, <1>4, StepsStayIn DEF n
<1> QED BY <1>1, <1>2, <1>5 DEF n

(* arrayUnion turns an array of texts into an array of texts.              *)
LEMMA UnionType ==
  ASSUME NEW doc \in Seq(Text), NEW str \in Text
  PROVE  Union(doc, str) \in Seq(Text)
BY AppendProperties DEF Union

(* A write of the app turns a document into a document.                    *)
LEMMA ApplyType ==
  ASSUME NEW doc \in Document, NEW write \in Write
  PROVE  Apply(doc, write) \in Document
<1>1. CASE ~Accepts(doc, write)
  BY <1>1 DEF Apply
<1>2. CASE Accepts(doc, write) /\ write.kind = "union"
  <2>1. write.item \in Text /\ doc \in Seq(Text)
    BY <1>2 DEF Accepts, Write, Document
  <2> QED BY <1>2, <2>1, UnionType DEF Apply, Document
<1>3. CASE Accepts(doc, write) /\ write.kind # "union"
  BY <1>3 DEF Apply, Write, Document
<1> QED BY <1>1, <1>2, <1>3

(* A queue of the app's writes leads from a document to a document.        *)
THEOREM OverlayType ==
  ASSUME NEW doc \in Document, NEW queue \in Seq(Write)
  PROVE  Overlay(doc, queue) \in Document
<1>1. \A k \in 1 .. Len(queue) : \A e \in Document : Apply(e, queue[k]) \in Document
  BY ApplyType
<1> QED BY <1>1, OverlayStaysIn

(* The server may receive a write twice, when its answer was lost: the     *)
(* second time changes nothing.                                            *)
THEOREM ApplyTwice ==
  ASSUME NEW doc \in Document, NEW write \in Write
  PROVE  Apply(Apply(doc, write), write) = Apply(doc, write)
<1>1. CASE ~Accepts(doc, write)
  BY <1>1 DEF Apply
<1>2. CASE Accepts(doc, write) /\ write.kind = "union"
  <2>1. write.item \in Text /\ doc \in Seq(Text)
    BY <1>2 DEF Accepts, Write, Document
  <2>2. Holds(Union(doc, write.item), write.item)
    <3>1. CASE Holds(doc, write.item)
      BY <3>1 DEF Union
    <3>2. CASE ~Holds(doc, write.item)
      BY <2>1, <3>2, AppendProperties DEF Union, Holds
    <3> QED BY <3>1, <3>2
  <2>3. Apply(doc, write) = Union(doc, write.item)
    BY <1>2 DEF Apply
  <2>4. Apply(Union(doc, write.item), write) = Union(doc, write.item)
    BY <1>2, <2>1, <2>2, UnionType, NoDocAssumption DEF Apply, Accepts, Union
  <2> QED BY <2>3, <2>4
<1>3. CASE Accepts(doc, write) /\ write.kind # "union"
  BY <1>3, NoDocAssumption DEF Apply, Accepts, Write
<1> QED BY <1>1, <1>2, <1>3

(* Sending the head of a queue, once or twice, before the queue is sent    *)
(* leads to the same document.                                             *)
THEOREM ResentHead ==
  ASSUME NEW doc \in Document, NEW queue \in Seq(Write), queue # <<>>
  PROVE  Overlay(Apply(doc, Head(queue)), queue) = Overlay(doc, queue)
<1>1. Head(queue) \in Write
  BY HeadTailProperties
<1> DEFINE next == Apply(doc, Head(queue))
<1>2. Overlay(doc, queue) = Overlay(next, Tail(queue))
  BY OverlayHead
<1>3. Overlay(next, queue) = Overlay(Apply(next, Head(queue)), Tail(queue))
  BY OverlayHead
<1>4. Apply(next, Head(queue)) = next
  BY <1>1, ApplyTwice
<1> QED BY <1>2, <1>3, <1>4

-----------------------------------------------------------------------------
(* What is left of where a queue of writes started, and what sending a     *)
(* part of it again does.  A queue with a setData or an overwrite in it    *)
(* forgets the document it started from; one of arrayUnions alone is       *)
(* idempotent.  Either way a document that has taken a part of a queue     *)
(* stays what it is when that part, or an end of it, is sent once more.    *)

(* Two runs of a queue that meet stay together.                            *)
LEMMA StepsMeet ==
  ASSUME NEW n \in Nat, NEW a, NEW b, NEW queue,
         NEW f, Steps(f, n, a, queue), NEW g, Steps(g, n, b, queue),
         NEW m \in 0 .. n, f[m] = g[m]
  PROVE  f[n] = g[n]
<1>1. \A k \in 1 .. n : f[k] = Apply(f[k - 1], queue[k])
  BY StepsValues
<1>2. \A k \in 1 .. n : g[k] = Apply(g[k - 1], queue[k])
  BY StepsValues
<1> DEFINE T == {k \in m .. n : f[k] # g[k]}
<1> SUFFICES ASSUME T # {} PROVE FALSE
  OBVIOUS
<1>3. PICK k \in T : \A j \in T : k <= j
  <2>1. T \in SUBSET Nat
    OBVIOUS
  <2> HIDE DEF T
  <2> QED BY <2>1, LeastElement
<1>4. k \in m + 1 .. n /\ k \in 1 .. n
  <2>1. k # m
    OBVIOUS
  <2> QED BY <2>1
<1>5. k - 1 \in m .. n /\ k - 1 \notin T
  BY <1>3, <1>4
<1>6. f[k - 1] = g[k - 1]
  BY <1>5
<1> QED BY <1>1, <1>2, <1>4, <1>6

(* A queue of writes, of any length.                                       *)
Queue == Seq(Write)

(* A queue may be applied in two parts.                                    *)
LEMMA OverlaySplit ==
  ASSUME NEW s1 \in Queue, NEW s2 \in Queue, NEW doc
  PROVE  Overlay(doc, s1 \o s2) = Overlay(Overlay(doc, s1), s2)
<1> DEFINE whole == s1 \o s2
           m     == Len(s1)
           n     == Len(s2)
           l     == m + n
<1>1. /\ m \in Nat /\ n \in Nat /\ l \in Nat /\ m <= l
      /\ whole \in Seq(Write) /\ Len(whole) = l
      /\ \A k \in 1 .. m : s1[k] = whole[k]
      /\ \A k \in 1 .. n : s2[k] = whole[m + k]
  BY ConcatProperties DEF Queue
<1> HIDE DEF whole, m, n
<1>2. PICK g : Steps(g, l, doc, whole) /\ Overlay(doc, whole) = g[l]
  BY <1>1, OverlaySteps
<1>3. PICK f : Steps(f, m, doc, s1) /\ Overlay(doc, s1) = f[m]
  BY OverlaySteps DEF Queue, m
<1> DEFINE middle == g[m]
<1>4. middle = f[m]
  <2>1. m \in Nat /\ l \in Nat /\ m <= l
    BY <1>1
  <2>2. Steps(f, m, doc, s1) /\ Steps(g, l, doc, whole)
    BY <1>2, <1>3
  <2>3. \A k \in 1 .. m : s1[k] = whole[k]
    BY <1>1
  <2> HIDE DEF l
  <2>4. \A k \in 0 .. m : f[k] = g[k]
    BY <2>1, <2>2, <2>3, StepsAgree
  <2> QED BY <2>1, <2>4
<1>5. PICK h : Steps(h, n, middle, s2) /\ Overlay(middle, s2) = h[n]
  BY OverlaySteps DEF Queue, n
<1> DEFINE e == [k \in 0 .. n |-> g[m + k]]
<1>6. Steps(e, n, middle, s2)
  <2>1. \A k \in 1 .. l : g[k] = Apply(g[k - 1], whole[k])
    <3> HIDE DEF l
    <3> QED BY <1>1, <1>2, StepsValues
  <2>2. \A k \in 0 .. n : e[k] = IF k = 0 THEN middle ELSE Apply(e[k - 1], s2[k])
    <3> SUFFICES ASSUME NEW k \in 0 .. n
                 PROVE  e[k] = IF k = 0 THEN middle ELSE Apply(e[k - 1], s2[k])
      OBVIOUS
    <3>1. CASE k = 0
      BY <1>1, <3>1
    <3>2. CASE k # 0
      <4>1. k \in 1 .. n /\ k - 1 \in 0 .. n /\ m + k \in 1 .. l
            /\ (m + k) - 1 = m + (k - 1)
        BY <1>1, <3>2
      <4>2. g[m + k] = Apply(g[(m + k) - 1], whole[m + k])
        BY <2>1, <4>1
      <4>3. e[k] = g[m + k] /\ e[k - 1] = g[(m + k) - 1] /\ s2[k] = whole[m + k]
        BY <1>1, <4>1
      <4> QED BY <3>2, <4>2, <4>3
    <3> QED BY <3>1, <3>2
  <2>3. e = [k \in 0 .. n |-> e[k]]
    OBVIOUS
  <2> HIDE DEF e, middle
  <2> QED BY <2>2, <2>3 DEF Steps
<1>7. e[n] = g[l]
  BY <1>1
<1>8. e[n] = h[n]
  <2> HIDE DEF e, middle
  <2>1. \A k \in 0 .. n : e[k] = h[k]
    BY <1>1, <1>5, <1>6, StepsAgree
  <2> QED BY <1>1, <2>1
<1> HIDE DEF e
<1> QED BY <1>2, <1>3, <1>4, <1>5, <1>7, <1>8 DEF whole

(* A document that exists is not removed.                                  *)
LEMMA ApplyKeeps ==
  ASSUME NEW doc \in Seq(Text), NEW write \in Write
  PROVE  Apply(doc, write) \in Seq(Text)
<1>1. CASE write.kind = "union"
  BY <1>1, UnionType DEF Apply, Write
<1>2. CASE write.kind # "union"
  BY <1>2 DEF Apply, Write
<1> QED BY <1>1, <1>2

(* Nor is it by a queue of writes.                                         *)
LEMMA OverlayKeeps ==
  ASSUME NEW doc \in Seq(Text), NEW queue \in Seq(Write)
  PROVE  Overlay(doc, queue) \in Seq(Text)
<1>1. \A k \in 1 .. Len(queue) : \A e \in Seq(Text) : Apply(e, queue[k]) \in Seq(Text)
  BY ApplyKeeps
<1> QED BY <1>1, OverlayStaysIn

(* A setData or an overwrite makes the same document of any that exists.   *)
LEMMA OverlayForgets ==
  ASSUME NEW a \in Seq(Text), NEW b \in Seq(Text), NEW queue \in Seq(Write),
         NEW m \in 1 .. Len(queue), queue[m].kind # "union"
  PROVE  Overlay(a, queue) = Overlay(b, queue)
<1> DEFINE n == Len(queue)
           D == Seq(Text)
<1>1. n \in Nat /\ m \in 0 .. n /\ m - 1 \in 0 .. n /\ m \in 1 .. n /\ 0 \in 0 .. n
  OBVIOUS
<1>2. PICK f : Steps(f, n, a, queue) /\ Overlay(a, queue) = f[n]
  BY OverlaySteps
<1>3. PICK g : Steps(g, n, b, queue) /\ Overlay(b, queue) = g[n]
  BY OverlaySteps
<1>4. \A k \in 1 .. n : \A e \in D : Apply(e, queue[k]) \in D
  <2> SUFFICES ASSUME NEW k \in 1 .. n, NEW e \in D PROVE Apply(e, queue[k]) \in D
    OBVIOUS
  <2>1. queue[k] \in Write
    BY ElementOfSeq
  <2> QED BY <2>1, ApplyKeeps
<1>5. f[0] \in D /\ g[0] \in D
  BY <1>1, <1>2, <1>3, StepsValues
<1> HIDE DEF n, D
<1>6. f[m - 1] \in D
  <2>1. \A k \in 0 .. n : f[k] \in D
    <3>1. \A k \in 0 + 1 .. n : \A e \in D : Apply(e, queue[k]) \in D
      BY <1>4
    <3> QED BY <1>1, <1>2, <1>5, <3>1, StepsStayIn
  <2> QED BY <1>1, <2>1
<1>7. g[m - 1] \in D
  <2>1. \A k \in 0 .. n : g[k] \in D
    <3>1. \A k \in 0 + 1 .. n : \A e \in D : Apply(e, queue[k]) \in D
      BY <1>4
    <3> QED BY <1>1, <1>3, <1>5, <3>1, StepsStayIn
  <2> QED BY <1>1, <2>1
<1>8. \A e \in D : Apply(e, queue[m]) = queue[m].items
  <2>1. queue[m] \in Write
    BY ElementOfSeq
  <2> QED BY <2>1, NoDocAssumption DEF Apply, Accepts, Write, D
<1>9. f[m] = Apply(f[m - 1], queue[m]) /\ g[m] = Apply(g[m - 1], queue[m])
  BY <1>1, <1>2, <1>3, StepsValues
<1>10. f[m] = g[m]
  BY <1>6, <1>7, <1>8, <1>9
<1>11. f[n] = g[n]
  BY <1>1, <1>2, <1>3, <1>10, StepsMeet
<1> QED BY <1>2, <1>3, <1>11

(* arrayUnion makes the array hold its string, and takes none from it.     *)
LEMMA UnionHolds ==
  ASSUME NEW doc \in Seq(Text), NEW str \in Text
  PROVE  /\ Holds(Union(doc, str), str)
         /\ \A other : Holds(doc, other) => Holds(Union(doc, str), other)
<1>1. CASE Holds(doc, str)
  BY <1>1 DEF Union
<1>2. CASE ~Holds(doc, str)
  <2> DEFINE new == Append(doc, str)
  <2>1. /\ new \in Seq(Text) /\ Len(new) = Len(doc) + 1
        /\ \A k \in 1 .. Len(doc) : new[k] = doc[k]
        /\ new[Len(doc) + 1] = str
    BY AppendProperties
  <2>2. DOMAIN doc = 1 .. Len(doc) /\ Len(doc) \in Nat
    BY LenProperties
  <2>3. DOMAIN new = 1 .. Len(doc) + 1
    <3> HIDE DEF new
    <3> QED BY <2>1, LenProperties
  <2>4. Union(doc, str) = new
    BY <1>2 DEF Union
  <2> HIDE DEF new
  <2> QED BY <2>1, <2>2, <2>3, <2>4 DEF Holds
<1> QED BY <1>1, <1>2

(* A queue of arrayUnions makes the array hold all their strings.          *)
LEMMA UnionsHold ==
  ASSUME NEW doc \in Seq(Text), NEW queue \in Queue,
         \A k \in 1 .. Len(queue) : queue[k].kind = "union",
         NEW m \in 1 .. Len(queue)
  PROVE  Holds(Overlay(doc, queue), queue[m].item)
<1> DEFINE n == Len(queue)
           D == Seq(Text)
           E == {e \in D : Holds(e, queue[m].item)}
<1>1. /\ n \in Nat /\ m \in 0 .. n /\ m - 1 \in 0 .. n /\ m \in 1 .. n /\ 0 \in 0 .. n
      /\ n \in 0 .. n
  BY DEF Queue
<1>2. PICK f : Steps(f, n, doc, queue) /\ Overlay(doc, queue) = f[n]
  BY OverlaySteps DEF Queue
<1>3. ASSUME NEW k \in 1 .. n, NEW e \in D
      PROVE  /\ queue[k].item \in Text
             /\ Apply(e, queue[k]) = Union(e, queue[k].item)
             /\ Apply(e, queue[k]) \in D
             /\ Holds(Apply(e, queue[k]), queue[k].item)
             /\ \A other : Holds(e, other) => Holds(Apply(e, queue[k]), other)
  <2>1. queue[k] \in Write /\ queue[k].kind = "union"
    BY ElementOfSeq DEF Queue
  <2>2. queue[k].item \in Text
    BY <2>1 DEF Write
  <2>3. Apply(e, queue[k]) = Union(e, queue[k].item)
    BY <2>1, NoDocAssumption DEF Apply, Accepts
  <2> QED BY <2>1, <2>2, <2>3, ApplyKeeps, UnionHolds
<1>4. f[0] \in D
  BY <1>2, <1>1, StepsValues
<1>5. \A k \in 0 + 1 .. n : \A e \in D : Apply(e, queue[k]) \in D
  BY <1>3
<1>6. \A k \in m + 1 .. n : \A e \in E : Apply(e, queue[k]) \in E
  <2> SUFFICES ASSUME NEW k \in m + 1 .. n, NEW e \in E PROVE Apply(e, queue[k]) \in E
    OBVIOUS
  <2>1. k \in 1 .. n /\ e \in D
    BY <1>1
  <2> QED BY <1>3, <2>1
<1>7. f[m] = Apply(f[m - 1], queue[m])
  <2> HIDE DEF n
  <2> QED BY <1>1, <1>2, StepsValues
<1> HIDE DEF n, D
<1>8. f[m - 1] \in D
  <2>1. \A k \in 0 .. n : f[k] \in D
    BY <1>1, <1>2, <1>4, <1>5, StepsStayIn
  <2> QED BY <1>1, <2>1
<1>9. f[m] \in E
  BY <1>1, <1>3, <1>7, <1>8
<1> HIDE DEF E
<1>10. \A k \in m .. n : f[k] \in E
  BY <1>1, <1>2, <1>6, <1>9, StepsStayIn
<1>11. f[n] \in E
  BY <1>1, <1>10
<1> QED BY <1>2, <1>11 DEF E

(* An array that holds all their strings already is left as it is.         *)
LEMMA UnionsLeave ==
  ASSUME NEW doc \in Seq(Text), NEW queue \in Queue,
         \A k \in 1 .. Len(queue) :
           queue[k].kind = "union" /\ Holds(doc, queue[k].item)
  PROVE  Overlay(doc, queue) = doc
<1>1. \A k \in 1 .. Len(queue) : \A e \in {doc} : Apply(e, queue[k]) \in {doc}
  BY NoDocAssumption DEF Apply, Accepts, Union
<1>2. doc \in {doc}
  OBVIOUS
<1>3. Overlay(doc, queue) \in {doc}
  BY <1>1, <1>2, OverlayStaysIn DEF Queue
<1> QED BY <1>3

(* A document that a queue leaves as it is may take one more string: the   *)
(* queue then leaves that as it is, or leads back to the document.         *)
LEMMA UnionKeepsFixed ==
  ASSUME NEW doc \in Seq(Text), NEW queue \in Queue, Overlay(doc, queue) = doc,
         NEW str \in Text
  PROVE  Overlay(Union(doc, str), queue) \in {doc, Union(doc, str)}
<1> DEFINE new == Union(doc, str)
<1>1. new \in Seq(Text)
  BY UnionType
<1>2. CASE \E m \in 1 .. Len(queue) : queue[m].kind # "union"
  <2> HIDE DEF new
  <2>1. Overlay(new, queue) = Overlay(doc, queue)
    BY <1>1, <1>2, OverlayForgets DEF Queue
  <2> QED BY <2>1 DEF new
<1>3. CASE \A m \in 1 .. Len(queue) : queue[m].kind = "union"
  <2>1. \A m \in 1 .. Len(queue) : Holds(doc, queue[m].item)
    BY <1>3, UnionsHold
  <2>2. \A m \in 1 .. Len(queue) : queue[m].kind = "union" /\ Holds(new, queue[m].item)
    BY <1>3, <2>1, UnionHolds
  <2> HIDE DEF new
  <2>3. Overlay(new, queue) = new
    BY <1>1, <2>2, UnionsLeave
  <2> QED BY <2>3 DEF new
<1> QED BY <1>2, <1>3

-----------------------------------------------------------------------------
(* A document that has taken the first n writes of a queue: to send these  *)
(* again, from whichever on, changes nothing.                              *)
Fixed(doc, queue, n) ==
  \A k \in 0 .. n : Overlay(doc, SubSeq(queue, k + 1, n)) = doc

(* Parts of a queue are queues.                                            *)
LEMMA PartOfQueue ==
  ASSUME NEW queue \in Queue, NEW k \in Nat, NEW n \in 0 .. Len(queue)
  PROVE  SubSeq(queue, k + 1, n) \in Queue
<1>1. \A i \in k + 1 .. n : queue[i] \in Write
  <2> SUFFICES ASSUME NEW i \in k + 1 .. n PROVE queue[i] \in Write
    OBVIOUS
  <2>1. i \in 1 .. Len(queue)
    BY DEF Queue
  <2> QED BY <2>1, ElementOfSeq DEF Queue
<1> QED BY <1>1, SubSeqProperties DEF Queue

(* Parts of a queue's tail are parts of the queue.                         *)
LEMMA PartOfTail ==
  ASSUME NEW queue \in Queue, queue # <<>>,
         NEW k \in Nat, NEW n \in Nat, n < Len(queue)
  PROVE  SubSeq(Tail(queue), k + 1, n) = SubSeq(queue, (k + 1) + 1, n + 1)
<1> DEFINE rest  == Tail(queue)
           part  == SubSeq(rest, k + 1, n)
           other == SubSeq(queue, (k + 1) + 1, n + 1)
<1>1. /\ rest \in Queue /\ Len(rest) = Len(queue) - 1 /\ Len(queue) \in Nat
      /\ \A i \in 1 .. Len(rest) : rest[i] = queue[i + 1]
  BY HeadTailProperties DEF Queue
<1>2. part \in Queue /\ other \in Queue
  <2>1. k + 1 \in Nat /\ n + 1 \in 0 .. Len(queue) /\ n \in 0 .. Len(rest)
    BY <1>1
  <2> HIDE DEF rest
  <2> QED BY <1>1, <2>1, PartOfQueue
<1>3. /\ Len(part) = IF k + 1 <= n THEN n - (k + 1) + 1 ELSE 0
      /\ \A i \in 1 .. n - (k + 1) + 1 : part[i] = rest[(k + 1) + i - 1]
  <2> HIDE DEF rest
  <2>1. \A i \in k + 1 .. n : rest[i] \in Write
    BY <1>1, ElementOfSeq DEF Queue
  <2> QED BY <2>1, SubSeqProperties
<1>4. /\ Len(other) = IF k + 1 <= n THEN n - (k + 1) + 1 ELSE 0
      /\ \A i \in 1 .. n - (k + 1) + 1 : other[i] = queue[((k + 1) + 1) + i - 1]
  <2>1. \A i \in (k + 1) + 1 .. n + 1 : queue[i] \in Write
    BY <1>1, ElementOfSeq DEF Queue
  <2> QED BY <2>1, SubSeqProperties
<1> HIDE DEF rest, part, other
<1>5. \A i \in 1 .. Len(part) : part[i] = other[i]
  <2> SUFFICES ASSUME NEW i \in 1 .. Len(part) PROVE part[i] = other[i]
    OBVIOUS
  <2>1. i \in 1 .. n - (k + 1) + 1 /\ (k + 1) + i - 1 \in 1 .. Len(rest)
        /\ ((k + 1) + i - 1) + 1 = ((k + 1) + 1) + i - 1
    BY <1>1, <1>3
  <2>2. rest[(k + 1) + i - 1] = queue[((k + 1) + i - 1) + 1]
    BY <1>1, <2>1
  <2> QED BY <1>3, <1>4, <2>1, <2>2
<1>6. Len(part) = Len(other)
  BY <1>3, <1>4
<1> QED BY <1>2, <1>5, <1>6, SeqEqual DEF Queue, part, other, rest

(* Every document has taken none of a queue.                               *)
LEMMA FixedNone ==
  ASSUME NEW doc, NEW queue
  PROVE  Fixed(doc, queue, 0)
<1>1. \A k \in 0 .. 0 : SubSeq(queue, k + 1, 0) = <<>>
  BY SubSeqEmpty
<1> QED BY <1>1, OverlayEmpty DEF Fixed

(* What it has taken need not be applied again.                            *)
LEMMA FixedRest ==
  ASSUME NEW doc, NEW queue \in Queue, NEW n \in 0 .. Len(queue), Fixed(doc, queue, n)
  PROVE  Overlay(doc, queue) = Overlay(doc, SubSeq(queue, n + 1, Len(queue)))
<1> DEFINE former == SubSeq(queue, 1, n)
           latter == SubSeq(queue, n + 1, Len(queue))
<1>1. Len(queue) \in Nat /\ n \in Nat /\ 0 \in 0 .. n
  BY DEF Queue
<1>2. former \in Queue /\ latter \in Queue
  BY <1>1, PartOfQueue
<1>3. former \o latter = queue
  <2>1. 1 \in 1 .. Len(queue) + 1 /\ n \in 1 - 1 .. Len(queue) /\ Len(queue) \in n .. Len(queue)
    BY <1>1
  <2>2. former \o latter = SubSeq(queue, 1, Len(queue))
    BY <2>1, ConcatAdjacentSubSeq DEF Queue
  <2> QED BY <2>2, SubSeqFull DEF Queue
<1>4. Overlay(doc, former) = doc
  BY <1>1 DEF Fixed
<1> HIDE DEF former, latter
<1>5. Overlay(doc, former \o latter) = Overlay(Overlay(doc, former), latter)
  BY <1>2, OverlaySplit
<1> QED BY <1>3, <1>4, <1>5 DEF latter

(* The head of a queue is answered: it need not be sent again.             *)
LEMMA FixedTail ==
  ASSUME NEW doc, NEW queue \in Queue, NEW n \in 1 .. Len(queue), Fixed(doc, queue, n)
  PROVE  /\ Fixed(doc, Tail(queue), n - 1)
         /\ Overlay(doc, Tail(queue)) = Overlay(doc, queue)
<1>1. /\ queue # <<>> /\ Len(queue) \in Nat /\ n \in 0 .. Len(queue)
      /\ n - 1 \in Nat /\ (n - 1) + 1 = n
  BY DEF Queue
<1>2. Tail(queue) \in Queue /\ Len(Tail(queue)) = Len(queue) - 1
  BY <1>1, HeadTailProperties DEF Queue
<1>3. Fixed(doc, Tail(queue), n - 1)
  <2> SUFFICES ASSUME NEW k \in 0 .. n - 1
               PROVE  Overlay(doc, SubSeq(Tail(queue), k + 1, n - 1)) = doc
    BY DEF Fixed
  <2>1. k \in Nat /\ k + 1 \in 0 .. n
    BY <1>1
  <2>2. SubSeq(Tail(queue), k + 1, n - 1) = SubSeq(queue, (k + 1) + 1, n)
    BY <1>1, <2>1, PartOfTail
  <2> QED BY <2>1, <2>2 DEF Fixed
<1>4. Overlay(doc, queue) = Overlay(doc, SubSeq(queue, n + 1, Len(queue)))
  BY <1>1, FixedRest
<1> DEFINE rest == Tail(queue)
           m    == n - 1
<1>5. rest \in Queue /\ m \in 0 .. Len(rest) /\ Fixed(doc, rest, m)
  BY <1>1, <1>2, <1>3
<1>6. Overlay(doc, rest) = Overlay(doc, SubSeq(rest, m + 1, Len(rest)))
  <2> HIDE DEF rest, m
  <2> QED BY <1>5, FixedRest
<1>7. SubSeq(rest, m + 1, Len(rest)) = SubSeq(queue, n + 1, Len(queue))
  <2>1. Len(queue) - 1 \in Nat /\ (Len(queue) - 1) + 1 = Len(queue) /\ m \in Nat
    BY <1>1
  <2>2. SubSeq(Tail(queue), m + 1, Len(queue) - 1)
          = SubSeq(queue, (m + 1) + 1, (Len(queue) - 1) + 1)
    <3> HIDE DEF m
    <3> QED BY <1>1, <2>1, PartOfTail
  <2> QED BY <1>1, <1>2, <2>1, <2>2
<1> QED BY <1>3, <1>4, <1>6, <1>7

(* A write is queued behind.                                               *)
LEMMA FixedAppend ==
  ASSUME NEW doc, NEW queue \in Queue, NEW write \in Write,
         NEW n \in 0 .. Len(queue), Fixed(doc, queue, n)
  PROVE  Fixed(doc, Append(queue, write), n)
<1> DEFINE longer == Append(queue, write)
<1>1. /\ longer \in Queue /\ Len(longer) = Len(queue) + 1 /\ Len(queue) \in Nat
      /\ \A i \in 1 .. Len(queue) : longer[i] = queue[i]
  BY AppendProperties DEF Queue
<1> HIDE DEF longer
<1> SUFFICES ASSUME NEW k \in 0 .. n
             PROVE  SubSeq(longer, k + 1, n) = SubSeq(queue, k + 1, n)
  BY DEF Fixed, longer
<1> DEFINE part  == SubSeq(longer, k + 1, n)
           other == SubSeq(queue, k + 1, n)
<1>2. part \in Queue /\ other \in Queue
  BY <1>1, PartOfQueue
<1>3. \A i \in k + 1 .. n : i \in 1 .. Len(queue) /\ queue[i] \in Write /\ longer[i] = queue[i]
  BY <1>1, ElementOfSeq DEF Queue
<1>4. /\ Len(part) = IF k + 1 <= n THEN n - (k + 1) + 1 ELSE 0
      /\ \A i \in 1 .. n - (k + 1) + 1 : part[i] = longer[(k + 1) + i - 1]
  BY <1>3, SubSeqProperties
<1>5. /\ Len(other) = IF k + 1 <= n THEN n - (k + 1) + 1 ELSE 0
      /\ \A i \in 1 .. n - (k + 1) + 1 : other[i] = queue[(k + 1) + i - 1]
  BY <1>3, SubSeqProperties
<1> HIDE DEF part, other
<1>6. \A i \in 1 .. Len(part) : part[i] = other[i]
  <2> SUFFICES ASSUME NEW i \in 1 .. Len(part) PROVE part[i] = other[i]
    OBVIOUS
  <2>1. i \in 1 .. n - (k + 1) + 1 /\ (k + 1) + i - 1 \in k + 1 .. n
    BY <1>4
  <2> QED BY <1>3, <1>4, <1>5, <2>1
<1>7. Len(part) = Len(other)
  BY <1>4, <1>5
<1>8. part = other
  BY <1>2, <1>6, <1>7, SeqEqual DEF Queue
<1> QED BY <1>8 DEF part, other

(* The next write is sent, and accepted: the document has taken it too,    *)
(* and the whole queue leads where it led before.                          *)
LEMMA FixedCommit ==
  ASSUME NEW doc \in Document, NEW queue \in Queue,
         NEW n \in Nat, n < Len(queue), Fixed(doc, queue, n),
         Accepts(doc, queue[n + 1])
  PROVE  /\ Fixed(Apply(doc, queue[n + 1]), queue, n + 1)
         /\ Overlay(Apply(doc, queue[n + 1]), queue) = Overlay(doc, queue)
<1> DEFINE write == queue[n + 1]
           new   == Apply(doc, write)
<1>1. /\ Len(queue) \in Nat /\ n \in 0 .. Len(queue) /\ n + 1 \in 0 .. Len(queue)
      /\ n + 1 \in 1 .. Len(queue)
  BY DEF Queue
<1>2. write \in Write
  BY <1>1, ElementOfSeq DEF Queue
<1>3. new \in Seq(Text)
  <2>1. CASE write.kind = "union"
    <3>1. doc \in Seq(Text) /\ write.item \in Text /\ new = Union(doc, write.item)
      BY <1>2, <2>1 DEF Accepts, Apply, Document, Write
    <3> QED BY <3>1, UnionType
  <2>2. CASE write.kind # "union"
    BY <1>2, <2>2 DEF Apply, Write
  <2> QED BY <2>1, <2>2
<1>4. ASSUME NEW s \in Queue, Overlay(doc, s) = doc
      PROVE  Apply(Overlay(new, s), write) = new
  <2>1. CASE write.kind = "union"
    <3>1. doc \in Seq(Text) /\ write.item \in Text /\ new = Union(doc, write.item)
      BY <1>2, <2>1 DEF Accepts, Apply, Document, Write
    <3>2. Overlay(new, s) \in {doc, new}
      BY <1>4, <3>1, UnionKeepsFixed
    <3>3. Apply(new, write) = new
      BY <1>2, ApplyTwice
    <3> QED BY <3>2, <3>3
  <2>2. CASE write.kind # "union"
    <3>1. Overlay(new, s) \in Seq(Text)
      BY <1>3, OverlayKeeps DEF Queue
    <3>2. \A e \in Seq(Text) : Apply(e, write) = write.items
      BY <1>2, <2>2, NoDocAssumption DEF Apply, Accepts
    <3>3. new = write.items
      BY <2>2 DEF Apply
    <3> QED BY <3>1, <3>2, <3>3
  <2> QED BY <2>1, <2>2
<1> HIDE DEF new, write
<1>5. Fixed(new, queue, n + 1)
  <2> SUFFICES ASSUME NEW k \in 0 .. n + 1
               PROVE  Overlay(new, SubSeq(queue, k + 1, n + 1)) = new
    BY DEF Fixed
  <2>1. CASE k = n + 1
    <3>1. SubSeq(queue, k + 1, n + 1) = <<>>
      BY <2>1, SubSeqEmpty
    <3> QED BY <3>1, OverlayEmpty
  <2>2. CASE k # n + 1
    <3> DEFINE s == SubSeq(queue, k + 1, n)
    <3>1. k \in 0 .. n /\ k \in Nat
      BY <2>2
    <3>2. s \in Queue
      BY <1>1, <3>1, PartOfQueue
    <3>3. Overlay(doc, s) = doc
      BY <3>1 DEF Fixed
    <3>4. SubSeq(queue, k + 1, n + 1) = s \o <<write>>
      <4>1. k + 1 \in 1 .. Len(queue) /\ n + 1 \in k + 1 .. Len(queue) /\ (n + 1) - 1 = n
        BY <1>1, <3>1
      <4> QED BY <4>1, SubSeqRecursiveSecond DEF Queue, write
    <3> HIDE DEF s
    <3>5. s \o <<write>> = Append(s, write)
      BY <1>2, <3>2, AppendIsConcat DEF Queue
    <3>6. Overlay(new, Append(s, write)) = Apply(Overlay(new, s), write)
      BY <1>2, <3>2, OverlayAppend DEF Queue
    <3> QED BY <1>4, <3>2, <3>3, <3>4, <3>5, <3>6
  <2> QED BY <2>1, <2>2
<1> DEFINE rest == SubSeq(queue, n + 1, Len(queue))
           last == SubSeq(queue, (n + 1) + 1, Len(queue))
<1>6. Overlay(doc, queue) = Overlay(doc, rest)
  BY <1>1, FixedRest
<1>7. Overlay(new, queue) = Overlay(new, last)
  <2> DEFINE m == n + 1
  <2>1. m \in 0 .. Len(queue) /\ Fixed(new, queue, m)
    BY <1>1, <1>5
  <2> HIDE DEF m
  <2>2. Overlay(new, queue) = Overlay(new, SubSeq(queue, m + 1, Len(queue)))
    BY <2>1, FixedRest
  <2> QED BY <2>2 DEF m
<1>8. /\ rest \in Queue /\ rest # <<>> /\ Head(rest) = write /\ Tail(rest) = last
  <2>1. rest \in Queue
    BY <1>1, PartOfQueue
  <2>2. Head(rest) = write /\ Tail(rest) = last
    BY <1>1, HeadTailOfSubSeq DEF Queue, write
  <2>3. Len(rest) = Len(queue) - (n + 1) + 1
    <3>1. \A i \in n + 1 .. Len(queue) : queue[i] \in Write
      BY <1>1, ElementOfSeq DEF Queue
    <3> QED BY <1>1, <3>1, SubSeqProperties
  <2> HIDE DEF rest
  <2>4. rest # <<>>
    BY <1>1, <2>3, EmptySeq
  <2> QED BY <2>1, <2>2, <2>4
<1> HIDE DEF rest, last
<1>9. Overlay(doc, rest) = Overlay(Apply(doc, write), last)
  BY <1>8, OverlayHead DEF Queue
<1> QED BY <1>5, <1>6, <1>7, <1>9 DEF new, write

=============================================================================
