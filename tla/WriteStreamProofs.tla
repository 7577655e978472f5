-------------------------- MODULE WriteStreamProofs --------------------------
(***************************************************************************)
(* Safety of the write stream, for any users, any limit of the pipeline    *)
(* and any numbers of writes and of changes of the user, and that it       *)
(* implements WriteQueue.                                                  *)
(*                                                                         *)
(* The invariant has a part for each place a write, a token or the news of *)
(* a user can be at: the users' queues, the stream with its pipeline, the  *)
(* three queues between the services, the call, and the server's end.      *)
(***************************************************************************)
EXTENDS WriteStream, FiniteSetTheorems, SequenceTheorems, TLAPS

-----------------------------------------------------------------------------
(* The writes of a user wait in the order of their numbers.                *)
Ordered(q, u, n) ==
  /\ \A k \in DOMAIN q : q[k].user = u /\ q[k].number <= n
  /\ \A j \in DOMAIN q : \A k \in DOMAIN q : j < k => q[j].number < q[k].number

QueuesOrdered == \A u \in User : Ordered(queue[u], u, issued[u])

(* The writes of a queue that the pipeline holds.                          *)
Least(m, n) == IF m <= n THEN m ELSE n
FrontOf(q) == SubSeq(q, 1, Least(Len(q), MaxPendingWrites))

(* What the stream's own state always is, within a step as well: the       *)
(* delegate is set from the start to the end of a call, the handshake is   *)
(* one of the call, a stream on its way has something to write, and only   *)
(* an open one with nothing to write can be idle.                          *)
StreamSound(c) ==
  /\ c.asserts
  /\ c.delegate <=> c.state \in {"auth", "open"}
  /\ c.state \in {"auth", "backoff"} => ~c.handshakeComplete
  /\ IsStarted(c) /\ ~c.handshakeComplete => c.pipeline # <<>>
  /\ c.idle => c.state = "open" /\ c.handshakeComplete /\ c.pipeline = <<>>

StreamInv ==
  /\ StreamSound(client)
  /\ client.pipeline = FrontOf(queue[user])
  /\ client.pipeline # <<>> => IsStarted(client)

(* Tokens asked for (a), on the main queue (m) or on the worker queue (w): *)
(* none is for a stream later than the current one (s), at most one is for *)
(* that stream, and none unless it waits for one.                          *)
AskedFor(a, s) == {r \in a : r.stream = s}
TokensFor(q, s) == {k \in DOMAIN q : q[k].kind = "token" /\ q[k].request.stream = s}

AtMostOne(S) == \A x \in S : \A y \in S : x = y

TokensUntil(q, s) == \A k \in DOMAIN q : q[k].kind = "token" => q[k].request.stream <= s

TokensSound(a, m, w, s, waits) ==
  /\ \A r \in a : r.stream <= s
  /\ TokensUntil(m, s) /\ TokensUntil(w, s)
  /\ AtMostOne(AskedFor(a, s)) /\ AtMostOne(TokensFor(m, s)) /\ AtMostOne(TokensFor(w, s))
  /\ AskedFor(a, s) # {} => TokensFor(m, s) = {} /\ TokensFor(w, s) = {}
  /\ TokensFor(m, s) # {} => TokensFor(w, s) = {}
  /\ ~waits => AskedFor(a, s) = {} /\ TokensFor(m, s) = {} /\ TokensFor(w, s) = {}

TokensInv ==
  TokensSound(asked, mainQueue, workerQueue, client.stream, client.state = "auth")

(* A token is of the user that the message before it told of: whoever was  *)
(* signed in when it was found was the last to be reported.                *)
Latest(q, u) == IF q = <<>> THEN u ELSE q[Len(q)].user

InTurn(q, u) ==
  \A k \in DOMAIN q :
    q[k].kind = "token" => q[k].user = IF k = 1 THEN u ELSE q[k - 1].user

UsersSound(au, m, w, u) ==
  /\ InTurn(w, u) /\ InTurn(m, Latest(w, u))
  /\ au = Latest(m, Latest(w, u))

UsersInv == UsersSound(authUser, mainQueue, workerQueue, user)

(* The counter, the stream and the news on their way add up.               *)
CountsSound(n, m, w, s) ==
  /\ n + Cardinality(Changes(m)) <= MaxChanges
  /\ s + Cardinality(Changes(w)) = n + 1

CountsInv == CountsSound(tokenCounter, mainQueue, workerQueue, client.stream)

(* The call and the client's idea of it.                                   *)
CallInv ==
  /\ rpc # "none" <=> client.state = "open"
  /\ rpc # "none" => rpcUser = user /\ (client.handshakeComplete <=> rpc = "ready")
  /\ rpc \in {"welcome", "ready"} => ~late
  /\ rpc # "ready" /\ ~late => requests = <<>> /\ handled = <<>>
  /\ answers = IF late THEN <<>> ELSE handled
  /\ rpc = "ready" => Len(handled) + Len(requests) = Len(client.pipeline)

(* What the server works on is the front of one user's queue, of the       *)
(* current one if the call is not closed; what it has made of it.          *)
Works(h, r, q) ==
  /\ Len(h) + Len(r) <= Len(q)
  /\ \A k \in DOMAIN h : h[k].batch = q[k]
  /\ \A k \in DOMAIN r : r[k] = q[Len(h) + k]

ServerInv ==
  /\ \E u \in User : Works(handled, requests, queue[u]) /\ (late \/ u = user)
  /\ \A k \in DOMAIN handled : handled[k].accepted => handled[k].batch \in applied
  /\ \A k \in DOMAIN handled : k < Len(handled) => handled[k].accepted

(* A write that was refused is not waiting any more.                       *)
OutcomeInv ==
  \A b \in rejected : /\ b.number <= issued[b.user]
                      /\ \A k \in DOMAIN queue[b.user] : queue[b.user][k] # b

Inv ==
  /\ TypeOK
  /\ QueuesOrdered /\ StreamInv /\ TokensInv /\ UsersInv /\ CountsInv
  /\ CallInv /\ ServerInv /\ OutcomeInv

-----------------------------------------------------------------------------
(* Sequences of writes.                                                    *)
Starts(p, q) == Len(p) <= Len(q) /\ \A k \in 1 .. Len(p) : p[k] = q[k]

(* Lengths are naturals, and so is the limit of the pipeline.              *)
LEMMA Lengths ==
  /\ MaxPendingWrites \in Nat /\ MaxPendingWrites >= 1
  /\ \A S : \A q \in Seq(S) : Len(q) \in Nat /\ DOMAIN q = 1 .. Len(q)
BY PendingAssumption

(* The front of a queue.                                                   *)
LEMMA FrontProperties ==
  ASSUME NEW q \in Seq(Batch)
  PROVE  /\ FrontOf(q) \in Seq(Batch)
         /\ Len(FrontOf(q)) = Least(Len(q), MaxPendingWrites)
         /\ Len(FrontOf(q)) <= MaxPendingWrites
         /\ Starts(FrontOf(q), q)
<1> DEFINE n == Least(Len(q), MaxPendingWrites)
<1>1. n \in Nat /\ n <= Len(q) /\ n <= MaxPendingWrites
  BY Lengths DEF Least
<1>2. \A k \in 1 .. n : q[k] \in Batch
  BY <1>1, Lengths, ElementOfSeq
<1> HIDE DEF n
<1>3. /\ SubSeq(q, 1, n) \in Seq(Batch)
      /\ Len(SubSeq(q, 1, n)) = IF 1 <= n THEN n - 1 + 1 ELSE 0
      /\ \A k \in 1 .. n - 1 + 1 : SubSeq(q, 1, n)[k] = q[1 + k - 1]
  BY <1>1, <1>2, SubSeqProperties
<1>4. Len(SubSeq(q, 1, n)) = n /\ \A k \in 1 .. n : SubSeq(q, 1, n)[k] = q[k]
  BY <1>1, <1>3
<1>5. FrontOf(q) = SubSeq(q, 1, n)
  BY DEF FrontOf, n
<1> QED BY <1>1, <1>3, <1>4, <1>5 DEF Starts, n

(* A sequence is the front of a queue if it starts it and is long enough.  *)
LEMMA IsFront ==
  ASSUME NEW q \in Seq(Batch), NEW p \in Seq(Batch), Starts(p, q),
         Len(p) = Least(Len(q), MaxPendingWrites)
  PROVE  p = FrontOf(q)
<1>1. /\ FrontOf(q) \in Seq(Batch) /\ Len(FrontOf(q)) = Len(p)
      /\ Starts(FrontOf(q), q)
  BY FrontProperties
<1>2. \A k \in 1 .. Len(p) : p[k] = FrontOf(q)[k]
  BY <1>1 DEF Starts
<1> QED BY <1>1, <1>2, SeqEqual

(* The pipeline has room for the rest of the front: what is added to it    *)
(* follows its last write in the queue, and nothing is left out.           *)
LEMMA NextFills ==
  ASSUME NEW c \in Client, NEW q \in Seq(Batch), NEW u, NEW n,
         Ordered(q, u, n), Starts(c.pipeline, q), Len(c.pipeline) <= MaxPendingWrites
  PROVE  /\ NextBatches(c, q) \in Seq(Batch)
         /\ c.pipeline \o NextBatches(c, q) = FrontOf(q)
<1> DEFINE p == c.pipeline
           m == Len(p)
           l == Len(q)
           after == {k \in DOMAIN q : p # <<>> => q[k].number > Last(p).number}
           first == CHOOSE k \in after : \A j \in after : k <= j
           last == first + MaxPendingWrites - m - 1
<1>a. p \in Seq(Batch) /\ m \in Nat /\ l \in Nat /\ m <= l /\ m <= MaxPendingWrites
  BY Lengths DEF Client, Starts
<1>b. \A k \in 1 .. m : p[k] = q[k]
  BY DEF Starts
<1>c. \A k \in 1 .. l : q[k] \in Batch /\ q[k].number \in Nat
  <2>1. \A k \in 1 .. l : q[k] \in Batch
    BY ElementOfSeq
  <2>2. \A b \in Batch : b.number \in Nat
    BY BoundsAssumption DEF Batch
  <2> QED BY <2>1, <2>2
<1>1. after = {k \in 1 .. l : k > m}
  <2>1. CASE p = <<>>
    BY <2>1, Lengths
  <2>2. CASE p # <<>>
    <3>1. m >= 1 /\ m \in 1 .. l /\ Last(p) = q[m]
      <4>1. m # 0
        BY <1>a, <2>2, EmptySeq
      <4> QED BY <4>1, <1>a, <1>b DEF Last
    <3>2. \A k \in 1 .. l : q[k].number > q[m].number <=> k > m
      <4> HIDE DEF m, p, l
      <4>1. \A j \in 1 .. l : \A k \in 1 .. l : j < k => q[j].number < q[k].number
        BY Lengths DEF Ordered, l
      <4> QED BY <1>a, <1>c, <3>1, <4>1
    <3>3. after = {k \in 1 .. l : q[k].number > q[m].number}
      BY <2>2, <3>1, Lengths
    <3> HIDE DEF after, m, l
    <3> QED BY <3>2, <3>3
  <2> QED BY <2>1, <2>2
<1>2. NextBatches(c, q) =
        IF after = {} THEN <<>>
        ELSE SubSeq(q, first, IF last <= l THEN last ELSE l)
  BY DEF NextBatches
<1>3. CASE m = l
  <2>1. after = {}
    <3> HIDE DEF after, m, l
    <3> QED BY <1>1, <1>3, <1>a
  <2>2. NextBatches(c, q) = <<>>
    BY <1>2, <2>1
  <2>3. p \o <<>> = p
    BY <1>a, ConcatEmptySeq
  <2>4. p = FrontOf(q)
    BY <1>a, <1>3, IsFront DEF Least
  <2> QED BY <2>2, <2>3, <2>4, EmptySeq
<1>4. CASE m < l
  <2>1. m + 1 \in after /\ \A j \in after : m + 1 <= j
    <3> HIDE DEF after, m, l
    <3> QED BY <1>1, <1>4, <1>a
  <2>2. first \in after /\ \A j \in after : first <= j
    <3> HIDE DEF after, m
    <3> QED BY <2>1
  <2>3. first = m + 1
    <3> HIDE DEF first
    <3>1. first \in Nat
      <4> HIDE DEF after, m, l
      <4> QED BY <1>1, <2>2
    <3> HIDE DEF after, m
    <3> QED BY <2>1, <2>2, <3>1, <1>a
  <2> DEFINE end == Least(l, MaxPendingWrites)
             next == SubSeq(q, m + 1, end)
  <2>4. (IF last <= l THEN last ELSE l) = end /\ end \in Nat /\ m <= end /\ end <= l
    <3> HIDE DEF first, m, l
    <3> QED BY <2>3, <1>a, <1>4, Lengths DEF Least
  <2>5. NextBatches(c, q) = next
    <3>1. after # {}
      BY <2>1
    <3> HIDE DEF after, first, last, m, l, end
    <3> QED BY <3>1, <1>2, <2>3, <2>4
  <2> HIDE DEF end
  <2>6. /\ next \in Seq(Batch) /\ Len(next) = end - m
        /\ \A k \in 1 .. end - m : next[k] = q[m + k]
    <3>1. \A k \in m + 1 .. end : q[k] \in Batch
      BY <1>a, <1>c, <2>4
    <3>2. /\ SubSeq(q, m + 1, end) \in Seq(Batch)
          /\ Len(SubSeq(q, m + 1, end)) = IF m + 1 <= end THEN end - (m + 1) + 1 ELSE 0
          /\ \A k \in 1 .. end - (m + 1) + 1 : SubSeq(q, m + 1, end)[k] = q[m + 1 + k - 1]
      <4> HIDE DEF m
      <4> QED BY <1>a, <2>4, <3>1, SubSeqProperties
    <3> HIDE DEF m
    <3> QED BY <1>a, <2>4, <3>2
  <2> HIDE DEF next
  <2>7. /\ p \o next \in Seq(Batch) /\ Len(p \o next) = end
        /\ \A k \in 1 .. end : (p \o next)[k] = q[k]
    <3>1. /\ p \o next \in Seq(Batch) /\ Len(p \o next) = m + Len(next)
          /\ \A k \in 1 .. m + Len(next) :
               (p \o next)[k] = IF k <= m THEN p[k] ELSE next[k - m]
      <4>1. p \in Seq(Batch) /\ next \in Seq(Batch)
        BY <1>a, <2>6
      <4> HIDE DEF p
      <4> QED BY <4>1, ConcatProperties
    <3> HIDE DEF m, p
    <3>2. m + Len(next) = end
      BY <1>a, <2>4, <2>6
    <3>3. ASSUME NEW k \in 1 .. end PROVE (p \o next)[k] = q[k]
      <4>1. (p \o next)[k] = IF k <= m THEN p[k] ELSE next[k - m]
        BY <3>1, <3>2
      <4>2. CASE k <= m
        BY <4>1, <4>2, <1>a, <1>b, <2>4
      <4>3. CASE k > m
        <5>1. k - m \in 1 .. end - m /\ m + (k - m) = k
          BY <4>3, <1>a, <2>4
        <5> QED BY <4>1, <4>3, <5>1, <2>6, <1>a
      <4>4. k <= m \/ k > m
        BY <1>a, <2>4
      <4> QED BY <4>2, <4>3, <4>4
    <3> QED BY <3>1, <3>2, <3>3
  <2>8. p \o next = FrontOf(q)
    <3>1. Starts(p \o next, q)
      BY <2>4, <2>7 DEF Starts
    <3> QED BY <3>1, <2>7, IsFront DEF end
  <2> QED BY <2>5, <2>6, <2>8
<1> QED BY <1>3, <1>4, <1>a

(* The write that is removed is the first one: its name is at no other     *)
(* place of the queue.                                                     *)
LEMMA RemovesHead ==
  ASSUME NEW q \in Seq(Batch), q # <<>>, NEW u, NEW n, Ordered(q, u, n)
  PROVE  RemoveBatch(q, Head(q)) = Tail(q)
<1> DEFINE l == Len(q)
           k == CHOOSE k \in DOMAIN q : q[k] = Head(q)
<1>1. l \in Nat /\ l >= 1 /\ Head(q) = q[1] /\ DOMAIN q = 1 .. l
  <2>1. l # 0
    BY EmptySeq
  <2> QED BY <2>1, Lengths
<1>2. \A j \in 1 .. l : q[j] \in Batch /\ q[j].number \in Nat
  <2>1. \A j \in 1 .. l : q[j] \in Batch
    BY ElementOfSeq
  <2>2. \A b \in Batch : b.number \in Nat
    BY BoundsAssumption DEF Batch
  <2> QED BY <2>1, <2>2
<1>3. k = 1
  <2>1. 1 \in DOMAIN q /\ q[1] = Head(q)
    BY <1>1
  <2>2. k \in DOMAIN q /\ q[k] = Head(q)
    BY <2>1
  <2> HIDE DEF k
  <2> SUFFICES ASSUME k # 1 PROVE FALSE
    OBVIOUS
  <2>3. 1 < k
    <3> HIDE DEF l
    <3> QED BY <1>1, <2>2
  <2>4. q[1].number < q[k].number
    BY <2>1, <2>2, <2>3 DEF Ordered
  <2> HIDE DEF l
  <2> QED BY <1>1, <1>2, <2>2, <2>4
<1>4. RemoveBatch(q, Head(q)) = SubSeq(q, 1, 1 - 1) \o SubSeq(q, 1 + 1, l)
  <2> HIDE DEF k
  <2>1. RemoveBatch(q, Head(q)) = RemoveAt(q, k)
    BY DEF RemoveBatch, k
  <2> QED BY <2>1, <1>3 DEF RemoveAt
<1>5. SubSeq(q, 1, 1 - 1) = <<>>
  BY SubSeqEmpty
<1>6. SubSeq(q, 1 + 1, l) = Tail(q)
  <2>1. Tail(q) = SubSeq(q, 2, l)
    BY TailIsSubSeq
  <2> QED BY <2>1
<1>7. Tail(q) \in Seq(Batch)
  BY HeadTailProperties
<1>8. <<>> \o Tail(q) = Tail(q)
  BY <1>7, ConcatEmptySeq
<1> QED BY <1>4, <1>5, <1>6, <1>8

(* A queue keeps its order when its first write leaves it.                 *)
LEMMA TailOrdered ==
  ASSUME NEW q \in Seq(Batch), q # <<>>, NEW u, NEW n, Ordered(q, u, n)
  PROVE  /\ Tail(q) \in Seq(Batch) /\ Len(Tail(q)) = Len(q) - 1 /\ Len(q) >= 1
         /\ Head(q) = q[1]
         /\ \A k \in 1 .. Len(Tail(q)) : Tail(q)[k] = q[k + 1]
         /\ Ordered(Tail(q), u, n)
         /\ \A k \in DOMAIN Tail(q) : Tail(q)[k] # Head(q)
<1> DEFINE l == Len(q)
           t == Tail(q)
<1>1. l \in Nat /\ l >= 1 /\ Head(q) = q[1] /\ DOMAIN q = 1 .. l
  <2>1. l # 0
    BY EmptySeq
  <2> QED BY <2>1, Lengths
<1>2. /\ t \in Seq(Batch) /\ Len(t) = l - 1 /\ DOMAIN t = 1 .. l - 1
      /\ \A k \in 1 .. l - 1 : t[k] = q[k + 1]
  <2>1. t \in Seq(Batch) /\ Len(t) = l - 1 /\ \A k \in 1 .. Len(t) : t[k] = q[k + 1]
    BY HeadTailProperties
  <2>2. DOMAIN t = 1 .. Len(t)
    BY <2>1, Lengths
  <2> HIDE DEF t, l
  <2> QED BY <2>1, <2>2
<1>3. \A j \in 1 .. l : q[j] \in Batch /\ q[j].number \in Nat
  <2>1. \A j \in 1 .. l : q[j] \in Batch
    BY ElementOfSeq
  <2>2. \A b \in Batch : b.number \in Nat
    BY BoundsAssumption DEF Batch
  <2> QED BY <2>1, <2>2
<1>4. /\ \A k \in 1 .. l : q[k].user = u /\ q[k].number <= n
      /\ \A j \in 1 .. l : \A k \in 1 .. l : j < k => q[j].number < q[k].number
  BY <1>1 DEF Ordered
<1> HIDE DEF t, l
<1>5. \A k \in 1 .. l - 1 : k \in Nat /\ k + 1 \in 1 .. l /\ 1 < k + 1
  BY <1>1
<1>6. Ordered(t, u, n)
  <2>1. \A k \in 1 .. l - 1 : t[k].user = u /\ t[k].number <= n
    BY <1>2, <1>4, <1>5
  <2>2. ASSUME NEW j \in 1 .. l - 1, NEW k \in 1 .. l - 1, j < k
        PROVE  t[j].number < t[k].number
    <3>1. j + 1 < k + 1
      BY <2>2, <1>5
    <3> QED BY <3>1, <1>2, <1>4, <1>5
  <2> QED BY <1>2, <2>1, <2>2 DEF Ordered
<1>7. \A k \in 1 .. l - 1 : t[k] # q[1]
  <2> SUFFICES ASSUME NEW k \in 1 .. l - 1 PROVE t[k] # q[1]
    OBVIOUS
  <2>1. q[1].number < q[k + 1].number /\ 1 \in 1 .. l
    BY <1>1, <1>4, <1>5
  <2> QED BY <2>1, <1>2, <1>3, <1>5
<1> QED BY <1>1, <1>2, <1>6, <1>7 DEF t, l

(* The pipeline without its first write starts the rest of the queue.      *)
LEMMA TailStarts ==
  ASSUME NEW p \in Seq(Batch), NEW q \in Seq(Batch), p # <<>>, Starts(p, q)
  PROVE  /\ q # <<>> /\ Head(p) = Head(q)
         /\ Tail(p) \in Seq(Batch) /\ Starts(Tail(p), Tail(q))
         /\ Len(Tail(p)) <= Len(p)
<1>1. Len(p) \in Nat /\ Len(q) \in Nat /\ Len(p) >= 1 /\ Len(p) <= Len(q)
  <2>1. Len(p) # 0
    BY EmptySeq
  <2> QED BY <2>1, Lengths DEF Starts
<1>2. q # <<>>
  <2>1. Len(q) # 0
    BY <1>1
  <2> QED BY <2>1, EmptySeq
<1>3. Head(p) = p[1] /\ Head(q) = q[1] /\ p[1] = q[1]
  BY <1>1, <1>2 DEF Starts
<1>4. /\ Tail(p) \in Seq(Batch) /\ Len(Tail(p)) = Len(p) - 1
      /\ \A k \in 1 .. Len(Tail(p)) : Tail(p)[k] = p[k + 1]
  BY HeadTailProperties
<1>5. Len(Tail(q)) = Len(q) - 1 /\ \A k \in 1 .. Len(Tail(q)) : Tail(q)[k] = q[k + 1]
  BY <1>2, HeadTailProperties
<1>6. ASSUME NEW k \in 1 .. Len(Tail(p)) PROVE Tail(p)[k] = Tail(q)[k]
  <2>1. k \in Nat /\ k + 1 \in 1 .. Len(p) /\ k \in 1 .. Len(Tail(q))
    BY <1>1, <1>4, <1>5
  <2> QED BY <2>1, <1>4, <1>5 DEF Starts
<1>7. Starts(Tail(p), Tail(q))
  BY <1>1, <1>4, <1>5, <1>6 DEF Starts
<1> QED BY <1>1, <1>2, <1>3, <1>4, <1>7

(* A new write has a number no other has.                                  *)
LEMMA AppendOrdered ==
  ASSUME NEW q \in Seq(Batch), NEW u, NEW n \in Nat, Ordered(q, u, n),
         NEW b \in Batch, b.user = u, b.number = n + 1
  PROVE  /\ Append(q, b) \in Seq(Batch) /\ Len(Append(q, b)) = Len(q) + 1
         /\ \A k \in 1 .. Len(q) : Append(q, b)[k] = q[k]
         /\ Append(q, b)[Len(q) + 1] = b
         /\ Ordered(Append(q, b), u, n + 1)
         /\ \A p \in Seq(Batch) : Starts(p, q) => Starts(p, Append(q, b))
<1> DEFINE l == Len(q)
           a == Append(q, b)
<1>1. /\ a \in Seq(Batch) /\ Len(a) = l + 1 /\ DOMAIN a = 1 .. l + 1 /\ l \in Nat
      /\ \A k \in 1 .. l : a[k] = q[k]
      /\ a[l + 1] = b
  <2>1. /\ a \in Seq(Batch) /\ Len(a) = l + 1 /\ a[l + 1] = b
        /\ \A k \in 1 .. l : a[k] = q[k]
    BY AppendProperties
  <2>2. DOMAIN a = 1 .. Len(a) /\ l \in Nat
    BY <2>1, Lengths
  <2> HIDE DEF a, l
  <2> QED BY <2>1, <2>2
<1>2. \A j \in 1 .. l : q[j].number \in Nat
  <2>1. \A j \in 1 .. l : q[j] \in Batch
    BY ElementOfSeq
  <2>2. \A c \in Batch : c.number \in Nat
    BY BoundsAssumption DEF Batch
  <2> QED BY <2>1, <2>2
<1>3. /\ \A k \in 1 .. l : q[k].user = u /\ q[k].number <= n
      /\ \A j \in 1 .. l : \A k \in 1 .. l : j < k => q[j].number < q[k].number
  BY Lengths DEF Ordered
<1> HIDE DEF l, a
<1>4. \A k \in 1 .. l + 1 : k \in 1 .. l \/ k = l + 1
  BY <1>1
<1>5. \A k \in 1 .. l + 1 : a[k].user = u /\ a[k].number <= n + 1
  BY <1>1, <1>2, <1>3, <1>4
<1>6. ASSUME NEW j \in 1 .. l + 1, NEW k \in 1 .. l + 1, j < k
      PROVE  a[j].number < a[k].number
  <2>1. j \in 1 .. l
    BY <1>1, <1>6
  <2>2. CASE k \in 1 .. l
    BY <2>1, <2>2, <1>1, <1>3, <1>6
  <2>3. CASE k = l + 1
    BY <2>1, <2>3, <1>1, <1>2, <1>3
  <2> QED BY <1>4, <2>2, <2>3
<1>7. Ordered(a, u, n + 1)
  BY <1>1, <1>5, <1>6 DEF Ordered
<1>8. \A p \in Seq(Batch) : Starts(p, q) => Starts(p, a)
  <2> SUFFICES ASSUME NEW p \in Seq(Batch), Starts(p, q) PROVE Starts(p, a)
    OBVIOUS
  <2>1. Len(p) \in Nat /\ Len(p) <= l
    BY Lengths DEF Starts, l
  <2>2. \A k \in 1 .. Len(p) : k \in 1 .. l
    BY <2>1, <1>1
  <2> QED BY <2>1, <2>2, <1>1 DEF Starts
<1> QED BY <1>1, <1>7, <1>8 DEF l, a

-----------------------------------------------------------------------------
(* The operations of the stream.                                           *)

(* The fields of a client, and what replaces them.                         *)
LEMMA ClientFields ==
  ASSUME NEW c \in Client
  PROVE  /\ c.stream \in Stream
         /\ c.state \in {"initial", "auth", "open", "error", "backoff"}
         /\ c.handshakeComplete \in BOOLEAN /\ c.delegate \in BOOLEAN
         /\ c.idle \in BOOLEAN /\ c.pipeline \in Seq(Batch)
         /\ c.getToken \in BOOLEAN /\ c.written \in Seq(Batch) /\ c.asserts \in BOOLEAN
BY DEF Client

(* Starting the stream: it waits for a token, or backs off after an error. *)
LEMMA StartSound ==
  ASSUME NEW c \in Client, StreamSound(c), ~IsStarted(c), c.pipeline # <<>>,
         ~c.getToken
  PROVE  LET f == StartWithDelegate(c)
         IN  /\ f \in Client /\ StreamSound(f) /\ IsStarted(f)
             /\ f.stream = c.stream /\ f.pipeline = c.pipeline /\ f.written = c.written
             /\ f.state = IF c.state = "error" THEN "backoff" ELSE "auth"
             /\ f.getToken <=> f.state = "auth"
             /\ ~f.handshakeComplete /\ f.idle = c.idle /\ ~c.idle
<1> DEFINE f == StartWithDelegate(c)
<1>1. c.state \in {"initial", "error"} /\ ~c.delegate /\ ~c.idle /\ c.asserts
  BY ClientFields DEF StreamSound, IsStarted
<1>2. CASE c.state = "error"
  <2>1. f = [c EXCEPT !.handshakeComplete = FALSE, !.state = "backoff"]
    BY <1>2 DEF StartWithDelegate, ForgetHandshake, Client
  <2>2. f \in Client
    BY <2>1 DEF Client
  <2>3. /\ f.stream = c.stream /\ f.state = "backoff" /\ ~f.handshakeComplete
        /\ f.delegate = c.delegate /\ f.idle = c.idle /\ f.pipeline = c.pipeline
        /\ f.getToken = c.getToken /\ f.written = c.written /\ f.asserts = c.asserts
    BY <2>1 DEF Client
  <2> HIDE DEF f
  <2>4. StreamSound(f) /\ IsStarted(f)
    BY <1>1, <2>3 DEF StreamSound, IsStarted
  <2> QED BY <1>1, <1>2, <2>2, <2>3, <2>4 DEF f
<1>3. CASE c.state = "initial"
  <2>1. f = [c EXCEPT !.handshakeComplete = FALSE,
                      !.asserts = @ /\ c.state = "initial" /\ ~c.delegate,
                      !.state = "auth", !.delegate = TRUE, !.getToken = TRUE]
    BY <1>3 DEF StartWithDelegate, ForgetHandshake, HardAssert, Client
  <2>2. f \in Client
    BY <2>1 DEF Client
  <2>3. /\ f.stream = c.stream /\ f.state = "auth" /\ ~f.handshakeComplete
        /\ f.delegate /\ f.idle = c.idle /\ f.pipeline = c.pipeline
        /\ f.getToken /\ f.written = c.written
        /\ f.asserts = (c.asserts /\ c.state = "initial" /\ ~c.delegate)
    BY <2>1 DEF Client
  <2> HIDE DEF f
  <2>4. StreamSound(f) /\ IsStarted(f)
    BY <1>1, <1>3, <2>3 DEF StreamSound, IsStarted
  <2> QED BY <1>1, <1>3, <2>2, <2>3, <2>4 DEF f
<1> QED BY <1>1, <1>2, <1>3

(* Writing on an open call after its handshake.                            *)
LEMMA WriteSound ==
  ASSUME NEW c \in Client, StreamSound(c), c.state = "open", c.handshakeComplete,
         c.written = <<>>, NEW batches \in Seq(Batch), c.pipeline # <<>>
  PROVE  LET f == WriteMutations(c, batches)
         IN  /\ f \in Client /\ StreamSound(f)
             /\ f.stream = c.stream /\ f.pipeline = c.pipeline /\ f.written = batches
             /\ f.state = "open" /\ f.handshakeComplete /\ f.getToken = c.getToken
<1> DEFINE f == WriteMutations(c, batches)
<1>1. f = [c EXCEPT !.asserts = @ /\ c.state = "open" /\ c.handshakeComplete,
                    !.idle = FALSE, !.written = @ \o batches]
  BY DEF WriteMutations, HardAssert, IsOpen, Client
<1>2. c.written \o batches = batches
  BY ConcatEmptySeq
<1>3. f = [c EXCEPT !.asserts = @ /\ c.state = "open" /\ c.handshakeComplete,
                    !.idle = FALSE, !.written = batches]
  BY <1>1, <1>2
<1>4. f \in Client
  BY <1>3 DEF Client
<1>5. /\ f.stream = c.stream /\ f.state = "open" /\ f.handshakeComplete
      /\ f.delegate = c.delegate /\ f.idle = FALSE /\ f.pipeline = c.pipeline
      /\ f.getToken = c.getToken /\ f.written = batches
      /\ f.asserts = (c.asserts /\ c.state = "open" /\ c.handshakeComplete)
  BY <1>3 DEF Client
<1> HIDE DEF f
<1>6. StreamSound(f)
  BY <1>5 DEF StreamSound, IsStarted
<1> QED BY <1>4, <1>5, <1>6 DEF f

(* fillWritePipeline, from any state the stream can be in when it is       *)
(* called: the pipeline becomes the front of the queue, what is new is     *)
(* written if the call is ready for it, and a stream with something to     *)
(* write is on its way.                                                    *)
LEMMA FillSound ==
  ASSUME NEW c \in Client, StreamSound(c), ~c.getToken, c.written = <<>>,
         NEW q \in Seq(Batch), NEW u, NEW n, Ordered(q, u, n),
         Starts(c.pipeline, q), Len(c.pipeline) <= MaxPendingWrites
  PROVE  LET f == FillWritePipeline(c, q)
         IN  /\ f \in Client /\ StreamSound(f) /\ f.stream = c.stream
             /\ f.pipeline = FrontOf(q)
             /\ f.pipeline # <<>> => IsStarted(f)
             /\ f.getToken <=> f.state = "auth" /\ c.state # "auth"
             /\ IsStarted(c) => /\ f.state = c.state
                                /\ f.handshakeComplete = c.handshakeComplete
             /\ ~IsStarted(c) => f.state # "open"
             /\ f.written \in Seq(Batch)
             /\ IF c.state = "open" /\ c.handshakeComplete
                THEN c.pipeline \o f.written = f.pipeline
                ELSE f.written = <<>>
<1> DEFINE added == NextBatches(c, q)
           d == [c EXCEPT !.pipeline = @ \o added]
           f == FillWritePipeline(c, q)
<1>1. added \in Seq(Batch) /\ c.pipeline \o added = FrontOf(q)
  BY NextFills
<1>2. FrontOf(q) \in Seq(Batch) /\ c.pipeline \in Seq(Batch) /\ c.pipeline \o <<>> = c.pipeline
  BY FrontProperties, ClientFields, ConcatEmptySeq
<1> HIDE DEF added
<1>3. d = [c EXCEPT !.pipeline = FrontOf(q)]
  BY <1>1
<1>4. /\ d \in Client /\ d.pipeline = FrontOf(q)
      /\ d.stream = c.stream /\ d.state = c.state /\ d.delegate = c.delegate
      /\ d.handshakeComplete = c.handshakeComplete /\ d.idle = c.idle
      /\ d.getToken = c.getToken /\ d.written = c.written /\ d.asserts = c.asserts
  BY <1>2, <1>3 DEF Client
<1>5. f = IF d.pipeline = <<>> THEN MarkIdle(d)
          ELSE IF ~IsStarted(d) THEN StartWithDelegate(d)
          ELSE IF added # <<>> /\ d.handshakeComplete THEN WriteMutations(d, added)
          ELSE d
  BY DEF FillWritePipeline, added
<1>6. IsStarted(d) <=> IsStarted(c)
  BY <1>4 DEF IsStarted
<1> HIDE DEF d, f
<1>7. c.pipeline # <<>> => d.pipeline # <<>>
  <2>1. c.pipeline # <<>> => Len(c.pipeline) # 0 /\ Len(c.pipeline) \in Nat
    BY <1>2, EmptySeq, Lengths
  <2>2. Len(c.pipeline \o added) = Len(c.pipeline) + Len(added) /\ Len(added) \in Nat
    BY <1>1, <1>2, ConcatProperties, Lengths
  <2>3. c.pipeline # <<>> => Len(FrontOf(q)) # 0
    BY <1>1, <2>1, <2>2
  <2> QED BY <1>4, <2>3, EmptySeq
<1>8. CASE d.pipeline = <<>>
  <2>1. c.pipeline = <<>> /\ FrontOf(q) = <<>>
    BY <1>4, <1>7, <1>8
  <2>2. f = [d EXCEPT !.idle = d.idle \/ d.state = "open"]
    BY <1>4, <1>5, <1>8 DEF MarkIdle, IsOpen, Client
  <2>3. f \in Client
    BY <1>4, <2>2 DEF Client
  <2>4. /\ f.stream = d.stream /\ f.state = d.state /\ f.delegate = d.delegate
        /\ f.handshakeComplete = d.handshakeComplete
        /\ f.idle = (d.idle \/ d.state = "open") /\ f.pipeline = d.pipeline
        /\ f.getToken = d.getToken /\ f.written = d.written /\ f.asserts = d.asserts
    BY <1>4, <2>2 DEF Client
  <2>5. StreamSound(f)
    BY <1>4, <2>1, <2>4 DEF StreamSound, IsStarted
  <2>6. c.pipeline \o f.written = f.pipeline
    BY <1>2, <1>4, <2>1, <2>4
  <2>7. f.written \in Seq(Batch)
    BY <2>3, ClientFields
  <2>8. c.state # "auth"
    BY <2>1 DEF StreamSound, IsStarted
  <2>9. ~IsStarted(c) => f.state # "open"
    BY <1>4, <2>4 DEF IsStarted
  <2> QED BY <1>4, <1>8, <2>3, <2>4, <2>5, <2>6, <2>7, <2>8, <2>9 DEF f, IsStarted
<1>9. CASE d.pipeline # <<>> /\ ~IsStarted(d)
  <2>1. StreamSound(d)
    BY <1>4, <1>9 DEF StreamSound, IsStarted
  <2>2. f = StartWithDelegate(d)
    BY <1>5, <1>9
  <2>3. /\ f \in Client /\ StreamSound(f) /\ IsStarted(f)
        /\ f.stream = d.stream /\ f.pipeline = d.pipeline /\ f.written = d.written
        /\ f.state = IF d.state = "error" THEN "backoff" ELSE "auth"
        /\ f.getToken <=> f.state = "auth"
    BY <1>4, <1>9, <2>1, <2>2, StartSound
  <2>4. c.state # "auth" /\ c.state # "open" /\ f.state # "open"
    BY <1>6, <1>9, <2>3 DEF IsStarted
  <2> QED BY <1>4, <1>6, <1>9, <2>3, <2>4, EmptySeq DEF f
<1>10. CASE d.pipeline # <<>> /\ IsStarted(d) /\ added # <<>> /\ d.handshakeComplete
  <2>1. c.state = "open"
    BY <1>4, <1>10 DEF StreamSound, IsStarted
  <2> DEFINE e == [d EXCEPT !.idle = FALSE]
  <2>2. /\ e \in Client /\ e.pipeline = d.pipeline /\ e.idle = FALSE
        /\ e.stream = d.stream /\ e.state = d.state /\ e.delegate = d.delegate
        /\ e.handshakeComplete = d.handshakeComplete
        /\ e.getToken = d.getToken /\ e.written = d.written /\ e.asserts = d.asserts
    BY <1>4 DEF Client
  <2>3. WriteMutations(e, added) = WriteMutations(d, added)
    BY <1>4 DEF WriteMutations, HardAssert, IsOpen, Client
  <2> HIDE DEF e
  <2>4. StreamSound(e)
    BY <1>4, <1>10, <2>1, <2>2 DEF StreamSound, IsStarted
  <2>5. f = WriteMutations(e, added)
    BY <1>5, <1>10, <2>3
  <2>6. /\ f \in Client /\ StreamSound(f)
        /\ f.stream = e.stream /\ f.pipeline = e.pipeline /\ f.written = added
        /\ f.state = "open" /\ f.handshakeComplete /\ f.getToken = e.getToken
    BY <1>1, <1>4, <1>10, <2>1, <2>2, <2>4, <2>5, WriteSound
  <2> QED BY <1>1, <1>4, <1>10, <2>1, <2>2, <2>6 DEF f, IsStarted
<1>11. CASE d.pipeline # <<>> /\ IsStarted(d) /\ ~(added # <<>> /\ d.handshakeComplete)
  <2>1. f = d
    BY <1>5, <1>11
  <2>2. ~c.idle
    <3> SUFFICES ASSUME c.idle PROVE FALSE
      OBVIOUS
    <3>1. c.handshakeComplete /\ c.pipeline = <<>>
      BY DEF StreamSound
    <3>2. added = <<>>
      BY <1>4, <1>11, <3>1
    <3> QED BY <1>1, <1>2, <1>4, <1>11, <3>1, <3>2
  <2>3. StreamSound(f)
    BY <1>4, <1>11, <2>1, <2>2 DEF StreamSound, IsStarted
  <2>4. c.state = "open" /\ c.handshakeComplete => c.pipeline \o f.written = f.pipeline
    BY <1>1, <1>4, <1>11, <2>1
  <2>5. ~IsStarted(c) => f.state # "open"
    BY <1>6, <1>11
  <2> QED BY <1>4, <1>6, <1>11, <2>1, <2>3, <2>4, <2>5, EmptySeq DEF f
<1> QED BY <1>8, <1>9, <1>10, <1>11

-----------------------------------------------------------------------------
(* The queues between the services.                                        *)
Message == Change \cup Token

(* The fields a message has.                                               *)
LEMMA MessageFields ==
  ASSUME NEW x \in Message
  PROVE  /\ x.kind \in {"changed", "token"} /\ x.user \in User
         /\ x.kind = "changed" => x \in Change
         /\ x.kind = "token" => x \in Token /\ x.request \in TokenRequest
BY DEF Message, Change, Token

(* A queue of messages, one message longer.                                *)
LEMMA Longer ==
  ASSUME NEW q \in Seq(Message), NEW x \in Message
  PROVE  LET a == Append(q, x)
         IN  /\ a \in Seq(Message) /\ a # <<>> /\ DOMAIN a = 1 .. Len(q) + 1
             /\ DOMAIN q = 1 .. Len(q) /\ Len(q) \in Nat /\ Len(a) = Len(q) + 1
             /\ \A k \in DOMAIN q : a[k] = q[k]
             /\ a[Len(q) + 1] = x
             /\ \A k \in DOMAIN a : k \in DOMAIN q \/ k = Len(q) + 1
<1> DEFINE a == Append(q, x)
           l == Len(q)
<1>1. /\ a \in Seq(Message) /\ a # <<>> /\ Len(a) = l + 1 /\ a[l + 1] = x
      /\ \A k \in 1 .. l : a[k] = q[k]
  BY AppendProperties
<1>2. DOMAIN a = 1 .. Len(a) /\ l \in Nat /\ DOMAIN q = 1 .. l
  BY <1>1, Lengths
<1> HIDE DEF a, l
<1>3. \A k \in 1 .. l + 1 : k \in 1 .. l \/ k = l + 1
  BY <1>2
<1> QED BY <1>1, <1>2, <1>3 DEF a, l

(* A queue of messages, one message shorter.                               *)
LEMMA Shorter ==
  ASSUME NEW q \in Seq(Message), q # <<>>
  PROVE  LET t == Tail(q)
         IN  /\ t \in Seq(Message) /\ DOMAIN t = 1 .. Len(q) - 1 /\ Len(t) = Len(q) - 1
             /\ DOMAIN q = 1 .. Len(q) /\ Len(q) \in Nat /\ Len(q) >= 1
             /\ Head(q) = q[1] /\ Head(q) \in Message
             /\ \A k \in DOMAIN t : k \in Nat /\ k + 1 \in DOMAIN q /\ t[k] = q[k + 1]
             /\ \A k \in DOMAIN q : k = 1 \/ k - 1 \in DOMAIN t
<1> DEFINE t == Tail(q)
           l == Len(q)
<1>1. /\ Head(q) \in Message /\ t \in Seq(Message) /\ Len(t) = l - 1
      /\ \A k \in 1 .. Len(t) : t[k] = q[k + 1]
  BY HeadTailProperties
<1>2. DOMAIN t = 1 .. Len(t) /\ l \in Nat /\ DOMAIN q = 1 .. l
  BY <1>1, Lengths
<1>3. l >= 1 /\ Head(q) = q[1]
  <2>1. l # 0
    BY EmptySeq
  <2> QED BY <2>1, <1>2
<1> HIDE DEF t, l
<1>4. /\ \A k \in 1 .. l - 1 : k \in Nat /\ k + 1 \in 1 .. l
      /\ \A k \in 1 .. l : k = 1 \/ k - 1 \in 1 .. l - 1
  BY <1>2
<1> QED BY <1>1, <1>2, <1>3, <1>4 DEF t, l

(* Appending adds to the tokens of a queue, ...                            *)
LEMMA TokensAppend ==
  ASSUME NEW q \in Seq(Message), NEW x \in Message, NEW s
  PROVE  /\ TokensFor(Append(q, x), s) =
              TokensFor(q, s) \cup (IF x.kind = "token" /\ x.request.stream = s
                                    THEN {Len(q) + 1} ELSE {})
         /\ TokensUntil(Append(q, x), s) <=>
              /\ TokensUntil(q, s)
              /\ x.kind = "token" => x.request.stream <= s
<1> DEFINE a == Append(q, x)
<1>1. /\ DOMAIN a = 1 .. Len(q) + 1 /\ DOMAIN q = 1 .. Len(q) /\ Len(q) \in Nat
      /\ \A k \in DOMAIN q : a[k] = q[k]
      /\ a[Len(q) + 1] = x
      /\ \A k \in DOMAIN a : k \in DOMAIN q \/ k = Len(q) + 1
  BY Longer
<1> HIDE DEF a
<1>2. Len(q) + 1 \in DOMAIN a /\ \A k \in DOMAIN q : k \in DOMAIN a
  BY <1>1
<1>3. TokensFor(a, s) = TokensFor(q, s) \cup (IF x.kind = "token" /\ x.request.stream = s
                                              THEN {Len(q) + 1} ELSE {})
  BY <1>1, <1>2 DEF TokensFor
<1>4. TokensUntil(a, s) <=> /\ TokensUntil(q, s)
                            /\ x.kind = "token" => x.request.stream <= s
  BY <1>1, <1>2 DEF TokensUntil
<1> QED BY <1>3, <1>4 DEF a

(* ... and taking the head away removes from them.                         *)
LEMMA TokensTail ==
  ASSUME NEW q \in Seq(Message), q # <<>>, NEW s, TokensUntil(q, s),
         AtMostOne(TokensFor(q, s))
  PROVE  /\ TokensUntil(Tail(q), s) /\ AtMostOne(TokensFor(Tail(q), s))
         /\ TokensFor(q, s) = {} => TokensFor(Tail(q), s) = {}
         /\ Head(q).kind = "token" => Head(q).request.stream <= s
         /\ Head(q).kind = "token" /\ Head(q).request.stream = s =>
              TokensFor(q, s) # {} /\ TokensFor(Tail(q), s) = {}
<1> DEFINE t == Tail(q)
<1>1. /\ DOMAIN t = 1 .. Len(q) - 1 /\ DOMAIN q = 1 .. Len(q) /\ Len(q) \in Nat
      /\ Len(q) >= 1 /\ Head(q) = q[1]
      /\ \A k \in DOMAIN t : k \in Nat /\ k + 1 \in DOMAIN q /\ t[k] = q[k + 1]
  BY Shorter
<1> HIDE DEF t
<1>2. 1 \in DOMAIN q
  BY <1>1
<1>3. \A k \in TokensFor(t, s) : k \in Nat /\ k # 0 /\ k + 1 \in TokensFor(q, s)
  <2>1. \A k \in DOMAIN t : k # 0
    BY <1>1
  <2> QED BY <1>1, <2>1 DEF TokensFor
<1>4. TokensUntil(t, s)
  BY <1>1 DEF TokensUntil
<1>5. AtMostOne(TokensFor(t, s))
  <2> SUFFICES ASSUME NEW j \in TokensFor(t, s), NEW k \in TokensFor(t, s) PROVE j = k
    BY DEF AtMostOne
  <2>1. j + 1 = k + 1
    BY <1>3 DEF AtMostOne
  <2> QED BY <1>3, <2>1
<1>6. Head(q).kind = "token" => Head(q).request.stream <= s
  BY <1>1, <1>2 DEF TokensUntil
<1>7. ASSUME Head(q).kind = "token", Head(q).request.stream = s
      PROVE  TokensFor(q, s) # {} /\ TokensFor(t, s) = {}
  <2>1. 1 \in TokensFor(q, s)
    BY <1>1, <1>2, <1>7 DEF TokensFor
  <2>2. ASSUME NEW k \in TokensFor(t, s) PROVE FALSE
    <3>1. k + 1 = 1
      BY <1>3, <2>1 DEF AtMostOne
    <3> QED BY <1>3, <3>1
  <2> QED BY <2>1, <2>2
<1>8. TokensFor(q, s) = {} => TokensFor(t, s) = {}
  BY <1>3
<1> QED BY <1>4, <1>5, <1>6, <1>7, <1>8 DEF t

(* How the tokens move: one is asked for, ...                              *)
LEMMA TokenAsked ==
  ASSUME NEW a, NEW m, NEW w, NEW s \in Nat, TokensSound(a, m, w, s, FALSE),
         NEW r, r.stream = s
  PROVE  TokensSound(a \cup {r}, m, w, s, TRUE)
<1>1. AskedFor(a, s) = {} /\ AskedFor(a \cup {r}, s) = {r}
  BY DEF TokensSound, AskedFor
<1>2. AtMostOne(AskedFor(a \cup {r}, s))
  BY <1>1 DEF AtMostOne
<1>3. \A x \in a \cup {r} : x.stream <= s
  BY DEF TokensSound
<1> QED BY <1>1, <1>2, <1>3 DEF TokensSound

(* ... a stream may wait although none is on its way, ...                  *)
LEMMA TokensWeaker ==
  ASSUME NEW a, NEW m, NEW w, NEW s, NEW b \in BOOLEAN, NEW c \in BOOLEAN,
         TokensSound(a, m, w, s, b), b => c
  PROVE  TokensSound(a, m, w, s, c)
BY DEF TokensSound

(* ... none is for a stream that has not been there yet, ...               *)
LEMMA TokensNext ==
  ASSUME NEW a \in SUBSET TokenRequest, NEW m \in Seq(Message), NEW w \in Seq(Message),
         NEW s \in Nat, NEW b \in BOOLEAN, TokensSound(a, m, w, s, b)
  PROVE  TokensSound(a, m, w, s + 1, FALSE)
<1>1. \A r \in TokenRequest : r.stream \in Nat
  BY BoundsAssumption DEF TokenRequest, Stream
<1>2. \A r \in a : r.stream <= s + 1 /\ r.stream # s + 1
  BY <1>1 DEF TokensSound
<1>3. ASSUME NEW q \in Seq(Message), TokensUntil(q, s)
      PROVE  TokensUntil(q, s + 1) /\ TokensFor(q, s + 1) = {}
  <2>1. \A k \in DOMAIN q : q[k] \in Message
    BY ElementOfSeq, Lengths
  <2>2. \A k \in DOMAIN q : q[k].kind = "token" => q[k].request.stream \in Nat
    BY <1>1, <2>1, MessageFields
  <2>3. \A k \in DOMAIN q : q[k].kind = "token" =>
          q[k].request.stream <= s + 1 /\ q[k].request.stream # s + 1
    BY <1>3, <2>2 DEF TokensUntil
  <2> QED BY <2>3 DEF TokensUntil, TokensFor
<1>4. /\ TokensUntil(m, s + 1) /\ TokensFor(m, s + 1) = {}
      /\ TokensUntil(w, s + 1) /\ TokensFor(w, s + 1) = {}
  BY <1>3 DEF TokensSound
<1>5. AskedFor(a, s + 1) = {}
  BY <1>2 DEF AskedFor
<1>6. AtMostOne({})
  BY DEF AtMostOne
<1> QED BY <1>2, <1>4, <1>5, <1>6 DEF TokensSound

(* ... one that is found leaves the service for the main queue, ...        *)
LEMMA TokenFound ==
  ASSUME NEW a, NEW m \in Seq(Message), NEW w, NEW s, NEW b \in BOOLEAN,
         TokensSound(a, m, w, s, b),
         NEW r \in a, NEW x \in Message, x.kind = "token", x.request = r
  PROVE  TokensSound(a \ {r}, Append(m, x), w, s, b)
<1> DEFINE added == IF r.stream = s THEN {Len(m) + 1} ELSE {}
<1>1. /\ TokensFor(Append(m, x), s) = TokensFor(m, s) \cup added
      /\ TokensUntil(Append(m, x), s)
  BY TokensAppend DEF TokensSound
<1>2. AskedFor(a \ {r}, s) = AskedFor(a, s) \ {r}
  BY DEF AskedFor
<1>3. \A y \in a \ {r} : y.stream <= s
  BY DEF TokensSound
<1>4. CASE r.stream = s
  <2>1. r \in AskedFor(a, s)
    BY <1>4 DEF AskedFor
  <2>2. AskedFor(a \ {r}, s) = {} /\ TokensFor(m, s) = {} /\ TokensFor(w, s) = {} /\ b
    BY <1>2, <2>1 DEF TokensSound, AtMostOne
  <2>3. TokensFor(Append(m, x), s) = {Len(m) + 1}
    BY <1>1, <1>4, <2>2
  <2>4. AtMostOne({}) /\ AtMostOne({Len(m) + 1})
    BY DEF AtMostOne
  <2> QED BY <1>1, <1>3, <2>2, <2>3, <2>4 DEF TokensSound
<1>5. CASE r.stream # s
  <2>1. TokensFor(Append(m, x), s) = TokensFor(m, s)
    BY <1>1, <1>5
  <2>2. AskedFor(a \ {r}, s) = AskedFor(a, s)
    BY <1>2, <1>5 DEF AskedFor
  <2> QED BY <1>1, <1>3, <2>1, <2>2 DEF TokensSound
<1> QED BY <1>4, <1>5

(* ... news on the main queue is no token, ...                             *)
LEMMA TokensNews ==
  ASSUME NEW a, NEW m \in Seq(Message), NEW w, NEW s, NEW b \in BOOLEAN,
         TokensSound(a, m, w, s, b), NEW x \in Message, x.kind = "changed"
  PROVE  TokensSound(a, Append(m, x), w, s, b)
<1>1. TokensUntil(m, s)
  BY DEF TokensSound
<1>2. x.kind # "token"
  OBVIOUS
<1>3. TokensFor(Append(m, x), s) = TokensFor(m, s) /\ TokensUntil(Append(m, x), s)
  <2>1. /\ TokensFor(Append(m, x), s) =
             TokensFor(m, s) \cup (IF x.kind = "token" /\ x.request.stream = s
                                   THEN {Len(m) + 1} ELSE {})
        /\ TokensUntil(Append(m, x), s) <=>
             /\ TokensUntil(m, s)
             /\ x.kind = "token" => x.request.stream <= s
    BY TokensAppend
  <2> QED BY <1>1, <1>2, <2>1
<1> QED BY <1>2, <1>3 DEF TokensSound

(* ... a message is passed on with its request, ...                        *)
LEMMA TokensPass ==
  ASSUME NEW a, NEW m \in Seq(Message), m # <<>>, NEW w \in Seq(Message), NEW s,
         NEW b \in BOOLEAN, TokensSound(a, m, w, s, b),
         NEW y \in Message, y.kind = Head(m).kind,
         y.kind = "token" => y.request = Head(m).request
  PROVE  TokensSound(a, Tail(m), Append(w, y), s, b)
<1>1. /\ TokensUntil(Tail(m), s) /\ AtMostOne(TokensFor(Tail(m), s))
      /\ TokensFor(m, s) = {} => TokensFor(Tail(m), s) = {}
      /\ y.kind = "token" => y.request.stream <= s
      /\ y.kind = "token" /\ y.request.stream = s =>
           TokensFor(m, s) # {} /\ TokensFor(Tail(m), s) = {}
  BY TokensTail DEF TokensSound
<1>2. /\ TokensUntil(Append(w, y), s)
      /\ TokensFor(Append(w, y), s) =
           TokensFor(w, s) \cup (IF y.kind = "token" /\ y.request.stream = s
                                 THEN {Len(w) + 1} ELSE {})
  BY <1>1, TokensAppend DEF TokensSound
<1>3. CASE y.kind = "token" /\ y.request.stream = s
  <2>1. /\ TokensFor(m, s) # {} /\ TokensFor(w, s) = {} /\ b
        /\ AskedFor(a, s) = {} /\ TokensFor(Tail(m), s) = {}
    BY <1>1, <1>3 DEF TokensSound
  <2>2. TokensFor(Append(w, y), s) = {Len(w) + 1} /\ AtMostOne({Len(w) + 1})
    BY <1>2, <1>3, <2>1 DEF AtMostOne
  <2> QED BY <1>1, <1>2, <2>1, <2>2 DEF TokensSound
<1>4. CASE ~(y.kind = "token" /\ y.request.stream = s)
  <2>1. TokensFor(Append(w, y), s) = TokensFor(w, s)
    BY <1>2, <1>4
  <2> QED BY <1>1, <1>2, <2>1 DEF TokensSound
<1> QED BY <1>3, <1>4

(* ... and the one that runs for the current stream was the only one.      *)
LEMMA TokensRun ==
  ASSUME NEW a, NEW m, NEW w \in Seq(Message), w # <<>>, NEW s, NEW b \in BOOLEAN,
         TokensSound(a, m, w, s, b)
  PROVE  LET own == Head(w).kind = "token" /\ Head(w).request.stream = s
         IN  TokensSound(a, m, Tail(w), s, b /\ ~own) /\ (own => b)
<1> DEFINE own == Head(w).kind = "token" /\ Head(w).request.stream = s
<1>1. /\ TokensUntil(Tail(w), s) /\ AtMostOne(TokensFor(Tail(w), s))
      /\ TokensFor(w, s) = {} => TokensFor(Tail(w), s) = {}
      /\ own => TokensFor(w, s) # {} /\ TokensFor(Tail(w), s) = {}
  BY TokensTail DEF TokensSound
<1>2. own => b /\ AskedFor(a, s) = {} /\ TokensFor(m, s) = {}
  BY <1>1 DEF TokensSound
<1> HIDE DEF own
<1>3. TokensSound(a, m, Tail(w), s, b /\ ~own)
  BY <1>1, <1>2 DEF TokensSound
<1> QED BY <1>2, <1>3 DEF own

(* Who is told of: a message appended is in turn if it is of the last      *)
(* user, or news; the rest of a queue is in turn after its head.           *)
LEMMA InTurnAppend ==
  ASSUME NEW q \in Seq(Message), NEW x \in Message, NEW u, InTurn(q, u),
         x.kind = "token" => x.user = Latest(q, u)
  PROVE  InTurn(Append(q, x), u) /\ Latest(Append(q, x), u) = x.user
<1> DEFINE a == Append(q, x)
           l == Len(q)
<1>1. /\ a # <<>> /\ DOMAIN a = 1 .. l + 1 /\ DOMAIN q = 1 .. l /\ l \in Nat
      /\ Len(a) = l + 1 /\ a[l + 1] = x
      /\ \A k \in DOMAIN q : a[k] = q[k]
      /\ \A k \in DOMAIN a : k \in DOMAIN q \/ k = l + 1
  BY Longer
<1>2. Latest(q, u) = IF l = 0 THEN u ELSE q[l].user
  BY EmptySeq DEF Latest
<1> HIDE DEF a, l
<1>3. Latest(a, u) = x.user
  BY <1>1 DEF Latest
<1>4. ASSUME NEW k \in DOMAIN a, a[k].kind = "token"
      PROVE  a[k].user = IF k = 1 THEN u ELSE a[k - 1].user
  <2>1. CASE k \in DOMAIN q
    <3>1. a[k] = q[k] /\ (k = 1 \/ (k - 1 \in DOMAIN q /\ a[k - 1] = q[k - 1]))
      BY <1>1, <2>1
    <3> QED BY <1>4, <2>1, <3>1 DEF InTurn
  <2>2. CASE k = l + 1
    <3>1. a[k] = x /\ x.user = IF l = 0 THEN u ELSE q[l].user
      BY <1>1, <1>2, <1>4, <2>2
    <3>2. (k = 1 <=> l = 0) /\ k - 1 = l /\ (l # 0 => l \in DOMAIN q)
      BY <1>1, <2>2
    <3> QED BY <1>1, <3>1, <3>2
  <2> QED BY <1>1, <2>1, <2>2
<1>5. InTurn(a, u)
  BY <1>4 DEF InTurn
<1> QED BY <1>3, <1>5 DEF a

(* The same for the rest of a queue.                                       *)
LEMMA InTurnTail ==
  ASSUME NEW q \in Seq(Message), q # <<>>, NEW u, InTurn(q, u)
  PROVE  /\ InTurn(Tail(q), Head(q).user) /\ Latest(Tail(q), Head(q).user) = Latest(q, u)
         /\ Head(q).kind = "token" => Head(q).user = u
<1> DEFINE t == Tail(q)
           l == Len(q)
<1>1. /\ DOMAIN t = 1 .. l - 1 /\ DOMAIN q = 1 .. l /\ Len(t) = l - 1
      /\ l \in Nat /\ l >= 1 /\ Head(q) = q[1] /\ t \in Seq(Message)
      /\ \A k \in DOMAIN t : k \in Nat /\ k + 1 \in DOMAIN q /\ t[k] = q[k + 1]
  BY Shorter
<1>2. t = <<>> <=> l = 1
  <2>1. \A s \in Seq(Message) : s = <<>> <=> Len(s) = 0
    BY EmptySeq
  <2> HIDE DEF t, l
  <2> QED BY <1>1, <2>1
<1> HIDE DEF t, l
<1>3. Latest(t, q[1].user) = q[l].user
  <2>1. CASE l = 1
    BY <1>1, <1>2, <2>1 DEF Latest
  <2>2. CASE l # 1
    <3>1. l - 1 \in DOMAIN t /\ (l - 1) + 1 = l
      BY <1>1, <2>2
    <3>2. t[l - 1] = q[l]
      BY <1>1, <3>1
    <3> QED BY <1>1, <1>2, <2>2, <3>2 DEF Latest
  <2> QED BY <2>1, <2>2
<1>4. Latest(q, u) = q[l].user
  BY DEF Latest, l
<1>5. 1 \in DOMAIN q
  BY <1>1
<1>6. q[1].kind = "token" => q[1].user = u
  BY <1>5 DEF InTurn
<1>7. ASSUME NEW k \in DOMAIN t, t[k].kind = "token"
      PROVE  t[k].user = IF k = 1 THEN q[1].user ELSE t[k - 1].user
  <2>1. /\ k \in Nat /\ k >= 1 /\ k + 1 \in DOMAIN q /\ t[k] = q[k + 1] /\ k + 1 # 1
        /\ (k + 1) - 1 = k
    BY <1>1
  <2>2. t[k].user = q[k].user
    BY <1>7, <2>1 DEF InTurn
  <2>3. k # 1 => k - 1 \in DOMAIN t /\ (k - 1) + 1 = k
    BY <1>1, <2>1
  <2> QED BY <1>1, <2>2, <2>3
<1>8. InTurn(t, q[1].user)
  BY <1>7 DEF InTurn
<1> QED BY <1>1, <1>3, <1>4, <1>6, <1>8 DEF t

(* A message on its way from the main queue to the worker queue keeps its  *)
(* place among the users.                                                  *)
LEMMA UsersPass ==
  ASSUME NEW m \in Seq(Message), m # <<>>, NEW w \in Seq(Message), NEW au, NEW u,
         UsersSound(au, m, w, u),
         NEW y \in Message, y.kind = Head(m).kind, y.user = Head(m).user
  PROVE  UsersSound(au, Tail(m), Append(w, y), u)
<1> DEFINE v == Latest(w, u)
<1>1. /\ InTurn(Tail(m), Head(m).user) /\ Latest(Tail(m), Head(m).user) = Latest(m, v)
      /\ Head(m).kind = "token" => Head(m).user = v
  BY InTurnTail DEF UsersSound
<1>2. InTurn(Append(w, y), u) /\ Latest(Append(w, y), u) = y.user
  BY <1>1, InTurnAppend DEF UsersSound
<1> QED BY <1>1, <1>2 DEF UsersSound

(* Changes of user are counted.                                            *)
LEMMA CountAppend ==
  ASSUME NEW q \in Seq(Message), NEW x \in Message
  PROVE  /\ Cardinality(Changes(q)) \in Nat
         /\ Cardinality(Changes(Append(q, x))) =
              Cardinality(Changes(q)) + (IF x.kind = "changed" THEN 1 ELSE 0)
<1> DEFINE a == Append(q, x)
           l == Len(q)
<1>1. /\ DOMAIN a = 1 .. l + 1 /\ DOMAIN q = 1 .. l /\ l \in Nat
      /\ \A k \in DOMAIN q : a[k] = q[k]
      /\ a[l + 1] = x
      /\ \A k \in DOMAIN a : k \in DOMAIN q \/ k = l + 1
  BY Longer
<1>2. IsFiniteSet(1 .. l)
  BY <1>1, FS_Interval
<1> HIDE DEF a, l
<1>3. IsFiniteSet(Changes(q))
  BY <1>1, <1>2, FS_Subset DEF Changes
<1>4. l + 1 \notin Changes(q) /\ l + 1 \in DOMAIN a /\ \A k \in DOMAIN q : k \in DOMAIN a
  BY <1>1 DEF Changes
<1>5. Changes(a) = IF x.kind = "changed" THEN Changes(q) \cup {l + 1} ELSE Changes(q)
  BY <1>1, <1>4 DEF Changes
<1>6. Cardinality(Changes(q)) \in Nat
  BY <1>3, FS_CardinalityType
<1>7. Cardinality(Changes(q) \cup {l + 1}) = Cardinality(Changes(q)) + 1
  BY <1>3, <1>4, FS_AddElement
<1> QED BY <1>5, <1>6, <1>7 DEF a

(* The changes in the rest of a queue are those of the queue, each one     *)
(* place earlier, without one at its head.                                 *)
LEMMA CountTail ==
  ASSUME NEW q \in Seq(Message), q # <<>>
  PROVE  /\ Cardinality(Changes(q)) \in Nat /\ Cardinality(Changes(Tail(q))) \in Nat
         /\ Cardinality(Changes(q)) =
              Cardinality(Changes(Tail(q))) + (IF Head(q).kind = "changed" THEN 1 ELSE 0)
<1> DEFINE t == Tail(q)
           l == Len(q)
<1>1. /\ DOMAIN t = 1 .. l - 1 /\ DOMAIN q = 1 .. l
      /\ l \in Nat /\ l >= 1 /\ Head(q) = q[1]
      /\ \A k \in DOMAIN t : k \in Nat /\ k + 1 \in DOMAIN q /\ t[k] = q[k + 1]
      /\ \A k \in DOMAIN q : k = 1 \/ k - 1 \in DOMAIN t
  BY Shorter
<1>2. IsFiniteSet(1 .. l) /\ IsFiniteSet(1 .. l - 1)
  BY <1>1, FS_Interval
<1> HIDE DEF t, l
<1>3. IsFiniteSet(Changes(q)) /\ IsFiniteSet(Changes(t))
  BY <1>1, <1>2, FS_Subset DEF Changes
<1> DEFINE rest == Changes(q) \ {1}
           back == [k \in rest |-> k - 1]
<1>4. \A k \in rest : k \in Int /\ k - 1 \in Changes(t)
  <2> SUFFICES ASSUME NEW k \in rest PROVE k \in Int /\ k - 1 \in Changes(t)
    OBVIOUS
  <2>1. k \in DOMAIN q /\ k # 1 /\ q[k].kind = "changed"
    BY DEF Changes
  <2>2. k \in Int /\ k - 1 \in DOMAIN t /\ (k - 1) + 1 = k
    BY <1>1, <2>1
  <2>3. t[k - 1] = q[k]
    BY <1>1, <2>2
  <2> QED BY <2>1, <2>2, <2>3 DEF Changes
<1>5. \A k \in Changes(t) : k + 1 \in rest /\ (k + 1) - 1 = k
  <2> SUFFICES ASSUME NEW k \in Changes(t) PROVE k + 1 \in rest /\ (k + 1) - 1 = k
    OBVIOUS
  <2>1. k \in DOMAIN t /\ t[k].kind = "changed"
    BY DEF Changes
  <2>2. k \in Nat /\ k # 0 /\ k + 1 \in DOMAIN q /\ t[k] = q[k + 1]
    BY <1>1, <2>1
  <2> QED BY <2>1, <2>2 DEF Changes
<1>6. ExistsBijection(rest, Changes(t))
  <2> HIDE DEF rest
  <2>1. back \in [rest -> Changes(t)]
    BY <1>4
  <2>2. \A j \in rest : \A k \in rest : back[j] = back[k] => j = k
    BY <1>4
  <2>3. \A k \in Changes(t) : \E j \in rest : back[j] = k
    BY <1>5
  <2>4. back \in Bijection(rest, Changes(t))
    BY <2>1, <2>2, <2>3 DEF Bijection, Injection, Surjection, IsInjective
  <2> QED BY <2>4 DEF ExistsBijection
<1>7. /\ IsFiniteSet(rest)
      /\ Cardinality(rest) =
           IF 1 \in Changes(q) THEN Cardinality(Changes(q)) - 1 ELSE Cardinality(Changes(q))
  BY <1>3, FS_RemoveElement
<1>8. Cardinality(Changes(t)) = Cardinality(rest)
  BY <1>6, <1>7, FS_Bijection
<1>9. 1 \in Changes(q) <=> Head(q).kind = "changed"
  BY <1>1 DEF Changes
<1>10. Cardinality(Changes(q)) \in Nat /\ Cardinality(Changes(t)) \in Nat
  BY <1>3, FS_CardinalityType
<1> HIDE DEF rest
<1> QED BY <1>7, <1>8, <1>9, <1>10 DEF t

-----------------------------------------------------------------------------
(* The call.                                                               *)

(* All of the pipeline is at work, or its answer is on the way.            *)
Follows(h, r, p, q) == Works(h, r, q) /\ Len(h) + Len(r) = Len(p)

(* What the stream writes follows what the server works on.                *)
LEMMA WrittenWorks ==
  ASSUME NEW h \in Seq(Result), NEW r \in Seq(Batch), NEW q \in Seq(Batch),
         NEW p \in Seq(Batch), NEW new \in Seq(Batch),
         Follows(h, r, p, q), Starts(p \o new, q)
  PROVE  r \o new \in Seq(Batch) /\ Follows(h, r \o new, p \o new, q)
<1>a. Works(h, r, q) /\ Len(h) + Len(r) = Len(p)
  BY DEF Follows
<1>1. Len(h) \in Nat /\ Len(r) \in Nat /\ Len(p) \in Nat /\ Len(new) \in Nat
  BY Lengths
<1>2. /\ r \o new \in Seq(Batch) /\ Len(r \o new) = Len(r) + Len(new)
      /\ \A k \in 1 .. Len(r) + Len(new) :
           (r \o new)[k] = IF k <= Len(r) THEN r[k] ELSE new[k - Len(r)]
  BY ConcatProperties
<1>3. /\ Len(p \o new) = Len(p) + Len(new)
      /\ \A k \in 1 .. Len(p) + Len(new) :
           (p \o new)[k] = IF k <= Len(p) THEN p[k] ELSE new[k - Len(p)]
  BY ConcatProperties
<1>4. DOMAIN (r \o new) = 1 .. Len(r) + Len(new) /\ DOMAIN r = 1 .. Len(r)
  BY <1>2, Lengths
<1>5. Len(h) + Len(r \o new) = Len(p \o new)
  <2> DEFINE rn == Len(r \o new)
             pn == Len(p \o new)
             lh == Len(h)
             lr == Len(r)
             lp == Len(p)
             ln == Len(new)
  <2>1. /\ rn = lr + ln /\ pn = lp + ln /\ lh + lr = lp
        /\ lh \in Nat /\ lr \in Nat /\ ln \in Nat
    BY <1>a, <1>1, <1>2, <1>3
  <2> HIDE DEF lh, lr, lp, ln, rn, pn
  <2>2. lh + rn = pn
    BY <2>1
  <2> QED BY <2>2 DEF lh, rn, pn
<1>6. ASSUME NEW k \in 1 .. Len(r) + Len(new)
      PROVE  (r \o new)[k] = q[Len(h) + k]
  <2>1. CASE k <= Len(r)
    <3>1. k \in 1 .. Len(r)
      BY <1>1, <2>1
    <3> QED BY <1>a, <1>2, <1>4, <2>1, <3>1 DEF Works
  <2>2. CASE k > Len(r)
    <3> DEFINE j == Len(h) + k
    <3>1. j \in 1 .. Len(p) + Len(new) /\ j > Len(p) /\ j - Len(p) = k - Len(r)
      <4> DEFINE lh == Len(h)
                 lr == Len(r)
                 lp == Len(p)
                 ln == Len(new)
      <4>2. /\ lh \in Nat /\ lr \in Nat /\ lp \in Nat /\ ln \in Nat
            /\ lh + lr = lp /\ k \in 1 .. lr + ln /\ k > lr
        BY <1>a, <1>1, <2>2
      <4> HIDE DEF lh, lr, lp, ln
      <4>3. lh + k \in 1 .. lp + ln /\ lh + k > lp /\ (lh + k) - lp = k - lr
        BY <4>2
      <4> QED BY <4>3 DEF lh, lr, lp, ln
    <3>2. (p \o new)[j] = q[j]
      BY <1>3, <3>1 DEF Starts
    <3> HIDE DEF j
    <3>3. (p \o new)[j] = new[k - Len(r)]
      BY <1>1, <1>3, <3>1
    <3>4. (r \o new)[k] = new[k - Len(r)]
      BY <1>1, <1>2, <2>2
    <3> QED BY <3>2, <3>3, <3>4 DEF j
  <2> QED BY <1>1, <2>1, <2>2
<1>7. Works(h, r \o new, q)
  BY <1>a, <1>3, <1>4, <1>5, <1>6 DEF Works, Starts
<1> QED BY <1>2, <1>5, <1>7 DEF Follows


(* The answer to the first write takes it from both ends.                  *)
LEMMA AnswerWorks ==
  ASSUME NEW h \in Seq(Result), h # <<>>, NEW r \in Seq(Batch), NEW q \in Seq(Batch),
         Works(h, r, q)
  PROVE  /\ q # <<>> /\ Head(h).batch = Head(q)
         /\ Works(Tail(h), r, Tail(q)) /\ Tail(h) \in Seq(Result)
         /\ Len(Tail(h)) = Len(h) - 1 /\ Head(h) = h[1] /\ 1 \in DOMAIN h
         /\ \A k \in DOMAIN Tail(h) : k + 1 \in DOMAIN h /\ Tail(h)[k] = h[k + 1]
<1>1. /\ Head(h) = h[1] /\ Tail(h) \in Seq(Result) /\ Len(Tail(h)) = Len(h) - 1
      /\ \A k \in 1 .. Len(Tail(h)) : Tail(h)[k] = h[k + 1]
  BY HeadTailProperties
<1>2. /\ Len(h) \in Nat /\ Len(r) \in Nat /\ Len(q) \in Nat /\ Len(h) >= 1
      /\ DOMAIN h = 1 .. Len(h) /\ DOMAIN Tail(h) = 1 .. Len(h) - 1 /\ DOMAIN r = 1 .. Len(r)
  <2>1. Len(h) # 0
    BY EmptySeq
  <2>2. DOMAIN Tail(h) = 1 .. Len(Tail(h))
    BY <1>1, Lengths
  <2> QED BY <1>1, <2>1, <2>2, Lengths
<1>3. q # <<>>
  <2>1. Len(q) # 0
    BY <1>2 DEF Works
  <2> QED BY <2>1, EmptySeq
<1>4. /\ Head(q) = q[1] /\ Len(Tail(q)) = Len(q) - 1
      /\ \A k \in 1 .. Len(Tail(q)) : Tail(q)[k] = q[k + 1]
  BY <1>3, HeadTailProperties
<1>5. 1 \in DOMAIN h /\ Head(h).batch = Head(q)
  BY <1>1, <1>2, <1>4 DEF Works
<1>6. \A k \in 1 .. Len(h) - 1 : /\ k \in Nat /\ k + 1 \in 1 .. Len(h)
                                 /\ k \in 1 .. Len(Tail(q))
  BY <1>2, <1>4 DEF Works
<1>7. \A k \in 1 .. Len(r) : /\ Len(h) - 1 + k \in 1 .. Len(Tail(q))
                             /\ Len(h) - 1 + k + 1 = Len(h) + k
  BY <1>2, <1>4 DEF Works
<1>8. Works(Tail(h), r, Tail(q))
  <2>1. Len(Tail(h)) + Len(r) <= Len(Tail(q))
    BY <1>1, <1>2, <1>4 DEF Works
  <2>2. \A k \in DOMAIN Tail(h) : Tail(h)[k].batch = Tail(q)[k]
    BY <1>1, <1>2, <1>4, <1>6 DEF Works
  <2>3. \A k \in DOMAIN r : r[k] = Tail(q)[Len(Tail(h)) + k]
    BY <1>1, <1>2, <1>4, <1>7 DEF Works
  <2> QED BY <2>1, <2>2, <2>3 DEF Works
<1> QED BY <1>1, <1>2, <1>3, <1>5, <1>6, <1>8

(* A queue that grows keeps what the server works on at its front.         *)
LEMMA GrownWorks ==
  ASSUME NEW h \in Seq(Result), NEW r \in Seq(Batch), NEW q \in Seq(Batch),
         NEW a \in Seq(Batch), Works(h, r, q), Starts(q, a)
  PROVE  Works(h, r, a)
<1>1. /\ Len(h) \in Nat /\ Len(r) \in Nat /\ Len(q) \in Nat /\ Len(a) \in Nat
      /\ DOMAIN h = 1 .. Len(h) /\ DOMAIN r = 1 .. Len(r)
  BY Lengths
<1>2. /\ \A k \in 1 .. Len(h) : k \in 1 .. Len(q)
      /\ \A k \in 1 .. Len(r) : Len(h) + k \in 1 .. Len(q)
      /\ Len(h) + Len(r) <= Len(a)
  BY <1>1 DEF Works, Starts
<1> QED BY <1>1, <1>2 DEF Works, Starts

(* Becoming c: what it has asked for is asked for, and if it waits for a   *)
(* token there is one to wait for.                                         *)
LEMMA Becoming ==
  ASSUME asked \subseteq TokenRequest, tokenCounter \in 0 .. MaxChanges,
         NEW c \in Client, StreamSound(c), Become(c),
         NEW m, NEW w, NEW b \in BOOLEAN, TokensSound(asked, m, w, c.stream, b),
         c.getToken <=> c.state = "auth" /\ ~b, b => c.state = "auth"
  PROVE  /\ client' \in Client /\ ~client'.getToken /\ client'.written = <<>>
         /\ client'.stream = c.stream /\ client'.state = c.state
         /\ client'.handshakeComplete = c.handshakeComplete
         /\ client'.pipeline = c.pipeline /\ client'.idle = c.idle
         /\ StreamSound(client') /\ (IsStarted(client') <=> IsStarted(c))
         /\ asked' \subseteq TokenRequest
         /\ TokensSound(asked', m, w, client'.stream, client'.state = "auth")
<1>1. client' = [c EXCEPT !.getToken = FALSE, !.written = <<>>]
  BY DEF Become
<1>2. client' \in Client
  BY <1>1, EmptySeq DEF Client
<1>3. /\ client'.stream = c.stream /\ client'.state = c.state
      /\ client'.handshakeComplete = c.handshakeComplete /\ client'.delegate = c.delegate
      /\ client'.idle = c.idle /\ client'.pipeline = c.pipeline
      /\ client'.getToken = FALSE /\ client'.written = <<>> /\ client'.asserts = c.asserts
  BY <1>1 DEF Client
<1>4. StreamSound(client') /\ (IsStarted(client') <=> IsStarted(c))
  BY <1>3 DEF StreamSound, IsStarted
<1>5. c.stream \in Stream /\ c.stream \in Nat
  BY ClientFields, BoundsAssumption DEF Stream
<1> DEFINE r == [stream |-> c.stream, counter |-> tokenCounter]
<1>6. r \in TokenRequest /\ r.stream = c.stream
  BY <1>5 DEF TokenRequest
<1>7. asked' = IF c.getToken THEN asked \cup {r} ELSE asked
  BY DEF Become
<1> HIDE DEF r
<1>8. TokensSound(asked', m, w, c.stream, c.state = "auth")
  <2>1. CASE c.getToken
    <3>1. TokensSound(asked, m, w, c.stream, FALSE) /\ c.state = "auth"
      BY <2>1
    <3>2. TokensSound(asked \cup {r}, m, w, c.stream, TRUE)
      BY <1>5, <1>6, <3>1, TokenAsked
    <3> QED BY <1>7, <2>1, <3>1, <3>2
  <2>2. CASE ~c.getToken
    <3>1. c.state = "auth" <=> b
      BY <2>2
    <3> QED BY <1>7, <2>2, <3>1, TokensWeaker
  <2> QED BY <2>1, <2>2
<1> QED BY <1>2, <1>3, <1>4, <1>6, <1>7, <1>8

-----------------------------------------------------------------------------
(* The steps.                                                              *)

(* What the invariant says of the state's types, in the words of the       *)
(* lemmas.                                                                 *)
LEMMA Types ==
  ASSUME Inv
  PROVE  /\ user \in User /\ authUser \in User /\ rpcUser \in User
         /\ queue[user] \in Seq(Batch) /\ \A u \in User : queue[u] \in Seq(Batch)
         /\ issued \in [User -> 0 .. MaxWrites] /\ queue \in [User -> Seq(Batch)]
         /\ \A u \in User : issued[u] \in Nat
         /\ client \in Client /\ ~client.getToken /\ client.written = <<>>
         /\ client.stream \in Nat /\ client.pipeline \in Seq(Batch)
         /\ client.handshakeComplete \in BOOLEAN
         /\ requests \in Seq(Batch) /\ handled \in Seq(Result) /\ answers \in Seq(Result)
         /\ mainQueue \in Seq(Message) /\ workerQueue \in Seq(Message)
         /\ asked \subseteq TokenRequest /\ tokenCounter \in 0 .. MaxChanges
         /\ late \in BOOLEAN
<1>1. TypeOK
  BY DEF Inv
<1>2. \A u \in User : issued[u] \in Nat
  BY <1>1, BoundsAssumption DEF TypeOK
<1>3. client.stream \in Nat /\ client.pipeline \in Seq(Batch)
  BY <1>1, ClientFields, BoundsAssumption DEF TypeOK, Stream
<1>4. client.handshakeComplete \in BOOLEAN
  BY <1>1, ClientFields DEF TypeOK
<1> QED BY <1>1, <1>2, <1>3, <1>4 DEF TypeOK, Message

(* The pipeline starts the user's queue and is no longer than it may be.   *)
LEMMA PipelineStarts ==
  ASSUME Inv
  PROVE  /\ StreamSound(client) /\ client.pipeline = FrontOf(queue[user])
         /\ client.pipeline # <<>> => IsStarted(client)
         /\ Starts(client.pipeline, queue[user])
         /\ Len(client.pipeline) <= MaxPendingWrites
         /\ Ordered(queue[user], user, issued[user])
<1>1. StreamInv /\ QueuesOrdered
  BY DEF Inv
<1> QED BY <1>1, Types, FrontProperties DEF StreamInv, QueuesOrdered

(* What a step that only has to do with the current stream leaves alone.   *)
LEMMA MessagesStay ==
  ASSUME Inv, UNCHANGED <<authUser, mainQueue, tokenCounter, workerQueue, user>>,
         client'.stream = client.stream
  PROVE  UsersInv' /\ CountsInv'
<1>1. UsersInv /\ CountsInv
  BY DEF Inv
<1> QED BY <1>1 DEF UsersInv, UsersSound, CountsInv, CountsSound, InTurn, Latest, Changes

(* A step in which the client's next state is c, and the messages stay.    *)
LEMMA ClientBecomes ==
  ASSUME Inv, UNCHANGED <<authUser, mainQueue, tokenCounter, workerQueue, user>>,
         NEW c \in Client, StreamSound(c), Become(c), c.stream = client.stream,
         c.getToken <=> c.state = "auth" /\ client.state # "auth",
         client.state = "auth" => c.state = "auth"
  PROVE  /\ client' \in Client /\ ~client'.getToken /\ client'.written = <<>>
         /\ client'.stream = c.stream /\ client'.state = c.state
         /\ client'.handshakeComplete = c.handshakeComplete
         /\ client'.pipeline = c.pipeline /\ client'.idle = c.idle
         /\ StreamSound(client') /\ (IsStarted(client') <=> IsStarted(c))
         /\ asked' \subseteq TokenRequest
         /\ TokensInv' /\ UsersInv' /\ CountsInv'
<1> DEFINE b == client.state = "auth"
<1>1. TokensSound(asked, mainQueue, workerQueue, c.stream, b)
  BY DEF Inv, TokensInv
<1>2. /\ client' \in Client /\ ~client'.getToken /\ client'.written = <<>>
      /\ client'.stream = c.stream /\ client'.state = c.state
      /\ client'.handshakeComplete = c.handshakeComplete
      /\ client'.pipeline = c.pipeline /\ client'.idle = c.idle
      /\ StreamSound(client') /\ (IsStarted(client') <=> IsStarted(c))
      /\ asked' \subseteq TokenRequest
      /\ TokensSound(asked', mainQueue, workerQueue, client'.stream, client'.state = "auth")
  BY <1>1, Types, Becoming
<1>3. TokensInv'
  BY <1>2 DEF TokensInv, TokensSound, TokensUntil, TokensFor, AskedFor
<1> QED BY <1>2, <1>3, MessagesStay

(* Write.                                                                  *)
LEMMA WriteStep ==
  ASSUME Inv, Write
  PROVE  Inv'
<1> DEFINE batch == [user |-> user, number |-> issued[user] + 1]
           q == Append(queue[user], batch)
           c == FillWritePipeline(client, q)
<1>a. /\ issued[user] < MaxWrites
      /\ issued' = [issued EXCEPT ![user] = @ + 1]
      /\ queue' = [queue EXCEPT ![user] = q]
      /\ Become(c) /\ OnCall(c)
      /\ UNCHANGED <<authUser, mainQueue, tokenCounter, workerQueue, user>>
      /\ UNCHANGED <<rpc, rpcUser, late, answers, handled, acknowledged, rejected, applied>>
  BY DEF Write, outcome
<1>b. batch \in Batch /\ batch.user = user /\ batch.number = issued[user] + 1
  <2>1. issued[user] \in Nat /\ MaxWrites \in Nat
    BY Types, BoundsAssumption
  <2>2. issued[user] + 1 \in 1 .. MaxWrites
    BY <1>a, <2>1
  <2> QED BY <2>2, Types DEF Batch
<1> HIDE DEF batch
<1>1. /\ q \in Seq(Batch) /\ Len(q) = Len(queue[user]) + 1
      /\ \A k \in 1 .. Len(queue[user]) : q[k] = queue[user][k]
      /\ q[Len(queue[user]) + 1] = batch
      /\ Ordered(q, user, issued[user] + 1)
      /\ \A p \in Seq(Batch) : Starts(p, queue[user]) => Starts(p, q)
  BY <1>b, Types, PipelineStarts, AppendOrdered
<1> HIDE DEF q
<1>2. /\ c \in Client /\ StreamSound(c) /\ c.stream = client.stream
      /\ c.pipeline = FrontOf(q)
      /\ c.pipeline # <<>> => IsStarted(c)
      /\ c.getToken <=> c.state = "auth" /\ client.state # "auth"
      /\ IsStarted(client) => /\ c.state = client.state
                              /\ c.handshakeComplete = client.handshakeComplete
      /\ ~IsStarted(client) => c.state # "open"
      /\ c.written \in Seq(Batch)
      /\ IF client.state = "open" /\ client.handshakeComplete
         THEN client.pipeline \o c.written = c.pipeline
         ELSE c.written = <<>>
  BY <1>1, Types, PipelineStarts, FillSound
<1> HIDE DEF c
<1>3. client.state = "auth" => c.state = "auth"
  BY <1>2 DEF IsStarted
<1>4. /\ client' \in Client /\ ~client'.getToken /\ client'.written = <<>>
      /\ client'.stream = c.stream /\ client'.state = c.state
      /\ client'.handshakeComplete = c.handshakeComplete
      /\ client'.pipeline = c.pipeline /\ client'.idle = c.idle
      /\ StreamSound(client') /\ (IsStarted(client') <=> IsStarted(c))
      /\ asked' \subseteq TokenRequest
      /\ TokensInv' /\ UsersInv' /\ CountsInv'
  BY <1>a, <1>2, <1>3, ClientBecomes
<1>5. /\ \A u \in User : queue'[u] = IF u = user THEN q ELSE queue[u]
      /\ \A u \in User : issued'[u] = IF u = user THEN issued[user] + 1 ELSE issued[u]
      /\ queue' \in [User -> Seq(Batch)] /\ issued' \in [User -> 0 .. MaxWrites]
  <2>1. issued[user] + 1 \in 0 .. MaxWrites
    BY <1>a, Types, BoundsAssumption
  <2> QED BY <1>a, <1>1, <2>1, Types
<1>6. QueuesOrdered'
  <2>1. QueuesOrdered
    BY DEF Inv
  <2>2. \A u \in User : Ordered(queue'[u], u, issued'[u])
    BY <1>1, <1>5, <2>1 DEF QueuesOrdered
  <2> QED BY <2>2 DEF QueuesOrdered
<1>7. StreamInv'
  <2>1. queue'[user'] = q
    BY <1>a, <1>5, Types
  <2>2. client'.pipeline = FrontOf(queue'[user'])
    BY <1>2, <1>4, <2>1
  <2> QED BY <1>2, <1>4, <2>2 DEF StreamInv, FrontOf
<1>8. \A u \in User : Starts(queue[u], queue'[u])
  <2>1. Starts(queue[user], q)
    BY <1>1, Types, Lengths DEF Starts
  <2>2. \A u \in User : Starts(queue[u], queue[u])
    BY Types, Lengths DEF Starts
  <2> QED BY <1>5, <2>1, <2>2
<1>9. CallInv /\ ServerInv
  BY DEF Inv
<1>10. ASSUME rpc = "ready"
       PROVE  /\ requests' \in Seq(Batch) /\ Works(handled', requests', queue'[user])
              /\ Len(handled) + Len(requests') = Len(c.pipeline)
  <2>1. ~late /\ client.state = "open" /\ client.handshakeComplete
    BY <1>9, <1>10 DEF CallInv
  <2>2. Works(handled, requests, queue[user])
    BY <1>9, <2>1 DEF ServerInv
  <2>3. Works(handled, requests, q)
    BY <1>1, <1>5, <1>8, <2>2, GrownWorks, Types
  <2>4. client.pipeline \o c.written = c.pipeline /\ Starts(c.pipeline, q)
    BY <1>1, <1>2, <2>1, FrontProperties
  <2>5. /\ requests' \in Seq(Batch) /\ Works(handled, requests', q)
        /\ Len(handled) + Len(requests') = Len(c.pipeline)
    <3>1. requests' = requests \o c.written
      BY <1>a DEF OnCall
    <3>2. Len(handled) + Len(requests) = Len(client.pipeline)
      BY <1>9, <1>10 DEF CallInv
    <3>3. Starts(client.pipeline \o c.written, q) /\ c.written \in Seq(Batch)
      BY <1>2, <2>4
    <3>4. /\ requests \o c.written \in Seq(Batch)
          /\ Works(handled, requests \o c.written, q)
          /\ Len(handled) + Len(requests \o c.written) = Len(client.pipeline \o c.written)
      <4>1. Follows(handled, requests, client.pipeline, q)
        BY <2>3, <3>2 DEF Follows
      <4>2. /\ requests \o c.written \in Seq(Batch)
            /\ Follows(handled, requests \o c.written, client.pipeline \o c.written, q)
        BY <1>1, <3>3, <4>1, WrittenWorks, Types
      <4> QED BY <4>2 DEF Follows
    <3> QED BY <2>4, <3>1, <3>4
  <2>6. Works(handled', requests', queue'[user])
    BY <1>a, <1>5, <2>5, Types DEF Works
  <2> QED BY <2>5, <2>6
<1>11. ASSUME rpc # "ready"
       PROVE  /\ requests' = requests
              /\ \E u \in User : Works(handled', requests', queue'[u]) /\ (late' \/ u = user')
  <2>1. c.written = <<>>
    BY <1>2, <1>9, <1>11 DEF CallInv
  <2>2. requests' = requests
    <3>1. requests' = requests \o <<>>
      BY <1>a, <2>1 DEF OnCall
    <3> QED BY <3>1, Types, ConcatEmptySeq
  <2>3. PICK u \in User : Works(handled, requests, queue[u]) /\ (late \/ u = user)
    BY <1>9 DEF ServerInv
  <2>4. Works(handled, requests, queue'[u])
    <3>1. queue'[u] \in Seq(Batch)
      BY <1>5
    <3> QED BY <1>8, <2>3, <3>1, GrownWorks, Types
  <2>5. Works(handled', requests', queue'[u]) /\ (late' \/ u = user')
    BY <1>a, <2>2, <2>3, <2>4 DEF Works
  <2> QED BY <2>2, <2>5, Types
<1>12. requests' \in Seq(Batch)
       /\ \E u \in User : Works(handled', requests', queue'[u]) /\ (late' \/ u = user')
  <2>1. user \in User /\ user' = user /\ requests \in Seq(Batch)
    BY <1>a, Types
  <2>2. CASE rpc = "ready"
    BY <1>10, <2>1, <2>2
  <2>3. CASE rpc # "ready"
    BY <1>11, <2>1, <2>3
  <2> QED BY <2>2, <2>3
<1>13. ServerInv'
  BY <1>a, <1>9, <1>12 DEF ServerInv
<1>14. CallInv'
  <2>1. c.state = "open" <=> client.state = "open"
    BY <1>2 DEF IsStarted
  <2>2. client.state = "open" => c.handshakeComplete = client.handshakeComplete
    BY <1>2 DEF IsStarted
  <2>3. rpc # "ready" => requests' = requests
    BY <1>11
  <2>4. rpc = "ready" => Len(handled) + Len(requests') = Len(c.pipeline)
    BY <1>10
  <2>5. rpc' = "ready" => Len(handled') + Len(requests') = Len(client'.pipeline)
    BY <1>a, <1>4, <2>4
  <2> QED BY <1>a, <1>4, <1>9, <2>1, <2>2, <2>3, <2>5 DEF CallInv
<1>15. OutcomeInv'
  <2>1. OutcomeInv /\ rejected \subseteq Batch
    BY DEF Inv, TypeOK
  <2>3. ASSUME NEW b \in rejected'
        PROVE  /\ b.number <= issued'[b.user]
               /\ \A k \in DOMAIN queue'[b.user] : queue'[b.user][k] # b
    <3>1. /\ b \in Batch /\ b.number <= issued[b.user]
          /\ \A k \in DOMAIN queue[b.user] : queue[b.user][k] # b
      BY <1>a, <2>1 DEF OutcomeInv
    <3>2. b.user \in User /\ b.number \in Nat
      BY <3>1, BoundsAssumption DEF Batch
    <3>3. CASE b.user = user
      <4>1. b # batch /\ b.number <= issued[user] + 1
        BY <1>b, <3>1, <3>2, <3>3, Types
      <4>2. \A k \in DOMAIN q : k \in DOMAIN queue[user] \/ k = Len(queue[user]) + 1
        BY <1>1, Types, Lengths
      <4>3. \A k \in DOMAIN q : q[k] # b
        BY <1>1, <3>1, <3>3, <4>1, <4>2, Types, Lengths
      <4> QED BY <1>5, <3>2, <3>3, <4>1, <4>3
    <3>4. CASE b.user # user
      BY <1>5, <3>1, <3>2, <3>4
    <3> QED BY <3>3, <3>4
  <2> QED BY <2>3 DEF OutcomeInv
<1>16. TypeOK'
  <2>1. TypeOK
    BY DEF Inv
  <2> QED BY <1>a, <1>4, <1>5, <1>12, <2>1 DEF TypeOK
<1> QED BY <1>4, <1>6, <1>7, <1>13, <1>14, <1>15, <1>16 DEF Inv

(* Closing the stream, ...                                                 *)
LEMMA CloseSound ==
  ASSUME NEW c \in Client, StreamSound(c), IsStarted(c), NEW final \in {"error", "initial"},
         final = "error" \/ c.state = "open"
  PROVE  LET f == Close(c, final)
         IN  /\ f \in Client /\ StreamSound(f) /\ ~IsStarted(f) /\ f.state = final
             /\ f.stream = c.stream /\ f.pipeline = c.pipeline /\ f.written = c.written
             /\ f.handshakeComplete = c.handshakeComplete /\ f.getToken = c.getToken
<1> DEFINE f == Close(c, final)
           held == IsStarted(c) /\ (final = "error" \/ ~c.handshakeComplete \/ IsOpen(c))
<1>1. held
  BY DEF IsOpen
<1>2. f = [c EXCEPT !.asserts = @ /\ held, !.state = final, !.idle = FALSE,
                    !.delegate = FALSE]
  BY DEF Close, HardAssert, Client
<1> HIDE DEF held
<1>3. f \in Client
  BY <1>1, <1>2 DEF Client
<1>4. /\ f.stream = c.stream /\ f.state = final /\ ~f.delegate
      /\ f.handshakeComplete = c.handshakeComplete /\ f.idle = FALSE
      /\ f.pipeline = c.pipeline /\ f.getToken = c.getToken
      /\ f.written = c.written /\ f.asserts = (c.asserts /\ held)
  BY <1>2 DEF Client
<1> HIDE DEF f
<1>5. StreamSound(f) /\ ~IsStarted(f)
  BY <1>1, <1>4 DEF StreamSound, IsStarted
<1> QED BY <1>3, <1>4, <1>5 DEF f

(* A step that leaves the queues and the writes' outcome alone.            *)
LEMMA QueuesStay ==
  ASSUME Inv, UNCHANGED <<issued, queue, acknowledged, rejected, applied>>
  PROVE  QueuesOrdered' /\ OutcomeInv'
<1>1. QueuesOrdered /\ OutcomeInv
  BY DEF Inv
<1> QED BY <1>1 DEF QueuesOrdered, Ordered, OutcomeInv

(* A step that leaves the server alone as well.                            *)
LEMMA ServerStays ==
  ASSUME Inv, UNCHANGED <<user, queue, late, requests, handled, applied>>
  PROVE  ServerInv'
<1>1. ServerInv
  BY DEF Inv
<1> QED BY <1>1 DEF ServerInv, Works

(* An empty call works for anyone.                                         *)
LEMMA NoWork ==
  ASSUME NEW h, h = <<>>, NEW r, r = <<>>, NEW q \in Seq(Batch)
  PROVE  Works(h, r, q) /\ DOMAIN h = {}
<1>1. Len(h) = 0 /\ Len(r) = 0 /\ DOMAIN h = {} /\ DOMAIN r = {}
  OBVIOUS
<1> QED BY <1>1, Lengths DEF Works

(* Hanging up: what is at work stays at work, for whom it was.             *)
LEMMA HangUpSound ==
  ASSUME Inv, HangUp, UNCHANGED <<queue, applied>>, user' \in User
  PROVE  /\ ServerInv' /\ rpc' = "none" /\ late' \in BOOLEAN
         /\ ~late' => requests' = <<>> /\ handled' = <<>>
         /\ answers' = IF late' THEN <<>> ELSE handled'
         /\ answers' \in Seq(Result) /\ UNCHANGED <<rpcUser, requests, handled>>
<1>1. CallInv /\ ServerInv
  BY DEF Inv
<1>2. /\ rpc' = "none" /\ late' = (late \/ rpc \in {"welcome", "ready"})
      /\ answers' = <<>> /\ UNCHANGED <<rpcUser, requests, handled>>
  BY DEF HangUp
<1>3. ~late' => requests' = <<>> /\ handled' = <<>>
  BY <1>1, <1>2 DEF CallInv
<1>4. \E u \in User : Works(handled', requests', queue'[u]) /\ (late' \/ u = user')
  <2>1. CASE late'
    <3>1. PICK u \in User : Works(handled, requests, queue[u])
      BY <1>1 DEF ServerInv
    <3>2. Works(handled', requests', queue'[u])
      BY <1>2, <3>1 DEF Works
    <3> QED BY <2>1, <3>2
  <2>2. CASE ~late'
    <3>1. queue'[user'] \in Seq(Batch)
      BY Types
    <3>2. Works(handled', requests', queue'[user'])
      BY <1>3, <2>2, <3>1, NoWork
    <3> QED BY <3>2
  <2> QED BY <2>1, <2>2
<1>5. ServerInv'
  BY <1>1, <1>2, <1>4 DEF ServerInv
<1>6. answers' \in Seq(Result)
  BY <1>2, EmptySeq
<1> QED BY <1>2, <1>3, <1>5, <1>6, Types

(* BackoffElapsed.                                                         *)
LEMMA BackoffStep ==
  ASSUME Inv, BackoffElapsed
  PROVE  Inv'
<1> DEFINE d == [client EXCEPT !.state = "initial"]
           c == StartWithDelegate(d)
<1>a. /\ client.state = "backoff" /\ Become(c)
      /\ UNCHANGED <<authUser, mainQueue, tokenCounter, workerQueue, user, issued, queue>>
      /\ UNCHANGED <<rpc, rpcUser, late, requests, answers, handled>>
      /\ UNCHANGED <<acknowledged, rejected, applied>>
  BY DEF BackoffElapsed, server, outcome
<1>1. /\ d \in Client /\ d.state = "initial" /\ d.stream = client.stream
      /\ d.handshakeComplete = client.handshakeComplete /\ d.delegate = client.delegate
      /\ d.idle = client.idle /\ d.pipeline = client.pipeline
      /\ d.getToken = client.getToken /\ d.written = client.written
      /\ d.asserts = client.asserts
  BY Types DEF Client
<1> HIDE DEF d
<1>2. StreamSound(d) /\ ~IsStarted(d) /\ d.pipeline # <<>>
  BY <1>a, <1>1, PipelineStarts DEF StreamSound, IsStarted
<1>3. /\ c \in Client /\ StreamSound(c) /\ IsStarted(c)
      /\ c.stream = d.stream /\ c.pipeline = d.pipeline
      /\ c.state = "auth" /\ (c.getToken <=> c.state = "auth")
  BY <1>1, <1>2, Types, StartSound
<1> HIDE DEF c
<1>4. /\ client' \in Client /\ ~client'.getToken /\ client'.written = <<>>
      /\ client'.stream = c.stream /\ client'.state = c.state
      /\ client'.handshakeComplete = c.handshakeComplete
      /\ client'.pipeline = c.pipeline /\ client'.idle = c.idle
      /\ StreamSound(client') /\ (IsStarted(client') <=> IsStarted(c))
      /\ asked' \subseteq TokenRequest
      /\ TokensInv' /\ UsersInv' /\ CountsInv'
  BY <1>a, <1>1, <1>3, ClientBecomes
<1>5. StreamInv'
  <2>1. client'.pipeline = FrontOf(queue'[user'])
    BY <1>a, <1>1, <1>3, <1>4, PipelineStarts
  <2> QED BY <1>3, <1>4, <2>1 DEF StreamInv, FrontOf
<1>6. CallInv'
  <2>1. CallInv
    BY DEF Inv
  <2> QED BY <1>a, <1>3, <1>4, <2>1 DEF CallInv
<1>7. TypeOK'
  <2>1. TypeOK
    BY DEF Inv
  <2> QED BY <1>a, <1>4, <2>1 DEF TypeOK
<1> QED BY <1>a, <1>4, <1>5, <1>6, <1>7, QueuesStay, ServerStays DEF Inv

(* IdleTimeout.                                                            *)
LEMMA IdleStep ==
  ASSUME Inv, IdleTimeout
  PROVE  Inv'
<1> DEFINE d == Close(client, "initial")
<1>a. /\ client.idle /\ client.state = "open" /\ Become(StartIfNeeded(d)) /\ HangUp
      /\ UNCHANGED <<authUser, mainQueue, tokenCounter, workerQueue, user, issued, queue>>
      /\ UNCHANGED <<acknowledged, rejected, applied>>
  BY DEF IdleTimeout, IsOpen, outcome
<1>1. client.pipeline = <<>> /\ IsStarted(client) /\ StreamSound(client)
  BY <1>a, PipelineStarts DEF StreamSound, IsStarted
<1>2. /\ d \in Client /\ StreamSound(d) /\ ~IsStarted(d) /\ d.state = "initial"
      /\ d.stream = client.stream /\ d.pipeline = client.pipeline
      /\ d.getToken = client.getToken
  BY <1>a, <1>1, Types, CloseSound
<1> HIDE DEF d
<1>3. StartIfNeeded(d) = d
  BY <1>1, <1>2 DEF StartIfNeeded
<1>4. /\ client' \in Client /\ ~client'.getToken /\ client'.written = <<>>
      /\ client'.stream = d.stream /\ client'.state = d.state
      /\ client'.handshakeComplete = d.handshakeComplete
      /\ client'.pipeline = d.pipeline /\ client'.idle = d.idle
      /\ StreamSound(client') /\ (IsStarted(client') <=> IsStarted(d))
      /\ asked' \subseteq TokenRequest
      /\ TokensInv' /\ UsersInv' /\ CountsInv'
  BY <1>a, <1>2, <1>3, Types, ClientBecomes
<1>5. StreamInv'
  <2>1. client'.pipeline = FrontOf(queue'[user'])
    BY <1>a, <1>2, <1>4, PipelineStarts
  <2> QED BY <1>1, <1>2, <1>4, <2>1 DEF StreamInv, FrontOf
<1>6. /\ ServerInv' /\ rpc' = "none" /\ late' \in BOOLEAN
      /\ ~late' => requests' = <<>> /\ handled' = <<>>
      /\ answers' = IF late' THEN <<>> ELSE handled'
      /\ answers' \in Seq(Result) /\ UNCHANGED <<rpcUser, requests, handled>>
  BY <1>a, Types, HangUpSound
<1>7. CallInv'
  BY <1>2, <1>4, <1>6 DEF CallInv
<1>8. TypeOK'
  <2>1. TypeOK
    BY DEF Inv
  <2> QED BY <1>a, <1>4, <1>6, <2>1 DEF TypeOK
<1> QED BY <1>a, <1>4, <1>5, <1>6, <1>7, <1>8, QueuesStay DEF Inv

(* The end of a call, or of waiting for a token, that drops no write: the  *)
(* stream's next state.                                                    *)
LEMMA InterruptedSound ==
  ASSUME NEW c \in Client, StreamSound(c), ~c.getToken, IsStarted(c)
  PROVE  LET f == StartIfNeeded(Close(c, "error"))
         IN  /\ f \in Client /\ StreamSound(f) /\ f.stream = c.stream
             /\ f.pipeline = c.pipeline /\ f.state \in {"error", "backoff"}
             /\ f.pipeline # <<>> => IsStarted(f)
             /\ ~f.getToken
<1> DEFINE d == Close(c, "error")
           f == StartIfNeeded(d)
<1>1. /\ d \in Client /\ StreamSound(d) /\ ~IsStarted(d) /\ d.state = "error"
      /\ d.stream = c.stream /\ d.pipeline = c.pipeline
      /\ d.getToken = c.getToken
  BY CloseSound
<1> HIDE DEF d
<1>2. CASE d.pipeline # <<>>
  <2>1. f = StartWithDelegate(d)
    BY <1>1, <1>2 DEF StartIfNeeded
  <2>2. /\ f \in Client /\ StreamSound(f) /\ IsStarted(f)
        /\ f.stream = d.stream /\ f.pipeline = d.pipeline
        /\ f.state = "backoff" /\ (f.getToken <=> f.state = "auth")
    BY <1>1, <1>2, <2>1, StartSound
  <2> QED BY <1>1, <2>2 DEF d
<1>3. CASE d.pipeline = <<>>
  <2>1. f = d
    BY <1>3 DEF StartIfNeeded
  <2> QED BY <1>1, <1>3, <2>1 DEF d
<1> QED BY <1>2, <1>3

(* CallBreaks.                                                             *)
LEMMA BreakStep ==
  ASSUME Inv, CallBreaks
  PROVE  Inv'
<1> DEFINE c == StartIfNeeded(Close(client, "error"))
<1>a. /\ rpc # "none" /\ Become(c) /\ HangUp
      /\ UNCHANGED <<authUser, mainQueue, tokenCounter, workerQueue, user, issued, queue>>
      /\ UNCHANGED <<acknowledged, rejected, applied>>
  BY DEF CallBreaks, Interrupted, DropsWrite
<1>1. client.state = "open" /\ IsStarted(client)
  <2>1. CallInv
    BY DEF Inv
  <2> QED BY <1>a, <2>1 DEF CallInv, IsStarted
<1>2. /\ c \in Client /\ StreamSound(c) /\ c.stream = client.stream
      /\ c.pipeline = client.pipeline /\ c.state \in {"error", "backoff"}
      /\ c.pipeline # <<>> => IsStarted(c)
      /\ ~c.getToken
  BY <1>1, Types, PipelineStarts, InterruptedSound
<1> HIDE DEF c
<1>4. /\ client' \in Client /\ ~client'.getToken /\ client'.written = <<>>
      /\ client'.stream = c.stream /\ client'.state = c.state
      /\ client'.handshakeComplete = c.handshakeComplete
      /\ client'.pipeline = c.pipeline /\ client'.idle = c.idle
      /\ StreamSound(client') /\ (IsStarted(client') <=> IsStarted(c))
      /\ asked' \subseteq TokenRequest
      /\ TokensInv' /\ UsersInv' /\ CountsInv'
  BY <1>a, <1>1, <1>2, ClientBecomes
<1>5. StreamInv'
  <2>1. client'.pipeline = FrontOf(queue'[user'])
    BY <1>a, <1>2, <1>4, PipelineStarts
  <2> QED BY <1>2, <1>4, <2>1 DEF StreamInv, FrontOf
<1>6. /\ ServerInv' /\ rpc' = "none" /\ late' \in BOOLEAN
      /\ ~late' => requests' = <<>> /\ handled' = <<>>
      /\ answers' = IF late' THEN <<>> ELSE handled'
      /\ answers' \in Seq(Result) /\ UNCHANGED <<rpcUser, requests, handled>>
  BY <1>a, Types, HangUpSound
<1>7. CallInv'
  BY <1>2, <1>4, <1>6 DEF CallInv
<1>8. TypeOK'
  <2>1. TypeOK
    BY DEF Inv
  <2> QED BY <1>a, <1>4, <1>6, <2>1 DEF TypeOK
<1> QED BY <1>a, <1>4, <1>5, <1>6, <1>7, <1>8, QueuesStay DEF Inv

(* What a step that leaves the client and its queues alone keeps.          *)
LEMMA ClientStays ==
  ASSUME Inv, UNCHANGED <<user, queue, client>>
  PROVE  StreamInv'
<1>1. StreamInv
  BY DEF Inv
<1> QED BY <1>1 DEF StreamInv, FrontOf

(* The same for the services, their queues and the tokens.                 *)
LEMMA CredentialsStay ==
  ASSUME Inv, UNCHANGED <<credentials, workerQueue, user, client>>
  PROVE  TokensInv' /\ UsersInv' /\ CountsInv'
<1>1. TokensInv
  BY DEF Inv
<1>2. UsersInv' /\ CountsInv'
  BY MessagesStay DEF credentials
<1> QED BY <1>1, <1>2 DEF credentials, TokensInv, TokensSound, TokensUntil, TokensFor, AskedFor

(* Greet.                                                                  *)
LEMMA GreetStep ==
  ASSUME Inv, Greet
  PROVE  Inv'
<1>a. /\ rpc = "hello" /\ ~late /\ rpc' = "welcome"
      /\ UNCHANGED <<credentials, workerQueue, user, issued, queue, client>>
      /\ UNCHANGED <<rpcUser, late, requests, answers, handled>>
      /\ UNCHANGED <<acknowledged, rejected, applied>>
  BY DEF Greet, outcome
<1>1. CallInv'
  <2>1. CallInv
    BY DEF Inv
  <2> QED BY <1>a, <2>1 DEF CallInv
<1>2. TypeOK'
  <2>1. TypeOK
    BY DEF Inv
  <2> QED BY <1>a, <2>1 DEF TypeOK, credentials
<1> QED BY <1>a, <1>1, <1>2, QueuesStay, ServerStays, ClientStays, CredentialsStay DEF Inv

(* LateEnds.                                                               *)
LEMMA LateStep ==
  ASSUME Inv, LateEnds
  PROVE  Inv'
<1>a. /\ late /\ late' = FALSE /\ requests' = <<>> /\ handled' = <<>>
      /\ UNCHANGED <<credentials, workerQueue, user, issued, queue, client>>
      /\ UNCHANGED <<rpc, rpcUser, answers>>
      /\ UNCHANGED <<acknowledged, rejected, applied>>
  BY DEF LateEnds, outcome
<1>1. CallInv'
  <2>1. CallInv
    BY DEF Inv
  <2> QED BY <1>a, <2>1 DEF CallInv
<1>2. ServerInv'
  <2>1. Works(handled', requests', queue'[user']) /\ DOMAIN handled' = {}
    BY <1>a, Types, NoWork
  <2> QED BY <1>a, <2>1, Types DEF ServerInv
<1>3. TypeOK'
  <2>1. TypeOK
    BY DEF Inv
  <2>2. requests' \in Seq(Batch) /\ handled' \in Seq(Result)
    BY <1>a, EmptySeq
  <2> QED BY <1>a, <2>1, <2>2 DEF TypeOK, credentials
<1> QED BY <1>a, <1>1, <1>2, <1>3, QueuesStay, ClientStays, CredentialsStay DEF Inv

(* HandshakeCompletes.                                                     *)
LEMMA HandshakeStep ==
  ASSUME Inv, HandshakeCompletes
  PROVE  Inv'
<1> DEFINE d == [client EXCEPT !.handshakeComplete = TRUE]
           c == WriteMutations(d, client.pipeline)
<1>a. /\ rpc = "welcome" /\ rpc' = "ready" /\ Become(c) /\ OnCall(c)
      /\ UNCHANGED <<authUser, mainQueue, tokenCounter, workerQueue, user, issued, queue>>
      /\ UNCHANGED <<rpcUser, late, answers, handled>>
      /\ UNCHANGED <<acknowledged, rejected, applied>>
  BY DEF HandshakeCompletes, outcome
<1>b. CallInv
  BY DEF Inv
<1>1. /\ client.state = "open" /\ ~client.handshakeComplete /\ ~late
      /\ requests = <<>> /\ handled = <<>> /\ rpcUser = user
  BY <1>a, <1>b, Types DEF CallInv
<1>2. /\ d \in Client /\ d.state = client.state /\ d.stream = client.stream
      /\ d.handshakeComplete /\ d.delegate = client.delegate
      /\ d.idle = client.idle /\ d.pipeline = client.pipeline
      /\ d.getToken = client.getToken /\ d.written = client.written
      /\ d.asserts = client.asserts
  BY Types DEF Client
<1> HIDE DEF d
<1>3. StreamSound(d) /\ d.pipeline # <<>>
  BY <1>1, <1>2, PipelineStarts DEF StreamSound, IsStarted
<1>4. /\ c \in Client /\ StreamSound(c)
      /\ c.stream = d.stream /\ c.pipeline = d.pipeline /\ c.written = client.pipeline
      /\ c.state = "open" /\ c.handshakeComplete /\ c.getToken = d.getToken
  BY <1>1, <1>2, <1>3, Types, WriteSound
<1> HIDE DEF c
<1>5. /\ client' \in Client /\ ~client'.getToken /\ client'.written = <<>>
      /\ client'.stream = c.stream /\ client'.state = c.state
      /\ client'.handshakeComplete = c.handshakeComplete
      /\ client'.pipeline = c.pipeline /\ client'.idle = c.idle
      /\ StreamSound(client') /\ (IsStarted(client') <=> IsStarted(c))
      /\ asked' \subseteq TokenRequest
      /\ TokensInv' /\ UsersInv' /\ CountsInv'
  BY <1>a, <1>1, <1>2, <1>4, Types, ClientBecomes
<1>6. StreamInv'
  <2>1. client'.pipeline = FrontOf(queue'[user'])
    BY <1>a, <1>2, <1>4, <1>5, PipelineStarts
  <2>2. IsStarted(client')
    BY <1>4, <1>5 DEF IsStarted
  <2> QED BY <1>5, <2>1, <2>2 DEF StreamInv, FrontOf
<1>7. requests' = client.pipeline
  <2>1. requests' = <<>> \o client.pipeline
    BY <1>a, <1>1, <1>4 DEF OnCall
  <2> QED BY <2>1, Types, ConcatEmptySeq
<1>8. Len(handled) = 0 /\ DOMAIN handled = {}
  BY <1>1
<1>9. ServerInv'
  <2>1. Works(handled, client.pipeline, queue[user])
    <3>1. /\ Len(client.pipeline) \in Nat /\ Len(queue[user]) \in Nat
          /\ DOMAIN client.pipeline = 1 .. Len(client.pipeline)
      BY Types, Lengths
    <3> QED BY <1>8, <3>1, PipelineStarts DEF Works, Starts
  <2>2. Works(handled', requests', queue'[user'])
    BY <1>a, <1>7, <2>1
  <2> QED BY <1>a, <1>8, <2>2, Types DEF ServerInv
<1>10. CallInv'
  <2>1. Len(handled) + Len(client.pipeline) = Len(client.pipeline)
    BY <1>8, Types, Lengths
  <2>2. Len(handled') + Len(requests') = Len(client'.pipeline)
    BY <1>a, <1>2, <1>4, <1>5, <1>7, <2>1
  <2> QED BY <1>a, <1>b, <1>1, <1>4, <1>5, <2>2 DEF CallInv
<1>11. TypeOK'
  <2>1. TypeOK
    BY DEF Inv
  <2> QED BY <1>a, <1>5, <1>7, <2>1, Types DEF TypeOK
<1> QED BY <1>a, <1>5, <1>6, <1>9, <1>10, <1>11, QueuesStay DEF Inv

(* Handle: the server takes the first request up.                          *)
LEMMA HandleStep ==
  ASSUME Inv, NEW accepted \in BOOLEAN, Handle(accepted)
  PROVE  Inv'
<1> DEFINE batch == Head(requests)
           result == [batch |-> batch, accepted |-> accepted]
           n == Len(handled)
<1>a. /\ requests # <<>> /\ \A k \in DOMAIN handled : handled[k].accepted
      /\ applied' = IF accepted THEN applied \cup {batch} ELSE applied
      /\ handled' = Append(handled, result)
      /\ answers' = IF late THEN answers ELSE Append(answers, result)
      /\ requests' = Tail(requests)
      /\ UNCHANGED <<credentials, workerQueue, user, issued, queue, client>>
      /\ UNCHANGED <<rpc, rpcUser, late, acknowledged, rejected>>
  BY DEF Handle
<1>b. CallInv /\ ServerInv /\ OutcomeInv /\ TypeOK
  BY DEF Inv
<1>1. /\ batch \in Batch /\ batch = requests[1] /\ 1 \in DOMAIN requests
      /\ requests' \in Seq(Batch) /\ Len(requests') = Len(requests) - 1
      /\ Len(requests) \in Nat /\ Len(requests) >= 1
      /\ DOMAIN requests' = 1 .. Len(requests) - 1 /\ DOMAIN requests = 1 .. Len(requests)
      /\ \A k \in 1 .. Len(requests) - 1 : requests'[k] = requests[k + 1]
  <2>1. /\ batch \in Batch /\ Tail(requests) \in Seq(Batch)
        /\ Len(Tail(requests)) = Len(requests) - 1
        /\ \A k \in 1 .. Len(Tail(requests)) : Tail(requests)[k] = requests[k + 1]
    BY <1>a, Types, HeadTailProperties
  <2>2. Len(requests) # 0 /\ Len(requests) \in Nat /\ DOMAIN requests = 1 .. Len(requests)
    BY <1>a, Types, Lengths, EmptySeq
  <2>3. DOMAIN Tail(requests) = 1 .. Len(Tail(requests))
    BY <2>1, Lengths
  <2>4. batch = requests[1]
    BY <1>a, Types
  <2> HIDE DEF batch
  <2> QED BY <1>a, <2>1, <2>2, <2>3, <2>4
<1> HIDE DEF batch
<1>2. result \in Result /\ result.batch = batch /\ result.accepted = accepted
  BY <1>1 DEF Result
<1> HIDE DEF result
<1>3. /\ handled' \in Seq(Result) /\ Len(handled') = n + 1 /\ n \in Nat
      /\ DOMAIN handled = 1 .. n /\ DOMAIN handled' = 1 .. n + 1
      /\ \A k \in 1 .. n : handled'[k] = handled[k]
      /\ handled'[n + 1] = result
      /\ \A k \in 1 .. n + 1 : k \in 1 .. n \/ k = n + 1
  <2>1. /\ Append(handled, result) \in Seq(Result) /\ Len(Append(handled, result)) = n + 1
        /\ \A k \in 1 .. n : Append(handled, result)[k] = handled[k]
        /\ Append(handled, result)[n + 1] = result
    BY <1>2, Types, AppendProperties
  <2>2. n \in Nat /\ DOMAIN handled = 1 .. n
    BY Types, Lengths
  <2>3. DOMAIN Append(handled, result) = 1 .. n + 1
    BY <2>1, Lengths
  <2> HIDE DEF n
  <2>4. \A k \in 1 .. n + 1 : k \in 1 .. n \/ k = n + 1
    BY <2>2
  <2> QED BY <1>a, <2>1, <2>2, <2>3, <2>4
<1>4. PICK u \in User : Works(handled, requests, queue[u]) /\ (late \/ u = user)
  BY <1>b DEF ServerInv
<1>5. batch = queue[u][n + 1] /\ n + 1 \in DOMAIN queue[u]
  <2>1. n + Len(requests) <= Len(queue[u]) /\ requests[1] = queue[u][n + 1]
    BY <1>1, <1>4 DEF Works
  <2>2. DOMAIN queue[u] = 1 .. Len(queue[u]) /\ Len(queue[u]) \in Nat
    BY Types, Lengths
  <2> HIDE DEF n
  <2> QED BY <1>1, <1>3, <2>1, <2>2
<1>6. Works(handled', requests', queue'[u])
  <2>1. n + Len(requests) <= Len(queue[u])
        /\ \A k \in 1 .. n : handled[k].batch = queue[u][k]
    BY <1>3, <1>4 DEF Works
  <2>2. \A k \in 1 .. Len(requests) : requests[k] = queue[u][n + k]
    BY <1>1, <1>4 DEF Works
  <2> HIDE DEF n
  <2>3. n + 1 + Len(requests') <= Len(queue[u])
    BY <1>1, <1>3, <2>1, Types, Lengths
  <2>4. \A k \in 1 .. n + 1 : handled'[k].batch = queue[u][k]
    BY <1>2, <1>3, <1>5, <2>1
  <2>5. ASSUME NEW k \in 1 .. Len(requests) - 1
        PROVE  requests'[k] = queue[u][n + 1 + k]
    <3>1. k + 1 \in 1 .. Len(requests) /\ n + (k + 1) = n + 1 + k
      <4> DEFINE l == Len(requests)
      <4>1. n \in Nat /\ l \in Nat /\ k \in 1 .. l - 1
        BY <1>1, <1>3
      <4> HIDE DEF l
      <4>2. k + 1 \in 1 .. l /\ n + (k + 1) = n + 1 + k
        BY <4>1
      <4> QED BY <4>2 DEF l
    <3> QED BY <1>1, <2>2, <3>1
  <2> QED BY <1>a, <1>1, <1>3, <2>3, <2>4, <2>5 DEF Works
<1>8. ServerInv'
  <2>1. \A k \in 1 .. n : handled[k].accepted /\ handled[k].batch \in applied
    BY <1>a, <1>b, <1>3 DEF ServerInv
  <2>2. \A k \in 1 .. n + 1 : handled'[k].accepted => handled'[k].batch \in applied'
    BY <1>a, <1>2, <1>3, <2>1
  <2>3. \A k \in 1 .. n + 1 : k < n + 1 => handled'[k].accepted
    BY <1>3, <2>1
  <2>4. Works(handled', requests', queue'[u]) /\ (late' \/ u = user')
    BY <1>a, <1>4, <1>6
  <2> QED BY <1>3, <2>2, <2>3, <2>4 DEF ServerInv
<1>9. CallInv'
  <2>1. late \/ rpc = "ready"
    BY <1>a, <1>b DEF CallInv
  <2>2. answers' = IF late' THEN <<>> ELSE handled'
    BY <1>a, <1>b DEF CallInv
  <2>3. rpc = "ready" => n + 1 + Len(requests') = Len(client.pipeline)
    <3>1. rpc = "ready" => n + Len(requests) = Len(client.pipeline)
      BY <1>b DEF CallInv
    <3> DEFINE l == Len(requests)
               lt == Len(requests')
               lp == Len(client.pipeline)
    <3>2. n \in Nat /\ l \in Nat /\ lt = l - 1 /\ (rpc = "ready" => n + l = lp)
      BY <1>1, <1>3, <3>1
    <3> HIDE DEF n, l, lt, lp
    <3>3. rpc = "ready" => n + 1 + lt = lp
      BY <3>2
    <3> QED BY <3>3 DEF lt, lp
  <2>4. rpc' = "ready" => Len(handled') + Len(requests') = Len(client'.pipeline)
    BY <1>a, <1>3, <2>3
  <2> QED BY <1>a, <1>b, <2>1, <2>2, <2>4 DEF CallInv
<1>10. OutcomeInv'
  BY <1>a, <1>b DEF OutcomeInv
<1>11. TypeOK'
  <2>1. answers' \in Seq(Result)
    BY <1>a, <1>b, <1>3, Types DEF CallInv
  <2> QED BY <1>a, <1>b, <1>1, <1>3, <2>1 DEF TypeOK, credentials
<1>12. QueuesOrdered'
  <2>1. QueuesOrdered
    BY DEF Inv
  <2> QED BY <1>a, <2>1 DEF QueuesOrdered
<1> QED BY <1>a, <1>8, <1>9, <1>10, <1>11, <1>12, ClientStays, CredentialsStay DEF Inv

(* The first write leaves the queue of the current user.                   *)
LEMMA QueueShrinks ==
  ASSUME Inv, queue[user] # <<>>, issued' = issued,
         queue' = [queue EXCEPT ![user] = Tail(queue[user])]
  PROVE  /\ queue' \in [User -> Seq(Batch)] /\ queue'[user] = Tail(queue[user])
         /\ Ordered(Tail(queue[user]), user, issued[user])
         /\ QueuesOrdered'
         /\ \A b \in Batch : b.number <= issued[b.user]
              /\ (b = Head(queue[user])
                  \/ \A k \in DOMAIN queue[b.user] : queue[b.user][k] # b) =>
              /\ b.number <= issued'[b.user]
              /\ \A k \in DOMAIN queue'[b.user] : queue'[b.user][k] # b
<1> DEFINE q == queue[user]
           t == Tail(q)
<1>1. /\ t \in Seq(Batch) /\ Len(t) = Len(q) - 1 /\ Len(q) >= 1 /\ Head(q) = q[1]
      /\ \A k \in 1 .. Len(t) : t[k] = q[k + 1]
      /\ Ordered(t, user, issued[user])
      /\ \A k \in DOMAIN t : t[k] # Head(q)
  BY Types, PipelineStarts, TailOrdered
<1>2. /\ DOMAIN q = 1 .. Len(q) /\ Len(q) \in Nat /\ DOMAIN t = 1 .. Len(t)
      /\ Head(q).user = user
  <2>1. DOMAIN q = 1 .. Len(q) /\ Len(q) \in Nat /\ DOMAIN t = 1 .. Len(t)
    BY <1>1, Types, Lengths
  <2>2. 1 \in DOMAIN q
    BY <1>1, <2>1
  <2> QED BY <1>1, <2>1, <2>2, PipelineStarts DEF Ordered
<1> HIDE DEF q, t
<1>3. /\ queue' \in [User -> Seq(Batch)]
      /\ \A u \in User : queue'[u] = IF u = user THEN t ELSE queue[u]
  BY <1>1, Types DEF q, t
<1>4. QueuesOrdered'
  <2>1. QueuesOrdered
    BY DEF Inv
  <2>2. \A u \in User : Ordered(queue'[u], u, issued[u])
    BY <1>1, <1>3, <2>1 DEF QueuesOrdered
  <2> QED BY <2>2 DEF QueuesOrdered
<1>5. ASSUME NEW b \in Batch, b.number <= issued[b.user],
             b = Head(q) \/ \A k \in DOMAIN queue[b.user] : queue[b.user][k] # b
      PROVE  \A k \in DOMAIN queue'[b.user] : queue'[b.user][k] # b
  <2>1. b.user \in User
    BY DEF Batch
  <2>2. CASE b.user = user
    <3>1. \A k \in DOMAIN t : k + 1 \in DOMAIN q /\ t[k] = q[k + 1]
      BY <1>1, <1>2
    <3>2. \A k \in DOMAIN t : t[k] # b
      BY <1>1, <1>5, <2>2, <3>1 DEF q
    <3> QED BY <1>3, <2>1, <2>2, <3>2
  <2>3. CASE b.user # user
    BY <1>2, <1>3, <1>5, <2>1, <2>3
  <2> QED BY <2>2, <2>3
<1> QED BY <1>1, <1>3, <1>4, <1>5, Types DEF q, t

(* An answer is on its way: the call is open, and the answer is the one to *)
(* the first write of the pipeline, which is the first of the queue.       *)
LEMMA AnswerSound ==
  ASSUME Inv, answers # <<>>
  PROVE  /\ rpc = "ready" /\ ~late /\ answers = handled /\ handled # <<>>
         /\ client.state = "open" /\ client.handshakeComplete
         /\ Follows(handled, requests, client.pipeline, queue[user])
         /\ client.pipeline # <<>> /\ queue[user] # <<>>
         /\ Head(client.pipeline) = Head(queue[user])
         /\ Head(handled).batch = Head(queue[user]) /\ Head(queue[user]) \in Batch
         /\ Head(handled) = handled[1] /\ 1 \in DOMAIN handled
         /\ RemoveBatch(queue[user], Head(queue[user])) = Tail(queue[user])
         /\ Tail(client.pipeline) \in Seq(Batch) /\ Tail(queue[user]) \in Seq(Batch)
         /\ Starts(Tail(client.pipeline), Tail(queue[user]))
         /\ Len(Tail(client.pipeline)) <= MaxPendingWrites
         /\ Head(queue[user]).user = user /\ Head(queue[user]).number <= issued[user]
<1>a. CallInv /\ ServerInv
  BY DEF Inv
<1>1. rpc = "ready" /\ ~late /\ answers = handled /\ handled # <<>>
  BY <1>a DEF CallInv
<1>2. client.state = "open" /\ client.handshakeComplete
  BY <1>a, <1>1, Types DEF CallInv
<1>3. Works(handled, requests, queue[user])
  BY <1>a, <1>1 DEF ServerInv
<1>4. Len(handled) + Len(requests) = Len(client.pipeline)
  BY <1>a, <1>1 DEF CallInv
<1>5. /\ queue[user] # <<>> /\ Head(handled).batch = Head(queue[user])
      /\ Head(handled) = handled[1] /\ 1 \in DOMAIN handled
  BY <1>1, <1>3, Types, AnswerWorks
<1>6. client.pipeline # <<>>
  <2> DEFINE lh == Len(handled)
             lr == Len(requests)
  <2>1. lh \in Nat /\ lr \in Nat /\ lh # 0
    BY <1>1, Types, Lengths, EmptySeq
  <2> HIDE DEF lh, lr
  <2>2. lh + lr # 0
    BY <2>1
  <2>3. Len(client.pipeline) # 0
    BY <1>4, <2>2 DEF lh, lr
  <2> QED BY <2>3
<1>7. /\ Head(client.pipeline) = Head(queue[user])
      /\ Tail(client.pipeline) \in Seq(Batch)
      /\ Starts(Tail(client.pipeline), Tail(queue[user]))
      /\ Len(Tail(client.pipeline)) <= Len(client.pipeline)
  BY <1>6, Types, PipelineStarts, TailStarts
<1>8. Len(Tail(client.pipeline)) <= MaxPendingWrites
  <2>1. /\ Len(Tail(client.pipeline)) \in Nat /\ Len(client.pipeline) \in Nat
        /\ MaxPendingWrites \in Nat /\ Len(client.pipeline) <= MaxPendingWrites
    BY <1>7, Types, PipelineStarts, Lengths
  <2> QED BY <1>7, <2>1
<1>9. /\ RemoveBatch(queue[user], Head(queue[user])) = Tail(queue[user])
      /\ Tail(queue[user]) \in Seq(Batch) /\ Head(queue[user]) \in Batch
  <2>1. RemoveBatch(queue[user], Head(queue[user])) = Tail(queue[user])
    BY <1>5, Types, PipelineStarts, RemovesHead
  <2> QED BY <1>5, <2>1, Types, HeadTailProperties
<1>10. Head(queue[user]).user = user /\ Head(queue[user]).number <= issued[user]
  <2>1. Head(queue[user]) = queue[user][1] /\ 1 \in DOMAIN queue[user]
    <3>1. /\ Head(queue[user]) = queue[user][1] /\ Len(queue[user]) >= 1
      BY <1>5, Types, PipelineStarts, TailOrdered
    <3>2. DOMAIN queue[user] = 1 .. Len(queue[user]) /\ Len(queue[user]) \in Nat
      BY Types, Lengths
    <3> QED BY <3>1, <3>2
  <2> QED BY <2>1, PipelineStarts DEF Ordered
<1> QED BY <1>1, <1>2, <1>3, <1>4, <1>5, <1>6, <1>7, <1>8, <1>9, <1>10 DEF Follows

(* The answer taken away from what the server has handled.                 *)
LEMMA AnswerTaken ==
  ASSUME Inv, answers # <<>>
  PROVE  /\ Tail(handled) \in Seq(Result)
         /\ Follows(Tail(handled), requests, Tail(client.pipeline), Tail(queue[user]))
         /\ \A k \in DOMAIN Tail(handled) :
              /\ Tail(handled)[k].accepted => Tail(handled)[k].batch \in applied
              /\ k < Len(Tail(handled)) => Tail(handled)[k].accepted
<1>a. /\ handled # <<>> /\ Follows(handled, requests, client.pipeline, queue[user])
      /\ client.pipeline # <<>>
  BY AnswerSound
<1>1. Works(handled, requests, queue[user])
      /\ Len(handled) + Len(requests) = Len(client.pipeline)
  BY <1>a DEF Follows
<1>2. /\ Works(Tail(handled), requests, Tail(queue[user])) /\ Tail(handled) \in Seq(Result)
      /\ Len(Tail(handled)) = Len(handled) - 1
      /\ \A k \in DOMAIN Tail(handled) :
           k + 1 \in DOMAIN handled /\ Tail(handled)[k] = handled[k + 1]
  BY <1>a, <1>1, Types, AnswerWorks
<1>3. Len(Tail(client.pipeline)) = Len(client.pipeline) - 1
  BY <1>a, Types, HeadTailProperties
<1>4. Len(Tail(handled)) + Len(requests) = Len(Tail(client.pipeline))
  <2> DEFINE lh == Len(handled)
             lr == Len(requests)
             lp == Len(client.pipeline)
             th == Len(Tail(handled))
             tp == Len(Tail(client.pipeline))
  <2>1. /\ lh \in Nat /\ lr \in Nat /\ lp \in Nat
        /\ lh + lr = lp /\ th = lh - 1 /\ tp = lp - 1
    BY <1>1, <1>2, <1>3, Types, Lengths
  <2> HIDE DEF lh, lr, lp, th, tp
  <2>2. th + lr = tp
    BY <2>1
  <2> QED BY <2>2 DEF th, lr, tp
<1>5. ASSUME NEW k \in DOMAIN Tail(handled)
      PROVE  /\ Tail(handled)[k].accepted => Tail(handled)[k].batch \in applied
             /\ k < Len(Tail(handled)) => Tail(handled)[k].accepted
  <2>1. ServerInv
    BY DEF Inv
  <2>2. k + 1 \in DOMAIN handled /\ Tail(handled)[k] = handled[k + 1]
    BY <1>2
  <2>3. k \in Nat /\ Len(handled) \in Nat
    BY <1>2, Types, Lengths
  <2>4. k < Len(Tail(handled)) => k + 1 < Len(handled)
    BY <1>2, <2>3
  <2> QED BY <2>1, <2>2, <2>4 DEF ServerInv
<1> QED BY <1>2, <1>4, <1>5 DEF Follows

(* Accepted.                                                               *)
LEMMA AcceptedStep ==
  ASSUME Inv, Accepted
  PROVE  Inv'
<1> DEFINE batch == Head(queue[user])
           left == Tail(queue[user])
           d == [client EXCEPT !.pipeline = Tail(@)]
           c == FillWritePipeline(d, left)
<1>1. answers # <<>> /\ Head(answers).accepted
  BY DEF Accepted
<1>2. /\ rpc = "ready" /\ ~late /\ answers = handled /\ handled # <<>>
      /\ client.state = "open" /\ client.handshakeComplete
      /\ client.pipeline # <<>> /\ queue[user] # <<>>
      /\ Head(client.pipeline) = batch
      /\ Head(handled).batch = batch /\ batch \in Batch
      /\ Head(handled) = handled[1] /\ 1 \in DOMAIN handled
      /\ RemoveBatch(queue[user], batch) = left
      /\ Tail(client.pipeline) \in Seq(Batch) /\ left \in Seq(Batch)
      /\ Starts(Tail(client.pipeline), left)
      /\ Len(Tail(client.pipeline)) <= MaxPendingWrites
  BY <1>1, AnswerSound
<1>3. /\ queue' = [queue EXCEPT ![user] = left]
      /\ acknowledged' = acknowledged \cup {batch}
      /\ Become(c) /\ OnCall(c)
      /\ answers' = Tail(answers) /\ handled' = Tail(handled)
      /\ UNCHANGED <<authUser, mainQueue, tokenCounter, workerQueue, user, issued>>
      /\ UNCHANGED <<rpc, rpcUser, late, rejected, applied>>
  BY <1>2 DEF Accepted, FirstOf
<1>4. /\ queue' \in [User -> Seq(Batch)] /\ queue'[user] = left
      /\ Ordered(left, user, issued[user])
      /\ QueuesOrdered'
      /\ \A b \in Batch : b.number <= issued[b.user]
           /\ (b = batch \/ \A k \in DOMAIN queue[b.user] : queue[b.user][k] # b) =>
           /\ b.number <= issued'[b.user]
           /\ \A k \in DOMAIN queue'[b.user] : queue'[b.user][k] # b
  BY <1>2, <1>3, QueueShrinks
<1>5. /\ d \in Client /\ d.pipeline = Tail(client.pipeline)
      /\ d.state = client.state /\ d.stream = client.stream
      /\ d.handshakeComplete = client.handshakeComplete /\ d.delegate = client.delegate
      /\ d.idle = client.idle /\ d.getToken = client.getToken
      /\ d.written = client.written /\ d.asserts = client.asserts
  BY <1>2, Types DEF Client
<1> HIDE DEF d, batch, left
<1>6. StreamSound(d) /\ IsStarted(d)
  BY <1>2, <1>5, PipelineStarts DEF StreamSound, IsStarted
<1>7. /\ c \in Client /\ StreamSound(c) /\ c.stream = d.stream
      /\ c.pipeline = FrontOf(left)
      /\ c.pipeline # <<>> => IsStarted(c)
      /\ c.getToken <=> c.state = "auth" /\ d.state # "auth"
      /\ c.state = "open" /\ c.handshakeComplete
      /\ c.written \in Seq(Batch)
      /\ Tail(client.pipeline) \o c.written = c.pipeline
  <2>1. /\ ~d.getToken /\ d.written = <<>> /\ Starts(d.pipeline, left)
        /\ Len(d.pipeline) <= MaxPendingWrites
    BY <1>2, <1>5, Types
  <2>2. /\ c \in Client /\ StreamSound(c) /\ c.stream = d.stream
        /\ c.pipeline = FrontOf(left)
        /\ c.pipeline # <<>> => IsStarted(c)
        /\ c.getToken <=> c.state = "auth" /\ d.state # "auth"
        /\ IsStarted(d) => /\ c.state = d.state
                           /\ c.handshakeComplete = d.handshakeComplete
        /\ c.written \in Seq(Batch)
        /\ IF d.state = "open" /\ d.handshakeComplete
           THEN d.pipeline \o c.written = c.pipeline
           ELSE c.written = <<>>
    <3>1. /\ d \in Client /\ StreamSound(d) /\ left \in Seq(Batch)
          /\ Ordered(left, user, issued[user])
      BY <1>2, <1>4, <1>5, <1>6
    <3> QED BY <2>1, <3>1, FillSound
  <2> HIDE DEF c
  <2>3. d.state = "open" /\ d.handshakeComplete
    BY <1>2, <1>5
  <2> QED BY <1>5, <1>6, <2>2, <2>3
<1> HIDE DEF c
<1>8. /\ client' \in Client /\ ~client'.getToken /\ client'.written = <<>>
      /\ client'.stream = c.stream /\ client'.state = c.state
      /\ client'.handshakeComplete = c.handshakeComplete
      /\ client'.pipeline = c.pipeline /\ client'.idle = c.idle
      /\ StreamSound(client') /\ (IsStarted(client') <=> IsStarted(c))
      /\ asked' \subseteq TokenRequest
      /\ TokensInv' /\ UsersInv' /\ CountsInv'
  BY <1>2, <1>3, <1>5, <1>7, ClientBecomes
<1>9. StreamInv'
  <2>1. client'.pipeline = FrontOf(queue'[user'])
    BY <1>3, <1>4, <1>7, <1>8
  <2> QED BY <1>7, <1>8, <2>1 DEF StreamInv, FrontOf
<1>10. /\ Tail(handled) \in Seq(Result)
       /\ Follows(Tail(handled), requests, Tail(client.pipeline), left)
       /\ \A k \in DOMAIN Tail(handled) :
            /\ Tail(handled)[k].accepted => Tail(handled)[k].batch \in applied
            /\ k < Len(Tail(handled)) => Tail(handled)[k].accepted
  BY <1>1, AnswerTaken DEF left
<1>11. requests' \in Seq(Batch) /\ Follows(handled', requests', c.pipeline, left)
  <2>1. Starts(Tail(client.pipeline) \o c.written, left)
    BY <1>2, <1>7, FrontProperties
  <2>2. /\ requests \o c.written \in Seq(Batch)
        /\ Follows(Tail(handled), requests \o c.written,
                   Tail(client.pipeline) \o c.written, left)
    BY <1>2, <1>7, <1>10, <2>1, Types, WrittenWorks
  <2> QED BY <1>3, <1>7, <2>2 DEF OnCall
<1>12. Works(handled', requests', left) /\ Len(handled') + Len(requests') = Len(c.pipeline)
  BY <1>11 DEF Follows
<1>13. ServerInv'
  <2>1. Works(handled', requests', queue'[user']) /\ user' \in User
    BY <1>3, <1>4, <1>12, Types
  <2> QED BY <1>3, <1>10, <2>1 DEF ServerInv
<1>14. CallInv'
  <2>1. CallInv
    BY DEF Inv
  <2>2. answers' = handled'
    BY <1>2, <1>3
  <2>3. Len(handled') + Len(requests') = Len(client'.pipeline)
    BY <1>8, <1>12
  <2> QED BY <1>2, <1>3, <1>7, <1>8, <2>1, <2>2, <2>3 DEF CallInv
<1>15. OutcomeInv'
  <2>1. OutcomeInv /\ rejected \subseteq Batch
    BY DEF Inv, TypeOK
  <2> QED BY <1>3, <1>4, <2>1 DEF OutcomeInv
<1>16. TypeOK'
  <2>1. TypeOK
    BY DEF Inv
  <2> QED BY <1>2, <1>3, <1>4, <1>8, <1>10, <1>11, <2>1 DEF TypeOK
<1> QED BY <1>4, <1>8, <1>9, <1>13, <1>14, <1>15, <1>16 DEF Inv

(* What hearing of a refusal does: the first write leaves the user's queue. *)
LEMMA RefusedEffect ==
  ASSUME Inv, Refused
  PROVE  LET left == Tail(queue[user])
             closed == Close(client, "error")
             d == InhibitBackoff([closed EXCEPT !.pipeline = Tail(@)])
         IN  /\ queue' = [queue EXCEPT ![user] = left]
             /\ rejected' = rejected \cup {Head(queue[user])}
             /\ Become(StartIfNeeded(FillWritePipeline(d, left)))
             /\ rpc' = "none" /\ requests' = <<>>
             /\ answers' = Tail(answers) /\ handled' = Tail(handled)
             /\ UNCHANGED <<authUser, mainQueue, tokenCounter, workerQueue, user, issued>>
             /\ UNCHANGED <<rpcUser, late, acknowledged, applied>>
<1> DEFINE batch == Head(queue[user])
           left == Tail(queue[user])
           closed == Close(client, "error")
           e == [closed EXCEPT !.pipeline = Tail(@)]
           d == InhibitBackoff(e)
           c == FillWritePipeline(d, left)
<1>1. answers # <<>> /\ ~Head(answers).accepted
  BY DEF Refused
<1>2. /\ client.state = "open" /\ client.handshakeComplete
      /\ client.pipeline # <<>> /\ Head(client.pipeline) = batch
      /\ RemoveBatch(queue[user], batch) = left
  BY <1>1, AnswerSound
<1>3. IsStarted(client)
  BY <1>2 DEF IsStarted
<1>4. /\ closed.pipeline = client.pipeline
      /\ closed.handshakeComplete = client.handshakeComplete
  BY <1>3, Types, PipelineStarts, CloseSound
<1>5. DropsWrite(closed, "permanent") /\ Head(closed.pipeline) = batch
  BY <1>2, <1>4 DEF DropsWrite
<1>6. /\ queue' = [queue EXCEPT ![user] = left]
      /\ rejected' = rejected \cup {batch}
      /\ Become(StartIfNeeded(c))
      /\ rpc' = "none" /\ requests' = <<>>
      /\ answers' = Tail(answers) /\ handled' = Tail(handled)
      /\ UNCHANGED <<authUser, mainQueue, tokenCounter, workerQueue, user, issued>>
      /\ UNCHANGED <<rpcUser, late, acknowledged, applied>>
  <2>1. /\ Interrupted("permanent") /\ rpc' = "none" /\ requests' = <<>>
        /\ answers' = Tail(answers) /\ handled' = Tail(handled)
        /\ UNCHANGED <<authUser, mainQueue, tokenCounter, workerQueue, user, issued,
                       rpcUser, late, acknowledged, applied>>
    BY DEF Refused
  <2>2. /\ queue' = [queue EXCEPT ![user] = RemoveBatch(queue[user], Head(closed.pipeline))]
        /\ rejected' = rejected \cup {Head(closed.pipeline)}
        /\ Become(StartIfNeeded(
             FillWritePipeline(d, RemoveBatch(queue[user], Head(closed.pipeline)))))
    BY <1>5, <2>1 DEF Interrupted
  <2> HIDE DEF closed, d, batch, left
  <2>3. Head(closed.pipeline) = batch /\ RemoveBatch(queue[user], batch) = left
    BY <1>2, <1>5
  <2> QED BY <2>1, <2>2, <2>3
<1> QED BY <1>6

(* Refused.                                                                *)
LEMMA RefusedStep ==
  ASSUME Inv, Refused
  PROVE  Inv'
<1> DEFINE batch == Head(queue[user])
           left == Tail(queue[user])
           closed == Close(client, "error")
           e == [closed EXCEPT !.pipeline = Tail(@)]
           d == InhibitBackoff(e)
           c == FillWritePipeline(d, left)
<1>1. answers # <<>> /\ ~Head(answers).accepted
  BY DEF Refused
<1>2. /\ rpc = "ready" /\ ~late /\ answers = handled /\ handled # <<>>
      /\ client.state = "open" /\ client.handshakeComplete
      /\ client.pipeline # <<>> /\ queue[user] # <<>>
      /\ Head(client.pipeline) = batch
      /\ Head(handled).batch = batch /\ batch \in Batch
      /\ Head(handled) = handled[1] /\ 1 \in DOMAIN handled
      /\ RemoveBatch(queue[user], batch) = left
      /\ Tail(client.pipeline) \in Seq(Batch) /\ left \in Seq(Batch)
      /\ Starts(Tail(client.pipeline), left)
      /\ Len(Tail(client.pipeline)) <= MaxPendingWrites
      /\ batch.user = user /\ batch.number <= issued[user]
  BY <1>1, AnswerSound
<1>3. IsStarted(client)
  BY <1>2 DEF IsStarted
<1>4. /\ closed \in Client /\ StreamSound(closed) /\ ~IsStarted(closed)
      /\ closed.state = "error"
      /\ closed.stream = client.stream /\ closed.pipeline = client.pipeline
      /\ closed.written = client.written
      /\ closed.handshakeComplete = client.handshakeComplete
      /\ closed.getToken = client.getToken
  BY <1>3, Types, PipelineStarts, CloseSound
<1>6. /\ queue' = [queue EXCEPT ![user] = left]
      /\ rejected' = rejected \cup {batch}
      /\ Become(StartIfNeeded(c))
      /\ rpc' = "none" /\ requests' = <<>>
      /\ answers' = Tail(answers) /\ handled' = Tail(handled)
      /\ UNCHANGED <<authUser, mainQueue, tokenCounter, workerQueue, user, issued>>
      /\ UNCHANGED <<rpcUser, late, acknowledged, applied>>
  BY RefusedEffect
<1>7. /\ queue' \in [User -> Seq(Batch)] /\ queue'[user] = left
      /\ Ordered(left, user, issued[user])
      /\ QueuesOrdered'
      /\ \A b \in Batch : b.number <= issued[b.user]
           /\ (b = batch \/ \A k \in DOMAIN queue[b.user] : queue[b.user][k] # b) =>
           /\ b.number <= issued'[b.user]
           /\ \A k \in DOMAIN queue'[b.user] : queue'[b.user][k] # b
  BY <1>2, <1>6, QueueShrinks
<1> HIDE DEF closed, batch, left
<1>8. /\ e \in Client /\ e.pipeline = Tail(client.pipeline)
      /\ e.state = closed.state /\ e.stream = closed.stream
      /\ e.handshakeComplete = closed.handshakeComplete /\ e.delegate = closed.delegate
      /\ e.idle = closed.idle /\ e.getToken = closed.getToken
      /\ e.written = closed.written /\ e.asserts = closed.asserts
  BY <1>2, <1>4 DEF Client
<1> HIDE DEF e
<1>9. ~IsStarted(e)
  BY <1>4, <1>8 DEF IsStarted
<1>10. d = [e EXCEPT !.asserts = @ /\ ~IsStarted(e), !.state = "initial"]
  BY <1>8 DEF InhibitBackoff, HardAssert, Client
<1>11. /\ d \in Client /\ d.pipeline = e.pipeline
       /\ d.state = "initial" /\ d.stream = e.stream
       /\ d.handshakeComplete = e.handshakeComplete /\ d.delegate = e.delegate
       /\ d.idle = e.idle /\ d.getToken = e.getToken
       /\ d.written = e.written /\ d.asserts = (e.asserts /\ ~IsStarted(e))
  BY <1>8, <1>10 DEF Client
<1> HIDE DEF d
<1>12. StreamSound(d) /\ ~IsStarted(d)
  BY <1>4, <1>8, <1>9, <1>11 DEF StreamSound, IsStarted
<1>13. /\ c \in Client /\ StreamSound(c) /\ c.stream = d.stream
       /\ c.pipeline = FrontOf(left)
       /\ c.pipeline # <<>> => IsStarted(c)
       /\ c.getToken <=> c.state = "auth" /\ d.state # "auth"
       /\ c.state # "open"
  <2>1. /\ ~d.getToken /\ d.written = <<>> /\ Starts(d.pipeline, left)
        /\ Len(d.pipeline) <= MaxPendingWrites
    BY <1>2, <1>4, <1>8, <1>11, Types
  <2>2. left \in Seq(Batch) /\ Ordered(left, user, issued[user])
    BY <1>2, <1>7
  <2>3. /\ c \in Client /\ StreamSound(c) /\ c.stream = d.stream
        /\ c.pipeline = FrontOf(left)
        /\ c.pipeline # <<>> => IsStarted(c)
        /\ c.getToken <=> c.state = "auth" /\ d.state # "auth"
        /\ ~IsStarted(d) => c.state # "open"
    <3>1. d \in Client /\ StreamSound(d)
      BY <1>11, <1>12
    <3> QED BY <2>1, <2>2, <3>1, FillSound
  <2> HIDE DEF c
  <2> QED BY <1>12, <2>3
<1> HIDE DEF c
<1>14. StartIfNeeded(c) = c
  BY <1>13 DEF StartIfNeeded
<1>15. /\ client' \in Client /\ ~client'.getToken /\ client'.written = <<>>
       /\ client'.stream = c.stream /\ client'.state = c.state
       /\ client'.handshakeComplete = c.handshakeComplete
       /\ client'.pipeline = c.pipeline /\ client'.idle = c.idle
       /\ StreamSound(client') /\ (IsStarted(client') <=> IsStarted(c))
       /\ asked' \subseteq TokenRequest
       /\ TokensInv' /\ UsersInv' /\ CountsInv'
  <2>1. c.stream = client.stream
    BY <1>4, <1>8, <1>11, <1>13
  <2>2. c.getToken <=> c.state = "auth" /\ client.state # "auth"
    BY <1>2, <1>11, <1>13
  <2> QED BY <1>2, <1>6, <1>13, <1>14, <2>1, <2>2, ClientBecomes
<1>16. StreamInv'
  <2>1. client'.pipeline = FrontOf(queue'[user'])
    BY <1>6, <1>7, <1>13, <1>15
  <2> QED BY <1>13, <1>15, <2>1 DEF StreamInv, FrontOf
<1>17. handled' = <<>>
  <2>1. ServerInv
    BY DEF Inv
  <2>2. ~(1 < Len(handled))
    BY <1>1, <1>2, <2>1 DEF ServerInv
  <2>3. Tail(handled) \in Seq(Result) /\ Len(Tail(handled)) = Len(handled) - 1
    BY <1>2, Types, HeadTailProperties
  <2>4. Len(Tail(handled)) = 0
    BY <2>2, <2>3, Types, Lengths
  <2> QED BY <1>6, <2>3, <2>4, EmptySeq
<1>18. ServerInv'
  <2>1. queue'[user'] \in Seq(Batch) /\ user' \in User
    BY <1>6, <1>7, Types
  <2>2. Works(handled', requests', queue'[user']) /\ DOMAIN handled' = {}
    BY <1>6, <1>17, <2>1, NoWork
  <2> QED BY <2>1, <2>2 DEF ServerInv
<1>19. CallInv'
  <2>1. answers' = handled'
    BY <1>2, <1>6
  <2> QED BY <1>2, <1>6, <1>13, <1>15, <1>17, <2>1 DEF CallInv
<1>20. OutcomeInv'
  <2>1. OutcomeInv /\ rejected \subseteq Batch
    BY DEF Inv, TypeOK
  <2>4. ASSUME NEW b \in rejected'
        PROVE  /\ b.number <= issued'[b.user]
               /\ \A k \in DOMAIN queue'[b.user] : queue'[b.user][k] # b
    <3>1. CASE b = batch
      BY <1>2, <1>7, <3>1
    <3>2. CASE b \in rejected
      BY <1>7, <2>1, <3>2 DEF OutcomeInv
    <3> QED BY <1>6, <3>1, <3>2
  <2> QED BY <2>4 DEF OutcomeInv
<1>21. TypeOK'
  <2>1. TypeOK
    BY DEF Inv
  <2>2. requests' \in Seq(Batch) /\ handled' \in Seq(Result) /\ answers' \in Seq(Result)
    BY <1>2, <1>6, <1>17, EmptySeq
  <2> QED BY <1>2, <1>6, <1>7, <1>15, <2>1, <2>2 DEF TypeOK
<1> QED BY <1>7, <1>15, <1>16, <1>18, <1>19, <1>20, <1>21 DEF Inv

(* A step of the services alone leaves the rest as it is.                  *)
LEMMA RestStays ==
  ASSUME Inv, UNCHANGED <<user, issued, queue, client, server, outcome>>
  PROVE  QueuesOrdered' /\ OutcomeInv' /\ StreamInv' /\ ServerInv' /\ CallInv'
<1>1. UNCHANGED <<rpc, rpcUser, late, requests, answers, handled>>
      /\ UNCHANGED <<acknowledged, rejected, applied>>
  BY DEF server, outcome
<1>2. CallInv'
  <2>1. CallInv
    BY DEF Inv
  <2> QED BY <1>1, <2>1 DEF CallInv
<1> QED BY <1>1, <1>2, QueuesStay, ClientStays, ServerStays

(* ChangeUser: news of the user who signs in, or stays.                    *)
LEMMA ChangeStep ==
  ASSUME Inv, NEW u \in User, ChangeUser(u)
  PROVE  Inv'
<1> DEFINE x == [kind |-> "changed", user |-> u]
<1>a. /\ tokenCounter + Cardinality(Changes(mainQueue)) < MaxChanges
      /\ authUser' = u /\ mainQueue' = Append(mainQueue, x)
      /\ UNCHANGED <<asked, tokenCounter, workerQueue>>
      /\ UNCHANGED <<user, issued, queue, client, server, outcome>>
  BY DEF ChangeUser
<1>b. TokensInv /\ UsersInv /\ CountsInv /\ TypeOK
  BY DEF Inv
<1>1. x \in Message /\ x.kind = "changed" /\ x.user = u
  BY DEF Message, Change
<1> HIDE DEF x
<1>2. TokensInv'
  <2>1. TokensSound(asked, Append(mainQueue, x), workerQueue, client.stream,
                    client.state = "auth")
    BY <1>1, <1>b, Types, TokensNews DEF TokensInv
  <2> QED BY <1>a, <2>1 DEF TokensInv, TokensSound, TokensUntil, TokensFor, AskedFor
<1>3. UsersInv'
  <2> DEFINE v == Latest(workerQueue, user)
  <2>1. InTurn(Append(mainQueue, x), v) /\ Latest(Append(mainQueue, x), v) = u
    BY <1>1, <1>b, Types, InTurnAppend DEF UsersInv, UsersSound
  <2> HIDE DEF v
  <2>2. InTurn(mainQueue', v) /\ Latest(mainQueue', v) = u /\ InTurn(workerQueue, user)
    BY <1>a, <1>b, <2>1 DEF UsersInv, UsersSound
  <2> QED BY <1>a, <2>2 DEF UsersInv, UsersSound, v
<1>4. CountsInv'
  <2> DEFINE cm == Cardinality(Changes(mainQueue))
             cn == Cardinality(Changes(mainQueue'))
             n == tokenCounter
  <2>1. cm \in Nat /\ cn = cm + 1 /\ n + cm < MaxChanges
    BY <1>a, <1>1, Types, CountAppend
  <2>2. n \in Nat /\ MaxChanges \in Nat
    BY Types, BoundsAssumption
  <2> HIDE DEF cm, cn, n
  <2>3. n + cn <= MaxChanges
    BY <2>1, <2>2
  <2> QED BY <1>a, <1>b, <2>3 DEF CountsInv, CountsSound, Changes, cn, n
<1>5. TypeOK'
  <2>1. mainQueue' \in Seq(Change \cup Token)
    BY <1>a, <1>1, Types, AppendProperties DEF Message
  <2> QED BY <1>a, <1>b, <2>1 DEF TypeOK, server, outcome
<1> QED BY <1>a, <1>2, <1>3, <1>4, <1>5, RestStays DEF Inv

(* FindToken: the token of whoever is signed in now.                       *)
LEMMA FindStep ==
  ASSUME Inv, NEW r \in asked, NEW result \in {"found", "failed"}, FindToken(r, result)
  PROVE  Inv'
<1> DEFINE x == [kind |-> "token", user |-> authUser, request |-> r, result |-> result]
<1>a. /\ asked' = asked \ {r} /\ mainQueue' = Append(mainQueue, x)
      /\ UNCHANGED <<authUser, tokenCounter, workerQueue>>
      /\ UNCHANGED <<user, issued, queue, client, server, outcome>>
  BY DEF FindToken
<1>b. TokensInv /\ UsersInv /\ CountsInv /\ TypeOK
  BY DEF Inv
<1>1. x \in Message /\ x.kind = "token" /\ x.user = authUser /\ x.request = r
  BY Types DEF Message, Token
<1> HIDE DEF x
<1>2. TokensInv'
  <2>1. TokensSound(asked \ {r}, Append(mainQueue, x), workerQueue, client.stream,
                    client.state = "auth")
    BY <1>1, <1>b, Types, TokenFound DEF TokensInv
  <2> QED BY <1>a, <2>1 DEF TokensInv, TokensSound, TokensUntil, TokensFor, AskedFor
<1>3. UsersInv'
  <2> DEFINE v == Latest(workerQueue, user)
  <2>1. InTurn(Append(mainQueue, x), v) /\ Latest(Append(mainQueue, x), v) = authUser
    BY <1>1, <1>b, Types, InTurnAppend DEF UsersInv, UsersSound
  <2> HIDE DEF v
  <2>2. InTurn(mainQueue', v) /\ Latest(mainQueue', v) = authUser
        /\ InTurn(workerQueue, user)
    BY <1>a, <1>b, <2>1 DEF UsersInv, UsersSound
  <2> QED BY <1>a, <2>2 DEF UsersInv, UsersSound, v
<1>4. CountsInv'
  <2>1. Cardinality(Changes(mainQueue')) = Cardinality(Changes(mainQueue)) + 0
        /\ Cardinality(Changes(mainQueue)) \in Nat
    BY <1>a, <1>1, Types, CountAppend
  <2>2. tokenCounter + Cardinality(Changes(mainQueue')) <= MaxChanges
    BY <1>b, <2>1 DEF CountsInv, CountsSound
  <2> QED BY <1>a, <1>b, <2>2 DEF CountsInv, CountsSound, Changes
<1>5. TypeOK'
  <2>1. mainQueue' \in Seq(Change \cup Token)
    BY <1>a, <1>1, Types, AppendProperties DEF Message
  <2> QED BY <1>a, <1>b, <2>1 DEF TypeOK, server, outcome
<1> QED BY <1>a, <1>2, <1>3, <1>4, <1>5, RestStays DEF Inv

(* PassOn: a change is counted, a token that is late is of no use.         *)
LEMMA PassStep ==
  ASSUME Inv, PassOn
  PROVE  Inv'
<1> DEFINE m == Head(mainQueue)
           y == IF m.kind = "token" /\ m.request.counter # tokenCounter
                THEN [m EXCEPT !.result = "aborted"] ELSE m
<1>a. /\ mainQueue # <<>>
      /\ tokenCounter' = IF m.kind = "changed" THEN tokenCounter + 1 ELSE tokenCounter
      /\ mainQueue' = Tail(mainQueue) /\ workerQueue' = Append(workerQueue, y)
      /\ UNCHANGED <<authUser, asked>>
      /\ UNCHANGED <<user, issued, queue, client, server, outcome>>
  BY DEF PassOn, CountChange
<1>b. TokensInv /\ UsersInv /\ CountsInv /\ TypeOK
  BY DEF Inv
<1>1. m \in Message /\ Tail(mainQueue) \in Seq(Message)
  BY <1>a, Types, Shorter
<1> HIDE DEF m
<1>2. /\ y \in Message /\ y.kind = m.kind /\ y.user = m.user
      /\ y.kind = "token" => y.request = m.request
  <2>1. CASE m.kind = "token" /\ m.request.counter # tokenCounter
    <3>1. m \in Token
      BY <1>1, <2>1, MessageFields
    <3>2. y = [m EXCEPT !.result = "aborted"]
      BY <2>1
    <3>3. y \in Token /\ y.kind = m.kind /\ y.user = m.user /\ y.request = m.request
      BY <3>1, <3>2 DEF Token
    <3> QED BY <3>3 DEF Message
  <2>2. CASE ~(m.kind = "token" /\ m.request.counter # tokenCounter)
    BY <1>1, <2>2
  <2> QED BY <2>1, <2>2
<1> HIDE DEF y
<1>3. TokensInv'
  <2>1. TokensSound(asked, Tail(mainQueue), Append(workerQueue, y), client.stream,
                    client.state = "auth")
    BY <1>a, <1>2, <1>b, Types, TokensPass DEF TokensInv, m
  <2> QED BY <1>a, <2>1 DEF TokensInv, TokensSound, TokensUntil, TokensFor, AskedFor
<1>4. UsersInv'
  <2>1. UsersSound(authUser, Tail(mainQueue), Append(workerQueue, y), user)
    BY <1>a, <1>2, <1>b, Types, UsersPass DEF UsersInv, m
  <2> QED BY <1>a, <2>1 DEF UsersInv, UsersSound, InTurn, Latest
<1>5. tokenCounter' \in 0 .. MaxChanges /\ CountsInv'
  <2> DEFINE one == IF m.kind = "changed" THEN 1 ELSE 0
             cm == Cardinality(Changes(mainQueue))
             cw == Cardinality(Changes(workerQueue))
             tm == Cardinality(Changes(Tail(mainQueue)))
             aw == Cardinality(Changes(Append(workerQueue, y)))
  <2>1. /\ cm \in Nat /\ tm \in Nat /\ cw \in Nat /\ cm = tm + one /\ aw = cw + one
        /\ one \in {0, 1}
    BY <1>a, <1>2, Types, CountTail, CountAppend DEF m
  <2>2. tokenCounter + cm <= MaxChanges /\ client.stream + cw = tokenCounter + 1
    BY <1>b DEF CountsInv, CountsSound
  <2>3. tokenCounter' = tokenCounter + one
    BY <1>a, Types
  <2> HIDE DEF one, cm, cw, tm, aw
  <2> DEFINE n == tokenCounter
             s == client.stream
  <2>n. n \in Nat /\ s \in Nat /\ MaxChanges \in Nat
    BY Types, BoundsAssumption DEF Stream
  <2>m. n + cm <= MaxChanges /\ s + cw = n + 1
    BY <2>2
  <2> HIDE DEF n, s
  <2>4. /\ n + one \in 0 .. MaxChanges
        /\ n + one + tm <= MaxChanges
        /\ s + aw = n + one + 1
    BY <2>1, <2>n, <2>m
  <2>5. Changes(mainQueue') = Changes(Tail(mainQueue))
        /\ Changes(workerQueue') = Changes(Append(workerQueue, y))
    BY <1>a
  <2> QED BY <1>a, <2>3, <2>4, <2>5 DEF CountsInv, CountsSound, Changes, tm, aw, n, s
<1>6. TypeOK'
  <2>1. workerQueue' \in Seq(Change \cup Token)
    BY <1>a, <1>2, Types, AppendProperties DEF Message
  <2>2. mainQueue' \in Seq(Change \cup Token)
    BY <1>a, <1>1 DEF Message
  <2> QED BY <1>a, <1>b, <1>5, <2>1, <2>2 DEF TypeOK, server, outcome
<1> QED BY <1>a, <1>3, <1>4, <1>5, <1>6, RestStays DEF Inv

(* A message that has run on the worker queue: the user is the one it told *)
(* of, and a change has replaced the stream.                               *)
LEMMA MessagesRun ==
  ASSUME Inv, workerQueue # <<>>, workerQueue' = Tail(workerQueue),
         UNCHANGED <<authUser, mainQueue, tokenCounter>>,
         user' = Head(workerQueue).user,
         client'.stream = client.stream
                          + (IF Head(workerQueue).kind = "changed" THEN 1 ELSE 0)
  PROVE  UsersInv' /\ CountsInv' /\ workerQueue' \in Seq(Change \cup Token)
<1> DEFINE t == Tail(workerQueue)
           x == Head(workerQueue)
<1>a. UsersInv /\ CountsInv
  BY DEF Inv
<1>1. UsersInv'
  <2>1. InTurn(t, x.user) /\ Latest(t, x.user) = Latest(workerQueue, user)
    BY <1>a, Types, InTurnTail DEF UsersInv, UsersSound
  <2> HIDE DEF x
  <2>2. UsersSound(authUser, mainQueue, t, x.user)
    BY <1>a, <2>1 DEF UsersInv, UsersSound
  <2>3. user' = x.user
    BY DEF x
  <2> QED BY <2>2, <2>3 DEF UsersInv, UsersSound, InTurn, Latest
<1>2. CountsInv'
  <2> DEFINE one == IF x.kind = "changed" THEN 1 ELSE 0
             cm == Cardinality(Changes(mainQueue))
             cw == Cardinality(Changes(workerQueue))
             ct == Cardinality(Changes(t))
             n == tokenCounter
             s == client.stream
             sn == client'.stream
  <2>1. cw \in Nat /\ ct \in Nat /\ cw = ct + one /\ one \in {0, 1}
    BY Types, CountTail
  <2>2. n + cm <= MaxChanges /\ s + cw = n + 1
    BY <1>a DEF CountsInv, CountsSound
  <2>3. n \in Nat /\ s \in Nat /\ sn = s + one
    BY Types
  <2> HIDE DEF one, cm, cw, ct, n, s, sn
  <2>4. sn + ct = n + 1
    BY <2>1, <2>2, <2>3
  <2> QED BY <2>2, <2>4 DEF CountsInv, CountsSound, Changes, cm, ct, n, sn
<1>3. workerQueue' \in Seq(Change \cup Token)
  BY Types, Shorter DEF Message
<1> QED BY <1>1, <1>2, <1>3

(* CredentialDidChange: a new stream for the user's own queue.             *)
LEMMA CredentialStep ==
  ASSUME Inv, workerQueue # <<>>, workerQueue' = Tail(workerQueue),
         Head(workerQueue).kind = "changed", CredentialDidChange(Head(workerQueue).user)
  PROVE  Inv'
<1> DEFINE x == Head(workerQueue)
           u == x.user
           d == ReplaceStream(client)
           c == FillWritePipeline(d, queue[u])
           w == Tail(workerQueue)
<1>a. /\ user' = u /\ Become(c) /\ HangUp
      /\ UNCHANGED <<authUser, mainQueue, tokenCounter, issued, queue>>
      /\ UNCHANGED <<acknowledged, rejected, applied>>
  BY DEF CredentialDidChange, outcome
<1>b. TokensInv /\ CountsInv /\ QueuesOrdered /\ TypeOK
  BY DEF Inv
<1>1. x \in Message /\ w \in Seq(Message) /\ x.user \in User /\ u \in User
  BY Types, Shorter, MessageFields
<1> HIDE DEF u
<1>2. queue[u] \in Seq(Batch) /\ Ordered(queue[u], u, issued[u])
  BY <1>1, <1>b, Types DEF QueuesOrdered
<1>3. client.stream + 1 \in Stream
  <2> DEFINE cm == Cardinality(Changes(mainQueue))
             cw == Cardinality(Changes(workerQueue))
             ct == Cardinality(Changes(w))
             n == tokenCounter
             s == client.stream
  <2>1. cw \in Nat /\ ct \in Nat /\ cw = ct + 1
    BY Types, CountTail
  <2>2. n \in 0 .. MaxChanges /\ s \in Nat /\ s + cw = n + 1
    BY <1>b, Types DEF CountsInv, CountsSound
  <2> HIDE DEF cm, cw, ct, n, s
  <2>3. s + 1 \in 1 .. MaxChanges + 1
    BY <2>1, <2>2, BoundsAssumption
  <2> QED BY <2>3 DEF Stream, s
<1>4. /\ d \in Client /\ StreamSound(d) /\ d.stream = client.stream + 1
      /\ d.state = "initial" /\ d.pipeline = <<>> /\ ~d.getToken /\ d.written = <<>>
  <2>1. StreamSound(client) /\ client \in Client /\ ~client.getToken /\ client.written = <<>>
    BY PipelineStarts, Types
  <2>2. IsStarted(client) => ~client.handshakeComplete \/ IsOpen(client)
    BY <2>1 DEF StreamSound, IsStarted, IsOpen
  <2>3. /\ d.stream = client.stream + 1 /\ d.state = "initial" /\ ~d.handshakeComplete
        /\ ~d.delegate /\ ~d.idle /\ d.pipeline = <<>> /\ d.getToken = client.getToken
        /\ d.written = client.written /\ d.asserts
    BY <2>1, <2>2 DEF ReplaceStream, HardAssert, StreamSound, Client
  <2>4. d \in Client
    <3>1. <<>> \in Seq(Batch)
      BY EmptySeq
    <3> QED BY <3>1, <2>1, <2>2, <1>3 DEF ReplaceStream, HardAssert, StreamSound, Client
  <2> HIDE DEF d
  <2>5. StreamSound(d)
    BY <2>3 DEF StreamSound, IsStarted
  <2> QED BY <2>1, <2>3, <2>4, <2>5
<1> HIDE DEF d
<1>5. /\ c \in Client /\ StreamSound(c) /\ c.stream = d.stream
      /\ c.pipeline = FrontOf(queue[u])
      /\ c.pipeline # <<>> => IsStarted(c)
      /\ c.getToken <=> c.state = "auth"
      /\ c.state # "open"
  <2>1. Starts(d.pipeline, queue[u]) /\ Len(d.pipeline) <= MaxPendingWrites
    BY <1>2, <1>4, Lengths DEF Starts
  <2>2. ~IsStarted(d)
    BY <1>4 DEF IsStarted
  <2> QED BY <1>2, <1>4, <2>1, <2>2, FillSound
<1> HIDE DEF c
<1>6. TokensSound(asked, mainQueue, w, c.stream, FALSE)
  <2> DEFINE s == client.stream
             b == client.state = "auth"
             own == x.kind = "token" /\ x.request.stream = s
  <2>1. TokensSound(asked, mainQueue, w, s, b /\ ~own)
    BY <1>b, Types, TokensRun DEF TokensInv
  <2>2. TokensSound(asked, mainQueue, w, s + 1, FALSE)
    <3>1. s \in Nat /\ (b /\ ~own) \in BOOLEAN
      BY Types
    <3> HIDE DEF s, b, own, w
    <3> QED BY <3>1, <2>1, <1>1, Types, TokensNext
  <2> QED BY <2>2, <1>4, <1>5
<1>7. /\ client' \in Client /\ ~client'.getToken /\ client'.written = <<>>
      /\ client'.stream = c.stream /\ client'.state = c.state
      /\ client'.handshakeComplete = c.handshakeComplete
      /\ client'.pipeline = c.pipeline /\ client'.idle = c.idle
      /\ StreamSound(client') /\ (IsStarted(client') <=> IsStarted(c))
      /\ asked' \subseteq TokenRequest
      /\ TokensSound(asked', mainQueue, w, client'.stream, client'.state = "auth")
  <2> HIDE DEF w
  <2> QED BY <1>a, <1>5, <1>6, Types, Becoming
<1>8. TokensInv'
  BY <1>a, <1>7 DEF TokensInv, TokensSound, TokensUntil, TokensFor, AskedFor
<1>9. UsersInv' /\ CountsInv' /\ workerQueue' \in Seq(Change \cup Token)
  BY <1>a, <1>4, <1>5, <1>7, MessagesRun DEF u
<1>10. StreamInv'
  <2>1. client'.pipeline = FrontOf(queue'[user'])
    BY <1>a, <1>5, <1>7 DEF FrontOf
  <2> QED BY <1>5, <1>7, <2>1 DEF StreamInv, FrontOf
<1>11. /\ ServerInv' /\ rpc' = "none" /\ late' \in BOOLEAN
       /\ ~late' => requests' = <<>> /\ handled' = <<>>
       /\ answers' = IF late' THEN <<>> ELSE handled'
       /\ answers' \in Seq(Result) /\ UNCHANGED <<rpcUser, requests, handled>>
  BY <1>a, <1>1, HangUpSound
<1>12. CallInv'
  BY <1>5, <1>7, <1>11 DEF CallInv
<1>13. TypeOK'
  BY <1>a, <1>b, <1>1, <1>7, <1>9, <1>11 DEF TypeOK
<1> QED BY <1>a, <1>7, <1>8, <1>9, <1>10, <1>11, <1>12, <1>13, QueuesStay DEF Inv

(* ResumeStart with a token for an older stream: nothing happens.          *)
LEMMA StaleStep ==
  ASSUME Inv, workerQueue # <<>>, workerQueue' = Tail(workerQueue),
         Head(workerQueue).kind = "token", ResumeStart(Head(workerQueue)),
         Head(workerQueue).request.stream # client.stream
  PROVE  Inv'
<1> DEFINE w == Tail(workerQueue)
           x == Head(workerQueue)
           s == client.stream
           b == client.state = "auth"
<1>a. /\ UNCHANGED <<authUser, mainQueue, tokenCounter, asked, user, issued, queue, client>>
      /\ UNCHANGED <<rpc, rpcUser, late, requests, answers, handled>>
      /\ UNCHANGED <<acknowledged, rejected, applied>>
  BY DEF ResumeStart, server
<1>b. TokensInv /\ UsersInv /\ CallInv /\ TypeOK
  BY DEF Inv
<1>1. TokensInv'
  <2>1. TokensSound(asked, mainQueue, w, s, b)
    BY <1>b, Types, TokensRun DEF TokensInv
  <2> QED BY <1>a, <2>1 DEF TokensInv, TokensSound, TokensUntil, TokensFor, AskedFor
<1>2. user' = x.user
  BY <1>a, <1>b, Types, InTurnTail DEF UsersInv, UsersSound
<1>3. UsersInv' /\ CountsInv' /\ workerQueue' \in Seq(Change \cup Token)
  <2>1. s \in Nat
    BY Types
  <2> HIDE DEF x
  <2>2. client'.stream = client.stream + (IF x.kind = "changed" THEN 1 ELSE 0)
    BY <1>a, <2>1 DEF x
  <2> QED BY <1>a, <1>2, <2>2, MessagesRun DEF x
<1>4. CallInv'
  BY <1>a, <1>b DEF CallInv
<1>5. TypeOK'
  BY <1>a, <1>b, <1>3 DEF TypeOK
<1> QED BY <1>a, <1>1, <1>3, <1>4, <1>5, QueuesStay, ServerStays, ClientStays DEF Inv

(* The token of the current stream: the stream waits for it, and for no    *)
(* other; what the client becomes then.                                    *)
LEMMA OwnToken ==
  ASSUME Inv, workerQueue # <<>>, workerQueue' = Tail(workerQueue),
         Head(workerQueue).kind = "token", Head(workerQueue).request.stream = client.stream,
         UNCHANGED <<authUser, mainQueue, tokenCounter, user>>,
         NEW c \in Client, StreamSound(c), Become(c), c.stream = client.stream,
         c.state # "auth", ~c.getToken
  PROVE  /\ client' \in Client /\ ~client'.getToken /\ client'.written = <<>>
         /\ client'.state = c.state
         /\ client'.handshakeComplete = c.handshakeComplete
         /\ client'.pipeline = c.pipeline
         /\ StreamSound(client') /\ (IsStarted(client') <=> IsStarted(c))
         /\ asked' \subseteq TokenRequest
         /\ TokensInv' /\ UsersInv' /\ CountsInv'
         /\ workerQueue' \in Seq(Change \cup Token)
         /\ client.state = "auth" /\ Head(workerQueue).user = user
<1> DEFINE w == Tail(workerQueue)
           x == Head(workerQueue)
           s == client.stream
           b == client.state = "auth"
<1>b. TokensInv /\ UsersInv
  BY DEF Inv
<1>1. TokensSound(asked, mainQueue, w, s, FALSE) /\ client.state = "auth"
  <2> DEFINE own == x.kind = "token" /\ x.request.stream = s
  <2>1. own
    OBVIOUS
  <2>2. TokensSound(asked, mainQueue, w, s, b /\ ~own) /\ (own => b)
    BY <1>b, Types, TokensRun DEF TokensInv
  <2> HIDE DEF own, b
  <2>3. (b /\ ~own) = FALSE
    BY <2>1
  <2> QED BY <2>1, <2>2, <2>3 DEF b
<1>2. x.user = user
  BY <1>b, Types, InTurnTail DEF UsersInv, UsersSound
<1>3. /\ client' \in Client /\ ~client'.getToken /\ client'.written = <<>>
      /\ client'.stream = c.stream /\ client'.state = c.state
      /\ client'.handshakeComplete = c.handshakeComplete
      /\ client'.pipeline = c.pipeline /\ client'.idle = c.idle
      /\ StreamSound(client') /\ (IsStarted(client') <=> IsStarted(c))
      /\ asked' \subseteq TokenRequest
      /\ TokensSound(asked', mainQueue, w, client'.stream, client'.state = "auth")
  <2>1. c.getToken <=> c.state = "auth" /\ ~FALSE
    OBVIOUS
  <2> HIDE DEF w
  <2> QED BY <1>1, <2>1, Types, Becoming
<1>4. TokensInv'
  BY <1>3 DEF TokensInv, TokensSound, TokensUntil, TokensFor, AskedFor
<1>5. UsersInv' /\ CountsInv' /\ workerQueue' \in Seq(Change \cup Token)
  <2>1. s \in Nat /\ s + 0 = s
    BY Types
  <2> HIDE DEF x
  <2>2. client'.stream = client.stream + (IF x.kind = "changed" THEN 1 ELSE 0)
    BY <1>3, <2>1 DEF x
  <2> QED BY <1>2, <2>2, MessagesRun DEF x
<1> QED BY <1>1, <1>2, <1>3, <1>4, <1>5

(* ResumeStart with the token: the call starts with a handshake.           *)
LEMMA FoundStep ==
  ASSUME Inv, workerQueue # <<>>, workerQueue' = Tail(workerQueue),
         Head(workerQueue).kind = "token", ResumeStart(Head(workerQueue)),
         Head(workerQueue).request.stream = client.stream,
         Head(workerQueue).result = "found"
  PROVE  Inv'
<1> DEFINE x == Head(workerQueue)
           d == [client EXCEPT !.state = "open"]
           c == HardAssert(d, client.state = "auth" /\ ~client.handshakeComplete)
<1>a. /\ Become(c) /\ rpc' = "hello" /\ rpcUser' = x.user
      /\ UNCHANGED <<authUser, mainQueue, tokenCounter, user, issued, queue>>
      /\ UNCHANGED <<late, requests, answers, handled>>
      /\ UNCHANGED <<acknowledged, rejected, applied>>
  BY DEF ResumeStart
<1>b. CallInv /\ TypeOK
  BY DEF Inv
<1>1. client.state = "auth"
  <2>1. TokensInv
    BY DEF Inv
  <2> DEFINE b == client.state = "auth"
             s == client.stream
             own == x.kind = "token" /\ x.request.stream = s
  <2>2. own => b
    BY <2>1, Types, TokensRun DEF TokensInv
  <2> QED BY <2>2
<1>2. /\ c \in Client /\ StreamSound(c) /\ c.stream = client.stream /\ c.state = "open"
      /\ c.pipeline = client.pipeline /\ ~c.getToken /\ ~c.handshakeComplete
  <2>1. StreamSound(client) /\ client \in Client /\ ~client.getToken
    BY PipelineStarts, Types
  <2>2. ~client.handshakeComplete /\ client.pipeline # <<>> /\ ~client.idle /\ client.asserts
        /\ client.delegate
    BY <1>1, <2>1, ClientFields DEF StreamSound, IsStarted
  <2>3. /\ c \in Client /\ c.stream = client.stream /\ c.state = "open"
        /\ ~c.handshakeComplete /\ c.delegate /\ ~c.idle
        /\ c.pipeline = client.pipeline /\ c.getToken = client.getToken /\ c.asserts
    BY <1>1, <2>1, <2>2 DEF HardAssert, Client
  <2> HIDE DEF c
  <2>4. StreamSound(c)
    BY <2>2, <2>3 DEF StreamSound, IsStarted
  <2> QED BY <2>1, <2>3, <2>4
<1> HIDE DEF c
<1>3. /\ client' \in Client /\ ~client'.getToken /\ client'.written = <<>>
      /\ client'.state = c.state
      /\ client'.handshakeComplete = c.handshakeComplete
      /\ client'.pipeline = c.pipeline
      /\ StreamSound(client') /\ (IsStarted(client') <=> IsStarted(c))
      /\ asked' \subseteq TokenRequest
      /\ TokensInv' /\ UsersInv' /\ CountsInv'
      /\ workerQueue' \in Seq(Change \cup Token)
      /\ client.state = "auth" /\ x.user = user
  BY <1>a, <1>2, OwnToken
<1>4. StreamInv'
  <2>1. client'.pipeline = FrontOf(queue'[user'])
    BY <1>a, <1>2, <1>3, PipelineStarts
  <2>2. IsStarted(client')
    BY <1>2, <1>3 DEF IsStarted
  <2> QED BY <1>3, <2>1, <2>2 DEF StreamInv, FrontOf
<1>5. rpcUser' = user' /\ rpcUser' \in User
  BY <1>a, <1>3, Types
<1>6. CallInv'
  <2>1. rpc = "none"
    BY <1>b, <1>1 DEF CallInv
  <2> QED BY <1>a, <1>b, <1>2, <1>3, <1>5, <2>1 DEF CallInv
<1>7. TypeOK'
  BY <1>a, <1>b, <1>3, <1>5 DEF TypeOK
<1> QED BY <1>a, <1>3, <1>4, <1>6, <1>7, QueuesStay, ServerStays DEF Inv

(* ResumeStart without a token: the stream ends with an error, and drops   *)
(* no write, since the error cannot be a write's.                          *)
LEMMA NoTokenEffect ==
  ASSUME Inv, workerQueue # <<>>, workerQueue' = Tail(workerQueue),
         Head(workerQueue).kind = "token", ResumeStart(Head(workerQueue)),
         Head(workerQueue).request.stream = client.stream,
         Head(workerQueue).result # "found"
  PROVE  /\ client.state = "auth" /\ StreamSound(client) /\ IsStarted(client)
         /\ Become(StartIfNeeded(Close(client, "error")))
         /\ UNCHANGED <<authUser, mainQueue, tokenCounter, user, issued, queue>>
         /\ UNCHANGED <<rpc, rpcUser, late, requests, answers, handled>>
         /\ UNCHANGED <<acknowledged, rejected, applied>>
<1> DEFINE x == Head(workerQueue)
           d == Close(client, "error")
           c == StartIfNeeded(d)
           error == IF x.result = "aborted" THEN "permanent" ELSE "transient"
<1>1. client.state = "auth"
  <2>1. TokensInv
    BY DEF Inv
  <2> DEFINE b == client.state = "auth"
             s == client.stream
             own == x.kind = "token" /\ x.request.stream = s
  <2>2. own => b
    BY <2>1, Types, TokensRun DEF TokensInv
  <2> QED BY <2>2
<1>2. StreamSound(client) /\ IsStarted(client) /\ ~client.handshakeComplete
  BY <1>1, PipelineStarts DEF StreamSound, IsStarted
<1>3. ~DropsWrite(d, error)
  <2>1. d.handshakeComplete = client.handshakeComplete
    BY <1>2, Types, CloseSound
  <2> HIDE DEF d, error
  <2> QED BY <1>2, <2>1 DEF DropsWrite
<1>a. /\ Become(c)
      /\ UNCHANGED <<authUser, mainQueue, tokenCounter, user, issued, queue>>
      /\ UNCHANGED <<rpc, rpcUser, late, requests, answers, handled>>
      /\ UNCHANGED <<acknowledged, rejected, applied>>
  <2>1. /\ Interrupted(error) /\ UNCHANGED server
        /\ UNCHANGED <<authUser, mainQueue, tokenCounter, user, issued>>
        /\ UNCHANGED <<acknowledged, applied>>
    BY DEF ResumeStart
  <2> HIDE DEF error
  <2>2. UNCHANGED <<queue, rejected>> /\ Become(c)
    BY <1>3, <2>1 DEF Interrupted
  <2> QED BY <2>1, <2>2 DEF server
<1> QED BY <1>1, <1>2, <1>a

(* The stream tries again if there is something to write.                  *)
LEMMA NoTokenStep ==
  ASSUME Inv, workerQueue # <<>>, workerQueue' = Tail(workerQueue),
         Head(workerQueue).kind = "token", ResumeStart(Head(workerQueue)),
         Head(workerQueue).request.stream = client.stream,
         Head(workerQueue).result # "found"
  PROVE  Inv'
<1> DEFINE c == StartIfNeeded(Close(client, "error"))
<1>a. /\ client.state = "auth" /\ StreamSound(client) /\ IsStarted(client)
      /\ Become(c)
      /\ UNCHANGED <<authUser, mainQueue, tokenCounter, user, issued, queue>>
      /\ UNCHANGED <<rpc, rpcUser, late, requests, answers, handled>>
      /\ UNCHANGED <<acknowledged, rejected, applied>>
  BY NoTokenEffect
<1>b. CallInv /\ TypeOK
  BY DEF Inv
<1>4. /\ c \in Client /\ StreamSound(c) /\ c.stream = client.stream
      /\ c.pipeline = client.pipeline /\ c.state \in {"error", "backoff"}
      /\ c.pipeline # <<>> => IsStarted(c)
      /\ ~c.getToken
  BY <1>a, Types, InterruptedSound
<1> HIDE DEF c
<1>5. /\ client' \in Client /\ ~client'.getToken /\ client'.written = <<>>
      /\ client'.state = c.state
      /\ client'.handshakeComplete = c.handshakeComplete
      /\ client'.pipeline = c.pipeline
      /\ StreamSound(client') /\ (IsStarted(client') <=> IsStarted(c))
      /\ asked' \subseteq TokenRequest
      /\ TokensInv' /\ UsersInv' /\ CountsInv'
      /\ workerQueue' \in Seq(Change \cup Token)
  BY <1>a, <1>4, OwnToken
<1>6. StreamInv'
  <2>1. client'.pipeline = FrontOf(queue'[user'])
    BY <1>a, <1>4, <1>5, PipelineStarts
  <2> QED BY <1>4, <1>5, <2>1 DEF StreamInv, FrontOf
<1>7. CallInv'
  <2>1. rpc = "none"
    BY <1>a, <1>b DEF CallInv
  <2> QED BY <1>a, <1>b, <1>4, <1>5, <2>1 DEF CallInv
<1>8. TypeOK'
  BY <1>a, <1>b, <1>5 DEF TypeOK
<1> QED BY <1>a, <1>5, <1>6, <1>7, <1>8, QueuesStay, ServerStays DEF Inv

(* RunOnWorker.                                                            *)
LEMMA RunStep ==
  ASSUME Inv, RunOnWorker
  PROVE  Inv'
<1>1. workerQueue # <<>> /\ workerQueue' = Tail(workerQueue)
  BY DEF RunOnWorker
<1>2. CASE /\ Head(workerQueue).kind = "changed"
           /\ CredentialDidChange(Head(workerQueue).user)
  BY <1>1, <1>2, CredentialStep
<1>3. CASE /\ Head(workerQueue).kind = "token" /\ ResumeStart(Head(workerQueue))
  <2>1. CASE Head(workerQueue).request.stream # client.stream
    BY <1>1, <1>3, <2>1, StaleStep
  <2>2. CASE /\ Head(workerQueue).request.stream = client.stream
             /\ Head(workerQueue).result = "found"
    BY <1>1, <1>3, <2>2, FoundStep
  <2>3. CASE /\ Head(workerQueue).request.stream = client.stream
             /\ Head(workerQueue).result # "found"
    BY <1>1, <1>3, <2>3, NoTokenStep
  <2> QED BY <2>1, <2>2, <2>3
<1> QED BY <1>2, <1>3 DEF RunOnWorker

-----------------------------------------------------------------------------
(* The invariant holds at first.                                           *)
LEMMA InvInit ==
  ASSUME Init
  PROVE  Inv
<1>1. <<>> \in Seq(Batch) /\ Len(<<>>) = 0 /\ DOMAIN <<>> = {}
      /\ <<>> \in Seq(Message) /\ <<>> \in Seq(Result)
  OBVIOUS
<1>2. queue = [u \in User |-> <<>>] /\ user \in User /\ queue[user] = <<>>
      /\ issued = [u \in User |-> 0]
  BY DEF Init
<1>3. TypeOK
  <2>1. 0 \in 0 .. MaxWrites /\ 0 \in 0 .. MaxChanges /\ 1 \in Stream
    BY BoundsAssumption DEF Stream
  <2>2. client \in Client /\ ~client.getToken /\ client.written = <<>>
    BY <1>1, <2>1 DEF Init, Client
  <2> QED BY <1>1, <1>2, <2>1, <2>2 DEF Init, TypeOK, Message
<1>4. QueuesOrdered
  BY <1>1, <1>2 DEF QueuesOrdered, Ordered
<1>5. StreamInv
  <2>1. StreamSound(client) /\ client.pipeline = <<>>
    BY DEF Init, StreamSound, IsStarted
  <2>2. Len(<<>>) = Least(Len(<<>>), MaxPendingWrites) /\ Starts(<<>>, <<>>)
    BY <1>1, Lengths DEF Least, Starts
  <2>3. <<>> = FrontOf(<<>>)
    BY <1>1, <2>2, IsFront
  <2> QED BY <1>2, <2>1, <2>3 DEF StreamInv
<1>6. TokensInv
  BY <1>1 DEF Init, TokensInv, TokensSound, TokensUntil, TokensFor, AskedFor, AtMostOne
<1>7. UsersInv
  BY <1>1 DEF Init, UsersInv, UsersSound, InTurn, Latest
<1>8. CountsInv
  <2>1. Changes(<<>>) = {}
    BY <1>1 DEF Changes
  <2>2. Cardinality(Changes(<<>>)) = 0
    BY <2>1, FS_EmptySet
  <2>3. 0 + 0 <= MaxChanges /\ 1 + 0 = 0 + 1
    BY BoundsAssumption
  <2>4. client.stream = 1 /\ tokenCounter = 0 /\ mainQueue = <<>> /\ workerQueue = <<>>
    BY DEF Init
  <2> QED BY <2>2, <2>3, <2>4 DEF CountsInv, CountsSound
<1>9. CallInv
  BY DEF Init, CallInv
<1>10. ServerInv
  <2>1. handled = <<>> /\ requests = <<>>
    BY DEF Init
  <2>2. Works(handled, requests, queue[user]) /\ DOMAIN handled = {}
    BY <1>1, <1>2, <2>1, NoWork
  <2> QED BY <1>2, <2>2 DEF ServerInv
<1>11. OutcomeInv
  BY DEF Init, OutcomeInv
<1> QED BY <1>3, <1>4, <1>5, <1>6, <1>7, <1>8, <1>9, <1>10, <1>11 DEF Inv

(* Every step keeps it.                                                    *)
LEMMA InvNext ==
  ASSUME Inv, [Next]_vars
  PROVE  Inv'
<1>1. CASE UNCHANGED vars
  <2>1. /\ UNCHANGED <<credentials, workerQueue, user, issued, queue, client>>
        /\ UNCHANGED <<authUser, asked, mainQueue, tokenCounter>>
        /\ UNCHANGED <<rpc, rpcUser, late, requests, answers, handled>>
        /\ UNCHANGED <<acknowledged, rejected, applied>>
    BY <1>1 DEF vars, credentials, server, outcome
  <2>2. TypeOK /\ CallInv
    BY DEF Inv
  <2>3. TypeOK'
    BY <2>1, <2>2 DEF TypeOK
  <2>4. CallInv'
    BY <2>1, <2>2 DEF CallInv
  <2> QED BY <2>1, <2>3, <2>4, QueuesStay, ServerStays, ClientStays, CredentialsStay DEF Inv
<1>2. CASE Next
  <2>1. CASE Write
    BY <2>1, WriteStep
  <2>2. CASE BackoffElapsed
    BY <2>2, BackoffStep
  <2>3. CASE IdleTimeout
    BY <2>3, IdleStep
  <2>4. CASE \E u \in User : ChangeUser(u)
    BY <2>4, ChangeStep
  <2>5. CASE \E request \in asked, result \in {"found", "failed"} : FindToken(request, result)
    BY <2>5, FindStep
  <2>6. CASE PassOn
    BY <2>6, PassStep
  <2>7. CASE RunOnWorker
    BY <2>7, RunStep
  <2>8. CASE Greet
    BY <2>8, GreetStep
  <2>9. CASE HandshakeCompletes
    BY <2>9, HandshakeStep
  <2>10. CASE \E accepted \in BOOLEAN : Handle(accepted)
    BY <2>10, HandleStep
  <2>11. CASE LateEnds
    BY <2>11, LateStep
  <2>12. CASE Accepted
    BY <2>12, AcceptedStep
  <2>13. CASE Refused
    BY <2>13, RefusedStep
  <2>14. CASE CallBreaks
    BY <2>14, BreakStep
  <2> QED BY <1>2, <2>1, <2>2, <2>3, <2>4, <2>5, <2>6, <2>7, <2>8, <2>9, <2>10, <2>11,
             <2>12, <2>13, <2>14 DEF Next
<1> QED BY <1>1, <1>2

(* The invariant of the stream, the three queues, the call and the server. *)
THEOREM StreamAlways == Spec => []Inv
<1>1. Init => Inv
  BY InvInit
<1>2. Inv /\ [Next]_vars => Inv'
  BY InvNext
<1> QED BY <1>1, <1>2, PTL DEF Spec

-----------------------------------------------------------------------------
(* Every variable keeps its type: of the client's state as well, whatever  *)
(* step it is in.                                                          *)
THEOREM StreamTypes == Spec => []TypeOK
<1>1. Inv => TypeOK
  BY DEF Inv
<1> QED BY <1>1, StreamAlways, PTL

(* Every HARD_ASSERT of the stream and the remote store holds: no start of *)
(* a started stream, no write before the handshake or after the close, no  *)
(* token for a stream that is past asking for it.                          *)
THEOREM AssertsAlwaysHold == Spec => []AssertsHold
<1>1. Inv => AssertsHold
  BY DEF Inv, StreamInv, StreamSound, AssertsHold
<1> QED BY <1>1, StreamAlways, PTL

(* The pipeline of the remote store is the front of the user's queue, as   *)
(* long as it may be, and with writes in it the stream is on its way.      *)
THEOREM PipelineAlwaysFront == Spec => []PipelineIsFront
<1>1. ASSUME Inv PROVE PipelineIsFront
  <2> DEFINE p == client.pipeline
             q == queue[user]
  <2>1. /\ p \in Seq(Batch) /\ q \in Seq(Batch) /\ p = FrontOf(q) /\ Starts(p, q)
        /\ p # <<>> => IsStarted(client)
        /\ StreamSound(client)
    BY <1>1, Types, PipelineStarts
  <2>2. Len(p) = Least(Len(q), MaxPendingWrites)
    BY <2>1, FrontProperties
  <2>3. IsPrefix(p, q)
    BY <2>1 DEF IsPrefix, Starts
  <2>4. Len(p) = MaxPendingWrites \/ p = q
    <3>1. CASE Len(p) = Len(q)
      <4>1. p = q
        BY <2>1, <3>1, SeqEqual DEF Starts
      <4> QED BY <4>1
    <3>2. CASE Len(p) # Len(q)
      BY <2>2, <3>2 DEF Least
    <3> QED BY <3>1, <3>2
  <2>5. p # <<>> => ~client.idle
    BY <2>1 DEF StreamSound
  <2> QED BY <2>1, <2>3, <2>4, <2>5 DEF PipelineIsFront
<1>2. Inv => PipelineIsFront
  BY <1>1
<1> QED BY <1>2, StreamAlways, PTL

(* A call carries the token of the user whose writes are on it, however    *)
(* news of the user and tokens cross on the three queues.                  *)
THEOREM SentAsUser == Spec => []SentAsItsUser
<1>1. ASSUME Inv PROVE SentAsItsUser
  <2>1. rpc # "none" => rpcUser = user
    BY <1>1 DEF Inv, CallInv
  <2>2. ASSUME NEW k \in DOMAIN client.pipeline PROVE client.pipeline[k].user = user
    <3>1. Starts(client.pipeline, queue[user]) /\ Ordered(queue[user], user, issued[user])
      BY <1>1, PipelineStarts
    <3>2. client.pipeline \in Seq(Batch) /\ queue[user] \in Seq(Batch)
      BY <1>1, Types
    <3>3. client.pipeline[k] = queue[user][k] /\ k \in DOMAIN queue[user]
      BY <2>2, <3>1, <3>2, Lengths DEF Starts
    <3> QED BY <3>1, <3>3 DEF Ordered
  <2> QED BY <2>1, <2>2 DEF SentAsItsUser
<1>2. Inv => SentAsItsUser
  BY <1>1
<1> QED BY <1>2, StreamAlways, PTL

(* A task of the worker queue hears of no answer, and loses none.          *)
LEMMA RunStutters ==
  ASSUME Inv, RunOnWorker
  PROVE  UNCHANGED <<queue, handled, acknowledged, rejected, applied>>
<1>1. workerQueue # <<>> /\ workerQueue' = Tail(workerQueue)
  BY DEF RunOnWorker
<1>2. CASE CredentialDidChange(Head(workerQueue).user)
  BY <1>2 DEF CredentialDidChange, HangUp, outcome
<1>3. CASE Head(workerQueue).kind = "token" /\ ResumeStart(Head(workerQueue))
  <2>1. CASE /\ Head(workerQueue).request.stream = client.stream
             /\ Head(workerQueue).result # "found"
    BY <1>1, <1>3, <2>1, NoTokenEffect
  <2>2. CASE ~ (/\ Head(workerQueue).request.stream = client.stream
                /\ Head(workerQueue).result # "found")
    BY <1>3, <2>2 DEF ResumeStart, server
  <2> QED BY <2>1, <2>2
<1> QED BY <1>2, <1>3 DEF RunOnWorker

(* The report of a write, before the step that makes it: an acknowledged   *)
(* write is applied, a refused one is what the server has handled first.   *)
LEMMA ReportStep ==
  ASSUME Inv, Accepted \/ Refused
  PROVE  /\ acknowledged' \ acknowledged \subseteq applied
         /\ \A b \in rejected' \ rejected :
              handled # <<>> /\ Head(handled) = [batch |-> b, accepted |-> FALSE]
         /\ UNCHANGED applied
<1>1. answers # <<>>
  BY DEF Accepted, Refused
<1>2. /\ answers = handled /\ handled # <<>> /\ Head(client.pipeline) = Head(queue[user])
      /\ Head(handled).batch = Head(queue[user])
      /\ Head(handled) = handled[1] /\ 1 \in DOMAIN handled
  BY <1>1, AnswerSound
<1>3. CASE Accepted
  <2>1. /\ acknowledged' = acknowledged \cup {Head(client.pipeline)}
        /\ Head(handled).accepted /\ UNCHANGED <<rejected, applied>>
    BY <1>2, <1>3 DEF Accepted, FirstOf
  <2>2. Head(handled).batch \in applied
    BY <1>2, <2>1 DEF Inv, ServerInv
  <2> QED BY <1>2, <2>1, <2>2
<1>4. CASE Refused
  <2>1. /\ rejected' = rejected \cup {Head(queue[user])} /\ UNCHANGED <<acknowledged, applied>>
    BY <1>4, RefusedEffect
  <2>2. Head(handled) \in Result /\ Head(handled).accepted = FALSE
    <3>1. Head(handled) \in Result
      BY <1>2, Types, HeadTailProperties
    <3> QED BY <1>2, <1>4, <3>1 DEF Refused, Result
  <2>3. Head(handled) = [batch |-> Head(queue[user]), accepted |-> FALSE]
    BY <1>2, <2>2 DEF Result
  <2> QED BY <1>2, <2>1, <2>3
<1> QED BY <1>3, <1>4

(* The server is never given a write that was reported as refused.         *)
LEMMA NothingRefusedHandled ==
  ASSUME Inv, NEW accepted \in BOOLEAN, Handle(accepted)
  PROVE  rejected \cap applied' \subseteq applied
<1> DEFINE batch == Head(requests)
           n == Len(handled)
<1>1. requests # <<>> /\ applied' \subseteq applied \cup {batch}
  BY DEF Handle
<1>2. PICK u \in User : Works(handled, requests, queue[u])
  BY DEF Inv, ServerInv
<1>3. batch = queue[u][n + 1] /\ n + 1 \in DOMAIN queue[u]
  <2> DEFINE r == Len(requests)
             lq == Len(queue[u])
  <2>1. /\ n \in Nat /\ r \in Nat /\ lq \in Nat /\ r # 0 /\ n + r <= lq
        /\ DOMAIN queue[u] = 1 .. lq
    BY <1>1, <1>2, Types, Lengths, EmptySeq DEF Works
  <2>2. DOMAIN requests = 1 .. r /\ batch = requests[1]
    BY <1>1, Types, Lengths
  <2>3. \A k \in DOMAIN requests : requests[k] = queue[u][n + k]
    BY <1>2 DEF Works
  <2> HIDE DEF n, r, lq, batch
  <2>4. 1 \in 1 .. r /\ n + 1 \in 1 .. lq
    BY <2>1
  <2> QED BY <2>1, <2>2, <2>3, <2>4
<1>4. batch.user = u
  <2>1. Ordered(queue[u], u, issued[u])
    BY DEF Inv, QueuesOrdered
  <2> HIDE DEF n, batch
  <2> QED BY <1>3, <2>1 DEF Ordered
<1>5. batch \notin rejected
  <2> HIDE DEF n, batch
  <2> QED BY <1>3, <1>4 DEF Inv, OutcomeInv
<1> QED BY <1>1, <1>5

(* Calls break, and writes are sent again that the server has applied, and *)
(* perhaps refuses the second time.  Yet a write is reported as done only  *)
(* when it has been applied, and as refused only on the server's word on   *)
(* that write; and after such a report it is not applied any more.         *)
THEOREM ReportsAreTrue == Spec => ReportedAsHandled
<1> DEFINE True ==
      /\ acknowledged' \ acknowledged \subseteq applied
      /\ \A b \in rejected' \ rejected :
           handled # <<>> /\ Head(handled) = [batch |-> b, accepted |-> FALSE]
      /\ rejected \cap applied' \subseteq applied
<1>1. Inv /\ [Next]_vars => True \/ UNCHANGED vars
  <2> SUFFICES ASSUME Inv, Next PROVE True
    OBVIOUS
  <2>1. CASE Accepted \/ Refused
    BY <2>1, ReportStep
  <2>2. CASE \E accepted \in BOOLEAN : Handle(accepted)
    <3>1. UNCHANGED <<acknowledged, rejected>>
      BY <2>2 DEF Handle
    <3> QED BY <2>2, <3>1, NothingRefusedHandled
  <2>3. CASE UNCHANGED <<acknowledged, rejected, applied>>
    BY <2>3
  <2>4. CASE RunOnWorker
    BY <2>3, <2>4, RunStutters
  <2>5. CASE CallBreaks
    BY <2>3, <2>5 DEF CallBreaks, Interrupted, DropsWrite
  <2>6. CASE Write \/ BackoffElapsed \/ IdleTimeout \/ PassOn \/ Greet \/ HandshakeCompletes
             \/ LateEnds
    BY <2>3, <2>6 DEF Write, BackoffElapsed, IdleTimeout, PassOn, Greet, HandshakeCompletes,
                      LateEnds, outcome
  <2>7. CASE \/ \E u \in User : ChangeUser(u)
             \/ \E request \in asked, result \in {"found", "failed"} :
                  FindToken(request, result)
    BY <2>3, <2>7 DEF ChangeUser, FindToken, outcome
  <2> QED BY <2>1, <2>2, <2>4, <2>5, <2>6, <2>7 DEF Next
<1>2. Inv /\ [Next]_vars => [True]_vars
  BY <1>1
<1> QED BY <1>2, StreamAlways, PTL DEF Spec, ReportedAsHandled

-----------------------------------------------------------------------------
(* What the abstract queues see of the server's work: it is all of one     *)
(* user, the owner of the call.                                            *)
Owned(h, o) == \A k \in DOMAIN h : h[k].batch.user = o
Seen(h, o) == [u \in User |-> IF u = o THEN h ELSE <<>>]

LEMMA HandledSeen ==
  ASSUME NEW o \in User, NEW h \in Seq(Result), Owned(h, o)
  PROVE  [u \in User |-> IF h # <<>> /\ Head(h).batch.user = u THEN h ELSE <<>>]
           = Seen(h, o)
<1>1. CASE h = <<>>
  BY <1>1 DEF Seen
<1>2. CASE h # <<>>
  <2>1. Len(h) \in Nat /\ DOMAIN h = 1 .. Len(h) /\ Len(h) # 0
    BY <1>2, Lengths, EmptySeq
  <2>2. Head(h) = h[1] /\ 1 \in DOMAIN h
    BY <2>1
  <2>3. Head(h).batch.user = o
    BY <2>2 DEF Owned
  <2> QED BY <1>2, <2>3 DEF Seen
<1> QED BY <1>1, <1>2

(* The owner of a call that is not closed is the current user.             *)
LEMMA Owner ==
  ASSUME Inv
  PROVE  \E o \in User : /\ Works(handled, requests, queue[o]) /\ (late \/ o = user)
                         /\ Owned(handled, o)
<1>1. ServerInv /\ QueuesOrdered
  BY DEF Inv
<1>2. PICK o \in User : Works(handled, requests, queue[o]) /\ (late \/ o = user)
  BY <1>1 DEF ServerInv
<1>3. ASSUME NEW k \in DOMAIN handled PROVE handled[k].batch.user = o
  <2>1. handled[k].batch = queue[o][k]
    BY <1>2 DEF Works
  <2>2. k \in DOMAIN queue[o]
    <3> DEFINE lh == Len(handled)
               lr == Len(requests)
               lq == Len(queue[o])
    <3>1. /\ lh \in Nat /\ lr \in Nat /\ lq \in Nat /\ lh + lr <= lq
          /\ DOMAIN handled = 1 .. lh /\ DOMAIN queue[o] = 1 .. lq
      BY <1>2, Types, Lengths DEF Works
    <3> HIDE DEF lh, lr, lq
    <3> QED BY <1>3, <3>1
  <2>3. Ordered(queue[o], o, issued[o])
    BY <1>1 DEF QueuesOrdered
  <2> QED BY <2>1, <2>2, <2>3 DEF Ordered
<1> QED BY <1>2, <1>3 DEF Owned

(* Most steps do not concern the abstract queues.                          *)
LEMMA Stutters ==
  ASSUME UNCHANGED <<queue, handled, acknowledged, rejected>>
  PROVE  UNCHANGED Outside!vars
<1>1. [u \in User |-> HandledOf(u)]' = [u \in User |-> HandledOf(u)]
  BY DEF HandledOf
<1> QED BY <1>1 DEF Outside!vars

(* Write puts a write at the end of the user's queue.                      *)
LEMMA WritePuts ==
  ASSUME Inv, Write
  PROVE  Outside!Next
<1> DEFINE b == [user |-> user, number |-> issued[user] + 1]
<1>1. /\ queue' = [queue EXCEPT ![user] = Append(@, b)]
      /\ UNCHANGED <<handled, acknowledged, rejected>> /\ issued[user] < MaxWrites
  BY DEF Write, outcome
<1>2. b \in Batch /\ user \in User
  <2> DEFINE n == issued[user]
  <2>1. n \in Nat /\ n < MaxWrites /\ user \in User
    BY <1>1, Types
  <2> HIDE DEF n
  <2>2. n + 1 \in 1 .. MaxWrites
    BY <2>1, BoundsAssumption
  <2> QED BY <2>1, <2>2 DEF Batch, n
<1>3. [u \in User |-> HandledOf(u)]' = [u \in User |-> HandledOf(u)]
  BY <1>1 DEF HandledOf
<1> HIDE DEF b
<1>4. Outside!Put(user, b)
  BY <1>1, <1>3 DEF Outside!Put
<1> QED BY <1>2, <1>4 DEF Outside!Next

(* Handle takes the next write of the owner's queue.                       *)
LEMMA HandleHandles ==
  ASSUME Inv, NEW accepted \in BOOLEAN, Handle(accepted)
  PROVE  Outside!Next
<1> DEFINE batch == Head(requests)
           result == [batch |-> batch, accepted |-> accepted]
           before == [u \in User |-> HandledOf(u)]
           n == Len(handled)
<1>1. /\ requests # <<>> /\ \A k \in DOMAIN handled : handled[k].accepted
      /\ handled' = Append(handled, result)
      /\ UNCHANGED <<queue, acknowledged, rejected>>
  BY DEF Handle
<1>2. PICK o \in User : Works(handled, requests, queue[o]) /\ Owned(handled, o)
  BY Owner
<1>3. before = Seen(handled, o)
  BY <1>2, Types, HandledSeen DEF HandledOf
<1>4. n < Len(queue[o]) /\ batch = queue[o][n + 1] /\ n \in Nat
  <2> DEFINE r == Len(requests)
             lq == Len(queue[o])
  <2>1. n \in Nat /\ r \in Nat /\ lq \in Nat /\ r # 0 /\ n + r <= lq
    BY <1>1, <1>2, Types, Lengths, EmptySeq DEF Works
  <2>2. DOMAIN requests = 1 .. r /\ batch = requests[1]
    BY <1>1, Types, Lengths
  <2>3. \A k \in DOMAIN requests : requests[k] = queue[o][n + k]
    BY <1>2 DEF Works
  <2> HIDE DEF n, r, lq, batch
  <2>4. 1 \in 1 .. r /\ n < lq
    BY <2>1
  <2> QED BY <2>1, <2>2, <2>3, <2>4 DEF lq
<1>5. batch.user = o /\ batch \in Batch
  <2>1. Ordered(queue[o], o, issued[o])
    BY DEF Inv, QueuesOrdered
  <2>2. queue[o] \in Seq(Batch) /\ DOMAIN queue[o] = 1 .. Len(queue[o])
        /\ Len(queue[o]) \in Nat
    BY Types, Lengths
  <2> HIDE DEF n, batch
  <2>3. n + 1 \in DOMAIN queue[o]
    BY <1>4, <2>2
  <2> QED BY <1>4, <2>1, <2>2, <2>3, ElementOfSeq DEF Ordered
<1>6. handled' \in Seq(Result) /\ Owned(handled', o)
  <2>1. result \in Result /\ result.batch = batch
    BY <1>5 DEF Result
  <2> HIDE DEF result, batch, n
  <2>2. /\ Append(handled, result) \in Seq(Result)
        /\ Len(Append(handled, result)) = Len(handled) + 1
        /\ \A k \in 1 .. Len(handled) : Append(handled, result)[k] = handled[k]
        /\ Append(handled, result)[Len(handled) + 1] = result
    BY <2>1, Types, AppendProperties
  <2>3. /\ DOMAIN handled' = 1 .. Len(handled) + 1 /\ DOMAIN handled = 1 .. Len(handled)
        /\ Len(handled) \in Nat
    BY <1>1, <2>2, Types, Lengths
  <2>4. ASSUME NEW k \in DOMAIN handled' PROVE handled'[k].batch.user = o
    <3>1. k \in 1 .. Len(handled) \/ k = Len(handled) + 1
      BY <2>3, <2>4
    <3>2. CASE k \in 1 .. Len(handled)
      BY <1>1, <1>2, <2>2, <2>3, <3>2 DEF Owned
    <3>3. CASE k = Len(handled) + 1
      BY <1>1, <1>5, <2>1, <2>2, <3>3
    <3> QED BY <3>1, <3>2, <3>3
  <2> QED BY <1>1, <2>2, <2>4 DEF Owned
<1>7. before' = Seen(handled', o)
  BY <1>6, HandledSeen DEF HandledOf
<1>8. before[o] = handled /\ before' = [before EXCEPT ![o] = Append(@, result)]
  <2> HIDE DEF before, result
  <2> QED BY <1>1, <1>2, <1>3, <1>7 DEF Seen
<1>9. Outside!Handle(o, accepted)
  <2> HIDE DEF n, batch
  <2>1. before[o] = handled /\ result = [batch |-> queue[o][Len(before[o]) + 1],
                                         accepted |-> accepted]
    BY <1>4, <1>8 DEF n
  <2>2. Len(before[o]) < Len(queue[o]) /\ \A k \in DOMAIN before[o] : before[o][k].accepted
    BY <1>1, <1>4, <1>8 DEF n
  <2> QED BY <1>1, <1>8, <2>1, <2>2 DEF Outside!Handle
<1> QED BY <1>2, <1>9 DEF Outside!Next

(* Hearing takes the first result and its write away.                      *)
LEMMA HearHears ==
  ASSUME Inv, answers # <<>>, handled' = Tail(handled),
         queue' = [queue EXCEPT ![user] = Tail(queue[user])],
         IF Head(answers).accepted
         THEN acknowledged' = acknowledged \cup {Head(queue[user])} /\ UNCHANGED rejected
         ELSE rejected' = rejected \cup {Head(queue[user])} /\ UNCHANGED acknowledged
  PROVE  Outside!Next
<1> DEFINE before == [u \in User |-> HandledOf(u)]
<1>1. ~late /\ answers = handled /\ handled # <<>>
      /\ Head(handled).batch = Head(queue[user])
  BY AnswerSound
<1>2. Owned(handled, user) /\ user \in User
  BY <1>1, Owner, Types
<1>3. before = Seen(handled, user)
  BY <1>2, Types, HandledSeen DEF HandledOf
<1>4. handled' \in Seq(Result) /\ Owned(handled', user)
  <2> DEFINE t == Tail(handled)
             n == Len(handled)
  <2>1. /\ t \in Seq(Result) /\ DOMAIN t = 1 .. Len(t) /\ Len(t) = n - 1
        /\ n \in Nat /\ n # 0 /\ DOMAIN handled = 1 .. n
        /\ \A k \in 1 .. Len(t) : t[k] = handled[k + 1]
    BY <1>1, Types, HeadTailProperties, Lengths, EmptySeq
  <2> HIDE DEF t, n
  <2>2. \A k \in DOMAIN t : k + 1 \in DOMAIN handled /\ t[k] = handled[k + 1]
    BY <2>1
  <2> QED BY <1>2, <2>1, <2>2 DEF Owned, t
<1>5. before' = Seen(handled', user)
  BY <1>2, <1>4, HandledSeen DEF HandledOf
<1>6. before[user] = handled /\ before' = [before EXCEPT ![user] = Tail(@)]
  <2> HIDE DEF before
  <2> QED BY <1>2, <1>3, <1>5 DEF Seen
<1>7. Outside!Hear(user)
  <2> HIDE DEF before
  <2>1. queue' = [queue EXCEPT ![user] = Tail(@)]
    OBVIOUS
  <2>2. /\ before[user] # <<>> /\ Head(before[user]).batch = Head(queue[user])
        /\ Head(before[user]).accepted = Head(answers).accepted
    BY <1>1, <1>6
  <2> QED BY <1>6, <2>1, <2>2 DEF Outside!Hear, before
<1> QED BY <1>2, <1>7 DEF Outside!Next

(* LateEnds: what the server has made of a lost call is lost.              *)
LEMMA LateLoses ==
  ASSUME Inv, LateEnds
  PROVE  Outside!Next
<1> DEFINE before == [u \in User |-> HandledOf(u)]
<1>1. handled' = <<>> /\ UNCHANGED <<queue, acknowledged, rejected>>
  BY DEF LateEnds, outcome
<1>2. PICK o \in User : Owned(handled, o)
  BY Owner
<1>3. before = Seen(handled, o)
  BY <1>2, Types, HandledSeen DEF HandledOf
<1>4. before' = Seen(<<>>, o)
  BY <1>1 DEF HandledOf, Seen
<1>5. before' = [before EXCEPT ![o] = <<>>]
  <2> HIDE DEF before
  <2> QED BY <1>2, <1>3, <1>4 DEF Seen
<1>6. Outside!StreamLost(o)
  BY <1>1, <1>5 DEF Outside!StreamLost
<1> QED BY <1>2, <1>6 DEF Outside!Next

(* The client with its streams, tokens, timers and calls implements the    *)
(* queues: whatever happens to a call, the server handles each user's      *)
(* writes from the front, and the device hears of them in order, once.     *)
THEOREM WriteQueueImplemented == Spec => ImplementsWriteQueue
<1>1. Init => Outside!Init
  <2> SUFFICES ASSUME Init PROVE Outside!Init
    OBVIOUS
  <2>1. handled = <<>>
    BY DEF Init
  <2>2. [u \in User |-> HandledOf(u)] = [u \in User |-> <<>>]
    BY <2>1 DEF HandledOf
  <2> QED BY <2>2 DEF Init, Outside!Init
<1>2. Inv /\ [Next]_vars => [Outside!Next]_(Outside!vars)
  <2> SUFFICES ASSUME Inv, [Next]_vars PROVE [Outside!Next]_(Outside!vars)
    OBVIOUS
  <2>1. CASE UNCHANGED vars
    <3>1. UNCHANGED <<queue, handled, acknowledged, rejected>>
      BY <2>1 DEF vars, server, outcome
    <3> QED BY <3>1, Stutters
  <2>2. CASE \/ BackoffElapsed \/ IdleTimeout \/ PassOn \/ Greet \/ HandshakeCompletes
             \/ CallBreaks \/ RunOnWorker \/ \E u \in User : ChangeUser(u)
             \/ \E request \in asked, result \in {"found", "failed"} :
                  FindToken(request, result)
    <3>1. CASE RunOnWorker
      BY <3>1, RunStutters, Stutters
    <3>2. CASE CallBreaks
      <4>1. UNCHANGED <<queue, handled, acknowledged, rejected>>
        BY <3>2 DEF CallBreaks, HangUp, Interrupted, DropsWrite
      <4> QED BY <4>1, Stutters
    <3>3. CASE BackoffElapsed \/ IdleTimeout \/ PassOn \/ Greet \/ HandshakeCompletes
      <4>1. UNCHANGED <<queue, handled, acknowledged, rejected>>
        BY <3>3 DEF BackoffElapsed, IdleTimeout, HangUp, PassOn, Greet, HandshakeCompletes,
                    server, outcome
      <4> QED BY <4>1, Stutters
    <3>4. CASE \/ \E u \in User : ChangeUser(u)
               \/ \E request \in asked, result \in {"found", "failed"} :
                    FindToken(request, result)
      <4>1. UNCHANGED <<queue, handled, acknowledged, rejected>>
        BY <3>4 DEF ChangeUser, FindToken, server, outcome
      <4> QED BY <4>1, Stutters
    <3> QED BY <2>2, <3>1, <3>2, <3>3, <3>4
  <2>3. CASE Write
    BY <2>3, WritePuts
  <2>4. CASE \E accepted \in BOOLEAN : Handle(accepted)
    BY <2>4, HandleHandles
  <2>5. CASE LateEnds
    BY <2>5, LateLoses
  <2>6. CASE Accepted
    <3>1. answers # <<>> /\ Head(answers).accepted /\ handled' = Tail(handled)
          /\ UNCHANGED rejected
      BY <2>6 DEF Accepted
    <3>2. /\ queue' = [queue EXCEPT ![user] = RemoveBatch(queue[user], Head(client.pipeline))]
          /\ acknowledged' = acknowledged \cup {Head(client.pipeline)}
      BY <2>6 DEF Accepted, FirstOf
    <3>3. Head(client.pipeline) = Head(queue[user])
          /\ RemoveBatch(queue[user], Head(queue[user])) = Tail(queue[user])
      BY <3>1, AnswerSound
    <3> QED BY <3>1, <3>2, <3>3, HearHears
  <2>7. CASE Refused
    <3>1. answers # <<>> /\ ~Head(answers).accepted
      BY <2>7 DEF Refused
    <3>2. /\ queue' = [queue EXCEPT ![user] = Tail(queue[user])]
          /\ rejected' = rejected \cup {Head(queue[user])}
          /\ handled' = Tail(handled) /\ UNCHANGED acknowledged
      BY <2>7, RefusedEffect
    <3> QED BY <3>1, <3>2, HearHears
  <2> QED BY <2>1, <2>2, <2>3, <2>4, <2>5, <2>6, <2>7 DEF Next
<1> QED BY <1>1, <1>2, StreamAlways, PTL DEF Spec, ImplementsWriteQueue, Outside!Spec

=============================================================================
