--------------------------- MODULE PicturesProofs ---------------------------
(***************************************************************************)
(* The pictures behind the rows, on any number of devices, for any users   *)
(* and texts.                                                              *)
(*                                                                         *)
(* A picture is deleted with a row, the document is overwritten later, and *)
(* in between strings that name the picture are in documents, cached       *)
(* versions, queues and answers.  The invariant keeps three things apart   *)
(* for as long as a document is left to one device: whose picture is whose *)
(* and which ones are still to be linked; that an overwrite is taken       *)
(* before it leaves the queue it was put in; and that the document as it   *)
(* will be, and with it the rows of a followed list, names only pictures   *)
(* that are there and that nobody asked storage to delete.                 *)
(***************************************************************************)
EXTENDS RowsProofs

-----------------------------------------------------------------------------
(* A device whose write was taken is among the writers of the document,    *)
(* and a document that was written, or is known to a device, exists.       *)
TakenInv ==
  /\ \A u \in User : writers[u] # {} => remote[u] # NoDoc
  /\ \A d \in Device : user[d] \in User =>
       \A k \in DOMAIN sent[d] : sent[d][k] # "rejected" => d \in writers[user[d]]
  /\ \A d \in Device, u \in User : Known(d, u) # NoDoc => remote[u] # NoDoc

(* What is known of a document outlives the writes held for it.            *)
LEMMA CachedIsKnown ==
  ASSUME DataInv, NEW d \in Device, NEW u \in User, cache[d][u] # NoDoc
  PROVE  Known(d, u) # NoDoc
<1>1. cache[d][u] \in Seq(Text) /\ held[d] \in Seq(Write)
  <2>1. cache[d][u] \in Document /\ held[d] \in Seq(Write)
    BY ParsedIsTyped DEF DataInv, KeptInv, ProcessInv
  <2> QED BY <2>1 DEF Document
<1>2. Overlay(cache[d][u], held[d]) \in Seq(Text)
  BY <1>1, OverlayKeeps
<1> QED BY <1>2, NoDocAssumption DEF Known

(* The server takes a write: the document exists from then on.             *)
LEMMA TakenCommit ==
  ASSUME DataInv, TakenInv, NEW d \in Device, Commit(d)
  PROVE  TakenInv'
<1> DEFINE u     == user[d]
           n     == Len(sent[d])
           write == pending[d][u][n + 1]
           next  == IF Accepts(remote[u], write) THEN "applied" ELSE "rejected"
<1>a. /\ remote \in [User -> ParsedDocument] /\ writers \in [User -> SUBSET Device]
      /\ user \in [Device -> User \cup {NoUser}]
      /\ pending \in [Device -> [User -> Seq(ParsedWrite)]]
      /\ sent \in [Device -> Seq(Outcome)]
  BY DEF DataInv, ServerInv, KeptInv, ProcessInv, HistoryInv
<1>1. /\ u \in User /\ n < Len(pending[d][u])
      /\ remote' = [remote EXCEPT ![u] = Apply(remote[u], write)]
      /\ sent' = [sent EXCEPT ![d] = Append(sent[d], next)]
      /\ writers' = [writers EXCEPT ![u] =
                       IF Accepts(remote[u], write) THEN writers[u] \cup {d} ELSE writers[u]]
      /\ UNCHANGED <<user, cache, held>>
  BY <1>a DEF Commit, kept
<1>2. Accepts(remote[u], write) => Apply(remote[u], write) # NoDoc
  <2>1. n \in Nat /\ write \in ParsedWrite
    BY <1>a, <1>1, LenProperties, ElementOfSeq
  <2>2. write \in Write /\ remote[u] \in Document
    BY <1>a, <1>1, <2>1, ParsedIsTyped
  <2> HIDE DEF write, u
  <2>3. CASE remote[u] # NoDoc
    <3>1. Apply(remote[u], write) \in Seq(Text)
      BY <2>2, <2>3, ApplyKeeps DEF Document
    <3> QED BY <3>1, NoDocAssumption
  <2>4. CASE remote[u] = NoDoc /\ write.kind = "set"
    BY <2>2, <2>4, NoDocAssumption DEF Apply, Accepts, Write
  <2> QED BY <2>3, <2>4 DEF Accepts
<1>3. \A v \in User : remote[v] # NoDoc => remote'[v] # NoDoc
  BY <1>a, <1>1, <1>2 DEF Apply
<1>4. \A v \in User : writers'[v] # {} => remote'[v] # NoDoc
  BY <1>a, <1>1, <1>2, <1>3 DEF TakenInv
<1>5. ASSUME NEW e \in Device, user[e] \in User, NEW k \in DOMAIN sent'[e],
             sent'[e][k] # "rejected"
      PROVE  e \in writers'[user[e]]
  <2>0. \A v \in User : writers[v] \subseteq writers'[v]
    BY <1>a, <1>1
  <2>1. CASE e # d
    <3>1. sent'[e] = sent[e]
      BY <1>a, <1>1, <2>1
    <3> QED BY <1>5, <2>0, <3>1 DEF TakenInv
  <2>2. CASE e = d
    <3>1. /\ sent'[d] = Append(sent[d], next) /\ sent[d] \in Seq(Outcome)
          /\ n \in Nat /\ next \in Outcome
      BY <1>a, <1>1 DEF Outcome
    <3> HIDE DEF next
    <3>2. \/ k \in DOMAIN sent[d] /\ sent'[d][k] = sent[d][k]
          \/ sent'[d][k] = next
      BY <1>5, <2>2, <3>1, AppendProperties
    <3>3. CASE k \in DOMAIN sent[d] /\ sent'[d][k] = sent[d][k]
      BY <1>5, <2>0, <2>2, <3>3 DEF TakenInv
    <3>4. CASE sent'[d][k] = next
      BY <1>a, <1>1, <1>5, <2>2, <3>4 DEF next
    <3> QED BY <3>2, <3>3, <3>4
  <2> QED BY <2>1, <2>2
<1>6. \A e \in Device, v \in User : Known(e, v)' = Known(e, v)
  BY <1>1 DEF Known
<1> QED BY <1>1, <1>3, <1>4, <1>5, <1>6 DEF TakenInv

(* What is sent starts anew, or stays sent.                                *)
LEMMA TakenFrame ==
  ASSUME DataInv, TakenInv, UNCHANGED <<remote, writers>>,
         \A d \in Device :
           \/ sent'[d] = <<>>
           \/ /\ user'[d] = user[d]
              /\ DOMAIN sent'[d] \subseteq DOMAIN sent[d]
              /\ \A k \in DOMAIN sent'[d] : sent'[d][k] # "rejected" => sent[d][k] # "rejected",
         \A d \in Device, u \in User : Known(d, u)' # NoDoc => remote[u] # NoDoc
  PROVE  TakenInv'
<1>1. \A d \in Device : user'[d] \in User =>
        \A k \in DOMAIN sent'[d] : sent'[d][k] # "rejected" => d \in writers'[user'[d]]
  <2> SUFFICES ASSUME NEW d \in Device, user'[d] \in User, NEW k \in DOMAIN sent'[d],
                      sent'[d][k] # "rejected"
               PROVE  d \in writers[user'[d]]
    OBVIOUS
  <2>1. sent'[d] # <<>>
    OBVIOUS
  <2> QED BY <2>1 DEF TakenInv
<1> QED BY <1>1 DEF TakenInv

(* What a device knows stays known, or falls back to the cached version.   *)
LEMMA KnownSwitched ==
  ASSUME DataInv, TakenInv, UNCHANGED <<remote, cache>>, NEW d \in Device,
         held'[d] = <<>> \/ (user'[d] = user[d] /\ held'[d] = held[d]),
         NEW u \in User, Known(d, u)' # NoDoc
  PROVE  remote[u] # NoDoc
<1>1. CASE user'[d] = user[d] /\ held'[d] = held[d]
  BY <1>1 DEF Known, TakenInv
<1>2. CASE held'[d] = <<>>
  <2>1. Known(d, u)' = cache[d][u]
    BY <1>2, OverlayEmpty DEF Known
  <2> QED BY <2>1, CachedIsKnown DEF TakenInv
<1> QED BY <1>1, <1>2

(* A snapshot brings the server's version, and the end of a query what was *)
(* known already.                                                          *)
LEMMA KnownSeen ==
  ASSUME DataInv, TakenInv, NEW e \in Device,
         \/ \E v \in User : Refresh(e, v)
         \/ \E outstanding : EndQuery(e, outstanding),
         UNCHANGED <<remote, user>>
  PROVE  \A d \in Device, u \in User : Known(d, u)' # NoDoc => remote[u] # NoDoc
<1>a. cache \in [Device -> [User -> ParsedDocument]] /\ held \in [Device -> Seq(ParsedWrite)]
  BY DEF DataInv, KeptInv, ProcessInv
<1> SUFFICES ASSUME NEW d \in Device, NEW u \in User, Known(d, u)' # NoDoc
             PROVE  remote[u] # NoDoc
  OBVIOUS
<1>1. CASE cache'[d] = cache[d] /\ held'[d] = held[d]
  BY <1>1 DEF Known, TakenInv
<1>2. CASE held'[d] = <<>> /\ cache'[d][u] \in {remote[u], Known(d, u)}
  <2>1. Known(d, u)' = cache'[d][u]
    BY <1>2, OverlayEmpty DEF Known
  <2> QED BY <1>2, <2>1 DEF TakenInv
<1>3. CASE d # e
  BY <1>a, <1>1, <1>3 DEF Refresh, EndQuery, ReleaseHeld
<1>4. CASE d = e
  <2>1. ASSUME NEW v \in User, Refresh(e, v)
        PROVE  held'[d] = <<>> /\ cache'[d][u] \in {remote[u], Known(d, u)}
    BY <1>a, <1>4, <2>1 DEF Refresh
  <2>2. ASSUME ReleaseHeld(e)
        PROVE  held'[d] = <<>> /\ cache'[d][u] \in {remote[u], Known(d, u)}
    BY <1>a, <1>4, <2>2 DEF ReleaseHeld
  <2> QED BY <1>1, <1>2, <2>1, <2>2 DEF EndQuery
<1> QED BY <1>3, <1>4

(* An answer moves what the server took to what is known.                  *)
LEMMA KnownTaken ==
  ASSUME DataInv, SentInv, TakenInv, NEW e \in Device, Acknowledge(e)
  PROVE  \A d \in Device, u \in User : Known(d, u)' # NoDoc => remote[u] # NoDoc
<1>a. /\ cache \in [Device -> [User -> ParsedDocument]] /\ held \in [Device -> Seq(ParsedWrite)]
      /\ user \in [Device -> User \cup {NoUser}] /\ sent \in [Device -> Seq(Outcome)]
  BY DEF DataInv, KeptInv, ProcessInv
<1> DEFINE write == Head(pending[e][user[e]])
           doc   == CacheOnAck(cache[e][user[e]], write, Head(sent[e]))
<1>1. /\ user[e] \in User /\ sent[e] # <<>>
      /\ \/ /\ HeldBack(e, Head(sent[e])) /\ UNCHANGED cache
            /\ held' = [held EXCEPT ![e] = Append(held[e], write)]
         \/ cache' = [cache EXCEPT ![e][user[e]] = doc] /\ UNCHANGED held
      /\ UNCHANGED <<remote, user>>
  BY <1>a DEF Acknowledge, Answered, server
<1> SUFFICES ASSUME NEW d \in Device, NEW u \in User, Known(d, u)' # NoDoc
             PROVE  remote[u] # NoDoc
  OBVIOUS
<1>2. CASE d = e /\ u = user[e] /\ Head(sent[e]) # "rejected"
  <2>1. 1 \in DOMAIN sent[e] /\ Head(sent[e]) = sent[e][1]
    BY <1>a, <1>1
  <2> QED BY <1>1, <1>2, <2>1 DEF TakenInv
<1>3. CASE ~(d = e /\ u = user[e]) \/ Head(sent[e]) = "rejected"
  <2>1. CASE d = e /\ u = user[e]
    <3>1. UNCHANGED <<cache, held>>
      BY <1>a, <1>1, <1>3, <2>1 DEF HeldBack, CacheOnAck
    <3> QED BY <1>1, <3>1 DEF Known, TakenInv
  <2>2. CASE ~(d = e /\ u = user[e])
    <3>1. cache'[d][u] = cache[d][u] /\ (user[d] = u => held'[d] = held[d])
      BY <1>a, <1>1, <2>2
    <3> QED BY <1>1, <3>1 DEF Known, TakenInv
  <2> QED BY <2>1, <2>2
<1> QED BY <1>2, <1>3

(* Each step: what a device knows, and what it sent and was taken, is      *)
(* there on the server.                                                    *)
LEMMA TakenNext ==
  ASSUME DataInv, SentInv, TakenInv, [Next]_vars
  PROVE  TakenInv'
<1>a. /\ user \in [Device -> User \cup {NoUser}] /\ sent \in [Device -> Seq(Outcome)]
      /\ held \in [Device -> Seq(ParsedWrite)]
  BY DEF DataInv, KeptInv, ProcessInv
<1>1. ASSUME UNCHANGED <<remote, writers, user, cache, held, sent>>
      PROVE  TakenInv'
  <2>1. \A d \in Device, u \in User : Known(d, u)' = Known(d, u)
    BY <1>1 DEF Known
  <2> QED BY <1>1, <2>1 DEF TakenInv
<1>2. ASSUME UNCHANGED <<remote, writers, cache>>, NEW e \in Device,
             sent' = [sent EXCEPT ![e] = <<>>],
             held' = [held EXCEPT ![e] = <<>>] \/ (UNCHANGED held /\ user'[e] = user[e]),
             \A d \in Device \ {e} : user'[d] = user[d]
      PROVE  TakenInv'
  <2>1. \A d \in Device, u \in User : Known(d, u)' # NoDoc => remote[u] # NoDoc
    <3>1. \A d \in Device : held'[d] = <<>> \/ (user'[d] = user[d] /\ held'[d] = held[d])
      BY <1>a, <1>2
    <3> QED BY <1>2, <3>1, KnownSwitched
  <2>2. \A d \in Device : sent'[d] = <<>> \/ (user'[d] = user[d] /\ sent'[d] = sent[d])
    BY <1>a, <1>2
  <2> QED BY <1>2, <2>1, <2>2, TakenFrame
<1>3. ASSUME NEW e \in Device, NEW u \in User, Login(e, u) \/ Register(e, u)
      PROVE  TakenInv'
  <2>1. UNCHANGED <<remote, writers, cache>> /\ SwitchUser(e, u)
    BY <1>3 DEF Login, Register, server
  <2> QED BY <1>a, <1>2, <2>1 DEF SwitchUser, DropHeld, RestartStream
<1>4. ASSUME NEW e \in Device, Logout(e)
      PROVE  TakenInv'
  <2>1. UNCHANGED <<remote, writers, cache>> /\ SwitchUser(e, NoUser)
    BY <1>4 DEF Logout, server
  <2> QED BY <1>a, <1>2, <2>1 DEF SwitchUser, DropHeld, RestartStream
<1>5. ASSUME NEW e \in Device, Restart(e) \/ StreamBreaks(e)
      PROVE  TakenInv'
  <2>1. /\ UNCHANGED <<remote, writers, cache, user>> /\ RestartStream(e)
        /\ DropHeld(e) \/ UNCHANGED held
    BY <1>5 DEF Restart, StreamBreaks, server, kept, history
  <2> QED BY <1>2, <2>1 DEF DropHeld, RestartStream
<1>6. ASSUME NEW e \in Device, Snapshot(e) \/ QueryFails(e)
      PROVE  TakenInv'
  <2>1. /\ UNCHANGED <<remote, writers, user>>
        /\ \/ \E u \in User : Refresh(e, u)
           \/ \E outstanding : EndQuery(e, outstanding)
    BY <1>6 DEF Snapshot, QueryFails, server
  <2>2. \A d \in Device, u \in User : Known(d, u)' # NoDoc => remote[u] # NoDoc
    BY <2>1, KnownSeen
  <2>3. \/ UNCHANGED sent
        \/ \E u \in User : sent' = [sent EXCEPT ![e] =
                                      [k \in DOMAIN sent[e] |-> Seen(e, u, sent[e][k])]]
    BY <2>1 DEF Refresh, EndQuery
  <2>4. ASSUME NEW d \in Device
        PROVE  /\ DOMAIN sent'[d] \subseteq DOMAIN sent[d]
               /\ \A k \in DOMAIN sent'[d] : sent'[d][k] # "rejected" => sent[d][k] # "rejected"
    <3>1. ASSUME NEW u \in User,
                 sent' = [sent EXCEPT ![e] = [k \in DOMAIN sent[e] |-> Seen(e, u, sent[e][k])]]
          PROVE  /\ DOMAIN sent'[d] \subseteq DOMAIN sent[d]
                 /\ \A k \in DOMAIN sent'[d] :
                      sent'[d][k] # "rejected" => sent[d][k] # "rejected"
      BY <1>a, <3>1 DEF Seen
    <3> QED BY <2>3, <3>1
  <2> QED BY <2>1, <2>2, <2>4, TakenFrame
<1>7. ASSUME NEW e \in Device, Acknowledge(e)
      PROVE  TakenInv'
  <2>1. /\ UNCHANGED <<remote, writers, user>> /\ sent[e] # <<>>
        /\ sent' = [sent EXCEPT ![e] = Tail(sent[e])]
    BY <1>7 DEF Acknowledge, Answered, server
  <2>2. /\ Len(Tail(sent[e])) = Len(sent[e]) - 1 /\ Len(sent[e]) \in Nat \ {0}
        /\ \A k \in 1 .. Len(sent[e]) - 1 : Tail(sent[e])[k] = sent[e][k + 1]
        /\ Tail(sent[e]) \in Seq(Outcome)
    BY <1>a, <2>1, HeadTailProperties, EmptySeq, LenProperties
  <2>3. ASSUME NEW d \in Device, user[d] \in User, NEW k \in DOMAIN sent'[d],
               sent'[d][k] # "rejected"
        PROVE  d \in writers[user[d]]
    <3>1. CASE d # e
      <4>1. sent'[d] = sent[d]
        BY <1>a, <2>1, <3>1
      <4> QED BY <2>3, <4>1 DEF TakenInv
    <3>2. CASE d = e
      <4>1. sent'[d] = Tail(sent[e])
        BY <1>a, <2>1, <3>2
      <4>2. k + 1 \in DOMAIN sent[e] /\ sent'[d][k] = sent[e][k + 1]
        BY <1>a, <2>2, <2>3, <4>1
      <4> QED BY <2>3, <3>2, <4>2 DEF TakenInv
    <3> QED BY <3>1, <3>2
  <2>4. \A d \in Device, u \in User : Known(d, u)' # NoDoc => remote[u] # NoDoc
    BY <1>7, KnownTaken
  <2> QED BY <2>1, <2>3, <2>4 DEF TakenInv
<1>8. ASSUME NEW e \in Device, \/ \E u \in User : RegisterUnanswered(e, u)
                               \/ Edit(e) \/ Reply(e) \/ Transfer(e) \/ DeletionEnds(e)
      PROVE  TakenInv'
  BY <1>1, <1>8 DEF RegisterUnanswered, Edit, AddItemWithoutImage, AddItemAndImage, DeleteItem,
       Reply, Transfer, PictureStored, UploadFails, LinkReady, DeletionEnds, server, kept,
       process, history
<1>9. UNCHANGED vars => TakenInv'
  BY <1>1 DEF vars, server, kept, process, history
<1> QED BY <1>3, <1>4, <1>5, <1>6, <1>7, <1>8, <1>9, TakenCommit DEF Next, Account, Sync

-----------------------------------------------------------------------------
(* An overwrite is queued on a document that exists, or behind the setData *)
(* that makes it, and is never turned down.                                *)
OverwritesTaken ==
  \A d \in Device, u \in User : \A k \in DOMAIN pending[d][u] :
    pending[d][u][k].kind = "update" =>
      /\ remote[u] # NoDoc \/ pending[d][u][1].kind = "set"
      /\ user[d] = u /\ k \in DOMAIN sent[d] => sent[d][k] # "rejected"

(* Only a setData makes a document where there is none.                    *)
LEMMA OverlayNothing ==
  ASSUME NEW queue \in Queue, Overlay(NoDoc, queue) # NoDoc
  PROVE  \E k \in 1 .. Len(queue) : queue[k].kind = "set"
<1> SUFFICES ASSUME \A k \in 1 .. Len(queue) : queue[k].kind # "set" PROVE FALSE
  OBVIOUS
<1>1. \A k \in 1 .. Len(queue) : \A doc \in {NoDoc} : Apply(doc, queue[k]) \in {NoDoc}
  BY DEF Apply, Accepts
<1>2. Overlay(NoDoc, queue) \in {NoDoc}
  BY <1>1, OverlayStaysIn DEF Queue
<1> QED BY <1>2

(* Behind a setData that was sent there is a document.                     *)
LEMMA SetWasTaken ==
  ASSUME DataInv, SentInv, AccountsInv, NEW d \in Device, user[d] \in User, sent[d] # <<>>,
         pending[d][user[d]][1].kind = "set"
  PROVE  remote[user[d]] # NoDoc
<1>1. sent[d] \in Seq(Outcome) /\ pending[d][user[d]] \in Seq(ParsedWrite)
  BY DEF DataInv, KeptInv, ProcessInv
<1>2. Len(sent[d]) \in Nat \ {0} /\ Len(sent[d]) <= Len(pending[d][user[d]])
  BY <1>1, EmptySeq, LenProperties DEF SentInv
<1>3. 1 \in DOMAIN pending[d][user[d]]
  BY <1>1, <1>2, LenProperties
<1> QED BY <1>3 DEF AccountsInv, DocumentComes, SetQueued

(* What is sent starts anew, or stays sent.                                *)
LEMMA OverwritesFrame ==
  ASSUME OverwritesTaken, UNCHANGED pending,
         \A u \in User : remote[u] # NoDoc => remote'[u] # NoDoc,
         \A d \in Device :
           \/ sent'[d] = <<>>
           \/ /\ user'[d] = user[d]
              /\ \A k \in DOMAIN sent'[d] :
                   k \in DOMAIN sent[d] /\ (sent[d][k] # "rejected" => sent'[d][k] # "rejected")
  PROVE  OverwritesTaken'
<1> SUFFICES ASSUME NEW d \in Device, NEW u \in User, NEW k \in DOMAIN pending[d][u],
                    pending[d][u][k].kind = "update"
             PROVE  /\ remote'[u] # NoDoc \/ pending[d][u][1].kind = "set"
                    /\ user'[d] = u /\ k \in DOMAIN sent'[d] => sent'[d][k] # "rejected"
  BY DEF OverwritesTaken
<1>1. remote'[u] # NoDoc \/ pending[d][u][1].kind = "set"
  BY DEF OverwritesTaken
<1>2. ASSUME user'[d] = u, k \in DOMAIN sent'[d] PROVE sent'[d][k] # "rejected"
  <2>1. sent'[d] # <<>>
    BY <1>2
  <2> QED BY <1>2, <2>1 DEF OverwritesTaken
<1> QED BY <1>1, <1>2

(* A write is queued, an overwrite only on a document that will be there.  *)
LEMMA OverwritesQueued ==
  ASSUME DataInv, SentInv, OverwritesTaken, NEW d \in Device, NEW u \in User,
         NEW write \in ParsedWrite,
         pending' = [pending EXCEPT ![d][u] = Append(pending[d][u], write)],
         write.kind = "update" =>
           \/ remote[u] # NoDoc
           \/ pending[d][u] # <<>> /\ pending[d][u][1].kind = "set",
         \/ sent' = [sent EXCEPT ![d] = <<>>] /\ \A e \in Device \ {d} : user'[e] = user[e]
         \/ UNCHANGED <<sent, user>> /\ user[d] = u,
         UNCHANGED remote
  PROVE  OverwritesTaken'
<1>a. /\ pending \in [Device -> [User -> Seq(ParsedWrite)]]
      /\ sent \in [Device -> Seq(Outcome)]
  BY DEF DataInv, KeptInv, ProcessInv
<1> DEFINE former == pending[d][u]
           longer == Append(former, write)
<1>1. /\ former \in Seq(ParsedWrite) /\ Len(former) \in Nat
      /\ longer \in Seq(ParsedWrite) /\ Len(longer) = Len(former) + 1
      /\ \A k \in 1 .. Len(former) : longer[k] = former[k]
      /\ longer[Len(former) + 1] = write
  BY <1>a, AppendProperties
<1>2. \A e \in Device, v \in User :
        pending'[e][v] = IF e = d /\ v = u THEN longer ELSE pending[e][v]
  BY <1>a
<1> SUFFICES ASSUME NEW e \in Device, NEW v \in User, NEW k \in DOMAIN pending'[e][v],
                    pending'[e][v][k].kind = "update"
             PROVE  /\ remote[v] # NoDoc \/ pending'[e][v][1].kind = "set"
                    /\ user'[e] = v /\ k \in DOMAIN sent'[e] => sent'[e][k] # "rejected"
  BY DEF OverwritesTaken
<1>s. user'[e] = v /\ k \in DOMAIN sent'[e] => user[e] = v /\ sent'[e] = sent[e]
  BY <1>a
<1>3. CASE ~(e = d /\ v = u)
  BY <1>2, <1>3, <1>s DEF OverwritesTaken
<1>4. CASE e = d /\ v = u
  <2> HIDE DEF longer, former
  <2>1. pending'[e][v] = longer
    <3>1. pending'[d][u] = longer
      BY <1>2
    <3> QED BY <1>4, <3>1
  <2> USE DEF former
  <2>2. former # <<>> => longer[1] = former[1]
    <3>1. former # <<>> => 1 \in 1 .. Len(former)
      BY <1>1, EmptySeq
    <3> QED BY <1>1, <3>1
  <2>3. CASE k \in 1 .. Len(former)
    <3>1. k \in DOMAIN former /\ former[k].kind = "update" /\ former # <<>>
      BY <1>1, <2>1, <2>3
    <3> QED BY <1>4, <1>s, <2>1, <2>2, <3>1 DEF OverwritesTaken
  <2>4. CASE k = Len(former) + 1
    <3>1. write.kind = "update"
      BY <1>1, <2>1, <2>4
    <3>2. remote[v] # NoDoc \/ pending'[e][v][1].kind = "set"
      BY <1>4, <2>1, <2>2, <3>1
    <3>3. ~(user[e] = v /\ k \in DOMAIN sent[e])
      <4>1. user[e] = v => Len(sent[e]) <= Len(former) /\ Len(sent[e]) \in Nat
        BY <1>a, <1>4, LenProperties DEF SentInv
      <4>2. DOMAIN sent[e] = 1 .. Len(sent[e])
        BY <1>a, LenProperties
      <4> HIDE DEF former
      <4> QED BY <1>1, <2>4, <4>1, <4>2
    <3> QED BY <1>s, <3>2, <3>3
  <2>5. k \in 1 .. Len(former) + 1
    BY <1>1, <2>1
  <2> QED BY <1>1, <2>3, <2>4, <2>5
<1> QED BY <1>3, <1>4

(* The server takes the next write.                                        *)
LEMMA OverwritesSent ==
  ASSUME DataInv, SentInv, AccountsInv, OverwritesTaken, NEW d \in Device, Commit(d),
         \A u \in User : remote[u] # NoDoc => remote'[u] # NoDoc
  PROVE  OverwritesTaken'
<1> DEFINE u     == user[d]
           n     == Len(sent[d])
           queue == pending[d][u]
           next  == IF Accepts(remote[u], queue[n + 1]) THEN "applied" ELSE "rejected"
<1>a. /\ user \in [Device -> User \cup {NoUser}]
      /\ pending \in [Device -> [User -> Seq(ParsedWrite)]]
      /\ sent \in [Device -> Seq(Outcome)]
  BY DEF DataInv, KeptInv, ProcessInv
<1>1. /\ u \in User /\ n < Len(queue)
      /\ sent' = [sent EXCEPT ![d] = Append(sent[d], next)]
      /\ UNCHANGED <<user, pending>>
  BY <1>a DEF Commit, kept
<1>2. /\ n \in Nat /\ DOMAIN sent'[d] = 1 .. n + 1 /\ DOMAIN sent[d] = 1 .. n
      /\ \A k \in 1 .. n : sent'[d][k] = sent[d][k]
      /\ sent'[d][n + 1] = next
  <2>1. sent[d] \in Seq(Outcome) /\ next \in Outcome
    BY <1>a DEF Outcome
  <2>2. sent'[d] = Append(sent[d], next)
    BY <1>a, <1>1
  <2> HIDE DEF next
  <2> QED BY <2>1, <2>2, AppendProperties, LenProperties
<1>3. ASSUME queue[n + 1].kind = "update" PROVE next = "applied"
  <2> SUFFICES remote[u] # NoDoc
    BY DEF Accepts
  <2>1. n + 1 \in DOMAIN queue
    BY <1>a, <1>1, <1>2, LenProperties
  <2>2. CASE pending[d][u][1].kind = "set"
    <3>1. n # 0
      BY <1>3, <2>2
    <3>2. sent[d] # <<>>
      BY <3>1
    <3> QED BY <1>1, <2>2, <3>2, SetWasTaken
  <2> QED BY <1>1, <1>3, <2>1, <2>2 DEF OverwritesTaken
<1> SUFFICES ASSUME NEW e \in Device, NEW v \in User, NEW k \in DOMAIN pending[e][v],
                    pending[e][v][k].kind = "update"
             PROVE  /\ remote'[v] # NoDoc \/ pending[e][v][1].kind = "set"
                    /\ user[e] = v /\ k \in DOMAIN sent'[e] => sent'[e][k] # "rejected"
  BY <1>1 DEF OverwritesTaken
<1>4. remote'[v] # NoDoc \/ pending[e][v][1].kind = "set"
  BY DEF OverwritesTaken
<1>5. ASSUME user[e] = v, k \in DOMAIN sent'[e] PROVE sent'[e][k] # "rejected"
  <2>1. CASE e # d
    <3>1. sent'[e] = sent[e]
      BY <1>a, <1>1, <2>1
    <3> QED BY <1>5, <3>1 DEF OverwritesTaken
  <2>2. CASE e = d /\ k \in 1 .. n
    BY <1>2, <1>5, <2>2 DEF OverwritesTaken
  <2>3. CASE e = d /\ k = n + 1
    BY <1>2, <1>3, <1>5, <2>3
  <2> HIDE DEF n
  <2> QED BY <1>2, <1>5, <2>1, <2>2, <2>3
<1> QED BY <1>4, <1>5

(* An answer takes a write from the queue.                                 *)
LEMMA OverwritesAnswered ==
  ASSUME DataInv, SentInv, AccountsInv, OverwritesTaken, NEW d \in Device, Acknowledge(d)
  PROVE  OverwritesTaken'
<1> DEFINE u     == user[d]
           queue == pending[d][u]
<1>a. /\ user \in [Device -> User \cup {NoUser}]
      /\ pending \in [Device -> [User -> Seq(ParsedWrite)]]
      /\ sent \in [Device -> Seq(Outcome)]
  BY DEF DataInv, KeptInv, ProcessInv
<1>1. /\ u \in User /\ sent[d] # <<>>
      /\ pending' = [pending EXCEPT ![d][u] = Tail(queue)]
      /\ sent' = [sent EXCEPT ![d] = Tail(sent[d])]
      /\ UNCHANGED <<remote, user>>
  BY <1>a DEF Acknowledge, Answered, server
<1>2. /\ Len(sent[d]) \in Nat \ {0} /\ Tail(sent[d]) \in Seq(Outcome)
      /\ DOMAIN Tail(sent[d]) = 1 .. Len(sent[d]) - 1
      /\ \A k \in 1 .. Len(sent[d]) - 1 : Tail(sent[d])[k] = sent[d][k + 1]
      /\ DOMAIN sent[d] = 1 .. Len(sent[d])
  BY <1>a, <1>1, HeadTailProperties, EmptySeq, LenProperties
<1>3. /\ Len(queue) \in Nat \ {0} /\ DOMAIN queue = 1 .. Len(queue)
      /\ DOMAIN Tail(queue) = 1 .. Len(queue) - 1
      /\ \A k \in 1 .. Len(queue) - 1 : Tail(queue)[k] = queue[k + 1]
  <2>1. queue \in Seq(ParsedWrite) /\ Len(queue) \in Nat /\ Len(sent[d]) <= Len(queue)
    BY <1>a, <1>1, LenProperties DEF SentInv
  <2>2. Len(queue) # 0 /\ queue # <<>>
    BY <1>2, <2>1
  <2> QED BY <2>1, <2>2, HeadTailProperties, LenProperties
<1>4. ASSUME NEW k \in DOMAIN Tail(queue), Tail(queue)[k].kind = "update"
      PROVE  /\ remote[u] # NoDoc
             /\ k \in DOMAIN Tail(sent[d]) => Tail(sent[d])[k] # "rejected"
  <2>1. k + 1 \in DOMAIN queue /\ queue[k + 1].kind = "update"
    BY <1>3, <1>4
  <2>2. remote[u] # NoDoc
    BY <1>1, <2>1, SetWasTaken DEF OverwritesTaken
  <2>3. k \in DOMAIN Tail(sent[d]) =>
          k + 1 \in DOMAIN sent[d] /\ Tail(sent[d])[k] = sent[d][k + 1]
    BY <1>2
  <2> QED BY <1>1, <2>1, <2>2, <2>3 DEF OverwritesTaken
<1>5. \A e \in Device, v \in User :
        pending'[e][v] = IF e = d /\ v = u THEN Tail(queue) ELSE pending[e][v]
  BY <1>a, <1>1
<1>6. \A e \in Device : sent'[e] = IF e = d THEN Tail(sent[d]) ELSE sent[e]
  BY <1>a, <1>1
<1> HIDE DEF queue
<1> SUFFICES ASSUME NEW e \in Device, NEW v \in User, NEW k \in DOMAIN pending'[e][v],
                    pending'[e][v][k].kind = "update"
             PROVE  /\ remote[v] # NoDoc \/ pending'[e][v][1].kind = "set"
                    /\ user[e] = v /\ k \in DOMAIN sent'[e] => sent'[e][k] # "rejected"
  BY <1>1 DEF OverwritesTaken
<1>7. CASE e = d /\ v = u
  BY <1>4, <1>5, <1>6, <1>7
<1>8. CASE e # d
  BY <1>5, <1>6, <1>8 DEF OverwritesTaken
<1>9. CASE e = d /\ v # u
  BY <1>5, <1>9 DEF OverwritesTaken
<1> QED BY <1>7, <1>8, <1>9

(* A row is deleted from a list that is loaded: its document is known, or  *)
(* the setData that makes it is queued.                                    *)
LEMMA OverwritesDelete ==
  ASSUME DataInv, SentInv, SignedInv, AccountsInv, TakenInv, RowsInv, OverwritesTaken,
         NEW d \in Device, NEW k \in DOMAIN itemArray[d], DeleteItem(d, k), ~torn'
  PROVE  OverwritesTaken'
<1> DEFINE rows  == RemoveAt(itemArray[d], k)
           write == UpdateItems(ConvertItems(rows))
           u     == user[d]
<1>1. /\ session[d] = "synced" /\ screen[d] = "list"
      /\ pending' = [pending EXCEPT ![d][u] = Append(pending[d][u], write)]
      /\ UNCHANGED <<remote, user, sent>>
  BY DEF DeleteItem, CanTap, Enqueue, server
<1>2. u \in User
  BY <1>1 DEF SignedInv, DataInv, KeptInv
<1>3. write \in ParsedWrite
  <2>1. itemArray[d] \in Seq(Item)
    BY DEF DataInv, ProcessInv
  <2>2. rows \in Seq(Item)
    BY <2>1, RemoveAtType
  <2> HIDE DEF rows
  <2> QED BY <2>2, WritesParse
<1>4. View(d) # NoDoc /\ View(d) = Overlay(Known(d, u), pending[d][u])
  BY <1>1, <1>2, ViewTypes DEF RowsInv, ListInv, InStep
<1>5. remote[u] # NoDoc \/ (pending[d][u] # <<>> /\ pending[d][u][1].kind = "set")
  <2>1. CASE Known(d, u) # NoDoc
    BY <1>2, <2>1 DEF TakenInv
  <2>2. CASE Known(d, u) = NoDoc
    <3>1. pending[d][u] \in Queue
      BY <1>2, DocumentTypes
    <3>2. PICK j \in 1 .. Len(pending[d][u]) : pending[d][u][j].kind = "set"
      BY <1>4, <2>2, <3>1, OverlayNothing
    <3>3. j \in DOMAIN pending[d][u]
      BY <3>1 DEF Queue
    <3>4. j = 1
      BY <1>2, <3>2, <3>3 DEF AccountsInv, SetFirst
    <3> QED BY <3>2, <3>3, <3>4
  <2> QED BY <2>1, <2>2
<1> HIDE DEF write, u
<1> QED BY <1>1, <1>2, <1>3, <1>5, OverwritesQueued DEF u

(* No step does away with a document.                                      *)
LEMMA DocumentsStay ==
  ASSUME DataInv, [Next]_vars
  PROVE  \A u \in User : remote[u] # NoDoc => remote'[u] # NoDoc
<1>a. /\ remote \in [User -> ParsedDocument]
      /\ user \in [Device -> User \cup {NoUser}]
      /\ pending \in [Device -> [User -> Seq(ParsedWrite)]]
      /\ sent \in [Device -> Seq(Outcome)]
  BY DEF DataInv, ServerInv, KeptInv, ProcessInv
<1>1. ASSUME NEW d \in Device, Commit(d), NEW u \in User, remote[u] # NoDoc
      PROVE  remote'[u] # NoDoc
  <2> DEFINE v     == user[d]
             write == pending[d][v][Len(sent[d]) + 1]
  <2>1. /\ v \in User /\ Len(sent[d]) < Len(pending[d][v])
        /\ remote' = [remote EXCEPT ![v] = Apply(remote[v], write)]
    BY <1>a, <1>1 DEF Commit
  <2>2. write \in ParsedWrite
    BY <1>a, <2>1, LenProperties, ElementOfSeq
  <2>3. write \in Write /\ remote[u] \in Seq(Text)
    <3>1. write \in Write /\ remote[u] \in Document
      BY <1>a, <2>2, ParsedIsTyped
    <3> QED BY <1>1, <3>1 DEF Document
  <2> HIDE DEF write, v
  <2>4. Apply(remote[u], write) \in Seq(Text)
    BY <2>3, ApplyKeeps
  <2> QED BY <1>a, <1>1, <2>1, <2>4, NoDocAssumption
<1>2. ASSUME NEW d \in Device, Account(d) \/ Snapshot(d) \/ QueryFails(d) \/ Reply(d)
      PROVE  UNCHANGED remote
  BY <1>2 DEF Account, Login, Register, RegisterUnanswered, Logout, Restart, Snapshot,
              QueryFails, Reply, server
<1>3. ASSUME NEW d \in Device, \/ Edit(d) \/ Transfer(d) \/ DeletionEnds(d) \/ Acknowledge(d)
                               \/ StreamBreaks(d) \/ UNCHANGED vars
      PROVE  UNCHANGED remote
  BY <1>3 DEF Edit, AddItemWithoutImage, AddItemAndImage, DeleteItem, Transfer, PictureStored,
              UploadFails, LinkReady, DeletionEnds, Acknowledge, StreamBreaks, vars, server
<1>4. UNCHANGED vars => UNCHANGED remote
  BY DEF vars, server
<1> QED BY <1>1, <1>2, <1>3, <1>4 DEF Next, Sync

(* Each step, until a row is deleted out of turn.                          *)
LEMMA OverwritesNext ==
  ASSUME DataInv, SentInv, SignedInv, AccountsInv, TakenInv, RowsInv, OverwritesTaken,
         [Next]_vars, ~torn'
  PROVE  OverwritesTaken'
<1>a. /\ user \in [Device -> User \cup {NoUser}]
      /\ pending \in [Device -> [User -> Seq(ParsedWrite)]]
      /\ sent \in [Device -> Seq(Outcome)]
  BY DEF DataInv, KeptInv, ProcessInv
<1>b. \A u \in User : remote[u] # NoDoc => remote'[u] # NoDoc
  BY DocumentsStay
<1>1. ASSUME UNCHANGED pending,
             \A d \in Device : sent'[d] = <<>> \/ (user'[d] = user[d] /\ sent'[d] = sent[d])
      PROVE  OverwritesTaken'
  BY <1>b, <1>1, OverwritesFrame
<1>2. ASSUME NEW e \in Device, \/ \E u \in User : Login(e, u)
                               \/ Logout(e) \/ Restart(e) \/ StreamBreaks(e)
      PROVE  OverwritesTaken'
  <2>1. /\ UNCHANGED pending /\ sent' = [sent EXCEPT ![e] = <<>>]
        /\ \A d \in Device \ {e} : user'[d] = user[d]
    BY <1>a, <1>2 DEF Login, Logout, Restart, StreamBreaks, SwitchUser, RestartStream, kept
  <2>2. \A d \in Device : sent'[d] = <<>> \/ (user'[d] = user[d] /\ sent'[d] = sent[d])
    BY <1>a, <2>1
  <2> QED BY <1>1, <2>1, <2>2
<1>3. ASSUME NEW e \in Device, Snapshot(e) \/ QueryFails(e)
      PROVE  OverwritesTaken'
  <2>1. UNCHANGED <<user, pending>>
    BY <1>3 DEF Snapshot, QueryFails
  <2>2. \/ UNCHANGED sent
        \/ \E u \in User : sent' = [sent EXCEPT ![e] =
                                      [k \in DOMAIN sent[e] |-> Seen(e, u, sent[e][k])]]
    BY <1>3 DEF Snapshot, QueryFails, Refresh, EndQuery
  <2>3. ASSUME NEW d \in Device, NEW k \in DOMAIN sent'[d]
        PROVE  k \in DOMAIN sent[d] /\ (sent[d][k] # "rejected" => sent'[d][k] # "rejected")
    <3>1. ASSUME NEW u \in User,
                 sent' = [sent EXCEPT ![e] = [j \in DOMAIN sent[e] |-> Seen(e, u, sent[e][j])]]
          PROVE  k \in DOMAIN sent[d] /\ (sent[d][k] # "rejected" => sent'[d][k] # "rejected")
      BY <1>a, <2>3, <3>1 DEF Seen
    <3> QED BY <2>2, <2>3, <3>1
  <2> QED BY <1>b, <2>1, <2>3, OverwritesFrame
<1>4. ASSUME NEW e \in Device, NEW u \in User, Register(e, u)
      PROVE  OverwritesTaken'
  <2>1. /\ pending' = [pending EXCEPT ![e][u] = Append(pending[e][u], SetData)]
        /\ sent' = [sent EXCEPT ![e] = <<>>]
        /\ \A d \in Device \ {e} : user'[d] = user[d]
        /\ UNCHANGED remote
    BY <1>a, <1>4 DEF Register, SwitchUser, RestartStream
  <2>2. SetData \in ParsedWrite /\ SetData.kind # "update"
    BY WritesParse DEF SetData
  <2> QED BY <2>1, <2>2, OverwritesQueued
<1>5. ASSUME NEW e \in Device, NEW item \in Item, PutItemInDatabase(e, item), user[e] \in User,
             UNCHANGED <<remote, user, sent>>
      PROVE  OverwritesTaken'
  <2> DEFINE write == ArrayUnion(ConvertItemToString(item))
  <2>1. pending' = [pending EXCEPT ![e][user[e]] = Append(pending[e][user[e]], write)]
    BY <1>5 DEF PutItemInDatabase, Enqueue
  <2>2. write \in ParsedWrite /\ write.kind # "update"
    BY WritesParse DEF ArrayUnion
  <2> HIDE DEF write
  <2> QED BY <1>5, <2>1, <2>2, OverwritesQueued
<1>6. ASSUME NEW e \in Device, NEW name \in Text, NEW amount \in Text,
             AddItemWithoutImage(e, name, amount)
      PROVE  OverwritesTaken'
  <2>1. /\ PutItemInDatabase(e, TypedItem(name, amount)) /\ user[e] \in User
        /\ UNCHANGED <<remote, user, sent>>
    BY <1>a, <1>6 DEF AddItemWithoutImage, TypedItem, CanTap, SignedInv, server
  <2>2. TypedItem(name, amount) \in Item
    BY ConstantTypes DEF TypedItem, Item
  <2> QED BY <1>5, <2>1, <2>2
<1>7. ASSUME NEW e \in Device, LinkReady(e)
      PROVE  OverwritesTaken'
  <2>1. /\ PutItemInDatabase(e, UploadedItem(e)) /\ user[e] \in User
        /\ UNCHANGED <<remote, user, sent>>
    BY <1>a, <1>7 DEF LinkReady, UploadedItem, SignedInv, server
  <2>2. UploadedItem(e) \in Item
    BY DEF DataInv, ProcessInv, UploadedItem, Item, Upload
  <2> QED BY <1>5, <2>1, <2>2
<1>8. ASSUME NEW e \in Device,
             \/ \E u \in User : RegisterUnanswered(e, u)
             \/ \E name, amount, image : AddItemAndImage(e, name, amount, image)
             \/ Reply(e) \/ PictureStored(e) \/ UploadFails(e) \/ DeletionEnds(e)
      PROVE  OverwritesTaken'
  <2>1. UNCHANGED <<user, pending, sent>>
    BY <1>8 DEF RegisterUnanswered, AddItemAndImage, Reply, PictureStored, UploadFails,
                DeletionEnds, kept, process
  <2> QED BY <1>1, <2>1
<1>9. UNCHANGED vars => OverwritesTaken'
  BY <1>1 DEF vars, kept, process
<1>10. ASSUME NEW e \in Device, Account(e)
       PROVE  OverwritesTaken'
  BY <1>2, <1>4, <1>8, <1>10 DEF Account
<1>11. ASSUME NEW e \in Device, Edit(e)
       PROVE  OverwritesTaken'
  BY <1>6, <1>8, <1>11, OverwritesDelete, ConstantTypes, AmountsAssumption DEF Edit, Typed
<1>12. ASSUME NEW e \in Device, Transfer(e) \/ Snapshot(e) \/ QueryFails(e) \/ Reply(e)
                                \/ DeletionEnds(e) \/ Sync(e) \/ StreamBreaks(e)
       PROVE  OverwritesTaken'
  BY <1>b, <1>2, <1>3, <1>7, <1>8, <1>12, OverwritesSent, OverwritesAnswered
     DEF Transfer, Sync
<1> QED BY <1>9, <1>10, <1>11, <1>12 DEF Next

-----------------------------------------------------------------------------
(* A picture that is in storage, and that nobody has asked storage to      *)
(* delete.                                                                 *)
Alive(i) == i \in images /\ \A d \in Device : <<i>> \notin deletions[d]

(* The items that name no pictures but those had, and still name the same  *)
(* one when they are loaded again.                                         *)
PictureItems(had) ==
  [u \in User |->
     {item \in Item : \A i \in Image :
        /\ item.pictureName = <<i>> => i \in had[u]
        /\ ParseItem(ConvertItemToString(item)).pictureName = <<i>>
             => item.pictureName = <<i>>}]

NoPictureIn(text) == \A k \in DOMAIN text : text[k] \notin Image

Uploading(d) == upload[d].stage \in {"sending", "linking"}

(* Pictures were named once, and had by one user.                          *)
PicturesShared(had) ==
  /\ had \in [User -> SUBSET Image]
  /\ \A u \in User : had[u] \subseteq named
  /\ \A u, v \in User : u # v => had[u] \cap had[v] = {}

(* The picture of an upload is new, and in no other upload.                *)
UploadNew(had, d) ==
  /\ NoPictureIn(upload[d].name) /\ NoPictureIn(upload[d].amount)
  /\ \E i \in named : /\ upload[d].image = <<i>>
                      /\ \A u \in User : i \notin had[u]
                      /\ \A e \in Device \ {d} : Uploading(e) => upload[e].image # <<i>>

UploadsNew(had) == \A d \in Device : Uploading(d) => UploadNew(had, d)

(* What is deleted from storage somebody had.                              *)
DeletionsHad(had) ==
  \A d \in Device, i \in Image : <<i>> \in deletions[d] => \E u \in User : i \in had[u]

PicturesHad(had) ==
  /\ PicturesShared(had) /\ UploadsNew(had) /\ DeletionsHad(had)
  /\ OwnInv(PictureItems(had))

(* A picture is there from before it is linked; as long as the document is *)
(* left to a device, so are the pictures of what it will be, and those of  *)
(* the rows of a list that is followed.                                    *)
StringsAlive(strings) == \A str \in strings : str[4] \in Image => Alive(str[4])

LinkAlive(d) ==
  upload[d].stage = "linking" => \A i \in Image : upload[d].image = <<i>> => Alive(i)

WillBe(d, u) == Overlay(remote[u], pending[d][u])

DocumentAlive(d) == \A u \in User : LeftTo(d, u) => StringsAlive(Strings(WillBe(d, u)))

RowsAlive(d) ==
  \A k \in DOMAIN itemArray[d], i \in Image : itemArray[d][k].pictureName = <<i>> => Alive(i)

ListAlive(d) ==
  Followed(d) /\ LeftTo(d, user[d]) /\ (session[d] = "synced" => ~dropped[d][user[d]])
    => RowsAlive(d)

AliveInv == \A d \in Device : LinkAlive(d) /\ DocumentAlive(d) /\ ListAlive(d)

-----------------------------------------------------------------------------
(* An element of a concatenation is an element of one of its parts.        *)
LEMMA ElementOfConcat ==
  ASSUME NEW S, NEW s \in Seq(S), NEW t \in Seq(S), NEW k \in DOMAIN (s \o t)
  PROVE  \/ \E j \in DOMAIN s : (s \o t)[k] = s[j]
         \/ \E j \in DOMAIN t : (s \o t)[k] = t[j]
<1> DEFINE n == Len(s)
           m == Len(t)
<1>1. /\ n \in Nat /\ m \in Nat /\ DOMAIN s = 1 .. n /\ DOMAIN t = 1 .. m
      /\ DOMAIN (s \o t) = 1 .. n + m
  <2>1. s \o t \in Seq(S) /\ Len(s \o t) = n + m
    BY ConcatProperties
  <2> QED BY <2>1, LenProperties
<1>2. (s \o t)[k] = IF k <= n THEN s[k] ELSE t[k - n]
  <2>1. k \in 1 .. Len(s) + Len(t)
    BY <1>1
  <2> QED BY <2>1, ConcatProperties
<1> HIDE DEF n, m
<1>3. CASE k <= n
  <2>1. k \in DOMAIN s
    BY <1>1, <1>3
  <2> QED BY <1>2, <1>3, <2>1
<1>4. CASE ~(k <= n)
  <2>1. k - n \in DOMAIN t
    BY <1>1, <1>4
  <2> QED BY <1>2, <1>4, <2>1
<1> QED BY <1>3, <1>4

(* The same of texts.                                                      *)
LEMMA ChunkOfConcat ==
  ASSUME NEW s \in Seq(Chunk), NEW t \in Seq(Chunk), NEW k \in DOMAIN (s \o t)
  PROVE  \/ \E j \in DOMAIN s : (s \o t)[k] = s[j]
         \/ \E j \in DOMAIN t : (s \o t)[k] = t[j]
<1> QED BY ElementOfConcat

(* A chunk of an item's string is one of the four texts'.                  *)
LEMMA ChunkOfItem ==
  ASSUME NEW item \in Item
  PROVE  \E text \in {item.name, item.amount, item.picture, item.pictureName} :
           \E j \in DOMAIN text : ConvertItemToString(item)[4] = text[j]
<1> DEFINE two   == item.name \o item.amount
           three == two \o item.picture
           four  == three \o item.pictureName
<1>1. /\ item.name \in Seq(Chunk) /\ item.amount \in Seq(Chunk)
      /\ item.picture \in Seq(Chunk) /\ item.pictureName \in Seq(Chunk)
  BY DEF Item, Text
<1>2. four = ConvertItemToString(item)
  BY DEF ConvertItemToString
<1>3. 4 \in DOMAIN four
  <2>1. four \in Text /\ Len(four) >= 4
    BY <1>2, ConvertedParses DEF Parses
  <2> HIDE DEF four
  <2> QED BY <2>1 DEF Text
<1>4. two \in Seq(Chunk)
  BY <1>1, ConcatProperties
<1>5. \A k \in DOMAIN two : \/ \E j \in DOMAIN item.name : two[k] = item.name[j]
                            \/ \E j \in DOMAIN item.amount : two[k] = item.amount[j]
  BY <1>1, ChunkOfConcat
<1> HIDE DEF two
<1>6. three \in Seq(Chunk)
  BY <1>1, <1>4, ConcatProperties
<1>7. \A k \in DOMAIN three : \/ \E j \in DOMAIN two : three[k] = two[j]
                              \/ \E j \in DOMAIN item.picture : three[k] = item.picture[j]
  BY <1>1, <1>4, ChunkOfConcat
<1> HIDE DEF three
<1>8. \/ \E j \in DOMAIN three : four[4] = three[j]
      \/ \E j \in DOMAIN item.pictureName : four[4] = item.pictureName[j]
  BY <1>1, <1>3, <1>6, ChunkOfConcat
<1> HIDE DEF four
<1> QED BY <1>2, <1>5, <1>7, <1>8

(* A loaded item names as its picture the fourth chunk of its string.      *)
LEMMA LoadedPicture ==
  ASSUME NEW string, NEW i
  PROVE  ParseItem(string).pictureName = <<i>> <=> string[4] = i
<1>1. ParseItem(string).pictureName = <<string[4]>>
  BY DEF ParseItem
<1>2. <<string[4]>> = <<i>> <=> string[4] = i
  OBVIOUS
<1> QED BY <1>1, <1>2

(* Items keep naming what they name.                                       *)
LEMMA PictureItemsClosed ==
  ASSUME NEW had \in [User -> SUBSET Image]
  PROVE  Closed(PictureItems(had))
<1>1. PictureItems(had) \in [User -> SUBSET Item]
  BY DEF PictureItems
<1> SUFFICES ASSUME NEW u \in User, NEW item \in PictureItems(had)[u]
             PROVE  ParseItem(ConvertItemToString(item)) \in PictureItems(had)[u]
  BY <1>1 DEF Closed
<1> DEFINE loaded == ParseItem(ConvertItemToString(item))
<1>2. item \in Item /\ \A i \in Image : /\ item.pictureName = <<i>> => i \in had[u]
                                        /\ loaded.pictureName = <<i>> => item.pictureName = <<i>>
  BY DEF PictureItems
<1>3. loaded \in Item /\ ParseItem(ConvertItemToString(loaded)) = loaded
  BY <1>2, ConvertedParses, ParsedIsPlain, ReparseIsStable DEF Text
<1> HIDE DEF loaded
<1>4. loaded \in PictureItems(had)[u]
  BY <1>2, <1>3 DEF PictureItems
<1> QED BY <1>4 DEF loaded

(* What a user types names no picture.                                     *)
LEMMA TypedHasNoPicture ==
  ASSUME NEW d \in Device, NEW name, NEW amount, Typed(d, name, amount), user[d] \in User
  PROVE  name \in Text /\ amount \in Text /\ NoPictureIn(name) /\ NoPictureIn(amount)
<1>1. name \in Names[user[d]] /\ amount \in Amounts
  BY DEF Typed
<1>2. \A text \in (UNION {Names[u] : u \in User}) \cup Amounts : NoPictureIn(text)
  BY UUIDAssumption DEF NoPictureIn
<1>3. name \in UNION {Names[u] : u \in User}
  <2>1. Names[user[d]] \in {Names[u] : u \in User}
    OBVIOUS
  <2> QED BY <1>1, <2>1
<1>4. name \in Text /\ amount \in Text
  BY <1>1, ConstantTypes, AmountsAssumption
<1>5. NoPictureIn(name)
  BY <1>2, <1>3
<1>6. NoPictureIn(amount)
  BY <1>1, <1>2
<1> QED BY <1>4, <1>5, <1>6

(* An item that is typed has no picture, and will have none.               *)
LEMMA TypedItemHasNone ==
  ASSUME NEW had \in [User -> SUBSET Image], NEW u \in User,
         NEW name \in Text, NEW amount \in Text, NoPictureIn(name), NoPictureIn(amount)
  PROVE  TypedItem(name, amount) \in PictureItems(had)[u]
<1> DEFINE item == TypedItem(name, amount)
<1>1. /\ item \in Item /\ item.name = name /\ item.amount = amount
      /\ item.picture = NoPicture /\ item.pictureName = NoPicture
  BY ConstantTypes DEF TypedItem, Item
<1>2. \A j \in DOMAIN NoPicture : NoPicture[j] \notin Image
  BY ImageAssumption DEF NoPicture
<1>3. \A i \in Image : NoPicture # <<i>>
  BY ImageAssumption DEF NoPicture
<1> HIDE DEF item
<1>4. ConvertItemToString(item)[4] \notin Image
  BY <1>1, <1>2, ChunkOfItem DEF NoPictureIn
<1>5. item \in PictureItems(had)[u]
  BY <1>1, <1>3, <1>4, LoadedPicture DEF PictureItems
<1> QED BY <1>5 DEF item

(* An item that is uploaded has its picture, also once it is loaded,       *)
(* unless a separator in its texts leaves it none.                         *)
LEMMA UploadedItemHasIt ==
  ASSUME NEW had \in [User -> SUBSET Image], NEW u \in User, NEW d \in Device,
         upload[d] \in Upload, NoPictureIn(upload[d].name), NoPictureIn(upload[d].amount),
         NEW i \in had[u], upload[d].image = <<i>>
  PROVE  /\ UploadedItem(d) \in PictureItems(had)[u]
         /\ UploadedItem(d).pictureName = <<i>>
<1> DEFINE item == UploadedItem(d)
<1>1. /\ item \in Item /\ item.name = upload[d].name /\ item.amount = upload[d].amount
      /\ item.picture = <<i>> /\ item.pictureName = <<i>>
  BY DEF UploadedItem, Item, Upload
<1>2. \A j \in DOMAIN <<i>> : <<i>>[j] = i
  OBVIOUS
<1> HIDE DEF item
<1>3. \A c \in Image : ConvertItemToString(item)[4] = c => c = i
  BY <1>1, <1>2, ChunkOfItem DEF NoPictureIn
<1>4. \A c \in Image : <<i>> = <<c>> => c = i
  OBVIOUS
<1>5. item \in PictureItems(had)[u]
  BY <1>1, <1>3, <1>4, LoadedPicture DEF PictureItems
<1> QED BY <1>1, <1>5 DEF item

-----------------------------------------------------------------------------
(* What is a user's stays the user's when more is.                         *)
LEMMA OwnMore ==
  ASSUME NEW mine, NEW more, \A u \in User : mine[u] \subseteq more[u], OwnInv(mine), DataInv
  PROVE  OwnInv(more)
<1>1. \A u \in User : OwnText(mine, u) \subseteq OwnText(more, u)
  BY DEF OwnText
<1>2. \A u \in User : Seq(OwnText(mine, u)) \subseteq Seq(OwnText(more, u))
  BY <1>1, SeqMonotonic
<1>3. \A u \in User : OwnDocument(mine, u) \subseteq OwnDocument(more, u)
  BY <1>2 DEF OwnDocument
<1>4. \A u \in User : OwnWrite(mine, u) \subseteq OwnWrite(more, u)
  <2> SUFFICES ASSUME NEW u \in User, NEW write \in OwnWrite(mine, u)
               PROVE  write \in OwnWrite(more, u)
    OBVIOUS
  <2> QED BY <1>1, <1>2 DEF OwnWrite
<1>5. OwnAnswer(mine) \subseteq OwnAnswer(more)
  BY <1>3 DEF OwnAnswer, ParsedAnswer
<1>6. \A u \in User : Seq(OwnWrite(mine, u)) \subseteq Seq(OwnWrite(more, u))
  BY <1>4, SeqMonotonic
<1>7. \A u \in User : Seq(mine[u]) \subseteq Seq(more[u])
  BY SeqMonotonic
<1>8. DocumentsOwn(more)
  BY <1>3 DEF OwnInv, DocumentsOwn
<1>9. QueuesOwn(more)
  BY <1>6 DEF OwnInv, QueuesOwn
<1>10. AnswersOwn(more)
  <2>1. Seq(OwnAnswer(mine)) \subseteq Seq(OwnAnswer(more))
    BY <1>5, SeqMonotonic
  <2> QED BY <2>1 DEF OwnInv, AnswersOwn
<1>11. RowsOwn(more)
  BY <1>7 DEF OwnInv, RowsOwn
<1> QED BY <1>8, <1>9, <1>10, <1>11 DEF OwnInv

(* Pictures stay in storage, and what is deleted is a row's picture.       *)
LEMMA DeletionsNext ==
  ASSUME DataInv, [Next]_vars
  PROVE  \A e \in Device : \A name \in deletions'[e] :
           \/ name \in deletions[e]
           \/ \E k \in DOMAIN itemArray[e] :
                DeleteItem(e, k) /\ name = itemArray[e][k].pictureName
<1>a. deletions \in [Device -> SUBSET Text]
  BY DEF DataInv, ProcessInv
<1>1. ASSUME UNCHANGED deletions
      PROVE  \A e \in Device : \A name \in deletions'[e] : name \in deletions[e]
  BY <1>1
<1>2. ASSUME NEW d \in Device, NEW gone, deletions' = [deletions EXCEPT ![d] = @ \ gone]
      PROVE  \A e \in Device : \A name \in deletions'[e] : name \in deletions[e]
  BY <1>a, <1>2
<1>3. ASSUME NEW d \in Device, NEW k \in DOMAIN itemArray[d], DeleteItem(d, k)
      PROVE  \A e \in Device : \A name \in deletions'[e] :
               name \in deletions[e] \/ (e = d /\ name = itemArray[d][k].pictureName)
  <2>1. deletions' = [deletions EXCEPT ![d] = @ \cup PictureOf(d, k)]
    BY <1>3 DEF DeleteItem
  <2>2. \A name \in PictureOf(d, k) : name = itemArray[d][k].pictureName
    BY DEF PictureOf
  <2> QED BY <1>a, <2>1, <2>2
<1>4. ASSUME NEW d \in Device, Account(d)
      PROVE  \A e \in Device : \A name \in deletions'[e] : name \in deletions[e]
  <2>1. CASE Restart(d)
    <3>1. deletions' = [deletions EXCEPT ![d] = {}]
      BY <2>1 DEF Restart
    <3> QED BY <1>a, <3>1
  <2>2. CASE ~Restart(d)
    BY <1>1, <1>4, <2>2 DEF Account, Login, Register, RegisterUnanswered, Logout, process
  <2> QED BY <2>1, <2>2
<1>5. ASSUME NEW d \in Device, DeletionEnds(d)
      PROVE  \A e \in Device : \A name \in deletions'[e] : name \in deletions[e]
  BY <1>2, <1>5 DEF DeletionEnds
<1>6. ASSUME NEW d \in Device, \/ \E name, amount : AddItemWithoutImage(d, name, amount)
                               \/ \E name, amount, image : AddItemAndImage(d, name, amount, image)
                               \/ Snapshot(d) \/ QueryFails(d) \/ Reply(d) \/ Transfer(d)
                               \/ Sync(d) \/ StreamBreaks(d)
      PROVE  UNCHANGED deletions
  BY <1>6 DEF AddItemWithoutImage, AddItemAndImage, Snapshot, QueryFails, Reply, Transfer,
       PictureStored, UploadFails, LinkReady, Sync, Commit, Acknowledge, StreamBreaks
<1>7. CASE UNCHANGED vars
  BY <1>1, <1>7 DEF vars, process
<1>8. ASSUME NEW d \in Device, NEW k \in DOMAIN itemArray[d], DeleteItem(d, k)
      PROVE  \A e \in Device : \A name \in deletions'[e] :
           \/ name \in deletions[e]
           \/ \E j \in DOMAIN itemArray[e] :
                DeleteItem(e, j) /\ name = itemArray[e][j].pictureName
  BY <1>3, <1>8
<1> QED BY <1>1, <1>4, <1>5, <1>6, <1>7, <1>8 DEF Next, Edit

(* A picture stays in storage until somebody has it deleted.               *)
LEMMA ImagesStay ==
  ASSUME DataInv, [Next]_vars, NEW i \in images, \A e \in Device : <<i>> \notin deletions[e]
  PROVE  i \in images'
<1>1. ASSUME NEW d \in Device, Transfer(d)
      PROVE  images \subseteq images'
  <2>1. CASE PictureStored(d) \/ UploadFails(d)
    BY <2>1 DEF PictureStored, UploadFails
  <2>2. CASE LinkReady(d)
    BY <2>2 DEF LinkReady, server
  <2> QED BY <1>1, <2>1, <2>2 DEF Transfer
<1>2. ASSUME NEW d \in Device, DeletionEnds(d)
      PROVE  i \in images'
  BY <1>2 DEF DeletionEnds
<1>3. ASSUME NEW d \in Device, \/ Account(d) \/ Edit(d) \/ Snapshot(d) \/ QueryFails(d)
                               \/ Reply(d) \/ Sync(d) \/ StreamBreaks(d)
      PROVE  UNCHANGED images
  BY <1>3 DEF Account, Login, Register, RegisterUnanswered, Logout, Restart, Edit,
       AddItemWithoutImage, AddItemAndImage, DeleteItem, Snapshot, QueryFails, Reply, Sync,
       Commit, Acknowledge, StreamBreaks, server
<1>4. CASE UNCHANGED vars
  BY <1>4 DEF vars, server
<1> QED BY <1>1, <1>2, <1>3, <1>4 DEF Next

(* A picture lives on, unless a row that names it is deleted.              *)
LEMMA AliveStays ==
  ASSUME DataInv, [Next]_vars, NEW i, Alive(i),
         \A e \in Device : \A k \in DOMAIN itemArray[e] :
           DeleteItem(e, k) => itemArray[e][k].pictureName # <<i>>
  PROVE  Alive(i)'
<1>1. i \in images'
  BY ImagesStay DEF Alive
<1>2. \A e \in Device : <<i>> \notin deletions'[e]
  BY DeletionsNext DEF Alive
<1> QED BY <1>1, <1>2 DEF Alive

-----------------------------------------------------------------------------
(* An upload goes on with what it began with, or begins with a new name.   *)
LEMMA UploadsStep ==
  ASSUME DataInv, [Next]_vars
  PROVE  /\ named \subseteq named'
         /\ \A d \in Device : Uploading(d)' =>
              \/ /\ Uploading(d) /\ upload'[d].image = upload[d].image
                 /\ upload'[d].name = upload[d].name /\ upload'[d].amount = upload[d].amount
              \/ \E name, amount : \E i \in Image \ named :
                   /\ Typed(d, name, amount) /\ i \in named'
                   /\ upload' = [upload EXCEPT ![d] = [stage |-> "sending", image |-> <<i>>,
                                                       name |-> name, amount |-> amount]]
<1>a. upload \in [Device -> Upload]
  BY DEF DataInv, ProcessInv
<1> DEFINE Goes(d) == /\ Uploading(d) /\ upload'[d].image = upload[d].image
                      /\ upload'[d].name = upload[d].name
                      /\ upload'[d].amount = upload[d].amount
           Begins(d) == \E name, amount : \E i \in Image \ named :
                   /\ Typed(d, name, amount) /\ i \in named'
                   /\ upload' = [upload EXCEPT ![d] = [stage |-> "sending", image |-> <<i>>,
                                                       name |-> name, amount |-> amount]]
           Step == named \subseteq named' /\ \A d \in Device : Uploading(d)' => Goes(d) \/ Begins(d)
<1>1. UNCHANGED <<named, upload>> => Step
  BY DEF Uploading
<1>2. ASSUME NEW e \in Device, upload' = [upload EXCEPT ![e] = NoUpload], UNCHANGED named
      PROVE  Step
  <2>1. \A d \in Device : Uploading(d)' => upload'[d] = upload[d]
    BY <1>a, <1>2 DEF Uploading, NoUpload
  <2> QED BY <1>2, <2>1 DEF Uploading
<1>3. ASSUME NEW e \in Device, PictureStored(e) \/ UploadFails(e)
      PROVE  Step
  <2>1. /\ Uploading(e) /\ UNCHANGED named
        /\ \E s \in {"linking", "failed"} : upload' = [upload EXCEPT ![e].stage = s]
    BY <1>3 DEF PictureStored, UploadFails, Uploading, history
  <2>2. PICK s : upload' = [upload EXCEPT ![e].stage = s]
    BY <2>1
  <2>3. \A d \in Device : d # e => upload'[d] = upload[d]
    BY <1>a, <2>2
  <2>4. /\ upload'[e].image = upload[e].image /\ upload'[e].name = upload[e].name
        /\ upload'[e].amount = upload[e].amount
    BY <1>a, <2>2 DEF Upload
  <2> QED BY <2>1, <2>3, <2>4 DEF Uploading
<1>4. ASSUME NEW e \in Device, NEW name, NEW amount, NEW i \in Image, Typed(e, name, amount),
             AddItemAndImage(e, name, amount, i)
      PROVE  Step
  <2>1. /\ i \notin named /\ named' = named \cup {i}
        /\ upload' = [upload EXCEPT ![e] = [stage |-> "sending", image |-> <<i>>,
                                            name |-> name, amount |-> amount]]
    BY <1>4 DEF AddItemAndImage
  <2>2. Begins(e)
    BY <1>4, <2>1
  <2>3. \A d \in Device : d # e => upload'[d] = upload[d]
    BY <1>a, <2>1
  <2> HIDE DEF Begins
  <2> QED BY <2>1, <2>2, <2>3 DEF Uploading
<1>5. ASSUME NEW e \in Device, Account(e)
      PROVE  Step
  <2>1. CASE Restart(e)
    BY <1>2, <2>1 DEF Restart
  <2>2. CASE ~Restart(e)
    BY <1>1, <1>5, <2>2 DEF Account, Login, Register, RegisterUnanswered, Logout, process
  <2> QED BY <2>1, <2>2
<1>6. ASSUME NEW e \in Device, LinkReady(e)
      PROVE  Step
  BY <1>2, <1>6 DEF LinkReady
<1>7. ASSUME NEW e \in Device,
             \/ \E name, amount : AddItemWithoutImage(e, name, amount)
             \/ \E k \in DOMAIN itemArray[e] : DeleteItem(e, k)
             \/ Snapshot(e) \/ QueryFails(e) \/ Reply(e) \/ DeletionEnds(e)
             \/ Sync(e) \/ StreamBreaks(e)
      PROVE  UNCHANGED <<named, upload>>
  BY <1>7 DEF AddItemWithoutImage, DeleteItem, Snapshot, QueryFails, Reply, DeletionEnds, Sync,
              Commit, Acknowledge, StreamBreaks, history
<1>8. UNCHANGED vars => Step
  BY <1>1 DEF vars, process, history
<1> HIDE DEF Step
<1>9. ASSUME NEW e \in Device, Edit(e)
      PROVE  Step
  BY <1>1, <1>4, <1>7, <1>9 DEF Edit
<1>10. ASSUME NEW e \in Device, \/ Snapshot(e) \/ QueryFails(e) \/ Reply(e) \/ DeletionEnds(e)
                                \/ Sync(e) \/ StreamBreaks(e)
       PROVE  Step
  BY <1>1, <1>7, <1>10
<1>11. ASSUME NEW e \in Device, Transfer(e)
       PROVE  Step
  BY <1>3, <1>6, <1>11 DEF Transfer
<1>12. Step
  BY <1>5, <1>8, <1>9, <1>10, <1>11 DEF Next
<1> QED BY <1>12 DEF Step

(* A row that is deleted, and that names a picture, is its user's.         *)
LEMMA DeletedHad ==
  ASSUME DataInv, SignedInv, NEW had, PicturesHad(had), NEW d \in Device,
         NEW k \in DOMAIN itemArray[d], DeleteItem(d, k), ~torn',
         NEW i \in Image, itemArray[d][k].pictureName = <<i>>
  PROVE  user[d] \in User /\ i \in had[user[d]]
<1>1. session[d] = "synced" /\ screen[d] = "list"
  BY DEF DeleteItem, CanTap
<1>2. user[d] \in User
  BY <1>1 DEF SignedInv, DataInv, KeptInv
<1>3. itemArray[d] \in Seq(PictureItems(had)[user[d]])
  BY <1>1, <1>2 DEF PicturesHad, OwnInv, RowsOwn, Followed
<1>4. itemArray[d][k] \in PictureItems(had)[user[d]]
  BY <1>3
<1> QED BY <1>2, <1>4 DEF PictureItems

(* Each step keeps pictures with those that have them.                     *)
LEMMA HadKept ==
  ASSUME DataInv, SentInv, SignedInv, RowsInv, [Next]_vars, ~torn',
         NEW had, PicturesHad(had), NEW more, PicturesShared(more),
         \A u \in User : had[u] \subseteq more[u],
         \A d \in Device : Uploading(d) /\ Uploading(d)' =>
           \A i \in named, u \in User : upload[d].image = <<i>> => i \notin more[u],
         \A d \in Device : LinkReady(d) => UploadedItem(d) \in PictureItems(more)[user[d]]
  PROVE  PicturesHad(more)'
<1>a. /\ upload \in [Device -> Upload] /\ named \subseteq Image
      /\ user \in [Device -> User \cup {NoUser}]
  BY DEF DataInv, KeptInv, ProcessInv, HistoryInv
<1>b. more \in [User -> SUBSET Image] /\ UploadsNew(had) /\ DeletionsHad(had)
  BY DEF PicturesShared, PicturesHad
<1>1. PicturesShared(more)'
  BY UploadsStep DEF PicturesShared
<1>2. UploadsNew(more)'
  <2> SUFFICES ASSUME NEW d \in Device, Uploading(d)' PROVE UploadNew(more, d)'
    BY DEF UploadsNew
  <2>1. CASE /\ Uploading(d) /\ upload'[d].image = upload[d].image
             /\ upload'[d].name = upload[d].name /\ upload'[d].amount = upload[d].amount
    <3>1. /\ NoPictureIn(upload[d].name) /\ NoPictureIn(upload[d].amount)
          /\ \E i \in named :
               /\ upload[d].image = <<i>>
               /\ \A e \in Device \ {d} : Uploading(e) => upload[e].image # <<i>>
      BY <1>b, <2>1 DEF UploadsNew, UploadNew
    <3>2. PICK i \in named :
            /\ upload[d].image = <<i>>
            /\ \A e \in Device \ {d} : Uploading(e) => upload[e].image # <<i>>
      BY <3>1
    <3>3. \A u \in User : i \notin more[u]
      BY <2>1, <3>2
    <3>4. ASSUME NEW e \in Device \ {d}, Uploading(e)'
          PROVE  upload'[e].image # <<i>>
      <4>1. CASE Uploading(e) /\ upload'[e].image = upload[e].image
        BY <3>2, <4>1
      <4>2. ASSUME NEW j \in Image \ named, NEW name, NEW amount,
                   upload' = [upload EXCEPT ![e] = [stage |-> "sending", image |-> <<j>>,
                                                    name |-> name, amount |-> amount]]
            PROVE  upload'[e].image # <<i>>
        <5>1. upload'[e].image = <<j>> /\ j # i
          BY <1>a, <4>2
        <5> QED BY <5>1
      <4> QED BY <3>4, <4>1, <4>2, UploadsStep
    <3>5. i \in named'
      BY UploadsStep
    <3> QED BY <2>1, <3>1, <3>2, <3>3, <3>4, <3>5 DEF UploadNew, NoPictureIn
  <2>2. ASSUME NEW name, NEW amount, NEW i \in Image \ named, Typed(d, name, amount),
               i \in named',
               upload' = [upload EXCEPT ![d] = [stage |-> "sending", image |-> <<i>>,
                                                name |-> name, amount |-> amount]]
        PROVE  UploadNew(more, d)'
    <3>1. user[d] \in User
      BY <1>a, <2>2 DEF Typed
    <3>2. NoPictureIn(name) /\ NoPictureIn(amount)
      BY <2>2, <3>1, TypedHasNoPicture
    <3>3. \A u \in User : i \notin more[u]
      BY <2>2 DEF PicturesShared
    <3>4. /\ upload'[d].name = name /\ upload'[d].amount = amount /\ upload'[d].image = <<i>>
          /\ \A e \in Device \ {d} : upload'[e] = upload[e]
      BY <1>a, <2>2
    <3>5. ASSUME NEW e \in Device \ {d}, Uploading(e)'
          PROVE  upload'[e].image # <<i>>
      <4>1. Uploading(e)
        BY <3>4, <3>5 DEF Uploading
      <4>2. \E j \in named : upload[e].image = <<j>>
        BY <1>b, <4>1 DEF UploadsNew, UploadNew
      <4>3. PICK j \in named : upload[e].image = <<j>>
        BY <4>2
      <4>4. j # i
        BY <2>2
      <4> QED BY <3>4, <4>3, <4>4
    <3> QED BY <2>2, <3>2, <3>3, <3>4, <3>5 DEF UploadNew, NoPictureIn
  <2> QED BY <2>1, <2>2, UploadsStep
<1>3. DeletionsHad(more)'
  <2> SUFFICES ASSUME NEW d \in Device, NEW i \in Image, <<i>> \in deletions'[d]
               PROVE  \E u \in User : i \in more[u]
    BY DEF DeletionsHad
  <2>1. CASE <<i>> \in deletions[d]
    BY <1>b, <2>1 DEF DeletionsHad
  <2>2. ASSUME NEW k \in DOMAIN itemArray[d], DeleteItem(d, k),
               itemArray[d][k].pictureName = <<i>>
        PROVE  \E u \in User : i \in more[u]
    BY <2>2, DeletedHad
  <2> QED BY <2>1, <2>2, DeletionsNext
<1>4. OwnInv(PictureItems(more))'
  <2> DEFINE mine == PictureItems(more)
  <2>1. Closed(mine)
    BY <1>b, PictureItemsClosed
  <2>2. OwnInv(mine)
    <3>1. \A u \in User : PictureItems(had)[u] \subseteq mine[u]
      BY DEF PictureItems
    <3> QED BY <3>1, OwnMore DEF PicturesHad
  <2>3. \A d \in Device : PutsOwn(mine, d)
    <3>1. ASSUME NEW d \in Device, NEW name \in Text, NEW amount \in Text,
                 Typed(d, name, amount)
          PROVE  TypedItem(name, amount) \in mine[user[d]]
      <4>1. user[d] \in User
        BY <1>a, <3>1 DEF Typed
      <4>2. NoPictureIn(name) /\ NoPictureIn(amount)
        BY <3>1, <4>1, TypedHasNoPicture
      <4> QED BY <1>b, <4>1, <4>2, TypedItemHasNone
    <3> QED BY <3>1 DEF PutsOwn
  <2> HIDE DEF mine
  <2>4. OwnInv(mine)'
    BY <2>1, <2>2, <2>3, OwnNext
  <2> QED BY <2>4 DEF mine
<1> QED BY <1>1, <1>2, <1>3, <1>4 DEF PicturesHad

(* When an item is linked its picture becomes its user's.                  *)
LEMMA HadNext ==
  ASSUME DataInv, SentInv, SignedInv, RowsInv, [Next]_vars, ~torn',
         NEW had, PicturesHad(had)
  PROVE  \E more : PicturesHad(more)'
<1>a. /\ upload \in [Device -> Upload] /\ named \subseteq Image
      /\ user \in [Device -> User \cup {NoUser}]
  BY DEF DataInv, KeptInv, ProcessInv, HistoryInv
<1>b. PicturesShared(had) /\ UploadsNew(had)
  BY DEF PicturesHad
<1>1. CASE ~\E d \in Device : LinkReady(d)
  <2>1. \A d \in Device : Uploading(d) =>
          \A i \in named, u \in User : upload[d].image = <<i>> => i \notin had[u]
    <3> SUFFICES ASSUME NEW d \in Device, Uploading(d), NEW i \in named, NEW u \in User,
                        upload[d].image = <<i>>
                 PROVE  i \notin had[u]
      OBVIOUS
    <3>1. \E j \in named : upload[d].image = <<j>> /\ j \notin had[u]
      BY <1>b DEF UploadsNew, UploadNew
    <3>2. PICK j \in named : upload[d].image = <<j>> /\ j \notin had[u]
      BY <3>1
    <3>3. i = j
      BY <3>2
    <3> QED BY <3>2, <3>3
  <2> QED BY <1>1, <1>b, <2>1, HadKept
<1>2. ASSUME NEW d \in Device, LinkReady(d)
      PROVE  \E more : PicturesHad(more)'
  <2>1. /\ Uploading(d) /\ upload' = [upload EXCEPT ![d] = NoUpload]
        /\ upload[d].stage = "linking"
    BY <1>2 DEF LinkReady, Uploading
  <2>2. user[d] \in User
    BY <1>a, <2>1 DEF SignedInv, DataInv, ProcessInv
  <2>3. /\ NoPictureIn(upload[d].name) /\ NoPictureIn(upload[d].amount)
        /\ \E j \in named :
             /\ upload[d].image = <<j>> /\ \A u \in User : j \notin had[u]
             /\ \A e \in Device \ {d} : Uploading(e) => upload[e].image # <<j>>
    BY <1>b, <2>1 DEF UploadsNew, UploadNew
  <2>4. PICK i \in named :
          /\ upload[d].image = <<i>> /\ \A u \in User : i \notin had[u]
          /\ \A e \in Device \ {d} : Uploading(e) => upload[e].image # <<i>>
    BY <2>3
  <2>5. PICK more \in [User -> SUBSET Image] :
          \A u \in User : more[u] = IF u = user[d] THEN had[u] \cup {i} ELSE had[u]
    <3> DEFINE new == [u \in User |-> IF u = user[d] THEN had[u] \cup {i} ELSE had[u]]
    <3>1. new \in [User -> SUBSET Image]
      BY <1>a, <1>b DEF PicturesShared
    <3> QED BY <3>1
  <2>6. PicturesShared(more)
    BY <1>b, <2>4, <2>5 DEF PicturesShared
  <2>7. ASSUME NEW e \in Device, Uploading(e), Uploading(e)',
               NEW j \in named, NEW u \in User, upload[e].image = <<j>>
        PROVE  j \notin more[u]
    <3>1. e # d
      BY <1>a, <2>1, <2>7 DEF Uploading, NoUpload
    <3>2. \E k \in named : upload[e].image = <<k>> /\ k \notin had[u]
      BY <1>b, <2>7 DEF UploadsNew, UploadNew
    <3>3. PICK k \in named : upload[e].image = <<k>> /\ k \notin had[u]
      BY <3>2
    <3>4. k = j
      BY <2>7, <3>3
    <3>5. j # i
      BY <2>4, <2>7, <3>1
    <3> QED BY <2>5, <3>3, <3>4, <3>5
  <2>8. ASSUME NEW e \in Device, LinkReady(e)
        PROVE  UploadedItem(e) \in PictureItems(more)[user[e]]
    <3>1. e = d
      <4>1. /\ upload' = [upload EXCEPT ![e] = NoUpload] /\ upload[e].stage = "linking"
        BY <2>8 DEF LinkReady
      <4> QED BY <1>a, <2>1, <4>1 DEF NoUpload
    <3>2. upload[d] \in Upload /\ i \in more[user[d]]
      BY <1>a, <2>2, <2>5
    <3> QED BY <2>2, <2>3, <2>4, <2>5, <3>1, <3>2, UploadedItemHasIt
  <2>9. \A u \in User : had[u] \subseteq more[u]
    BY <2>5
  <2>10. PicturesHad(more)'
    BY <2>6, <2>7, <2>8, <2>9, HadKept
  <2> QED BY <2>10
<1> QED BY <1>1, <1>2

-----------------------------------------------------------------------------
(* A queue stays, gets a write more, or gets the answer to its first.      *)
LEMMA QueuesStep ==
  ASSUME DataInv, SignedInv, [Next]_vars
  PROVE  \A e \in Device, u \in User :
           \/ pending'[e][u] = pending[e][u]
           \/ \E write : pending'[e][u] = Append(pending[e][u], write)
           \/ Acknowledge(e) /\ u = user[e] /\ pending'[e][u] = Tail(pending[e][u])
<1>a. /\ pending \in [Device -> [User -> Seq(ParsedWrite)]]
      /\ user \in [Device -> User \cup {NoUser}]
  BY DEF DataInv, KeptInv
<1> DEFINE Step == \A e \in Device, u \in User :
           \/ pending'[e][u] = pending[e][u]
           \/ \E write : pending'[e][u] = Append(pending[e][u], write)
           \/ Acknowledge(e) /\ u = user[e] /\ pending'[e][u] = Tail(pending[e][u])
<1>1. UNCHANGED pending => Step
  OBVIOUS
<1>2. ASSUME NEW d \in Device, NEW v, NEW new,
             pending' = [pending EXCEPT ![d][v] = Append(@, new)]
      PROVE  Step
  <2>1. \A e \in Device, u \in User :
          pending'[e][u] = IF e = d /\ u = v THEN Append(pending[e][u], new) ELSE pending[e][u]
    BY <1>a, <1>2
  <2> QED BY <2>1
<1>3. ASSUME NEW d \in Device, Acknowledge(d)
      PROVE  Step
  <2>1. user[d] \in User /\ pending' = [pending EXCEPT ![d][user[d]] = Tail(@)]
    BY <1>a, <1>3 DEF Acknowledge
  <2>2. \A e \in Device, u \in User :
          pending'[e][u] = IF e = d /\ u = user[d] THEN Tail(pending[e][u]) ELSE pending[e][u]
    BY <1>a, <2>1
  <2> QED BY <1>3, <2>2
<1>4. ASSUME NEW d \in Device, Edit(d) \/ LinkReady(d)
      PROVE  UNCHANGED pending
               \/ \E v, new : pending' = [pending EXCEPT ![d][v] = Append(@, new)]
  <2> DEFINE Queued == \E v, new : pending' = [pending EXCEPT ![d][v] = Append(@, new)]
  <2>1. ASSUME NEW write, Enqueue(d, write) PROVE Queued
    BY <2>1 DEF Enqueue
  <2> HIDE DEF Queued
  <2>2. ASSUME NEW item, PutItemInDatabase(d, item) PROVE Queued
    BY <2>1, <2>2 DEF PutItemInDatabase
  <2>3. ASSUME NEW name, NEW amount, AddItemWithoutImage(d, name, amount) PROVE Queued
    BY <2>2, <2>3 DEF AddItemWithoutImage
  <2>4. ASSUME NEW name, NEW amount, NEW image, AddItemAndImage(d, name, amount, image)
        PROVE  UNCHANGED pending
    BY <2>4 DEF AddItemAndImage, kept
  <2>5. ASSUME NEW k, DeleteItem(d, k) PROVE Queued
    BY <2>1, <2>5 DEF DeleteItem
  <2>6. LinkReady(d) => Queued
    BY <2>2 DEF LinkReady
  <2>7. Edit(d) => UNCHANGED pending \/ Queued
    BY <2>3, <2>4, <2>5 DEF Edit
  <2>8. UNCHANGED pending \/ Queued
    BY <1>4, <2>6, <2>7
  <2> QED BY <2>8 DEF Queued
<1>5. ASSUME NEW d \in Device, Account(d)
      PROVE  UNCHANGED pending
               \/ \E v, new : pending' = [pending EXCEPT ![d][v] = Append(@, new)]
  BY <1>5 DEF Account, Login, Register, RegisterUnanswered, Logout, Restart, kept
<1>6. ASSUME NEW d \in Device, \/ Snapshot(d) \/ QueryFails(d) \/ Reply(d) \/ PictureStored(d)
                               \/ UploadFails(d) \/ DeletionEnds(d) \/ Commit(d) \/ StreamBreaks(d)
      PROVE  UNCHANGED pending
  BY <1>6 DEF Snapshot, QueryFails, Reply, PictureStored, UploadFails, DeletionEnds, Commit,
              StreamBreaks, kept
<1>7. UNCHANGED vars => UNCHANGED pending
  BY DEF vars, kept
<1> HIDE DEF Step
<1>8. ASSUME NEW d \in Device, Edit(d) \/ LinkReady(d) \/ Account(d)
      PROVE  Step
  <2>1. CASE UNCHANGED pending
    BY <1>1, <2>1
  <2>2. CASE \E v, new : pending' = [pending EXCEPT ![d][v] = Append(@, new)]
    <3>1. PICK v, new : pending' = [pending EXCEPT ![d][v] = Append(@, new)]
      BY <2>2
    <3> QED BY <1>2, <3>1
  <2> QED BY <1>4, <1>5, <1>8, <2>1, <2>2
<1>9. Step
  BY <1>1, <1>3, <1>6, <1>7, <1>8 DEF Next, Transfer, Sync
<1> QED BY <1>9 DEF Step

(* A write once taken has been taken.                                      *)
LEMMA WritersStay ==
  ASSUME DataInv, [Next]_vars
  PROVE  \A u \in User : writers[u] \subseteq writers'[u]
<1>a. writers \in [User -> SUBSET Device] /\ user \in [Device -> User \cup {NoUser}]
  BY DEF DataInv, HistoryInv, KeptInv
<1>1. ASSUME NEW d \in Device, Commit(d)
      PROVE  \A u \in User : writers[u] \subseteq writers'[u]
  <2>1. \E b \in BOOLEAN :
          writers' = [writers EXCEPT ![user[d]] = IF b THEN @ \cup {d} ELSE @]
    BY <1>1 DEF Commit, Accepts
  <2> QED BY <1>a, <2>1
<1>2. ASSUME NEW d \in Device, \/ Account(d) \/ Edit(d) \/ Snapshot(d) \/ QueryFails(d)
                               \/ Reply(d) \/ Acknowledge(d)
      PROVE  UNCHANGED writers
  BY <1>2 DEF Account, Login, Register, RegisterUnanswered, Logout, Restart, Edit,
       AddItemWithoutImage, AddItemAndImage, DeleteItem, Snapshot, QueryFails, Reply, Acknowledge
<1>3. ASSUME NEW d \in Device, Transfer(d) \/ DeletionEnds(d) \/ StreamBreaks(d)
      PROVE  UNCHANGED writers
  BY <1>3 DEF Transfer, PictureStored, UploadFails, LinkReady, DeletionEnds, StreamBreaks,
              history
<1>4. UNCHANGED vars => UNCHANGED writers
  BY DEF vars, history
<1> QED BY <1>1, <1>2, <1>3, <1>4 DEF Next, Sync

(* A document once written by another device, or about to be overwritten   *)
(* by it, is not left to this device again: the overwrite is taken before  *)
(* it leaves the queue.                                                    *)
LEMMA LeftStays ==
  ASSUME DataInv, SentInv, SignedInv, TakenInv, OverwritesTaken, [Next]_vars,
         NEW d \in Device, NEW u \in User, LeftTo(d, u)'
  PROVE  LeftTo(d, u)
<1>a. /\ pending \in [Device -> [User -> Seq(ParsedWrite)]] /\ sent \in [Device -> Seq(Outcome)]
  BY DEF DataInv, KeptInv, ProcessInv
<1>1. writers[u] \subseteq {d} /\ writers'[u] \subseteq {d}
  BY WritersStay DEF LeftTo
<1>2. ASSUME NEW e \in Device \ {d}, NEW k \in DOMAIN pending[e][u],
             pending[e][u][k].kind = "update"
      PROVE  FALSE
  <2> DEFINE queue == pending[e][u]
  <2>1. /\ queue \in Seq(ParsedWrite) /\ Len(queue) \in Nat /\ DOMAIN queue = 1 .. Len(queue)
        /\ k \in 1 .. Len(queue)
    BY <1>a, LenProperties
  <2>2. \A j \in DOMAIN pending'[e][u] : pending'[e][u][j].kind # "update"
    BY DEF LeftTo
  <2>3. CASE pending'[e][u] = queue
    BY <1>2, <2>2, <2>3
  <2>4. ASSUME NEW write, pending'[e][u] = Append(queue, write)
        PROVE  FALSE
    <3>1. k \in DOMAIN Append(queue, write) /\ Append(queue, write)[k] = queue[k]
      BY <2>1
    <3> QED BY <1>2, <2>2, <2>4, <3>1
  <2>5. CASE Acknowledge(e) /\ u = user[e] /\ pending'[e][u] = Tail(queue)
    <3>1. sent[e] # <<>> /\ 1 \in DOMAIN sent[e]
      BY <1>a, <2>5, EmptySeq, LenProperties DEF Acknowledge, Answered
    <3>2. CASE k = 1
      <4>1. sent[e][1] # "rejected"
        BY <1>2, <2>5, <3>1, <3>2 DEF OverwritesTaken
      <4>2. e \in writers[u]
        BY <2>5, <3>1, <4>1 DEF TakenInv
      <4> QED BY <1>1, <4>2
    <3>3. CASE k # 1
      <4>1. k - 1 \in DOMAIN Tail(queue) /\ Tail(queue)[k - 1] = queue[k]
        <5>1. queue # <<>>
          BY <2>1
        <5>2. /\ Tail(queue) \in Seq(ParsedWrite) /\ Len(Tail(queue)) = Len(queue) - 1
              /\ \A j \in 1 .. Len(queue) - 1 : Tail(queue)[j] = queue[j + 1]
          BY <2>1, <5>1, HeadTailProperties
        <5> HIDE DEF queue
        <5> QED BY <2>1, <3>3, <5>2
      <4> QED BY <1>2, <2>2, <2>5, <4>1
    <3> QED BY <3>2, <3>3
  <2> QED BY <2>3, <2>4, <2>5, QueuesStep
<1> QED BY <1>1, <1>2 DEF LeftTo

-----------------------------------------------------------------------------
(* The deletion of a row takes the picture it names, and no other.         *)
LEMMA AliveDelete ==
  ASSUME DataInv, NEW e \in Device, NEW k \in DOMAIN itemArray[e], DeleteItem(e, k),
         NEW i, Alive(i), itemArray[e][k].pictureName # <<i>>
  PROVE  Alive(i)'
<1>1. deletions \in [Device -> SUBSET Text]
  BY DEF DataInv, ProcessInv
<1>2. deletions' = [deletions EXCEPT ![e] = @ \cup PictureOf(e, k)] /\ UNCHANGED images
  BY DEF DeleteItem, server
<1>3. \A name \in PictureOf(e, k) : name = itemArray[e][k].pictureName
  BY DEF PictureOf
<1>4. \A d \in Device : <<i>> \notin deletions'[d]
  BY <1>1, <1>2, <1>3 DEF Alive
<1> QED BY <1>2, <1>4 DEF Alive

(* A link is made of a picture that is there.                              *)
LEMMA LinkNext ==
  ASSUME DataInv, SignedInv, NEW had, PicturesHad(had), [Next]_vars, ~torn',
         NEW d \in Device, LinkAlive(d)
  PROVE  LinkAlive(d)'
<1>a. upload \in [Device -> Upload] /\ deletions \in [Device -> SUBSET Text]
  BY DEF DataInv, ProcessInv
<1> SUFFICES ASSUME upload'[d].stage = "linking", NEW i \in Image, upload'[d].image = <<i>>
             PROVE  Alive(i)'
  BY DEF LinkAlive
<1>1. CASE upload'[d] = upload[d]
  <2>1. Alive(i) /\ Uploading(d)
    BY <1>1 DEF LinkAlive, Uploading
  <2>2. ASSUME NEW u \in User PROVE i \notin had[u]
    <3>1. \E j \in named : upload[d].image = <<j>> /\ j \notin had[u]
      BY <2>1 DEF PicturesHad, UploadsNew, UploadNew
    <3>2. PICK j \in named : upload[d].image = <<j>> /\ j \notin had[u]
      BY <3>1
    <3>3. i = j
      BY <1>1, <3>2
    <3> QED BY <3>2, <3>3
  <2>3. \A e \in Device : \A k \in DOMAIN itemArray[e] :
          DeleteItem(e, k) => itemArray[e][k].pictureName # <<i>>
    BY <2>2, DeletedHad
  <2> QED BY <2>1, <2>3, AliveStays
<1>2. CASE PictureStored(d)
  <2>1. /\ Uploading(d) /\ images' = images \cup Picture(d) /\ UNCHANGED deletions
        /\ upload' = [upload EXCEPT ![d].stage = "linking"]
    BY <1>2 DEF PictureStored, Uploading
  <2>2. upload[d].image = <<i>>
    BY <1>a, <2>1 DEF Upload
  <2>3. ASSUME NEW u \in User PROVE i \notin had[u]
    <3>1. \E j \in named : upload[d].image = <<j>> /\ j \notin had[u]
      BY <2>1 DEF PicturesHad, UploadsNew, UploadNew
    <3>2. PICK j \in named : upload[d].image = <<j>> /\ j \notin had[u]
      BY <3>1
    <3>3. i = j
      BY <2>2, <3>2
    <3> QED BY <3>2, <3>3
  <2>4. \A e \in Device : <<i>> \notin deletions[e]
    BY <2>3 DEF PicturesHad, DeletionsHad
  <2> QED BY <2>1, <2>2, <2>4 DEF Alive, Picture
<1>3. upload'[d] = upload[d] \/ PictureStored(d)
  <2>1. ASSUME NEW e \in Device, Account(e)
        PROVE  upload'[d] = upload[d]
    BY <1>a, <2>1 DEF Account, Login, Register, RegisterUnanswered, Logout, Restart, process,
                      NoUpload
  <2>2. ASSUME NEW e \in Device, Edit(e)
        PROVE  upload'[d] = upload[d]
    <3>1. ASSUME NEW name, NEW amount, NEW image, AddItemAndImage(e, name, amount, image)
          PROVE  upload'[d] = upload[d]
      <4>1. upload' = [upload EXCEPT ![e] = [stage |-> "sending", image |-> <<image>>,
                                             name |-> name, amount |-> amount]]
        BY <3>1 DEF AddItemAndImage
      <4>2. d # e
        BY <1>a, <4>1
      <4> QED BY <1>a, <4>1, <4>2
    <3>2. ASSUME \/ \E name, amount : AddItemWithoutImage(e, name, amount)
                 \/ \E k \in DOMAIN itemArray[e] : DeleteItem(e, k)
          PROVE  UNCHANGED upload
      BY <3>2 DEF AddItemWithoutImage, DeleteItem
    <3> QED BY <2>2, <3>1, <3>2 DEF Edit
  <2>3. ASSUME NEW e \in Device, Transfer(e)
        PROVE  upload'[d] = upload[d] \/ PictureStored(d)
    <3>1. CASE PictureStored(e)
      <4>1. upload' = [upload EXCEPT ![e].stage = "linking"]
        BY <3>1 DEF PictureStored
      <4> QED BY <1>a, <3>1, <4>1
    <3>2. CASE UploadFails(e)
      <4>1. upload' = [upload EXCEPT ![e].stage = "failed"]
        BY <3>2 DEF UploadFails
      <4>2. d # e
        BY <1>a, <4>1 DEF Upload
      <4> QED BY <1>a, <4>1, <4>2
    <3>3. CASE LinkReady(e)
      <4>1. upload' = [upload EXCEPT ![e] = NoUpload]
        BY <3>3 DEF LinkReady
      <4>2. d # e
        BY <1>a, <4>1 DEF NoUpload
      <4> QED BY <1>a, <4>1, <4>2
    <3> QED BY <2>3, <3>1, <3>2, <3>3 DEF Transfer
  <2>4. ASSUME NEW e \in Device, \/ Snapshot(e) \/ QueryFails(e) \/ Reply(e) \/ DeletionEnds(e)
                                 \/ Sync(e) \/ StreamBreaks(e)
        PROVE  UNCHANGED upload
    BY <2>4 DEF Snapshot, QueryFails, Reply, DeletionEnds, Sync, Commit, Acknowledge,
                StreamBreaks
  <2>5. UNCHANGED vars => UNCHANGED upload
    BY DEF vars, process
  <2> QED BY <2>1, <2>2, <2>3, <2>4, <2>5 DEF Next
<1> QED BY <1>1, <1>2, <1>3

-----------------------------------------------------------------------------
(* The documents that will be hold strings that parse.                     *)
LEMMA WillBeTypes ==
  ASSUME DataInv, NEW d \in Device, NEW u \in User
  PROVE  /\ WillBe(d, u) \in Document
         /\ pending[d][u] \in Seq(ParsedWrite) /\ pending[d][u] \in Seq(Write)
<1>1. /\ remote[u] \in ParsedDocument /\ pending[d][u] \in Seq(ParsedWrite)
  BY DEF DataInv, ServerInv, KeptInv
<1> QED BY <1>1, ParsedIsTyped, OverlayType DEF WillBe

(* A document brings no picture that was not there, as long as what is put *)
(* brings none.                                                            *)
LEMMA DocumentKept ==
  ASSUME NEW d \in Device, DocumentAlive(d), \A i \in Image : Alive(i) => Alive(i)',
         \A u \in User : LeftTo(d, u)' =>
           /\ LeftTo(d, u)
           /\ \A str \in Strings(WillBe(d, u)') :
                str \in Strings(WillBe(d, u)) \/ (str[4] \in Image => Alive(str[4])')
  PROVE  DocumentAlive(d)'
<1> SUFFICES ASSUME NEW u \in User, LeftTo(d, u)', NEW str \in Strings(WillBe(d, u)'),
                    str[4] \in Image
             PROVE  Alive(str[4])'
  BY DEF DocumentAlive, StringsAlive, Strings
<1>1. StringsAlive(Strings(WillBe(d, u)))
  BY DEF DocumentAlive
<1> QED BY <1>1 DEF StringsAlive

(* A write is queued.                                                      *)
LEMMA WillBeQueued ==
  ASSUME DataInv, NEW e \in Device, NEW v \in User, NEW write \in Write,
         \A d \in Device, u \in User :
           pending'[d][u] = IF d = e /\ u = v THEN Append(pending[d][u], write)
                                              ELSE pending[d][u],
         UNCHANGED remote
  PROVE  \A d \in Device, u \in User :
           WillBe(d, u)' = IF d = e /\ u = v THEN Apply(WillBe(d, u), write) ELSE WillBe(d, u)
<1> SUFFICES ASSUME NEW d \in Device, NEW u \in User
             PROVE  WillBe(d, u)' = IF d = e /\ u = v THEN Apply(WillBe(d, u), write)
                                                      ELSE WillBe(d, u)
  OBVIOUS
<1>2. CASE d = e /\ u = v
  <2>1. pending'[d][u] = Append(pending[d][u], write)
    BY <1>2
  <2>2. pending[d][u] \in Seq(Write)
    BY WillBeTypes
  <2>3. Overlay(remote[u], Append(pending[d][u], write)) = Apply(WillBe(d, u), write)
    BY <2>2, OverlayAppend DEF WillBe
  <2> QED BY <1>2, <2>1, <2>3 DEF WillBe
<1>3. CASE ~(d = e /\ u = v)
  <2>1. pending'[d][u] = pending[d][u]
    BY <1>3
  <2> QED BY <1>3, <2>1 DEF WillBe
<1> QED BY <1>2, <1>3

(* The server takes a write that a device counts on, or that leaves the    *)
(* document to no other.                                                   *)
LEMMA WillBeCommitted ==
  ASSUME DataInv, SentInv, ConvergeInv, NEW e \in Device, Commit(e),
         NEW d \in Device, NEW u \in User, LeftTo(d, u), LeftTo(d, u)'
  PROVE  WillBe(d, u)' = WillBe(d, u)
<1> DEFINE v     == user[e]
           write == pending[e][v][Len(sent[e]) + 1]
<1>a. /\ user \in [Device -> User \cup {NoUser}] /\ writers \in [User -> SUBSET Device]
      /\ remote \in [User -> ParsedDocument]
  BY DEF DataInv, ServerInv, KeptInv, HistoryInv
<1>1. /\ v \in User /\ remote' = [remote EXCEPT ![v] = Apply(remote[v], write)]
      /\ writers' = [writers EXCEPT ![v] =
                       IF Accepts(remote[v], write) THEN writers[v] \cup {e} ELSE writers[v]]
      /\ UNCHANGED <<user, pending>>
  BY <1>a DEF Commit, kept
<1> HIDE DEF write
<1>2. CASE u # v
  <2>1. remote'[u] = remote[u]
    BY <1>a, <1>1, <1>2
  <2> QED BY <1>1, <2>1 DEF WillBe
<1>3. CASE u = v /\ e # d
  <2>1. ~Accepts(remote[v], write)
    BY <1>a, <1>1, <1>3 DEF LeftTo
  <2>2. remote'[u] = remote[u]
    BY <1>a, <1>1, <1>3, <2>1 DEF Apply
  <2> QED BY <1>1, <2>2 DEF WillBe
<1>4. CASE u = v /\ e = d
  <2>1. Alone(d)
    BY <1>4 DEF LeftTo, Alone
  <2>2. ToBe(d)' = ToBe(d)
    BY <1>4, <2>1, CommitKeepsToBe
  <2> QED BY <1>1, <1>4, <2>2 DEF WillBe, ToBe
<1> QED BY <1>2, <1>3, <1>4

(* An answer changes nothing, also when the write was turned down: there   *)
(* is no document then, and the write was none that makes one.             *)
LEMMA WillBeAnswered ==
  ASSUME DataInv, SentInv, AccountsInv, ConvergeInv, NEW e \in Device, Acknowledge(e),
         NEW d \in Device, NEW u \in User, LeftTo(d, u)
  PROVE  WillBe(d, u)' = WillBe(d, u)
<1> DEFINE v     == user[e]
           queue == pending[e][v]
<1>a. /\ user \in [Device -> User \cup {NoUser}]
      /\ pending \in [Device -> [User -> Seq(ParsedWrite)]]
      /\ sent \in [Device -> Seq(Outcome)]
  BY DEF DataInv, KeptInv, ProcessInv
<1>1. /\ v \in User /\ sent[e] # <<>>
      /\ pending' = [pending EXCEPT ![e][v] = Tail(queue)]
      /\ UNCHANGED <<remote, user>>
  BY <1>a DEF Acknowledge, Answered, server
<1>2. CASE d # e \/ u # v
  <2>1. pending'[d][u] = pending[d][u]
    BY <1>a, <1>1, <1>2
  <2> QED BY <1>1, <2>1 DEF WillBe
<1>3. CASE d = e /\ u = v /\ Head(sent[e]) # "rejected"
  <2>1. Alone(d)
    BY <1>3 DEF LeftTo, Alone
  <2>2. ToBe(d)' = ToBe(d)
    BY <1>3, <2>1, AnswerKeepsToBe
  <2> QED BY <1>1, <1>3, <2>2 DEF WillBe, ToBe
<1>4. CASE d = e /\ u = v /\ Head(sent[e]) = "rejected"
  <2>1. 1 \in DOMAIN sent[e] /\ sent[e][1] = "rejected" /\ Len(sent[e]) \in Nat \ {0}
    BY <1>a, <1>1, <1>4, EmptySeq, LenProperties
  <2>2. remote[v] = NoDoc
    <3>1. Good(remote[v], Known(e, v), queue, sent[e], held[e], dropped[e][v])
      BY <1>1, <1>4 DEF LeftTo, ConvergeInv, Converging, Outcomes, Acked
    <3> HIDE DEF queue, v
    <3> QED BY <2>1, <3>1 DEF Good
  <2>3. queue \in Seq(ParsedWrite) /\ queue # <<>>
    <3>1. queue \in Seq(ParsedWrite) /\ Len(sent[e]) <= Len(queue)
      BY <1>a, <1>1 DEF SentInv
    <3> QED BY <2>1, <3>1, EmptySeq
  <2>4. Head(queue) = queue[1]
    OBVIOUS
  <2>5. queue[1].kind # "set"
    BY <1>1, <2>2, SetWasTaken
  <2>6. Apply(NoDoc, Head(queue)) = NoDoc
    BY <2>4, <2>5 DEF Apply, Accepts
  <2>7. pending'[d][u] = Tail(queue)
    BY <1>a, <1>1, <1>4
  <2> HIDE DEF queue
  <2>8. Overlay(NoDoc, queue) = Overlay(NoDoc, Tail(queue))
    BY <2>3, <2>6, OverlayHead
  <2> QED BY <1>1, <1>4, <2>2, <2>7, <2>8 DEF WillBe, queue
<1> QED BY <1>2, <1>3, <1>4

-----------------------------------------------------------------------------
(* What the string of an item names as its picture, the item names, and    *)
(* its user has.                                                           *)
LEMMA StringPicture ==
  ASSUME NEW had \in [User -> SUBSET Image], NEW u \in User, NEW item \in PictureItems(had)[u],
         ConvertItemToString(item)[4] \in Image
  PROVE  LET i == ConvertItemToString(item)[4]
         IN  item.pictureName = <<i>> /\ i \in had[u]
<1> DEFINE i == ConvertItemToString(item)[4]
<1>1. ParseItem(ConvertItemToString(item)).pictureName = <<i>>
  BY LoadedPicture
<1>2. \A j \in Image : /\ item.pictureName = <<j>> => j \in had[u]
                       /\ ParseItem(ConvertItemToString(item)).pictureName = <<j>>
                            => item.pictureName = <<j>>
  BY DEF PictureItems
<1> QED BY <1>1, <1>2

(* An item that is put without a picture names none.                       *)
LEMMA TypedAlive ==
  ASSUME NEW name \in Text, NEW amount \in Text, NoPictureIn(name), NoPictureIn(amount)
  PROVE  /\ \A i \in Image : TypedItem(name, amount).pictureName # <<i>>
         /\ ConvertItemToString(TypedItem(name, amount))[4] \notin Image
<1> DEFINE item == TypedItem(name, amount)
<1>1. \A i \in Image : item.pictureName # <<i>>
  BY ImageAssumption DEF TypedItem, NoPicture
<1>2. ASSUME NEW u \in User
      PROVE  ConvertItemToString(item)[4] \notin Image
  <2> DEFINE none == [v \in User |-> {}]
  <2>1. none \in [User -> SUBSET Image]
    OBVIOUS
  <2>2. item \in PictureItems(none)[u]
    BY <2>1, TypedItemHasNone
  <2> HIDE DEF item, none
  <2> QED BY <1>1, <2>1, <2>2, StringPicture
<1>3. item \in Item /\ item.name = name /\ item.amount = amount
      /\ item.picture = NoPicture /\ item.pictureName = NoPicture
  BY ConstantTypes DEF TypedItem, Item
<1>4. \A j \in DOMAIN NoPicture : NoPicture[j] \notin Image
  BY ImageAssumption DEF NoPicture
<1> HIDE DEF item
<1>5. ConvertItemToString(item)[4] \notin Image
  BY <1>3, <1>4, ChunkOfItem DEF NoPictureIn
<1> QED BY <1>1, <1>5 DEF item

(* The one that was uploaded is there.                                     *)
LEMMA UploadedAlive ==
  ASSUME DataInv, NEW had, PicturesHad(had), NEW d \in Device, LinkAlive(d), LinkReady(d)
  PROVE  /\ \A i \in Image : UploadedItem(d).pictureName = <<i>> => Alive(i)
         /\ LET i == ConvertItemToString(UploadedItem(d))[4]
            IN  i \in Image => Alive(i)
<1> DEFINE item == UploadedItem(d)
<1>1. upload[d].stage = "linking" /\ upload[d] \in Upload /\ Uploading(d)
  BY DEF LinkReady, Uploading, DataInv, ProcessInv
<1>2. /\ NoPictureIn(upload[d].name) /\ NoPictureIn(upload[d].amount)
      /\ \E i \in named : upload[d].image = <<i>>
  BY <1>1 DEF PicturesHad, UploadsNew, UploadNew
<1>3. PICK i \in Image : upload[d].image = <<i>>
  BY <1>2 DEF DataInv, HistoryInv
<1>4. Alive(i)
  BY <1>1, <1>3 DEF LinkAlive
<1>5. /\ item \in Item /\ item.name = upload[d].name /\ item.amount = upload[d].amount
      /\ item.picture = <<i>> /\ item.pictureName = <<i>>
  BY <1>1, <1>3 DEF UploadedItem, Item, Upload
<1>6. \A j \in DOMAIN <<i>> : <<i>>[j] = i
  OBVIOUS
<1> HIDE DEF item
<1>7. ConvertItemToString(item)[4] \in Image => ConvertItemToString(item)[4] = i
  BY <1>2, <1>5, <1>6, ChunkOfItem DEF NoPictureIn
<1>8. \A j \in Image : item.pictureName = <<j>> => j = i
  BY <1>5
<1> QED BY <1>4, <1>7, <1>8 DEF item

(* An item is put: the document will have its string, if it exists.        *)
LEMMA DocumentPut ==
  ASSUME DataInv, NEW d \in Device, DocumentAlive(d), \A i \in Image : Alive(i) => Alive(i)',
         \A u \in User : LeftTo(d, u)' => LeftTo(d, u),
         NEW e \in Device, user[e] \in User, NEW item \in Item, PutItemInDatabase(e, item),
         UNCHANGED remote,
         ConvertItemToString(item)[4] \in Image => Alive(ConvertItemToString(item)[4])
  PROVE  DocumentAlive(d)'
<1> DEFINE str   == ConvertItemToString(item)
           write == ArrayUnion(str)
<1>1. PICK v \in User : v = user[e]
  OBVIOUS
<1>2. str \in Text
  BY ConvertedParses
<1>3. \A c \in Device, u \in User :
        pending'[c][u] = IF c = e /\ u = v THEN Append(pending[c][u], write) ELSE pending[c][u]
  <2>1. pending' = [pending EXCEPT ![e][v] = Append(@, write)]
    BY <1>1 DEF PutItemInDatabase, Enqueue
  <2> HIDE DEF write
  <2> QED BY <2>1 DEF DataInv, KeptInv
<1> HIDE DEF str
<1>4. write \in Write
  BY <1>2 DEF ArrayUnion, Write
<1> HIDE DEF write
<1>5. \A c \in Device, u \in User :
        WillBe(c, u)' = IF c = e /\ u = v THEN Apply(WillBe(c, u), write) ELSE WillBe(c, u)
  BY <1>3, <1>4, WillBeQueued
<1>6. ASSUME NEW u \in User
      PROVE  Strings(WillBe(d, u)') \subseteq Strings(WillBe(d, u)) \cup {str}
  <2>1. WillBe(d, u) \in Document
    BY WillBeTypes
  <2>2. CASE WillBe(d, u)' = WillBe(d, u)
    BY <2>2
  <2>3. CASE WillBe(d, u)' = Apply(WillBe(d, u), write)
    <3>1. /\ WillBe(d, u)' = NoDoc <=> WillBe(d, u) = NoDoc
          /\ WillBe(d, u) # NoDoc => Strings(WillBe(d, u)') = Strings(WillBe(d, u)) \cup {str}
      BY <1>2, <2>1, <2>3, PutAdds DEF write
    <3> QED BY <3>1 DEF Strings
  <2> QED BY <1>5, <2>2, <2>3
<1>7. str[4] \in Image => Alive(str[4])'
  BY DEF str
<1> QED BY <1>6, <1>7, DocumentKept

(* A registration: nobody's document gets anything.                        *)
LEMMA DocumentRegister ==
  ASSUME DataInv, NEW d \in Device, DocumentAlive(d), \A i \in Image : Alive(i) => Alive(i)',
         \A u \in User : LeftTo(d, u)' => LeftTo(d, u),
         NEW e \in Device, NEW v \in User, Register(e, v)
  PROVE  DocumentAlive(d)'
<1>1. /\ pending' = [pending EXCEPT ![e][v] = Append(@, SetData)]
      /\ UNCHANGED remote
  BY DEF Register
<1>2. \A c \in Device, u \in User :
        pending'[c][u] = IF c = e /\ u = v THEN Append(pending[c][u], SetData)
                                           ELSE pending[c][u]
  BY <1>1 DEF DataInv, KeptInv
<1>3. SetData \in Write
  BY WritesParse, ParsedIsTyped
<1>4. \A c \in Device, u \in User :
        WillBe(c, u)' = IF c = e /\ u = v THEN Apply(WillBe(c, u), SetData) ELSE WillBe(c, u)
  BY <1>1, <1>2, <1>3, WillBeQueued
<1>5. \A doc : Strings(Apply(doc, SetData)) = {}
  BY DEF Apply, Accepts, SetData, Strings
<1>6. \A u \in User : Strings(WillBe(d, u)') \subseteq Strings(WillBe(d, u))
  BY <1>4, <1>5
<1> QED BY <1>6, DocumentKept

(* No step but a deletion takes a picture from a document left to a device *)
(* or brings one that is not there.                                        *)
LEMMA DocumentStep ==
  ASSUME DataInv, SentInv, SignedInv, AccountsInv, ConvergeInv, NEW had, PicturesHad(had),
         [Next]_vars, \A e \in Device : \A k \in DOMAIN itemArray[e] : ~DeleteItem(e, k),
         \A e \in Device : LinkAlive(e), \A i \in Image : Alive(i) => Alive(i)',
         NEW d \in Device, DocumentAlive(d), \A u \in User : LeftTo(d, u)' => LeftTo(d, u)
  PROVE  DocumentAlive(d)'
<1>a. user \in [Device -> User \cup {NoUser}] /\ upload \in [Device -> Upload]
  BY DEF DataInv, KeptInv, ProcessInv
<1>1. ASSUME \A u \in User : LeftTo(d, u)' => WillBe(d, u)' = WillBe(d, u)
      PROVE  DocumentAlive(d)'
  BY <1>1, DocumentKept
<1>2. ASSUME UNCHANGED <<remote, pending>> PROVE DocumentAlive(d)'
  BY <1>1, <1>2 DEF WillBe
<1>3. ASSUME NEW e \in Device, Account(e)
      PROVE  DocumentAlive(d)'
  <2>1. ASSUME NEW v \in User, Register(e, v) PROVE DocumentAlive(d)'
    BY <2>1, DocumentRegister
  <2>2. ASSUME NEW v \in User, Login(e, v) \/ RegisterUnanswered(e, v)
        PROVE  UNCHANGED <<remote, pending>>
    BY <2>2 DEF Login, RegisterUnanswered, server, kept
  <2>3. Logout(e) \/ Restart(e) => UNCHANGED <<remote, pending>>
    BY DEF Logout, Restart, server
  <2> QED BY <1>2, <1>3, <2>1, <2>2, <2>3 DEF Account
<1>4. ASSUME NEW e \in Device, NEW name, NEW amount, Typed(e, name, amount),
             AddItemWithoutImage(e, name, amount)
      PROVE  DocumentAlive(d)'
  <2>1. /\ PutItemInDatabase(e, TypedItem(name, amount)) /\ user[e] \in User
        /\ UNCHANGED remote
    BY <1>a, <1>4 DEF AddItemWithoutImage, TypedItem, CanTap, SignedInv, server
  <2>2. name \in Text /\ amount \in Text /\ NoPictureIn(name) /\ NoPictureIn(amount)
    BY <1>4, <2>1, TypedHasNoPicture
  <2>3. TypedItem(name, amount) \in Item
    BY <2>2, ConstantTypes DEF TypedItem, Item
  <2>4. ConvertItemToString(TypedItem(name, amount))[4] \notin Image
    BY <2>2, TypedAlive
  <2> DEFINE item == TypedItem(name, amount)
  <2> HIDE DEF item
  <2> QED BY <2>1, <2>3, <2>4, DocumentPut
<1>5. ASSUME NEW e \in Device, LinkReady(e)
      PROVE  DocumentAlive(d)'
  <2>1. PICK item \in Item : item = UploadedItem(e)
    BY <1>a DEF UploadedItem, Item, Upload
  <2>2. PutItemInDatabase(e, item) /\ user[e] \in User /\ UNCHANGED remote
    BY <1>a, <1>5, <2>1 DEF LinkReady, UploadedItem, SignedInv, server
  <2>3. ConvertItemToString(item)[4] \in Image => Alive(ConvertItemToString(item)[4])
    BY <1>5, <2>1, UploadedAlive
  <2> QED BY <2>2, <2>3, DocumentPut
<1>6. ASSUME NEW e \in Device, Sync(e)
      PROVE  DocumentAlive(d)'
  <2>1. ASSUME Commit(e) PROVE DocumentAlive(d)'
    BY <1>1, <2>1, WillBeCommitted
  <2>2. ASSUME Acknowledge(e) PROVE DocumentAlive(d)'
    BY <1>1, <2>2, WillBeAnswered
  <2> QED BY <1>6, <2>1, <2>2 DEF Sync
<1>7. ASSUME NEW e \in Device, \/ \E name, amount, image : AddItemAndImage(e, name, amount, image)
                               \/ Snapshot(e) \/ QueryFails(e) \/ Reply(e) \/ PictureStored(e)
      PROVE  UNCHANGED <<remote, pending>>
  BY <1>7 DEF AddItemAndImage, Snapshot, QueryFails, Reply, PictureStored, server, kept
<1>8. ASSUME NEW e \in Device, UploadFails(e) \/ DeletionEnds(e) \/ StreamBreaks(e)
      PROVE  UNCHANGED <<remote, pending>>
  BY <1>8 DEF UploadFails, DeletionEnds, StreamBreaks, server, kept
<1>9. UNCHANGED vars => UNCHANGED <<remote, pending>>
  BY DEF vars, server, kept
<1>10. ASSUME NEW e \in Device, Edit(e)
       PROVE  DocumentAlive(d)'
  BY <1>2, <1>4, <1>7, <1>10 DEF Edit
<1>11. ASSUME NEW e \in Device, Transfer(e)
       PROVE  DocumentAlive(d)'
  BY <1>2, <1>5, <1>7, <1>8, <1>11 DEF Transfer
<1> QED BY <1>2, <1>3, <1>6, <1>7, <1>8, <1>9, <1>10, <1>11 DEF Next

-----------------------------------------------------------------------------
(* What the client shows of a document that is left to it is what the      *)
(* document will be.                                                       *)
LEMMA ViewIsWillBe ==
  ASSUME DataInv, SentInv, AccountsInv, ConvergeInv, NEW d \in Device, user[d] \in User,
         Alone(d), ~dropped[d][user[d]], View(d) # NoDoc
  PROVE  View(d) = WillBe(d, user[d])
<1>1. PICK u \in User : u = user[d]
  OBVIOUS
<1> DEFINE here  == Known(d, u)
           queue == pending[d][u]
           there == remote[u]
<1>2. View(d) = Overlay(here, queue)
  BY <1>1, ViewTypes
<1>3. Good(there, here, queue, sent[d], held[d], dropped[d][u])
  BY <1>1 DEF Alone, ConvergeInv, Converging, Outcomes, Acked
<1>4. queue \in Queue /\ queue \in Seq(Write) /\ \A k \in DOMAIN queue : queue[k].kind = "set" => k = 1
  BY DocumentTypes, WillBeTypes DEF AccountsInv, SetFirst
<1> HIDE DEF here, queue, there
<1>5. CASE here # NoDoc
  <2>1. Overlay(there, queue) = Overlay(here, queue)
    BY <1>1, <1>3, <1>5 DEF Good
  <2> QED BY <1>1, <1>2, <2>1 DEF WillBe, there, queue
<1>6. CASE here = NoDoc
  <2>1. PICK k \in 1 .. Len(queue) : queue[k].kind = "set"
    BY <1>2, <1>4, <1>6, OverlayNothing
  <2>2. queue[1].kind = "set" /\ queue # <<>>
    BY <1>4, <2>1
  <2>3. Head(queue) = queue[1]
    OBVIOUS
  <2>4. Apply(here, Head(queue)) = Apply(there, Head(queue))
    BY <2>2, <2>3 DEF Apply, Accepts
  <2>5. /\ Overlay(here, queue) = Overlay(Apply(here, Head(queue)), Tail(queue))
        /\ Overlay(there, queue) = Overlay(Apply(there, Head(queue)), Tail(queue))
    BY <1>4, <2>2, OverlayHead
  <2> QED BY <1>1, <1>2, <2>4, <2>5 DEF WillBe, there, queue
<1> QED BY <1>5, <1>6

(* A list whose rows stay, and that is not found to be in step anew.       *)
LEMMA ListStays ==
  ASSUME NEW d \in Device, ListAlive(d), \A i \in Image : Alive(i) => Alive(i)',
         \A u \in User : LeftTo(d, u)' => LeftTo(d, u), user[d] \in User,
         user'[d] = user[d], itemArray'[d] = itemArray[d], Followed(d)' => Followed(d),
         session[d] = "synced" /\ Followed(d)' =>
           session'[d] = "synced" /\ dropped'[d] = dropped[d]
  PROVE  ListAlive(d)'
<1> SUFFICES ASSUME Followed(d)', LeftTo(d, user[d])',
                    session'[d] = "synced" => ~dropped'[d][user[d]],
                    NEW k \in DOMAIN itemArray[d], NEW i \in Image,
                    itemArray[d][k].pictureName = <<i>>
             PROVE  Alive(i)'
  BY DEF ListAlive, RowsAlive
<1>1. Followed(d) /\ LeftTo(d, user[d]) /\ (session[d] = "synced" => ~dropped[d][user[d]])
  OBVIOUS
<1> QED BY <1>1 DEF ListAlive, RowsAlive

(* An item is put whose picture is there.                                  *)
LEMMA ListPut ==
  ASSUME DataInv, NEW d \in Device, ListAlive(d), \A i \in Image : Alive(i) => Alive(i)',
         \A u \in User : LeftTo(d, u)' => LeftTo(d, u), user[d] \in User,
         NEW item \in Item, PutItemInDatabase(d, item), UNCHANGED <<user, dropped>>,
         \A i \in Image : item.pictureName = <<i>> => Alive(i)
  PROVE  ListAlive(d)'
<1>a. /\ itemArray \in [Device -> Seq(Item)]
      /\ session \in [Device -> {"none", "loading", "early", "synced", "mixed"}]
  BY DEF DataInv, ProcessInv, HistoryInv
<1> DEFINE rows == itemArray[d]
           more == Append(rows, item)
<1>1. /\ itemArray'[d] = more
      /\ session'[d] = IF session[d] = "loading" THEN "early" ELSE session[d]
  BY <1>a DEF PutItemInDatabase
<1>2. /\ rows \in Seq(Item) /\ Len(rows) \in Nat /\ more \in Seq(Item)
      /\ Len(more) = Len(rows) + 1 /\ \A k \in 1 .. Len(rows) : more[k] = rows[k]
      /\ more[Len(rows) + 1] = item
  BY <1>a, AppendProperties
<1>3. \A k \in DOMAIN more : (k \in DOMAIN rows /\ more[k] = rows[k]) \/ more[k] = item
  <2>1. DOMAIN more = 1 .. Len(rows) + 1 /\ DOMAIN rows = 1 .. Len(rows)
    BY <1>2
  <2> HIDE DEF more, rows
  <2> QED BY <1>2, <2>1
<1> HIDE DEF more
<1> SUFFICES ASSUME Followed(d)', LeftTo(d, user[d])',
                    session'[d] = "synced" => ~dropped[d][user[d]],
                    NEW k \in DOMAIN more, NEW i \in Image, more[k].pictureName = <<i>>
             PROVE  Alive(i)'
  BY <1>1 DEF ListAlive, RowsAlive
<1>4. RowsAlive(d)
  BY <1>1 DEF ListAlive, Followed
<1> QED BY <1>3, <1>4 DEF RowsAlive

(* A list is loaded: its rows are what the document will be.               *)
LEMMA ListReply ==
  ASSUME DataInv, SentInv, SignedInv, AccountsInv, ConvergeInv, RowsInv,
         NEW d \in Device, ListAlive(d), DocumentAlive(d), Reply(d), UNCHANGED deletions
  PROVE  ListAlive(d)'
<1> DEFINE answer == Head(answers[d])
           rows   == IF answer.doc # NoDoc THEN ParseItems(answer.doc) ELSE <<>>
<1>a. /\ answers \in [Device -> Seq(ParsedAnswer)]
      /\ itemArray \in [Device -> Seq(Item)]
      /\ session \in [Device -> {"none", "loading", "early", "synced", "mixed"}]
      /\ ListInv(d)
  BY DEF DataInv, ProcessInv, HistoryInv, RowsInv
<1>1. /\ answers[d] # <<>>
      /\ itemArray'[d] = itemArray[d] \o rows
      /\ answer.doc # NoDoc =>
           session'[d] = Loaded(session[d], writers[answer.user] \subseteq {d})
      /\ answer.doc = NoDoc => session'[d] = session[d]
      /\ UNCHANGED <<images, user, pending, writers, dropped>>
  BY <1>a DEF Reply, Due, server, kept
<1>2. answer \in ParsedAnswer /\ answer = answers[d][1] /\ 1 \in DOMAIN answers[d]
  BY <1>a, <1>1, HeadTailProperties, LenProperties, EmptySeq
<1>3. \A i : Alive(i)' <=> Alive(i)
  BY <1>1 DEF Alive
<1>4. \A u \in User : LeftTo(d, u)' <=> LeftTo(d, u)
  BY <1>1 DEF LeftTo
<1> SUFFICES ASSUME Followed(d)', LeftTo(d, user[d])',
                    session'[d] = "synced" => ~dropped[d][user[d]],
                    NEW k \in DOMAIN (itemArray[d] \o rows), NEW i \in Image,
                    (itemArray[d] \o rows)[k].pictureName = <<i>>
             PROVE  Alive(i)
  BY <1>1, <1>3 DEF ListAlive, RowsAlive
<1>5. session[d] \in {"loading", "early"}
  <2>1. session[d] # "synced"
    BY <1>1, <1>a DEF ListInv, InStep
  <2> QED BY <1>1, <1>a, <2>1 DEF Followed, Loaded
<1>6. user[d] \in User /\ answer.user = user[d]
  <2>1. user[d] \in User
    BY <1>a, <1>5, ListSigned
  <2> QED BY <1>a, <1>1, <1>2, <1>5, <2>1 DEF ListInv, OneQuery
<1>7. LeftTo(d, user[d]) /\ Alone(d)
  BY <1>1, <1>4, <1>6 DEF LeftTo, Alone
<1>8. RowsAlive(d)
  BY <1>5, <1>7 DEF ListAlive, Followed
<1>9. ASSUME NEW j \in DOMAIN rows, rows[j].pictureName = <<i>>
      PROVE  Alive(i)
  <2>1. answer.doc # NoDoc /\ answer.doc \in Seq(ParsedText)
    BY <1>2, <1>9 DEF ParsedAnswer, ParsedDocument
  <2>2. DOMAIN rows = DOMAIN answer.doc /\ rows[j] = ParseItem(answer.doc[j])
    BY <1>9, <2>1 DEF ParseItems
  <2>3. answer.doc[j][4] = i /\ answer.doc[j] \in Strings(answer.doc)
    <3>1. ParseItem(answer.doc[j]).pictureName = <<i>>
      BY <1>9, <2>2
    <3>2. answer.doc[j] \in Strings(answer.doc)
      BY <2>1, <2>2 DEF Strings
    <3> HIDE DEF answer
    <3> QED BY <3>1, <3>2, LoadedPicture
  <2>4. View(d) # NoDoc /\ Strings(answer.doc) \subseteq Strings(View(d))
    <3>1. CASE session[d] = "loading"
      BY <1>a, <1>2, <2>1, <3>1 DEF ListInv, NoRowsYet
    <3>2. CASE session[d] = "early"
      BY <1>a, <1>2, <1>7, <2>1, <3>2 DEF ListInv, PutEarly
    <3> QED BY <1>5, <3>1, <3>2
  <2>5. session'[d] = "synced"
    BY <1>1, <1>5, <1>6, <1>7, <2>1 DEF Loaded, Alone
  <2>6. View(d) = WillBe(d, user[d])
    BY <1>6, <1>7, <2>4, <2>5, ViewIsWillBe
  <2>7. StringsAlive(Strings(View(d)))
    BY <1>6, <1>7, <2>6 DEF DocumentAlive
  <2> QED BY <2>3, <2>4, <2>7 DEF StringsAlive
<1>10. rows \in Seq(Item)
  BY <1>2, RowsParsed, EmptySeq DEF ParsedAnswer, ParsedDocument
<1>11. \/ \E j \in DOMAIN itemArray[d] : (itemArray[d] \o rows)[k] = itemArray[d][j]
       \/ \E j \in DOMAIN rows : (itemArray[d] \o rows)[k] = rows[j]
  <2>1. itemArray[d] \in Seq(Item)
    BY <1>a
  <2> HIDE DEF rows
  <2> QED BY <1>10, <2>1, ElementOfConcat
<1> HIDE DEF rows
<1> QED BY <1>8, <1>9, <1>11 DEF RowsAlive

(* Another device leaves the rows of a list alone.                         *)
LEMMA ListElsewhere ==
  ASSUME DataInv, NEW d \in Device, NEW e \in Device, e # d,
         \/ Account(e) \/ Edit(e) \/ Snapshot(e) \/ QueryFails(e) \/ Reply(e)
         \/ Transfer(e) \/ Acknowledge(e)
  PROVE  /\ user'[d] = user[d] /\ itemArray'[d] = itemArray[d]
         /\ session'[d] = session[d] /\ dropped'[d] = dropped[d]
<1>a. /\ user \in [Device -> User \cup {NoUser}] /\ itemArray \in [Device -> Seq(Item)]
      /\ session \in [Device -> {"none", "loading", "early", "synced", "mixed"}]
      /\ dropped \in [Device -> [User -> BOOLEAN]]
  BY DEF DataInv, KeptInv, ProcessInv, HistoryInv
<1> DEFINE Apart == /\ user'[d] = user[d] /\ itemArray'[d] = itemArray[d]
                    /\ session'[d] = session[d] /\ dropped'[d] = dropped[d]
<1>1. ASSUME NEW u \in User, Login(e, u) PROVE Apart
  BY <1>a, <1>1 DEF Login, SwitchUser, OpenList, DropHeld
<1>2. ASSUME NEW u \in User, Register(e, u) PROVE Apart
  BY <1>a, <1>2 DEF Register, SwitchUser, OpenList, DropHeld
<1>3. ASSUME NEW u \in User, RegisterUnanswered(e, u) PROVE Apart
  BY <1>3 DEF RegisterUnanswered, kept, process
<1>4. ASSUME Logout(e) PROVE Apart
  BY <1>a, <1>4 DEF Logout, SwitchUser, ClearItemArray, DropHeld
<1>5. ASSUME Restart(e) PROVE Apart
  BY <1>a, <1>5 DEF Restart, DropHeld
<1>6. ASSUME NEW name, NEW amount, AddItemWithoutImage(e, name, amount) PROVE Apart
  BY <1>a, <1>6 DEF AddItemWithoutImage, PutItemInDatabase
<1>7. ASSUME NEW name, NEW amount, NEW image, AddItemAndImage(e, name, amount, image)
      PROVE  Apart
  BY <1>7 DEF AddItemAndImage, kept
<1>8. ASSUME NEW k \in DOMAIN itemArray[e], DeleteItem(e, k) PROVE Apart
  BY <1>a, <1>8 DEF DeleteItem
<1>9. ASSUME Snapshot(e) PROVE Apart
  <2>1. UNCHANGED <<user, itemArray, session>>
    BY <1>9 DEF Snapshot
  <2>2. UNCHANGED dropped \/ \E u \in User : dropped' = [dropped EXCEPT ![e][u] = FALSE]
    BY <1>9 DEF Snapshot, Refresh, EndQuery
  <2>3. dropped'[d] = dropped[d]
    BY <1>a, <2>2
  <2> QED BY <2>1, <2>3
<1>10. ASSUME QueryFails(e) PROVE Apart
  BY <1>10 DEF QueryFails, EndQuery
<1>11. ASSUME Reply(e) PROVE Apart
  BY <1>a, <1>11 DEF Reply, kept
<1>12. ASSUME PictureStored(e) \/ UploadFails(e) PROVE Apart
  BY <1>12 DEF PictureStored, UploadFails, kept, history
<1>13. ASSUME LinkReady(e) PROVE Apart
  BY <1>a, <1>13 DEF LinkReady, PutItemInDatabase
<1>14. ASSUME Acknowledge(e) PROVE Apart
  <2>1. UNCHANGED <<user, itemArray, dropped>>
    BY <1>14 DEF Acknowledge
  <2>2. \E s : session' = [session EXCEPT ![e] = s]
    BY <1>14 DEF Acknowledge
  <2> QED BY <1>a, <2>1, <2>2
<1>15. Apart
  BY <1>1, <1>2, <1>3, <1>4, <1>5, <1>6, <1>7, <1>8, <1>9, <1>10, <1>11, <1>12, <1>13,
     <1>14 DEF Account, Edit, Transfer
<1> QED BY <1>15

(* No step but a deletion puts a row in a list whose picture is not there. *)
LEMMA ListStep ==
  ASSUME DataInv, SentInv, SignedInv, AccountsInv, ConvergeInv, RowsInv,
         NEW had, PicturesHad(had),
         [Next]_vars, \A e \in Device : \A k \in DOMAIN itemArray[e] : ~DeleteItem(e, k),
         \A i \in Image : Alive(i) => Alive(i)',
         NEW d \in Device, LinkAlive(d), DocumentAlive(d), ListAlive(d),
         \A u \in User : LeftTo(d, u)' => LeftTo(d, u)
  PROVE  ListAlive(d)'
<1>a. /\ user \in [Device -> User \cup {NoUser}] /\ upload \in [Device -> Upload]
      /\ itemArray \in [Device -> Seq(Item)]
      /\ session \in [Device -> {"none", "loading", "early", "synced", "mixed"}]
      /\ dropped \in [Device -> [User -> BOOLEAN]]
      /\ ListInv(d)
  BY DEF DataInv, KeptInv, ProcessInv, HistoryInv, RowsInv
<1>b. Followed(d) => user[d] \in User
  BY <1>a, ListSigned DEF Followed
<1>1. ASSUME ~Followed(d)' \/ itemArray'[d] = <<>> PROVE ListAlive(d)'
  BY <1>1 DEF ListAlive, RowsAlive
<1>2. ASSUME user'[d] = user[d], itemArray'[d] = itemArray[d], Followed(d)' => Followed(d),
             session[d] = "synced" /\ Followed(d)' =>
               session'[d] = "synced" /\ dropped'[d] = dropped[d]
      PROVE  ListAlive(d)'
  BY <1>b, <1>1, <1>2, ListStays
<1>3. ASSUME user'[d] = user[d], itemArray'[d] = itemArray[d], dropped'[d] = dropped[d],
             session'[d] = session[d] \/ session'[d] = "mixed"
      PROVE  ListAlive(d)'
  BY <1>2, <1>3 DEF Followed
<1>4. ASSUME NEW e \in Device, e # d,
             \/ Account(e) \/ Edit(e) \/ Snapshot(e) \/ QueryFails(e) \/ Reply(e)
             \/ Transfer(e) \/ Acknowledge(e)
      PROVE  ListAlive(d)'
  BY <1>3, <1>4, ListElsewhere
<1>5. ASSUME NEW e \in Device,
             \/ \E u \in User : RegisterUnanswered(e, u)
             \/ \E name, amount, image : AddItemAndImage(e, name, amount, image)
             \/ PictureStored(e) \/ UploadFails(e) \/ DeletionEnds(e) \/ Commit(e)
             \/ StreamBreaks(e) \/ QueryFails(e)
      PROVE  UNCHANGED <<user, itemArray, session, dropped>>
  BY <1>5 DEF RegisterUnanswered, AddItemAndImage, PictureStored, UploadFails, DeletionEnds,
              Commit, StreamBreaks, QueryFails, EndQuery, kept, process, history
<1>6. UNCHANGED vars => UNCHANGED <<user, itemArray, session, dropped>>
  BY DEF vars, kept, process, history
<1>7. ASSUME UNCHANGED <<user, itemArray, session, dropped>> PROVE ListAlive(d)'
  BY <1>3, <1>7
<1>8. ASSUME Account(d) PROVE ListAlive(d)'
  <2>1. ASSUME NEW u \in User, Login(d, u) \/ Register(d, u)
        PROVE  ~Followed(d)' \/ itemArray'[d] = <<>>
    <3>1. session'[d] = "mixed" \/ (itemArray[d] = <<>> /\ UNCHANGED itemArray)
      BY <1>a, <2>1 DEF Login, Register, OpenList
    <3> QED BY <3>1 DEF Followed
  <2>2. Logout(d) \/ Restart(d) => itemArray'[d] = <<>>
    BY <1>a DEF Logout, Restart, ClearItemArray
  <2> QED BY <1>1, <1>5, <1>7, <1>8, <2>1, <2>2 DEF Account
<1>9. ASSUME NEW name, NEW amount, Typed(d, name, amount), AddItemWithoutImage(d, name, amount)
      PROVE  ListAlive(d)'
  <2>1. /\ PutItemInDatabase(d, TypedItem(name, amount)) /\ user[d] \in User
        /\ UNCHANGED <<user, dropped>>
    BY <1>a, <1>9 DEF AddItemWithoutImage, TypedItem, CanTap, SignedInv
  <2>2. name \in Text /\ amount \in Text /\ NoPictureIn(name) /\ NoPictureIn(amount)
    BY <1>9, <2>1, TypedHasNoPicture
  <2>3. TypedItem(name, amount) \in Item
    BY <2>2, ConstantTypes DEF TypedItem, Item
  <2>4. \A i \in Image : TypedItem(name, amount).pictureName # <<i>>
    BY <2>2, TypedAlive
  <2> DEFINE item == TypedItem(name, amount)
  <2> HIDE DEF item
  <2> QED BY <2>1, <2>3, <2>4, ListPut
<1>10. ASSUME LinkReady(d) PROVE ListAlive(d)'
  <2>1. PICK item \in Item : item = UploadedItem(d)
    BY <1>a DEF UploadedItem, Item, Upload
  <2>2. PutItemInDatabase(d, item) /\ user[d] \in User /\ UNCHANGED <<user, dropped>>
    BY <1>a, <1>10, <2>1 DEF LinkReady, UploadedItem, SignedInv
  <2>3. \A i \in Image : item.pictureName = <<i>> => Alive(i)
    BY <1>10, <2>1, UploadedAlive
  <2> QED BY <2>2, <2>3, ListPut
<1>11. ASSUME Snapshot(d) PROVE ListAlive(d)'
  <2>1. UNCHANGED <<user, itemArray, session>> /\ asked[d] # <<>>
    BY <1>11 DEF Snapshot
  <2>2. session[d] # "synced"
    BY <1>a, <2>1 DEF ListInv, InStep
  <2> QED BY <1>2, <2>1, <2>2 DEF Followed
<1>12. ASSUME Reply(d) PROVE ListAlive(d)'
  <2>1. UNCHANGED deletions
    BY <1>12 DEF Reply
  <2> QED BY <1>12, <2>1, ListReply
<1>13. ASSUME Acknowledge(d) PROVE ListAlive(d)'
  <2>1. UNCHANGED <<user, itemArray, dropped>>
    BY <1>13 DEF Acknowledge
  <2>2. session'[d] = session[d] \/ session'[d] = "mixed"
    BY <1>a, <1>13 DEF Acknowledge
  <2> QED BY <1>3, <2>1, <2>2
<1>14. ASSUME Edit(d) PROVE ListAlive(d)'
  BY <1>5, <1>7, <1>9, <1>14 DEF Edit
<1>15. ASSUME Transfer(d) PROVE ListAlive(d)'
  BY <1>5, <1>7, <1>10, <1>15 DEF Transfer
<1>16. ASSUME NEW e \in Device, DeletionEnds(e) \/ Commit(e) \/ StreamBreaks(e)
       PROVE  ListAlive(d)'
  BY <1>5, <1>7, <1>16
<1>17. ASSUME QueryFails(d) PROVE ListAlive(d)'
  BY <1>5, <1>7, <1>17
<1>18. UNCHANGED vars => ListAlive(d)'
  BY <1>6, <1>7
<1> QED BY <1>4, <1>8, <1>11, <1>12, <1>13, <1>14, <1>15, <1>16, <1>17, <1>18
        DEF Next, Sync

-----------------------------------------------------------------------------
(* The rows left by a deletion: a picture that one of them names is there, *)
(* and was not the deleted row's.                                          *)
LEMMA RowsLeft ==
  ASSUME DataInv, SignedInv, NEW had, PicturesHad(had), NEW e \in Device, ListAlive(e),
         NEW k \in DOMAIN itemArray[e], DeleteItem(e, k), ~torn', LeftTo(e, user[e])
  PROVE  LET rows == RemoveAt(itemArray[e], k)
         IN  \A j \in DOMAIN rows :
               /\ rows[j] \in PictureItems(had)[user[e]]
               /\ \A i \in Image : rows[j].pictureName = <<i>> => Alive(i)'
<1> DEFINE former == itemArray[e]
           rows   == RemoveAt(former, k)
           all    == {former[n] : n \in DOMAIN former}
<1>1. /\ session[e] = "synced" /\ ~dropped[e][user[e]] /\ screen[e] = "list"
      /\ \A j \in DOMAIN rows : ~SamePicture(rows[j], former[k])
  BY DEF DeleteItem, CanTap
<1>2. user[e] \in User
  BY <1>1 DEF SignedInv, DataInv, KeptInv
<1>3. former \in Seq(PictureItems(had)[user[e]])
  BY <1>1, <1>2 DEF PicturesHad, OwnInv, RowsOwn, Followed
<1>4. former \in Seq(all)
  BY <1>3
<1>5. RowsAlive(e)
  BY <1>1 DEF ListAlive, Followed
<1>6. rows \in Seq(all)
  <2> HIDE DEF all, former
  <2> QED BY <1>4, RemoveAtType DEF former
<1> SUFFICES ASSUME NEW j \in DOMAIN rows
             PROVE  /\ rows[j] \in PictureItems(had)[user[e]]
                    /\ \A i \in Image : rows[j].pictureName = <<i>> => Alive(i)'
  OBVIOUS
<1>7. rows[j] \in all
  <2> HIDE DEF rows, all
  <2> QED BY <1>6
<1>8. PICK n \in DOMAIN former : rows[j] = former[n]
  BY <1>7
<1>9. rows[j] \in PictureItems(had)[user[e]]
  BY <1>3, <1>8
<1>10. ASSUME NEW i \in Image, rows[j].pictureName = <<i>>
       PROVE  Alive(i)'
  <2>1. Alive(i)
    BY <1>5, <1>8, <1>10 DEF RowsAlive
  <2>2. former[k].pictureName # <<i>>
    BY <1>1, <1>10 DEF SamePicture
  <2> QED BY <2>1, <2>2, AliveDelete
<1> QED BY <1>9, <1>10

(* Whoever has the picture of a deleted row, nobody else's is deleted.     *)
LEMMA OthersAlive ==
  ASSUME DataInv, SignedInv, NEW had, PicturesHad(had), NEW e \in Device,
         NEW k \in DOMAIN itemArray[e], DeleteItem(e, k), ~torn',
         NEW u \in User, u # user[e], NEW i \in had[u], Alive(i)
  PROVE  Alive(i)'
<1>1. i \in Image
  BY DEF PicturesHad, PicturesShared
<1>2. itemArray[e][k].pictureName # <<i>>
  <2> SUFFICES ASSUME itemArray[e][k].pictureName = <<i>> PROVE FALSE
    OBVIOUS
  <2>1. user[e] \in User /\ i \in had[user[e]]
    BY <1>1, DeletedHad
  <2> QED BY <2>1 DEF PicturesHad, PicturesShared
<1> QED BY <1>2, AliveDelete

(* The overwrite of a deletion is queued.                                  *)
LEMMA DeleteQueues ==
  ASSUME DataInv, SignedInv, NEW e \in Device, NEW k \in DOMAIN itemArray[e], DeleteItem(e, k)
  PROVE  LET strs == ConvertItems(RemoveAt(itemArray[e], k))
         IN  /\ user[e] \in User /\ UpdateItems(strs) \in Write /\ UNCHANGED remote
             /\ \A d \in Device, u \in User :
                  pending'[d][u] = IF d = e /\ u = user[e]
                                     THEN Append(pending[d][u], UpdateItems(strs))
                                     ELSE pending[d][u]
<1> DEFINE rows  == RemoveAt(itemArray[e], k)
           write == UpdateItems(ConvertItems(rows))
<1>1. screen[e] = "list" /\ Enqueue(e, write) /\ UNCHANGED remote
  BY DEF DeleteItem, CanTap, server
<1>2. user[e] \in User
  BY <1>1 DEF SignedInv, DataInv, KeptInv
<1>3. write \in Write
  <2>1. rows \in Seq(Item)
    BY RemoveAtType DEF DataInv, ProcessInv
  <2> HIDE DEF rows
  <2> QED BY <2>1, WritesParse, ParsedIsTyped
<1> HIDE DEF write
<1>4. \A d \in Device, u \in User :
        pending'[d][u] = IF d = e /\ u = user[e] THEN Append(pending[d][u], write)
                                                 ELSE pending[d][u]
  BY <1>1, <1>2 DEF Enqueue, DataInv, KeptInv
<1> QED BY <1>1, <1>2, <1>3, <1>4 DEF write

(* To another device the document is not left from then on.                *)
LEMMA DeleteClaims ==
  ASSUME DataInv, SignedInv, NEW e \in Device, NEW k \in DOMAIN itemArray[e], DeleteItem(e, k),
         NEW d \in Device, d # e
  PROVE  ~LeftTo(d, user[e])'
<1>1. PICK u \in User : u = user[e]
  BY DeleteQueues
<1> DEFINE write == UpdateItems(ConvertItems(RemoveAt(itemArray[e], k)))
<1>2. /\ write \in Write /\ write.kind = "update"
      /\ pending'[e][u] = Append(pending[e][u], write)
  <2>1. write.kind = "update"
    BY DEF UpdateItems
  <2>2. /\ write \in Write
        /\ \A c \in Device, v \in User :
             pending'[c][v] = IF c = e /\ v = user[e] THEN Append(pending[c][v], write)
                                                      ELSE pending[c][v]
    BY DeleteQueues
  <2> HIDE DEF write
  <2> QED BY <1>1, <2>1, <2>2
<1> HIDE DEF write
<1>3. pending[e][u] \in Seq(Write)
  BY WillBeTypes
<1>4. /\ Len(pending[e][u]) + 1 \in DOMAIN pending'[e][u]
      /\ pending'[e][u][Len(pending[e][u]) + 1] = write
  BY <1>2, <1>3
<1>5. UNCHANGED user
  BY DEF DeleteItem
<1> QED BY <1>1, <1>2, <1>4, <1>5 DEF LeftTo

(* A deletion leaves pictures behind every document left to a device.      *)
LEMMA DocumentDelete ==
  ASSUME DataInv, SignedInv, NEW had, PicturesHad(had), NEW e \in Device, ListAlive(e),
         NEW k \in DOMAIN itemArray[e], DeleteItem(e, k), ~torn',
         NEW d \in Device, DocumentAlive(d), \A u \in User : LeftTo(d, u)' => LeftTo(d, u)
  PROVE  DocumentAlive(d)'
<1> SUFFICES ASSUME NEW u \in User, LeftTo(d, u)', NEW str \in Strings(WillBe(d, u)'),
                    str[4] \in Image
             PROVE  Alive(str[4])'
  BY DEF DocumentAlive, StringsAlive, Strings
<1> DEFINE rows  == RemoveAt(itemArray[e], k)
           strs  == ConvertItems(rows)
           write == UpdateItems(strs)
<1>a. had \in [User -> SUBSET Image]
  BY DEF PicturesHad, PicturesShared
<1>1. PICK v \in User : v = user[e]
  BY DeleteQueues
<1>2. /\ write \in Write /\ UNCHANGED remote
      /\ \A c \in Device, w \in User :
           pending'[c][w] = IF c = e /\ w = v THEN Append(pending[c][w], write)
                                              ELSE pending[c][w]
  BY <1>1, DeleteQueues
<1>3. CASE u # v
  <2>1. WillBe(d, u)' = WillBe(d, u)
    BY <1>2, <1>3 DEF WillBe
  <2>2. WillBe(d, u) \in OwnDocument(PictureItems(had), u)
    <3>1. Closed(PictureItems(had))
      BY <1>a, PictureItemsClosed
    <3>2. /\ remote[u] \in OwnDocument(PictureItems(had), u)
          /\ pending[d][u] \in Seq(OwnWrite(PictureItems(had), u))
      BY DEF PicturesHad, OwnInv, DocumentsOwn, QueuesOwn
    <3> QED BY <3>1, <3>2, OwnOverlay DEF WillBe
  <2>3. str \in OwnText(PictureItems(had), u) /\ str \in Strings(WillBe(d, u))
    BY <2>1, <2>2 DEF Strings, OwnDocument
  <2>4. ParseItem(str).pictureName = <<str[4]>> /\ ParseItem(str) \in PictureItems(had)[u]
    BY <2>3, LoadedPicture DEF OwnText
  <2>5. str[4] \in had[u]
    BY <2>4 DEF PictureItems
  <2>6. Alive(str[4])
    <3>1. LeftTo(d, u)
      OBVIOUS
    <3> QED BY <2>3, <3>1 DEF DocumentAlive, StringsAlive
  <2> QED BY <1>1, <1>3, <2>5, <2>6, OthersAlive
<1>4. CASE u = v /\ d # e
  <2>1. ~LeftTo(d, user[e])' /\ user' = user
    BY <1>4, DeleteClaims DEF DeleteItem
  <2> QED BY <1>1, <1>4, <2>1 DEF LeftTo
<1>5. CASE u = v /\ d = e
  <2>1. WillBe(d, u)' = Apply(WillBe(d, u), write)
    <3> HIDE DEF write
    <3> QED BY <1>2, <1>5, WillBeQueued
  <2>2. WillBe(d, u)' \in {NoDoc, strs}
    BY <2>1 DEF Apply, Accepts, UpdateItems
  <2>3. str \in {strs[j] : j \in DOMAIN strs}
    BY <2>2 DEF Strings
  <2>4. PICK j \in DOMAIN rows : str = ConvertItemToString(rows[j])
    BY <2>3 DEF ConvertItems
  <2>5. LeftTo(e, user[e])
    BY <1>1, <1>5
  <2>6. /\ rows[j] \in PictureItems(had)[user[e]]
        /\ \A i \in Image : rows[j].pictureName = <<i>> => Alive(i)'
    BY <2>5, RowsLeft
  <2> HIDE DEF rows
  <2>7. rows[j].pictureName = <<str[4]>>
    BY <1>a, <1>1, <2>4, <2>6, StringPicture
  <2> QED BY <2>6, <2>7
<1> QED BY <1>3, <1>4, <1>5

(* And behind the rows of every list whose document is.                    *)
LEMMA ListDelete ==
  ASSUME DataInv, SignedInv, RowsInv, NEW had, PicturesHad(had), NEW e \in Device, ListAlive(e),
         NEW k \in DOMAIN itemArray[e], DeleteItem(e, k), ~torn',
         NEW d \in Device, ListAlive(d), \A u \in User : LeftTo(d, u)' => LeftTo(d, u)
  PROVE  ListAlive(d)'
<1>a. /\ itemArray \in [Device -> Seq(Item)]
      /\ session \in [Device -> {"none", "loading", "early", "synced", "mixed"}]
      /\ ListInv(d)
  BY DEF DataInv, ProcessInv, HistoryInv, RowsInv
<1> DEFINE rows == RemoveAt(itemArray[e], k)
<1>1. /\ itemArray' = [itemArray EXCEPT ![e] = rows]
      /\ session[e] = "synced" /\ session' = session /\ UNCHANGED <<user, dropped>>
  <2>1. session' = [session EXCEPT ![e] = IF @ = "synced" THEN @ ELSE "mixed"]
    BY DEF DeleteItem
  <2>2. session[e] = "synced"
    BY DEF DeleteItem
  <2>3. session' = session
    BY <1>a, <2>1, <2>2
  <2> QED BY <2>2, <2>3 DEF DeleteItem
<1> SUFFICES ASSUME Followed(d), LeftTo(d, user[d])',
                    session[d] = "synced" => ~dropped[d][user[d]],
                    NEW j \in DOMAIN itemArray'[d], NEW i \in Image,
                    itemArray'[d][j].pictureName = <<i>>
             PROVE  Alive(i)'
  BY <1>1 DEF ListAlive, RowsAlive, Followed
<1>2. user[d] \in User
  BY <1>a, ListSigned DEF Followed
<1>3. LeftTo(d, user[d])
  BY <1>1, <1>2
<1>4. CASE d = e
  <2>1. itemArray'[d] = rows
    BY <1>a, <1>1, <1>4
  <2>2. \A n \in DOMAIN rows : \A c \in Image : rows[n].pictureName = <<c>> => Alive(c)'
    BY <1>3, <1>4, RowsLeft
  <2> HIDE DEF rows
  <2> QED BY <2>1, <2>2
<1>5. CASE d # e
  <2>1. itemArray'[d] = itemArray[d]
    BY <1>a, <1>1, <1>5
  <2>2. user[d] # user[e]
    BY <1>1, <1>5, DeleteClaims DEF LeftTo
  <2>3. itemArray[d] \in Seq(PictureItems(had)[user[d]])
    BY <1>2 DEF PicturesHad, OwnInv, RowsOwn
  <2>4. i \in had[user[d]]
    <3>1. itemArray[d][j] \in PictureItems(had)[user[d]]
      BY <2>1, <2>3
    <3> QED BY <1>2, <2>1, <3>1 DEF PictureItems
  <2>5. Alive(i)
    BY <1>3, <2>1 DEF ListAlive, RowsAlive
  <2> QED BY <1>2, <2>2, <2>4, <2>5, OthersAlive
<1> QED BY <1>4, <1>5

(* Each step, until a row is deleted out of turn: what is left to a device *)
(* names pictures that are there.                                          *)
LEMMA AliveNext ==
  ASSUME DataInv, SentInv, SignedInv, AccountsInv, ConvergeInv, RowsInv, TakenInv,
         OverwritesTaken, AliveInv, NEW had, PicturesHad(had), [Next]_vars, ~torn'
  PROVE  AliveInv'
<1> SUFFICES ASSUME NEW d \in Device
             PROVE  LinkAlive(d)' /\ DocumentAlive(d)' /\ ListAlive(d)'
  BY DEF AliveInv
<1>1. \A e \in Device : LinkAlive(e) /\ DocumentAlive(e) /\ ListAlive(e)
  BY DEF AliveInv
<1>2. LinkAlive(d)'
  BY <1>1, LinkNext
<1>3. \A u \in User : LeftTo(d, u)' => LeftTo(d, u)
  BY LeftStays
<1>4. ASSUME NEW e \in Device, NEW k \in DOMAIN itemArray[e], DeleteItem(e, k)
      PROVE  DocumentAlive(d)' /\ ListAlive(d)'
  <2>1. ListAlive(e) /\ DocumentAlive(d) /\ ListAlive(d)
    BY <1>1
  <2>2. DocumentAlive(d)'
    BY <1>3, <1>4, <2>1, DocumentDelete
  <2>3. ListAlive(d)'
    BY <1>3, <1>4, <2>1, ListDelete
  <2> QED BY <2>2, <2>3
<1>5. ASSUME \A e \in Device : \A k \in DOMAIN itemArray[e] : ~DeleteItem(e, k)
      PROVE  DocumentAlive(d)' /\ ListAlive(d)'
  <2>1. \A i \in Image : Alive(i) => Alive(i)'
    BY <1>5, AliveStays
  <2>2. LinkAlive(d) /\ DocumentAlive(d) /\ ListAlive(d) /\ \A e \in Device : LinkAlive(e)
    BY <1>1
  <2>3. DocumentAlive(d)'
    BY <1>3, <1>5, <2>1, <2>2, DocumentStep
  <2>4. ListAlive(d)'
    BY <1>3, <1>5, <2>1, <2>2, ListStep
  <2> QED BY <2>3, <2>4
<1> QED BY <1>2, <1>4, <1>5

(* At first there are no pictures.                                         *)
LEMMA PicturesInit ==
  ASSUME Init
  PROVE  TakenInv /\ OverwritesTaken /\ AliveInv /\ \E had : PicturesHad(had)
<1>1. TakenInv
  BY UserAssumption DEF Init, TakenInv, Known
<1>2. OverwritesTaken
  BY DEF Init, OverwritesTaken
<1>3. AliveInv
  <2>1. ASSUME NEW d \in Device PROVE LinkAlive(d) /\ ListAlive(d)
    BY DEF Init, LinkAlive, ListAlive, Followed, NoUpload
  <2>2. ASSUME NEW d \in Device PROVE DocumentAlive(d)
    <3>1. \A u \in User : WillBe(d, u) = NoDoc
      BY OverlayEmpty DEF Init, WillBe
    <3> QED BY <3>1 DEF DocumentAlive, StringsAlive, Strings
  <2> QED BY <2>1, <2>2 DEF AliveInv
<1>4. \E had : PicturesHad(had)
  <2> DEFINE none == [u \in User |-> {}]
  <2>1. PicturesShared(none)
    BY DEF PicturesShared
  <2>2. UploadsNew(none) /\ DeletionsHad(none)
    BY DEF Init, UploadsNew, DeletionsHad, Uploading, NoUpload
  <2>3. OwnInv(PictureItems(none))
    BY <2>1, OwnInit, PictureItemsClosed DEF PicturesShared
  <2> QED BY <2>1, <2>2, <2>3 DEF PicturesHad
<1> QED BY <1>1, <1>2, <1>3, <1>4

(* The picture of every row of a loaded list is in storage, as long as the *)
(* document is left to the device that shows it: the put waits for the     *)
(* picture, which no other row is given, and a deletion takes the picture  *)
(* together with the only row that names it, whatever signs in and out,    *)
(* restarts, fails and is sent again.                                      *)
THEOREM PicturesBehindRows == Spec => []PictureBehindRow
<1> DEFINE Pictures ==
             ~torn => OverwritesTaken /\ AliveInv /\ \E had : PicturesHad(had)
<1>1. Init => TakenInv /\ Pictures
  BY PicturesInit
<1>i. Init => SignedInv /\ AccountsInv /\ RowsInv
  <2>1. Init => SignedInv /\ RowsInv
    BY DEF Init, SignedInv, NoUpload, RowsInv, ListInv, OneQuery, NoRowsYet, PutEarly, InStep
  <2>2. Init => AccountsInv
    BY UserAssumption DEF Init, AccountsInv, AccountsWrite, SetFirst, DocumentComes
  <2> QED BY <2>1, <2>2
<1>2. DataInv /\ SentInv /\ SignedInv /\ AccountsInv /\ ConvergeInv /\ RowsInv
        /\ TakenInv /\ Pictures /\ [Next]_vars => TakenInv' /\ Pictures'
  <2> SUFFICES ASSUME DataInv, SentInv, SignedInv, AccountsInv, ConvergeInv, RowsInv,
                      TakenInv, Pictures, [Next]_vars
               PROVE  TakenInv' /\ Pictures'
    OBVIOUS
  <2>1. TakenInv'
    BY TakenNext
  <2>2. ASSUME ~torn'
        PROVE  OverwritesTaken' /\ AliveInv' /\ \E had : PicturesHad(had)'
    <3>1. ~torn
      BY <2>2, HistoryStays
    <3>2. OverwritesTaken /\ AliveInv
      BY <3>1
    <3>3. PICK had : PicturesHad(had)
      BY <3>1
    <3>4. OverwritesTaken'
      BY <2>2, <3>2, OverwritesNext
    <3>5. AliveInv'
      BY <2>2, <3>2, <3>3, AliveNext
    <3>6. \E more : PicturesHad(more)'
      BY <2>2, <3>3, HadNext
    <3> QED BY <3>4, <3>5, <3>6
  <2> QED BY <2>1, <2>2
<1>3. DataInv /\ SignedInv /\ RowsInv /\ Pictures => PictureBehindRow
  <2> SUFFICES ASSUME AliveInv, NEW d \in Device, session[d] = "synced",
                      LeftTo(d, user[d]), ~dropped[d][user[d]],
                      NEW k \in DOMAIN itemArray[d], NEW i \in Image,
                      itemArray[d][k].pictureName = <<i>>
               PROVE  i \in images
    BY DEF PictureBehindRow
  <2>1. RowsAlive(d)
    BY DEF AliveInv, ListAlive, Followed
  <2> QED BY <2>1 DEF RowsAlive, Alive
<1> HIDE DEF Pictures
<1>4. DataInv /\ SentInv /\ SignedInv /\ AccountsInv /\ ConvergeInv /\ RowsInv /\ [Next]_vars
        => SignedInv' /\ AccountsInv' /\ ConvergeInv' /\ RowsInv'
  BY SignedNext, AccountsNext, ConvergeNext, RowsNext
<1> QED BY <1>1, <1>i, <1>2, <1>3, <1>4, ConvergeInit, DataAlways, PTL DEF Spec

=============================================================================
