------------------------------ MODULE WriteStream ------------------------------
(***************************************************************************)
(* How the Firestore client sends the writes of its user: the pipeline of  *)
(* the remote store, the write stream with its token, backoff and idle     *)
(* timer, the credentials provider that tells the worker queue who is      *)
(* signed in, and the server's end of the stream.                          *)
(*                                                                         *)
(* Three queues take part.  The current user changes on the queue of the   *)
(* authentication service, which also looks for tokens; both are reported  *)
(* to the main queue, and from there to the worker queue, where everything *)
(* else runs.  A change of user replaces the stream; tokens that an older  *)
(* stream has asked for still arrive.                                      *)
(*                                                                         *)
(* The server may go on handling what it got on a call after the client    *)
(* has closed it, but not after it has greeted the next one.               *)
(***************************************************************************)
EXTENDS Naturals, Sequences, FiniteSets, SequencesExt

CONSTANTS
  User,
  MaxPendingWrites,  \* kMaxPendingWrites
  MaxWrites,         \* bound: writes of each user
  MaxChanges         \* bound: changes of the user

ASSUME PendingAssumption == MaxPendingWrites \in Nat \ {0}
ASSUME BoundsAssumption == MaxWrites \in Nat /\ MaxChanges \in Nat

VARIABLES
  authUser,      \* the current user of the authentication service
  asked,         \* tokens it is asked for
  mainQueue, workerQueue,
  tokenCounter,  \* token_counter
  user,          \* the current user, as the worker queue knows it
  issued,        \* per user, the number of writes so far
  queue,         \* per user, writes not answered
  client,        \* the stream and the pipeline, see Client
  rpc,           \* the client's call, and the server's greeting
  rpcUser,       \* the user whose token it carries
  late,          \* the call that the server works on is closed at the client
  requests,      \* writes the server has got on it and not handled
  answers,       \* answers on their way
  handled,       \* history: what it has handled, and the client not heard of
  acknowledged, rejected, applied \* history: what became of the writes

server == <<rpc, rpcUser, late, requests, answers, handled>>
outcome == <<acknowledged, rejected, applied>>
credentials == <<authUser, asked, mainQueue, tokenCounter>>
vars == <<credentials, workerQueue, user, issued, queue, client, server, outcome>>

Batch == [user : User, number : 1..MaxWrites]
Result == [batch : Batch, accepted : BOOLEAN]
Stream == 1..(MaxChanges + 1)
Client ==
  [stream : Stream,                  \* which FSTWriteStream
   state : {"initial", "auth", "open", "error", "backoff"},
   handshakeComplete : BOOLEAN,
   delegate : BOOLEAN,               \* the delegate is set
   idle : BOOLEAN,                   \* the idle timer is running
   pipeline : Seq(Batch),            \* writePipeline
   getToken : BOOLEAN,               \* has asked for a token in this step
   written : Seq(Batch),             \* has written in this step
   asserts : BOOLEAN]                \* every HARD_ASSERT held so far

TokenRequest == [stream : Stream, counter : 0..MaxChanges]
Change == [kind : {"changed"}, user : User]
Token == [kind : {"token"}, user : User, request : TokenRequest,
          result : {"found", "failed", "aborted"}]

(* Every variable keeps its type; the only invariant that says no more.    *)
TypeOK ==
  /\ authUser \in User /\ user \in User /\ rpcUser \in User
  /\ asked \subseteq TokenRequest
  /\ mainQueue \in Seq(Change \cup Token) /\ workerQueue \in Seq(Change \cup Token)
  /\ tokenCounter \in 0..MaxChanges
  /\ issued \in [User -> 0..MaxWrites] /\ queue \in [User -> Seq(Batch)]
  /\ client \in Client /\ ~client.getToken /\ client.written = <<>>
  /\ rpc \in {"none", "hello", "welcome", "ready"}
  /\ late \in BOOLEAN
  /\ requests \in Seq(Batch)
  /\ answers \in Seq(Result) /\ handled \in Seq(Result)
  /\ acknowledged \subseteq Batch /\ rejected \subseteq Batch /\ applied \subseteq Batch

Init ==
  /\ authUser \in User /\ user = authUser /\ rpcUser = authUser
  /\ asked = {} /\ mainQueue = <<>> /\ workerQueue = <<>> /\ tokenCounter = 0
  /\ issued = [u \in User |-> 0] /\ queue = [u \in User |-> <<>>]
  /\ client = [stream |-> 1, state |-> "initial", handshakeComplete |-> FALSE,
               delegate |-> FALSE, idle |-> FALSE, pipeline |-> <<>>,
               getToken |-> FALSE, written |-> <<>>, asserts |-> TRUE]
  /\ rpc = "none" /\ late = FALSE
  /\ requests = <<>> /\ answers = <<>> /\ handled = <<>>
  /\ acknowledged = {} /\ rejected = {} /\ applied = {}

-----------------------------------------------------------------------------
(* The operations of the stream and the remote store, each from the        *)
(* client's state before it to the one after it.                           *)
IsStarted(c) == c.state \in {"auth", "open", "backoff"}
IsOpen(c) == c.state = "open"

HardAssert(c, holds) == [c EXCEPT !.asserts = @ /\ holds]

(* Mutation: starting keeps the last call's handshake.                     *)
KeepHandshake(c) == c

ForgetHandshake(c) == [c EXCEPT !.handshakeComplete = FALSE]

(* startWithDelegate: after an error the stream backs off first.           *)
StartWithDelegate(c) ==
  IF c.state = "error"
  THEN [ForgetHandshake(c) EXCEPT !.state = "backoff"]
  ELSE [HardAssert(ForgetHandshake(c), c.state = "initial" /\ ~c.delegate)
        EXCEPT !.state = "auth", !.delegate = TRUE, !.getToken = TRUE]

WriteMutations(c, batches) ==
  [HardAssert(c, IsOpen(c) /\ c.handshakeComplete)
   EXCEPT !.idle = FALSE, !.written = @ \o batches]

(* Mutation: any stream can be idle.                                       *)
MarkIdleAlways(c) == [c EXCEPT !.idle = TRUE]

MarkIdle(c) == [c EXCEPT !.idle = @ \/ IsOpen(c)]

(* Mutation: a stream that ends with writes pending waits for the next.    *)
StayClosed(c) == c

(* startWriteStream, if shouldStartWriteStream.                            *)
StartIfNeeded(c) ==
  IF ~IsStarted(c) /\ c.pipeline # <<>> THEN StartWithDelegate(c) ELSE c

(* Mutation: the pipeline is filled from the front of the queue again.     *)
FrontBatches(c, q) ==
  LET room == MaxPendingWrites - Len(c.pipeline)
  IN IF Len(q) <= room THEN q ELSE SubSeq(q, 1, room)

(* nextMutationBatchAfterBatchID seeks the first write after the last one  *)
(* of the pipeline, and that as often as the pipeline has room.            *)
NextBatches(c, q) ==
  LET after == {k \in DOMAIN q :
                  c.pipeline # <<>> => q[k].number > Last(c.pipeline).number}
      first == CHOOSE k \in after : \A l \in after : k <= l
      last == first + MaxPendingWrites - Len(c.pipeline) - 1
  IN IF after = {} THEN <<>>
     ELSE SubSeq(q, first, IF last <= Len(q) THEN last ELSE Len(q))

(* fillWritePipeline with addBatchToWritePipeline.                         *)
FillWritePipeline(c, q) ==
  LET added == NextBatches(c, q)
      filled == [c EXCEPT !.pipeline = @ \o added]
  IN IF filled.pipeline = <<>>
     THEN MarkIdle(filled)
     ELSE IF ~IsStarted(filled)
     THEN StartWithDelegate(filled)
     ELSE IF added # <<>> /\ filled.handshakeComplete
     THEN WriteMutations(filled, added)
     ELSE filled

(* closeWithFinalState, up to the notification: timers are cancelled, a    *)
(* close that is no error tells the server, the delegate is taken away.    *)
Close(c, finalState) ==
  [HardAssert(c, IsStarted(c) /\ (finalState = "error" \/ ~c.handshakeComplete \/ IsOpen(c)))
   EXCEPT !.state = finalState, !.idle = FALSE, !.delegate = FALSE]

InhibitBackoff(c) == [HardAssert(c, ~IsStarted(c)) EXCEPT !.state = "initial"]

(* removeMutationBatches: the write leaves the queue, wherever it is.      *)
RemoveBatch(q, batch) == RemoveAt(q, CHOOSE k \in DOMAIN q : q[k] = batch)

(* writeStreamWasInterruptedWithError drops the first write only if this   *)
(* error can be its own.                                                   *)
DropsWrite(c, error) == error = "permanent" /\ c.pipeline # <<>> /\ c.handshakeComplete

-----------------------------------------------------------------------------
(* What the client has asked for in a step is asked for, what it has       *)
(* written is on the call.                                                 *)
Become(c) ==
  /\ client' = [c EXCEPT !.getToken = FALSE, !.written = <<>>]
  /\ asked' = IF c.getToken
              THEN asked \cup {[stream |-> c.stream, counter |-> tokenCounter]}
              ELSE asked

OnCall(c) == requests' = requests \o c.written

(* The client's call is closed; the server may have greeted it.            *)
HangUp ==
  /\ rpc' = "none"
  /\ late' = (late \/ rpc \in {"welcome", "ready"})
  /\ answers' = <<>>
  /\ UNCHANGED <<rpcUser, requests, handled>>

(* handleStreamClose: the stream ends with an error.                       *)
Interrupted(error) ==
  LET closed == Close(client, "error")
      batch == Head(closed.pipeline)
      left == RemoveBatch(queue[user], batch)
      rest == InhibitBackoff([closed EXCEPT !.pipeline = Tail(@)])
  IN IF DropsWrite(closed, error)
     THEN /\ queue' = [queue EXCEPT ![user] = left]
          /\ rejected' = rejected \cup {batch}
          /\ Become(StartIfNeeded(FillWritePipeline(rest, left)))
     ELSE /\ UNCHANGED <<queue, rejected>>
          /\ Become(StartIfNeeded(closed))

(* The application writes: locallyWriteMutations, fillWritePipeline.       *)
Write ==
  /\ issued[user] < MaxWrites
  /\ issued' = [issued EXCEPT ![user] = @ + 1]
  /\ LET batch == [user |-> user, number |-> issued[user] + 1]
         c == FillWritePipeline(client, Append(queue[user], batch))
     IN /\ queue' = [queue EXCEPT ![user] = Append(@, batch)]
        /\ Become(c) /\ OnCall(c)
  /\ UNCHANGED <<authUser, mainQueue, tokenCounter, workerQueue, user,
                 rpc, rpcUser, late, answers, handled, outcome>>

(* backoffAndRunBlock: the delay is over.                                  *)
BackoffElapsed ==
  /\ client.state = "backoff"
  /\ Become(StartWithDelegate([client EXCEPT !.state = "initial"]))
  /\ UNCHANGED <<authUser, mainQueue, tokenCounter, workerQueue, user, issued, queue,
                 server, outcome>>

(* handleIdleCloseTimer: closed without an error, and perhaps restarted.   *)
IdleTimeout ==
  /\ client.idle /\ IsOpen(client)
  /\ Become(StartIfNeeded(Close(client, "initial")))
  /\ HangUp
  /\ UNCHANGED <<authUser, mainQueue, tokenCounter, workerQueue, user, issued, queue,
                 outcome>>

-----------------------------------------------------------------------------
(* For the bound: changes that are still to be counted.                    *)
Changes(q) == {k \in DOMAIN q : q[k].kind = "changed"}

(* Another user signs in, or the token of the same one changes, on the     *)
(* queue of the authentication service, which tells of both alike.         *)
ChangeUser(u) ==
  /\ tokenCounter + Cardinality(Changes(mainQueue)) < MaxChanges
  /\ authUser' = u
  /\ mainQueue' = Append(mainQueue, [kind |-> "changed", user |-> u])
  /\ UNCHANGED <<asked, tokenCounter, workerQueue, user, issued, queue, client, server,
                 outcome>>

(* Mutation: tokens do not take the way over the main queue.               *)
FindTokenAtOnce(request, result) ==
  /\ asked' = asked \ {request}
  /\ workerQueue' = Append(workerQueue,
       [kind |-> "token", user |-> authUser, request |-> request,
        result |-> IF request.counter = tokenCounter THEN result ELSE "aborted"])
  /\ UNCHANGED <<authUser, tokenCounter, mainQueue, user, issued, queue, client, server,
                 outcome>>

(* getTokenForcingRefresh: the token of whoever is signed in, or an error. *)
FindToken(request, result) ==
  /\ asked' = asked \ {request}
  /\ mainQueue' = Append(mainQueue, [kind |-> "token", user |-> authUser,
                                     request |-> request, result |-> result])
  /\ UNCHANGED <<authUser, tokenCounter, workerQueue, user, issued, queue, client, server,
                 outcome>>

(* Mutation: every message counts.                                         *)
CountAll(m) == tokenCounter + 1

CountChange(m) == IF m.kind = "changed" THEN tokenCounter + 1 ELSE tokenCounter

(* The main queue passes it on; a token is of no use if a change of user   *)
(* was passed on since it was asked for.                                   *)
PassOn ==
  /\ mainQueue # <<>>
  /\ LET m == Head(mainQueue)
     IN /\ tokenCounter' = CountChange(m)
        /\ workerQueue' = Append(workerQueue,
             IF m.kind = "token" /\ m.request.counter # tokenCounter
             THEN [m EXCEPT !.result = "aborted"]
             ELSE m)
  /\ mainQueue' = Tail(mainQueue)
  /\ UNCHANGED <<authUser, asked, user, issued, queue, client, server, outcome>>

(* disableNetworkInternal and enableNetwork: the stream is stopped, told   *)
(* nothing more, and a new one takes its place with an empty pipeline.     *)
ReplaceStream(c) ==
  [HardAssert(c, IsStarted(c) => ~c.handshakeComplete \/ IsOpen(c))
   EXCEPT !.stream = @ + 1, !.state = "initial", !.handshakeComplete = FALSE,
          !.delegate = FALSE, !.idle = FALSE, !.pipeline = <<>>]

CredentialDidChange(u) ==
  /\ user' = u
  /\ Become(FillWritePipeline(ReplaceStream(client), queue[u]))
  /\ HangUp
  /\ UNCHANGED <<authUser, mainQueue, tokenCounter, issued, queue, outcome>>

(* resumeStartWithToken: an older stream has been stopped.                 *)
ResumeStart(token) ==
  /\ IF token.request.stream # client.stream
     THEN UNCHANGED <<asked, queue, client, server, rejected>>
     ELSE IF token.result = "found"
     THEN /\ Become(HardAssert([client EXCEPT !.state = "open"],
                               client.state = "auth" /\ ~client.handshakeComplete))
          /\ rpc' = "hello" /\ rpcUser' = token.user
          /\ UNCHANGED <<queue, rejected, late, requests, answers, handled>>
     ELSE /\ Interrupted(IF token.result = "aborted" THEN "permanent" ELSE "transient")
          /\ UNCHANGED server
  /\ UNCHANGED <<authUser, mainQueue, tokenCounter, user, issued, acknowledged, applied>>

RunOnWorker ==
  /\ workerQueue # <<>>
  /\ workerQueue' = Tail(workerQueue)
  /\ LET m == Head(workerQueue)
     IN \/ m.kind = "changed" /\ CredentialDidChange(m.user)
        \/ m.kind = "token" /\ ResumeStart(m)

-----------------------------------------------------------------------------
(* The server answers a handshake, once it is done with the call before.   *)
Greet ==
  /\ rpc = "hello" /\ ~late
  /\ rpc' = "welcome"
  /\ UNCHANGED <<credentials, workerQueue, user, issued, queue, client,
                 rpcUser, late, requests, answers, handled, outcome>>

(* The handshake is complete: the pipeline is written, from its front.     *)
HandshakeCompletes ==
  /\ rpc = "welcome"
  /\ rpc' = "ready"
  /\ LET c == WriteMutations([client EXCEPT !.handshakeComplete = TRUE], client.pipeline)
     IN Become(c) /\ OnCall(c)
  /\ UNCHANGED <<authUser, mainQueue, tokenCounter, workerQueue, user, issued, queue,
                 rpcUser, late, answers, handled, outcome>>

(* The server applies a write, or refuses it and turns to no other.  It    *)
(* may refuse one that it has applied on an earlier call, or apply it once *)
(* more.                                                                   *)
Handle(accepted) ==
  /\ requests # <<>> /\ \A k \in DOMAIN handled : handled[k].accepted
  /\ LET batch == Head(requests)
         result == [batch |-> batch, accepted |-> accepted]
     IN /\ applied' = IF accepted THEN applied \cup {batch} ELSE applied
        /\ handled' = Append(handled, result)
        /\ answers' = IF late THEN answers ELSE Append(answers, result)
  /\ requests' = Tail(requests)
  /\ UNCHANGED <<credentials, workerQueue, user, issued, queue, client,
                 rpc, rpcUser, late, acknowledged, rejected>>

(* The server is done with a call that the client has closed.              *)
LateEnds ==
  /\ late
  /\ late' = FALSE /\ requests' = <<>> /\ handled' = <<>>
  /\ UNCHANGED <<credentials, workerQueue, user, issued, queue, client,
                 rpc, rpcUser, answers, outcome>>

(* Mutation: the response is taken for the last write's.                   *)
LastOf(pipeline) == Last(pipeline)

(* The response is correlated to the first write in the pipeline.          *)
FirstOf(pipeline) == Head(pipeline)

(* writeStreamDidReceiveResponseWithVersion: that write is done, and its   *)
(* place in the pipeline is free.                                          *)
Accepted ==
  /\ answers # <<>> /\ Head(answers).accepted
  /\ answers' = Tail(answers) /\ handled' = Tail(handled)
  /\ LET batch == FirstOf(client.pipeline)
         left == RemoveBatch(queue[user], batch)
         c == FillWritePipeline([client EXCEPT !.pipeline = Tail(@)], left)
     IN /\ queue' = [queue EXCEPT ![user] = left]
        /\ acknowledged' = acknowledged \cup {batch}
        /\ Become(c) /\ OnCall(c)
  /\ UNCHANGED <<authUser, mainQueue, tokenCounter, workerQueue, user, issued,
                 rpc, rpcUser, late, rejected, applied>>

(* The call ends with the error of a write the server has refused.         *)
Refused ==
  /\ answers # <<>> /\ ~Head(answers).accepted
  /\ Interrupted("permanent")
  /\ rpc' = "none" /\ requests' = <<>>
  /\ answers' = Tail(answers) /\ handled' = Tail(handled)
  /\ UNCHANGED <<authUser, mainQueue, tokenCounter, workerQueue, user, issued,
                 rpcUser, late, acknowledged, applied>>

(* The call breaks; what the server has got it may still handle.           *)
CallBreaks ==
  /\ rpc # "none"
  /\ Interrupted("transient")
  /\ HangUp
  /\ UNCHANGED <<authUser, mainQueue, tokenCounter, workerQueue, user, issued,
                 acknowledged, applied>>

Next ==
  \/ Write
  \/ BackoffElapsed \/ IdleTimeout
  \/ \E u \in User : ChangeUser(u)
  \/ \E request \in asked, result \in {"found", "failed"} : FindToken(request, result)
  \/ PassOn \/ RunOnWorker
  \/ Greet \/ HandshakeCompletes
  \/ \E accepted \in BOOLEAN : Handle(accepted)
  \/ LateEnds
  \/ Accepted \/ Refused
  \/ CallBreaks

Spec == Init /\ [][Next]_vars

(* The queues run and timers elapse; the server is done with a closed call *)
(* in the end; and a token, a greeting, an answer that can be had time and *)
(* again is had at last, however often calls break.                        *)
FairSpec ==
  /\ Spec
  /\ WF_vars(PassOn) /\ WF_vars(RunOnWorker) /\ WF_vars(BackoffElapsed) /\ WF_vars(LateEnds)
  /\ SF_vars(\E request \in asked : FindToken(request, "found"))
  /\ SF_vars(Greet) /\ SF_vars(HandshakeCompletes)
  /\ SF_vars(rpc = "ready" /\ \E accepted \in BOOLEAN : Handle(accepted))
  /\ SF_vars(Accepted) /\ SF_vars(Refused)

-----------------------------------------------------------------------------
(* Every HARD_ASSERT of the stream and the remote store holds: no start of *)
(* a started stream, no write before the handshake or after the close, no  *)
(* token for a stream that is past asking for it.                          *)
AssertsHold == client.asserts

(* The pipeline is the front of the user's queue, as long as it may be,    *)
(* and nothing else; with writes in it the stream is on its way and the    *)
(* idle timer is not running.                                              *)
PipelineIsFront ==
  /\ IsPrefix(client.pipeline, queue[user])
  /\ Len(client.pipeline) = MaxPendingWrites \/ client.pipeline = queue[user]
  /\ client.pipeline # <<>> => IsStarted(client) /\ ~client.idle

(* A call carries the token of the user whose writes are on it, however    *)
(* the news of a change and the tokens asked for before and after it cross *)
(* on the three queues.                                                    *)
SentAsItsUser ==
  /\ rpc # "none" => rpcUser = user
  /\ \A k \in DOMAIN client.pipeline : client.pipeline[k].user = user

(* Calls break, and writes are sent again that the server has applied, and *)
(* perhaps refuses the second time.  Yet a write is reported as done only  *)
(* when it has been applied, and as refused only on the server's word on   *)
(* that write; and after such a report it is not applied any more.         *)
ReportedAsHandled ==
  [][/\ acknowledged' \ acknowledged \subseteq applied
     /\ \A b \in rejected' \ rejected :
          handled # <<>> /\ Head(handled) = [batch |-> b, accepted |-> FALSE]
     /\ rejected \cap applied' \subseteq applied]_vars

(* What the server has handled is all of one user.                         *)
HandledOf(u) == IF handled # <<>> /\ Head(handled).batch.user = u THEN handled ELSE <<>>

Outside == INSTANCE WriteQueue WITH handled <- [u \in User |-> HandledOf(u)]

(* Stream, tokens, timers and all, each user's queue keeps its promise.    *)
ImplementsWriteQueue == Outside!Spec

(* The queue of a user who stays signed in drains.                         *)
QueueDrains == \A u \in User : <>[](authUser = u) => []<>(queue[u] = <<>>)

=============================================================================
