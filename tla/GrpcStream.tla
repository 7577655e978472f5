----------------------------- MODULE GrpcStream -----------------------------
(***************************************************************************)
(* One streaming call of the Firestore client, between three parties: the  *)
(* worker queue, on which the stream and its observer run; gRPC, which     *)
(* holds each operation until it has an outcome; and the thread that polls *)
(* gRPC's completion queue.  An operation is known by its completion: in   *)
(* gRPC, then with the poller, then as a callback on the worker queue.     *)
(*                                                                         *)
(* Shutting down blocks the worker queue until every completion is off the *)
(* completion queue; the callbacks they still put on the worker queue have *)
(* been turned into no-ops.  The observer releases the stream when it is   *)
(* told of its end, or right after stopping it.                            *)
(***************************************************************************)
EXTENDS Naturals, Sequences, FiniteSets

CONSTANTS
  MaxWrites,  \* bound: messages written
  MaxReads,   \* bound: messages read
  NoOne       \* the poller has nothing in its hands

BoundsAssumption == MaxWrites \in Nat /\ MaxReads \in Nat

VARIABLES
  phase,        \* "new", "open", "released"
  observer,     \* observer_ is set
  completions,  \* completions_
  inGrpc,       \* completions gRPC has not given back
  poller,       \* the completion in Complete, its promise fulfilled, or NoOne
  callbacks,    \* callbacks on the worker queue
  cancelled,    \* completions whose callback was taken away
  worker,       \* what the worker queue is blocked on: "nothing", "lastWrite",
                \* or the completions of a stream it ends, to "notify" or "stop"
  queue, active,\* buffered writes; one is under way
  isFinishing,  \* is_finishing_
  callEnds,     \* the call is over: broken, closed by the server or cancelled
  finishes,     \* times Finish was called on the call
  written,      \* history: messages the observer has written
  sent          \* history: messages given to gRPC, in order

buffer == <<queue, active, written, sent>>
vars == <<phase, observer, completions, inGrpc, poller, callbacks, cancelled, worker,
          buffer, isFinishing, callEnds, finishes>>

Completion == [type : {"read", "write", "finish"}, number : Nat]
Outcome == [completion : Completion, ok : BOOLEAN]

NoOneAssumption == NoOne \notin Outcome

(* Every variable keeps its type; the only invariant that says no more.    *)
TypeOK ==
  /\ phase \in {"new", "open", "released"}
  /\ completions \subseteq Completion
  /\ inGrpc \subseteq Completion /\ cancelled \subseteq Completion
  /\ poller \in Outcome \cup {NoOne}
  /\ callbacks \in Seq(Outcome)
  /\ worker \in {"nothing", "lastWrite", "notify", "stop"}
  /\ queue \in Seq(Nat) /\ sent \in Seq(Nat) /\ written \in Nat
  /\ {observer, active, isFinishing, callEnds} \subseteq BOOLEAN
  /\ finishes \in 0..2

Init ==
  /\ phase = "new" /\ observer = TRUE
  /\ completions = {} /\ inGrpc = {} /\ cancelled = {}
  /\ poller = NoOne /\ callbacks = <<>> /\ worker = "nothing"
  /\ queue = <<>> /\ active = FALSE /\ written = 0 /\ sent = <<>>
  /\ isFinishing = FALSE /\ callEnds = FALSE /\ finishes = 0

-----------------------------------------------------------------------------
(* The second Finish of a call fails an assertion: the process aborts.     *)
Aborted == finishes > 1

WorkerIdle == worker = "nothing" /\ ~Aborted

ReadCompletion(n) == [type |-> "read", number |-> n]
WriteCompletion == [type |-> "write", number |-> Len(sent) + 1]
FinishCompletion == [type |-> "finish", number |-> finishes + 1]

(* An operation is handed to gRPC; known are the completions kept.         *)
Issue(c, known) ==
  /\ completions' = known \cup {c}
  /\ inGrpc' = inGrpc \cup {c}

(* Start: the first read comes before the observer is told.                *)
Start ==
  /\ WorkerIdle /\ phase = "new"
  /\ phase' = "open"
  /\ Issue(ReadCompletion(1), completions)
  /\ UNCHANGED <<observer, poller, callbacks, cancelled, worker, buffer, isFinishing,
                 callEnds, finishes>>

(* Mutation: a write is started although another one is under way.         *)
StartAnyWrite(waiting, isActive) == waiting # <<>>

(* TryStartWrite, with these buffered writes: the first one is under way   *)
(* from now on.                                                            *)
MayStartWrite(waiting, isActive) == waiting # <<>> /\ ~isActive

MaybeWrite(waiting, isActive, known) ==
  IF MayStartWrite(waiting, isActive)
  THEN /\ Issue(WriteCompletion, known)
       /\ sent' = Append(sent, Head(waiting))
       /\ queue' = Tail(waiting)
       /\ active' = TRUE
  ELSE /\ completions' = known
       /\ queue' = waiting /\ active' = isActive
       /\ UNCHANGED <<inGrpc, sent>>

Write ==
  /\ WorkerIdle /\ phase = "open"
  /\ written < MaxWrites
  /\ written' = written + 1
  /\ MaybeWrite(Append(queue, written + 1), active, completions)
  /\ UNCHANGED <<phase, observer, poller, callbacks, cancelled, worker, isFinishing,
                 callEnds, finishes>>

-----------------------------------------------------------------------------
(* Mutation: the call is not cancelled, only finished.                     *)
LeaveRunning == callEnds

TryCancel == TRUE

Cancel(known) == cancelled \cup known

(* The end of Shutdown: the observer releases the stream, told of the end  *)
(* by FinishAndNotify, or because it has asked for it.                     *)
Release ==
  /\ observer' = FALSE
  /\ phase' = "released"
  /\ worker' = "nothing"

(* Shutdown with the completions known: nothing to cancel, or cancel the   *)
(* call, finish it, and wait for all of them.                              *)
Shutdown(end, known) ==
  IF known = {}
  THEN /\ Release
       /\ completions' = {}
       /\ UNCHANGED <<inGrpc, cancelled, callEnds, finishes>>
  ELSE /\ Issue(FinishCompletion, known)
       /\ callEnds' = TryCancel
       /\ finishes' = finishes + 1
       /\ cancelled' = Cancel(known \cup {FinishCompletion})
       /\ worker' = end
       /\ UNCHANGED <<observer, phase>>

OffQueue == completions \cap inGrpc = {}

(* FastFinishCompletionsBlocking ends.                                     *)
ShutdownEnds ==
  /\ ~Aborted /\ worker \in {"notify", "stop"}
  /\ OffQueue
  /\ completions' = {}
  /\ Release
  /\ UNCHANGED <<inGrpc, poller, callbacks, cancelled, buffer, isFinishing, callEnds,
                 finishes>>

(* FinishImmediately: by the observer before it releases the stream.       *)
FinishImmediately ==
  /\ WorkerIdle /\ phase = "open"
  /\ Shutdown("stop", completions)
  /\ UNCHANGED <<poller, callbacks, buffer, isFinishing>>

(* FinishAndNotify: the network's connectivity has changed.                *)
ConnectivityChanged ==
  /\ WorkerIdle /\ phase = "open"
  /\ Shutdown("notify", completions)
  /\ UNCHANGED <<poller, callbacks, buffer, isFinishing>>

(* WriteAndFinish: a last write, unless one is under way, blocks the worker *)
(* queue for half a second at most.                                        *)
WriteAndFinish ==
  /\ WorkerIdle /\ phase = "open"
  /\ written' = written + 1
  /\ IF MayStartWrite(Append(queue, written + 1), active)
     THEN /\ MaybeWrite(Append(queue, written + 1), active, completions)
          /\ worker' = "lastWrite"
          /\ UNCHANGED <<observer, phase, cancelled, callEnds, finishes>>
     ELSE /\ Shutdown("stop", completions)
          /\ queue' = Append(queue, written + 1)
          /\ UNCHANGED <<active, sent>>
  /\ UNCHANGED <<poller, callbacks, isFinishing>>

(* The last write is off the queue, or the half second is over.            *)
LastWriteEnds ==
  /\ ~Aborted /\ worker = "lastWrite"
  /\ Shutdown("stop", completions)
  /\ UNCHANGED <<poller, callbacks, buffer, isFinishing>>

-----------------------------------------------------------------------------
Read(c, known) == Issue(ReadCompletion(c.number + 1), known)

(* OnRead: the next read comes before the observer is told.                *)
OnRead(c, known) ==
  /\ IF observer
     THEN Read(c, known)
     ELSE completions' = known /\ UNCHANGED inGrpc
  /\ UNCHANGED <<phase, observer, cancelled, worker, buffer, isFinishing, callEnds,
                 finishes>>

OnWrite(known) ==
  /\ IF observer
     THEN MaybeWrite(queue, FALSE, known)
     ELSE completions' = known /\ UNCHANGED <<inGrpc, queue, active, sent>>
  /\ UNCHANGED <<phase, observer, cancelled, worker, written, isFinishing, callEnds,
                 finishes>>

OnFinishedByServer(known) ==
  /\ Shutdown("notify", known)
  /\ UNCHANGED <<buffer, isFinishing>>

(* Mutation: each failed operation asks for the status.                    *)
NeverFinishing == FALSE

(* Mutation: the flag is set by whatever comes first.                      *)
AlwaysFinishing == TRUE

AlreadyFinishing == isFinishing

(* The first operation to fail asks for the status, which only an observer *)
(* wants; the others do nothing.                                           *)
OnOperationFailed(known) ==
  /\ isFinishing' = TRUE
  /\ UNCHANGED buffer
  /\ IF ~AlreadyFinishing /\ ~observer
     THEN Shutdown("stop", known)
     ELSE /\ IF AlreadyFinishing
             THEN completions' = known /\ UNCHANGED <<inGrpc, finishes>>
             ELSE Issue(FinishCompletion, known) /\ finishes' = finishes + 1
          /\ UNCHANGED <<phase, observer, cancelled, worker, callEnds>>

(* Mutation: a completion that has run is kept.                            *)
KeepCompletion(c) == completions

RemoveCompletion(c) == completions \ {c}

(* The worker queue runs a callback; a cancelled one does nothing.         *)
RunCallback ==
  /\ WorkerIdle /\ callbacks # <<>>
  /\ callbacks' = Tail(callbacks)
  /\ LET c == Head(callbacks).completion
         known == RemoveCompletion(c)
     IN \/ /\ c \in cancelled
           /\ UNCHANGED <<phase, observer, completions, inGrpc, cancelled, worker, buffer,
                          isFinishing, callEnds, finishes>>
        \/ /\ c \notin cancelled
           /\ \/ ~Head(callbacks).ok /\ OnOperationFailed(known)
              \/ Head(callbacks).ok /\ c.type = "read" /\ OnRead(c, known)
              \/ Head(callbacks).ok /\ c.type = "write" /\ OnWrite(known)
              \/ Head(callbacks).ok /\ c.type = "finish" /\ OnFinishedByServer(known)
  /\ UNCHANGED poller

-----------------------------------------------------------------------------
(* The connection breaks, or the server closes the call.                   *)
CallBreaks ==
  /\ phase = "open" /\ ~callEnds /\ ~Aborted
  /\ callEnds' = TRUE
  /\ UNCHANGED <<phase, observer, completions, inGrpc, poller, callbacks, cancelled,
                 worker, buffer, isFinishing, finishes>>

(* What gRPC may say of an operation: reads and writes succeed, and fail   *)
(* once the call is over; only then is there a status.                     *)
Outcomes(c) ==
  CASE c.type = "finish" -> IF callEnds THEN {TRUE} ELSE {}
    [] c.type = "read" -> (IF callEnds THEN {FALSE} ELSE {})
                          \cup (IF c.number <= MaxReads THEN {TRUE} ELSE {})
    [] c.type = "write" -> IF callEnds THEN {TRUE, FALSE} ELSE {TRUE}

OutcomeOf(c, ok) == [completion |-> c, ok |-> ok]

(* The poller takes a completion off gRPC's queue and fulfils its promise. *)
Complete(c) ==
  /\ poller = NoOne /\ ~Aborted
  /\ \E ok \in Outcomes(c) : poller' = OutcomeOf(c, ok)
  /\ inGrpc' = inGrpc \ {c}
  /\ UNCHANGED <<phase, observer, completions, callbacks, cancelled, worker, buffer,
                 isFinishing, callEnds, finishes>>

(* The poller puts the callback on the worker queue.                       *)
Enqueue ==
  /\ poller # NoOne /\ ~Aborted
  /\ callbacks' = Append(callbacks, poller)
  /\ poller' = NoOne
  /\ UNCHANGED <<phase, observer, completions, inGrpc, cancelled, worker, buffer,
                 isFinishing, callEnds, finishes>>

Next ==
  \/ Start \/ Write
  \/ FinishImmediately \/ WriteAndFinish \/ ConnectivityChanged
  \/ LastWriteEnds \/ ShutdownEnds
  \/ RunCallback
  \/ CallBreaks
  \/ \E c \in inGrpc : Complete(c)
  \/ Enqueue

Spec == Init /\ [][Next]_vars

(* The worker queue and the poller run, the half second passes, and gRPC   *)
(* gives everything back once a call is over.                              *)
Fairness ==
  /\ WF_vars(RunCallback) /\ WF_vars(ShutdownEnds) /\ WF_vars(LastWriteEnds)
  /\ WF_vars(Enqueue)
  /\ WF_vars(callEnds /\ \E c \in inGrpc : Complete(c))

FairSpec == Spec /\ Fairness

-----------------------------------------------------------------------------
Live(c) == c \notin cancelled

Underway == inGrpc \cup (IF poller = NoOne THEN {} ELSE {poller.completion})
                   \cup {callbacks[k].completion : k \in DOMAIN callbacks}

(* An open stream knows exactly the operations that can still call it     *)
(* back, so a callback always finds its completion.  When it is released,  *)
(* gRPC holds none of them, and no callback that would touch it is with    *)
(* the poller or on the worker queue, although some may be on their way.   *)
KnowsItsOperations ==
  /\ phase = "open" /\ ~Aborted /\ worker = "nothing" =>
       completions = {c \in Underway : Live(c)}
  /\ phase = "released" => inGrpc = {} /\ completions = {} /\ \A c \in Underway : ~Live(c)

(* gRPC has one write of a call at a time at most, and gets the messages   *)
(* in the order they were written, none skipped; an open stream listens    *)
(* with one read, until an operation has failed.                           *)
OneReadOneWrite ==
  /\ Cardinality({c \in inGrpc : c.type = "write"}) <= 1
  /\ \A k \in DOMAIN sent : sent[k] = k
  /\ \A k \in DOMAIN queue : queue[k] = Len(sent) + k
  /\ written = Len(sent) + Len(queue)
  /\ phase = "open" /\ observer /\ worker = "nothing" /\ ~isFinishing /\ ~Aborted =>
       Cardinality({c \in Underway : Live(c) /\ c.type = "read"}) = 1

(* Failed operations, however many there are, finish the call once; the    *)
(* second Finish of a call comes from Shutdown, which does not know of the *)
(* first.                                                                  *)
SecondFinishByShutdown == Aborted => isFinishing /\ worker # "nothing"

(* Shutting down never blocks the worker queue for good: the cancelled     *)
(* read comes back, and the poller does not need the worker queue for it.  *)
Unblocks == worker # "nothing" ~> worker = "nothing" \/ Aborted

(* When the call is over the observer releases the stream in the end.      *)
EndIsNoticed == phase = "open" /\ callEnds ~> phase = "released" \/ Aborted

=============================================================================
