------------------------------ MODULE WriteQueue ------------------------------
(***************************************************************************)
(* What the users' queues of writes are promised by the stream that        *)
(* empties them: the server handles a user's writes from the front, in     *)
(* order, perhaps more than once; the device hears of each write once, in  *)
(* order, and of what the server has made of it.  A refusal ends the       *)
(* server's turn.  When a stream is lost, so is what the server has        *)
(* handled on it without the device hearing of it.                         *)
(***************************************************************************)
EXTENDS Naturals, Sequences

CONSTANTS User, Batch

VARIABLES
  queue,        \* per user, writes the device has not heard of, in order
  handled,      \* what the server made of those at the front, on this stream
  acknowledged, rejected

vars == <<queue, handled, acknowledged, rejected>>

Init ==
  /\ queue = [u \in User |-> <<>>] /\ handled = [u \in User |-> <<>>]
  /\ acknowledged = {} /\ rejected = {}

Put(u, b) ==
  /\ queue' = [queue EXCEPT ![u] = Append(@, b)]
  /\ UNCHANGED <<handled, acknowledged, rejected>>

Handle(u, accepted) ==
  /\ Len(handled[u]) < Len(queue[u])
  /\ \A k \in DOMAIN handled[u] : handled[u][k].accepted
  /\ LET b == queue[u][Len(handled[u]) + 1]
     IN handled' = [handled EXCEPT ![u] = Append(@, [batch |-> b, accepted |-> accepted])]
  /\ UNCHANGED <<queue, acknowledged, rejected>>

Hear(u) ==
  /\ handled[u] # <<>>
  /\ LET b == Head(queue[u])
     IN /\ Head(handled[u]).batch = b
        /\ IF Head(handled[u]).accepted
           THEN acknowledged' = acknowledged \cup {b} /\ UNCHANGED rejected
           ELSE rejected' = rejected \cup {b} /\ UNCHANGED acknowledged
  /\ queue' = [queue EXCEPT ![u] = Tail(@)]
  /\ handled' = [handled EXCEPT ![u] = Tail(@)]

StreamLost(u) ==
  /\ handled' = [handled EXCEPT ![u] = <<>>]
  /\ UNCHANGED <<queue, acknowledged, rejected>>

Next == \E u \in User :
  \/ \E b \in Batch : Put(u, b)
  \/ \E accepted \in BOOLEAN : Handle(u, accepted)
  \/ Hear(u)
  \/ StreamLost(u)

Spec == Init /\ [][Next]_vars

=============================================================================
