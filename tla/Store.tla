-------------------------------- MODULE Store --------------------------------
(***************************************************************************)
(* What a key-value store promises about the writes given to it, told by   *)
(* their sequence numbers: a new write is newer than all there are; the    *)
(* end of the process takes none away, and perhaps adds the one under way; *)
(* a power failure takes away no write that was asked to be synced.        *)
(***************************************************************************)
EXTENDS Naturals

CONSTANT Write

VARIABLES
  contents,  \* the writes a reader finds, now or after the next start
  promised   \* those that were asked to be synced

vars == <<contents, promised>>

Init == contents = {} /\ promised = {}

Newest(w) == \A v \in contents : v < w

Commit(w) ==
  /\ Newest(w)
  /\ contents' = contents \cup {w}
  /\ promised' \in {promised, promised \cup {w}}

(* The write under way, if there is one.                                   *)
UnderWay == {{}} \cup {{w} : w \in {v \in Write : Newest(v)}}

ProcessEnds ==
  /\ \E new \in UnderWay : contents' = contents \cup new
  /\ UNCHANGED promised

PowerFails ==
  /\ \E new \in UnderWay : contents' \in SUBSET (contents \cup new)
  /\ promised \subseteq contents'
  /\ UNCHANGED promised

Next == (\E w \in Write : Commit(w)) \/ ProcessEnds \/ PowerFails

Spec == Init /\ [][Next]_vars
=============================================================================
