-------------------------------- MODULE Feed --------------------------------
(***************************************************************************)
(* What a subscriber is promised: from the time it subscribed to the time  *)
(* it closed, every event offered to it is queued in the order of offers,  *)
(* or counted as lost when the queue is full; it takes them in that order, *)
(* and nothing is offered to it once it is closed.                         *)
(***************************************************************************)
EXTENDS Integers, Sequences

CONSTANTS
  Items,       \* what may be offered
  Capacity     \* the length of the queue, at least 1

VARIABLES
  phase,       \* "new", "open" or "closed"
  queue,       \* offered and not taken
  taken,       \* what the subscriber took
  lost         \* how many offers found the queue full

feed == <<phase, queue, taken, lost>>

Init == phase \in {"new", "open"} /\ queue = <<>> /\ taken = <<>> /\ lost = 0

Open == phase = "new" /\ phase' = "open" /\ UNCHANGED <<queue, taken, lost>>

Offer(item) ==
  /\ phase = "open"
  /\ IF Len(queue) < Capacity
     THEN queue' = Append(queue, item) /\ UNCHANGED lost
     ELSE lost' = lost + 1 /\ UNCHANGED queue
  /\ UNCHANGED <<phase, taken>>

Take ==
  /\ queue # <<>>
  /\ taken' = Append(taken, Head(queue))
  /\ queue' = Tail(queue)
  /\ UNCHANGED <<phase, lost>>

Close == phase = "open" /\ phase' = "closed" /\ UNCHANGED <<queue, taken, lost>>

Next == Open \/ Take \/ Close \/ \E item \in Items : Offer(item)

Spec == Init /\ [][Next]_feed
=============================================================================
