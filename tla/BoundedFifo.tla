----------------------------- MODULE BoundedFifo -----------------------------
(***************************************************************************)
(* What a channel's receive buffer promises: a queue of at most Capacity   *)
(* messages, handed out in the order they came in.  A message that comes   *)
(* while the queue is full displaces the oldest one, which is lost; the    *)
(* queue may be emptied at once, and nothing is handed out twice.          *)
(***************************************************************************)
EXTENDS Integers, Sequences

CONSTANTS Capacity, Messages

VARIABLES
  queue,       \* messages kept, oldest first
  delivered,   \* messages handed out so far, in order
  lost         \* messages displaced by newer ones

vars == <<queue, delivered, lost>>

Init ==
  /\ queue = <<>>
  /\ delivered = <<>>
  /\ lost = {}

Put(m) ==
  /\ Len(queue) < Capacity
  /\ queue' = Append(queue, m)
  /\ UNCHANGED <<delivered, lost>>

Displace(m) ==
  /\ Len(queue) = Capacity
  /\ queue' = Append(Tail(queue), m)
  /\ lost' = lost \cup {Head(queue)}
  /\ UNCHANGED delivered

Take ==
  /\ queue # <<>>
  /\ queue' = Tail(queue)
  /\ delivered' = Append(delivered, Head(queue))
  /\ UNCHANGED lost

Clear ==
  /\ queue' = <<>>
  /\ UNCHANGED <<delivered, lost>>

Next ==
  \/ \E m \in Messages : Put(m) \/ Displace(m)
  \/ Take
  \/ Clear

Spec == Init /\ [][Next]_vars
=============================================================================
