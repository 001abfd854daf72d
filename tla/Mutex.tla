-------------------------------- MODULE Mutex --------------------------------
(***************************************************************************)
(* What a user of class Benaphore relies on: a lock that threads ask for,  *)
(* hold one at a time and leave.  No counter and no semaphore: Benaphore   *)
(* is shown to implement this specification, and every other module of the *)
(* project treats the code between Lock() and Unlock() of one lock as one  *)
(* step because of it.                                                     *)
(***************************************************************************)
CONSTANT Threads

VARIABLE phase      \* phase[t]: what thread t is doing with the lock

Init == phase = [t \in Threads |-> "idle"]

Free == \A t \in Threads : phase[t] # "holding"

\* t finds the lock taken and queues for it.
Request(t) ==
  /\ phase[t] = "idle"
  /\ phase' = [phase EXCEPT ![t] = "wanting"]

\* t gets the lock, at once or after queueing.
Enter(t) ==
  /\ phase[t] \in {"idle", "wanting"}
  /\ Free
  /\ phase' = [phase EXCEPT ![t] = "holding"]

Leave(t) ==
  /\ phase[t] = "holding"
  /\ phase' = [phase EXCEPT ![t] = "idle"]

Next == \E t \in Threads : Request(t) \/ Enter(t) \/ Leave(t)

Spec == Init /\ [][Next]_phase
=============================================================================
