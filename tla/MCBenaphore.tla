---------------------------- MODULE MCBenaphore ----------------------------
(* Instances of Benaphore for TLC: the driver's lock users are application *)
(* threads, the communication thread and one periodic handler per channel. *)
EXTENDS Benaphore

CONSTANTS app1, app2, comm, periodic1, periodic2

FiveThreads == {app1, app2, comm, periodic1, periodic2}
=============================================================================
