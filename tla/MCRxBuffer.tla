----------------------------- MODULE MCRxBuffer -----------------------------
(* Instances of RxBuffer for TLC: a ring of two or three slots that wraps   *)
(* and overflows, and readers that ask for less and for more than it holds. *)
EXTENDS RxBuffer

CONSTANTS app1, app2

OneApp == {app1}
TwoApps == {app1, app2}

SomeRequests == 0..3
ManyRequests == 0..4
=============================================================================
