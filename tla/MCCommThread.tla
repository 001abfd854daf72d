---------------------------- MODULE MCCommThread ----------------------------
(* Small instances of CommThread. *)
EXTENDS CommThread

CONSTANTS app1, app2

TwoApps == {app1, app2}
OneApp == {app1}
DeviceNames == {"known", "unknown"}
KnownNames == {"known"}
=============================================================================
