----------------------------- MODULE MCChannels -----------------------------
(* Small instances of Channels. *)
EXTENDS Channels, TLC

CONSTANTS app1, app2, CAN, ISO15765, J1850VPW, h1, h2, h3, h4

OneApp == {app1}
TwoApps == {app1, app2}
CANs == {CAN, ISO15765}
J1850s == {J1850VPW}
NoProtocol == {}
ThreeAddresses == {h1, h2, h3}
FourAddresses == {h1, h2, h3, h4}
Symmetry == Permutations(Handlers) \cup Permutations(Apps)
=============================================================================
