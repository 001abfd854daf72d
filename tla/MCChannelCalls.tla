--------------------------- MODULE MCChannelCalls ---------------------------
(* One channel of each protocol.  The third message is refused,
   the second taken by the interceptor; one batch is too long. *)
EXTENDS ChannelCalls, TLC

CONSTANTS c1, c2, c3

SomeKinds == c1 :> "CAN" @@ c2 :> "ISO15765" @@ c3 :> "ISO9141"
SomeBatches == {<<"m1", "m1">>, <<"m2", "m3">>, <<"m1", "m1", "m1">>}

On(param) == [param |-> param, value |-> 1]
SomeLists ==
  {<<On("LOOPBACK")>>, <<On("J1962_PINS"), On("TINIL"), On("LOOPBACK")>>}
=============================================================================
