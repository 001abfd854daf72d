--------------------------- MODULE MCSerialReceive ---------------------------
(* Small instances of SerialReceive: two messages, one of them with a time
   stamp and a line feed, a message whose length is no digit, and a line
   that exceeds the buffer. *)
EXTENDS SerialReceive

Short == [x29 |-> FALSE, data |-> <<0, 0, 7, 161, 27>>]
Long == [x29 |-> TRUE, data |-> <<24, 0, 255, 1>>]

SomeLines ==
  {[text |-> Format(Short) \o <<CR>>, msgs |-> <<Short>>],
   [text |-> Format(Long) \o <<49, 50, 51, 52, LF, CR>>, msgs |-> <<Long>>],
   [text |-> <<116, 48, 48, 48, 120, CR>>, msgs |-> <<>>],
   [text |-> [k \in 1..15 |-> 120] \o <<CR>>, msgs |-> <<>>]}
=============================================================================
