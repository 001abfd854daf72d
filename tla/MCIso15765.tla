----------------------------- MODULE MCIso15765 -----------------------------
(* Small instances of Iso15765.  The first two requests are filters for two
   senders, the second padded; the third has a broad mask, the fifth the
   answer of the second, the last extended addressing.  The first frames come
   from the two senders.  The consecutive frames carry the bytes that
   StartSession leaves where the search looks for the sender's id: bytes 3 to
   6 of the first frame, or, where it has no sixth, the last of its id. *)
EXTENDS Iso15765

Ask(pattern, mask, fc, ext, pad) ==
  [pattern |-> pattern, mask |-> mask, fc |-> fc, patternExt |-> ext,
   ext |-> ext, pad |-> pad]

SomeRequests ==
  {Ask(<<0, 9, 1, 2, 0>>, 1..4, <<0, 9, 8, 8, 0>>, FALSE, FALSE),
   Ask(<<0, 0, 3, 4, 0>>, 1..4, <<0, 0, 8, 9, 0>>, FALSE, TRUE),
   Ask(<<0, 9, 0, 0, 0>>, 1..2, <<0, 9, 3, 4, 0>>, FALSE, FALSE),
   Ask(<<1, 1, 1, 1, 0>>, 1..4, <<1, 1, 1, 2, 0>>, FALSE, FALSE),
   Ask(<<2, 1, 1, 1, 0>>, 1..4, <<0, 0, 8, 9, 0>>, FALSE, FALSE),
   Ask(<<0, 0, 3, 4, 7>>, 1..5, <<0, 0, 8, 9, 7>>, TRUE, FALSE)}

SomeFrames ==
  {<<0, 9, 1, 2, 16, 8, 7, 7, 7>>,      \* first frames
   <<0, 0, 3, 4, 16>>,
   <<1, 2, 16, 8, 33, 5>>,              \* consecutive frames
   <<1, 2, 16, 8, 34, 5, 5, 5>>,
   <<3, 4, 16, 4, 33>>,
   <<0, 9, 1, 2>>}                      \* a single frame without data

SomeMessages ==
  {[data |-> <<0, 9, 8, 8, 1>>, ext |-> FALSE, pad |-> TRUE],
   [data |-> <<0, 0, 8, 9, 7, 1, 1, 1, 1, 1, 1, 1, 1>>, ext |-> TRUE, pad |-> FALSE]}
=============================================================================
