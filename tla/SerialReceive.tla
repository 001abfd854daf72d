---------------------------- MODULE SerialReceive ----------------------------
(***************************************************************************)
(* The receive path of the serial line (Arduino.cpp, from HandleCommEvent  *)
(* to MsgReceived) down to the CAN message it yields (module Usbcan).      *)
(*                                                                         *)
(* The adapter sends lines, and the communication thread finds them cut    *)
(* anywhere: it asks how many bytes wait, reads at most a buffer of them,  *)
(* and moves these into collectionbuf, from where each completed line goes *)
(* to the listeners.  The event that wakes the thread is module            *)
(* CommThread's: one that comes while it works is kept.                    *)
(***************************************************************************)
EXTENDS Usbcan

CONSTANTS
  MAX_COLLECTION_BUF_SIZE,  \* 1024 in the code
  MAX_READ_BUF_SIZE,        \* 256 in the code
  Lines,                    \* what the adapter may send: [text, msgs]
  MaxLines                  \* bound: lines sent in a behaviour

ASSUME SerialAssumption ==
  /\ MAX_COLLECTION_BUF_SIZE \in Nat \ {0} /\ MAX_READ_BUF_SIZE \in Nat \ {0}
  /\ MaxLines \in Nat
  /\ \A l \in Lines : l.text \in Seq(0..255) /\ l.text # <<>>

VARIABLES
  incoming,       \* bytes the adapter has sent and the port has not received
  cbInQue,        \* bytes in the buffer of the port
  event,          \* the port has signaled arrivals not yet looked at
  cpc,            \* where the communication thread is
  asked,          \* how many bytes HandleCommEvent found
  buffer,         \* the piece that was read
  i,              \* how many bytes of it are handled
  collectionbuf,
  rx,             \* history: messages the CAN channel accepted
  consumed,       \* history: all bytes taken from the port
  lines,          \* history: lines given to the listeners
  sent,           \* history: the messages in what the adapter has sent
  linesSent,      \* history: how many lines that were
  overrun,        \* history: a full buffer cost collectionbuf its contents
  leftBehind      \* history: a read left bytes that HandleCommEvent had found

port == <<incoming, cbInQue, event>>
heard == <<collectionbuf, rx, lines>>
said == <<sent, linesSent>>
vars == <<port, cpc, asked, buffer, i, heard, consumed, said, overrun, leftBehind>>

Init ==
  /\ incoming = <<>> /\ cbInQue = <<>> /\ event = FALSE
  /\ cpc = "wait" /\ asked = 0 /\ buffer = <<>> /\ i = 0
  /\ collectionbuf = <<>>
  /\ rx = <<>> /\ consumed = <<>> /\ lines = <<>> /\ sent = <<>> /\ linesSent = 0
  /\ overrun = FALSE /\ leftBehind = FALSE

-----------------------------------------------------------------------------
(* The adapter and the port.                                               *)

Send(l) ==
  /\ linesSent < MaxLines /\ incoming = <<>>
  /\ sent' = sent \o l.msgs /\ linesSent' = linesSent + 1
  /\ incoming' = l.text
  /\ UNCHANGED <<cbInQue, event, cpc, asked, buffer, i, heard, consumed, overrun, leftBehind>>

Arrive ==
  /\ incoming # <<>>
  /\ cbInQue' = Append(cbInQue, Head(incoming))
  /\ incoming' = Tail(incoming)
  /\ event' = TRUE
  /\ UNCHANGED <<cpc, asked, buffer, i, heard, consumed, said, overrun, leftBehind>>

-----------------------------------------------------------------------------
(* The communication thread.                                               *)

\* HandleCommEvent
HandleCommEvent ==
  /\ cpc = "wait" /\ event
  /\ event' = FALSE
  /\ asked' = Len(cbInQue)
  /\ cpc' = IF cbInQue = <<>> THEN "wait" ELSE "read"
  /\ UNCHANGED <<incoming, cbInQue, buffer, i, heard, consumed, said, overrun, leftBehind>>

\* BlockingRead: at most one buffer.  ReadFileEx returns nonzero when it
\* succeeds, which ends the loop whatever is left.
\* ReadRequestCompleted then writes a zero behind the bytes: when they fill
\* the buffer, either nothing is hurt, or it is cbufi, which is declared next,
\* that becomes 0.
BytesToRead == IF asked > MAX_READ_BUF_SIZE THEN MAX_READ_BUF_SIZE ELSE asked

BlockingRead ==
  /\ cpc = "read"
  /\ buffer' = SubSeq(cbInQue, 1, BytesToRead)
  /\ cbInQue' = SubSeq(cbInQue, BytesToRead + 1, Len(cbInQue))
  /\ consumed' = consumed \o buffer'
  /\ leftBehind' = (leftBehind \/ BytesToRead < asked)
  /\ \/ UNCHANGED <<overrun, collectionbuf>>
     \/ /\ BytesToRead = MAX_READ_BUF_SIZE
        /\ overrun' = TRUE /\ collectionbuf' = <<>>
  /\ i' = 0 /\ cpc' = "collect"
  /\ UNCHANGED <<incoming, event, asked, rx, lines, said>>

\* The character the code reads as buffer[i]: a zero behind the bytes.
NUL == 0
Char == IF i < Len(buffer) THEN buffer[i + 1] ELSE NUL

\* The inner loop of ReadRequestCompleted, a byte at a time.
InLine ==
  Len(collectionbuf) < MAX_COLLECTION_BUF_SIZE /\ i < Len(buffer) /\ Char # CR

Collect ==
  /\ cpc = "collect" /\ InLine
  /\ collectionbuf' = IF Char = LF THEN collectionbuf ELSE Append(collectionbuf, Char)
  /\ i' = i + 1
  /\ UNCHANGED <<port, cpc, asked, buffer, rx, lines, consumed, said, overrun, leftBehind>>

\* The messages the CAN channel takes from a line.
Messages(line) == IF Accepted(line) THEN <<Parse(line)>> ELSE <<>>

LineCompleteAtTheEnd == Char = CR \/ i = Len(buffer)

LineComplete == Char = CR \/ Len(collectionbuf) = MAX_COLLECTION_BUF_SIZE

\* The rest of a turn of the outer loop: MsgReceived gets the line, if it is
\* complete and not empty.
EndLine ==
  /\ cpc = "collect" /\ ~InLine
  /\ IF LineComplete /\ collectionbuf # <<>>
       THEN /\ lines' = Append(lines, collectionbuf)
            /\ rx' = rx \o Messages(collectionbuf)
            /\ collectionbuf' = <<>>
       ELSE UNCHANGED heard
  /\ i' = IF Char \in {CR, LF} THEN i + 1 ELSE i
  /\ cpc' = IF i' < Len(buffer) THEN "collect" ELSE "done"
  /\ UNCHANGED <<port, asked, buffer, consumed, said, overrun, leftBehind>>

EndReadForgetsEvent ==
  /\ cpc = "done"
  /\ cpc' = "wait" /\ buffer' = <<>> /\ i' = 0
  /\ event' = FALSE
  /\ UNCHANGED <<incoming, cbInQue, asked, heard, consumed, said, overrun, leftBehind>>

EndRead ==
  /\ cpc = "done"
  /\ cpc' = "wait" /\ buffer' = <<>> /\ i' = 0
  /\ UNCHANGED <<port, asked, heard, consumed, said, overrun, leftBehind>>

Comm == HandleCommEvent \/ BlockingRead \/ Collect \/ EndLine \/ EndRead

\* Nothing is promised once cbufi has been overwritten.
Next ==
  /\ ~overrun
  /\ Comm \/ Arrive \/ \E l \in Lines : Send(l)

\* The communication thread runs when it can, and bytes sent arrive.
Spec == Init /\ [][Next]_vars
FairSpec == Spec /\ WF_vars(~overrun /\ Comm) /\ WF_vars(~overrun /\ Arrive)

-----------------------------------------------------------------------------
\* The reference, one byte at a time: what a carriage return ends or what has
\* the largest size is a line; line feeds and empty lines do not count.
FrameByte(so, c) ==
  LET part == IF c \in {CR, LF} THEN so.part ELSE Append(so.part, c)
      ends == c = CR \/ Len(part) = MAX_COLLECTION_BUF_SIZE
  IN  IF ends /\ part # <<>>
        THEN [lines |-> Append(so.lines, part), msgs |-> so.msgs \o Messages(part), part |-> <<>>]
        ELSE [lines |-> so.lines, msgs |-> so.msgs, part |-> part]

Framed(bytes) ==
  LET framed[n \in 0..Len(bytes)] ==
        IF n = 0 THEN [lines |-> <<>>, msgs |-> <<>>, part |-> <<>>]
                 ELSE FrameByte(framed[n - 1], bytes[n])
  IN  framed[Len(bytes)]

\* Between two reads, the lines given to the listeners and the messages in them
\* are those of the bytes received, and the unfinished line waits in
\* collectionbuf, however the bytes were cut into reads and wherever a line
\* reaches the largest size.
LinesDoNotDependOnReads ==
  cpc = "wait" =>
    [lines |-> lines, msgs |-> rx, part |-> collectionbuf] = Framed(consumed)

\* The channel receives the messages whose lines were sent, in order, and no
\* others, and has received them all when all that was sent has been read:
\* DoParseUSBCANMsg and HandleMsg undo, byte for byte, what DoWriteMsg writes,
\* with or without a time stamp or line feeds, and refuse the other lines.
MessagesArriveAsSent ==
  /\ Len(rx) <= Len(sent) /\ rx = SubSeq(sent, 1, Len(rx))
  /\ cpc = "wait" /\ incoming = <<>> /\ cbInQue = <<>> => rx = sent

\* Whatever reaches the port is read, without waiting for more traffic, unless
\* a read left some because they did not fit the buffer, or overran it:
\* nothing signals those again.
EveryByteIsRead == cbInQue # <<>> ~> (cbInQue = <<>> \/ leftBehind \/ overrun)
=============================================================================
