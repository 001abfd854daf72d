------------------------------ MODULE Iso15765 ------------------------------
(***************************************************************************)
(* Flow control filters and multi-frame sessions of an ISO 15765 channel   *)
(* (ProtocolISO15765.cpp).                                                 *)
(*                                                                         *)
(* The application thread starts and stops filters and writes; the         *)
(* communication thread handles the frames that arrive.  The array         *)
(* `filters` is shared with no lock: the communication thread looks for a  *)
(* matching filter, and reads the filter again when it builds the flow     *)
(* control message, while the application may be shifting the array.       *)
(*                                                                         *)
(* A frame is the sequence of its Data bytes; Data[i] of the code is       *)
(* d[i + 1] here.  DataSize is 4 more than what the hexadecimal digit of   *)
(* the line says, or 3 if that is no digit; bytes behind it are 0.  The    *)
(* mask of a filter is the set of bytes it keeps.                          *)
(* Frames that arrive never carry ISO15765_EXT_ADDR: the parser sets no    *)
(* flag but CAN_29BIT_ID, so the branches of HandleMsg, StartSession and   *)
(* HandleConsecutiveFrame for extended addresses are never taken.          *)
(*                                                                         *)
(* Where the code reads or writes what is not its own the model records a  *)
(* fault and stops: nothing is promised after it.                          *)
(***************************************************************************)
EXTENDS Integers, Sequences, FiniteSetsExt

CONSTANTS
  MAX_FLOW_FILTERS,   \* slots of filters (10 in the code)
  MAX_FC_SESSIONS,    \* slots of sessions (16 in the code)
  Requests,           \* filters the application may ask for
  Frames,             \* frames that may arrive
  Messages,           \* messages the application may write
  MaxFilters,         \* bound: flow filters started in a behaviour
  MaxFrames           \* bound: frames received in a behaviour

Bytes == 0..255

ASSUME IsoAssumption ==
  /\ MAX_FLOW_FILTERS \in Nat \ {0, 1} /\ MAX_FC_SESSIONS \in Nat
  /\ MaxFilters \in Nat /\ MaxFrames \in Nat
  /\ Requests \subseteq [pattern : [1..5 -> Bytes], mask : SUBSET (1..5),
                         fc : [1..5 -> Bytes], patternExt : BOOLEAN,
                         ext : BOOLEAN, pad : BOOLEAN]
  /\ \A f \in Frames : f \in Seq(Bytes) /\ Len(f) \in 3..19
  /\ \A m \in Messages : /\ m.data \in Seq(Bytes)
                         /\ Len(m.data) >= (IF m.ext THEN 5 ELSE 4)
                         /\ m.ext \in BOOLEAN /\ m.pad \in BOOLEAN

VARIABLES
  filters,          \* slot -> filter, or Unset before it is first written
  filtersnum,
  runningFilterId,  \* _running_filter_id
  apc,              \* where the application thread is
  slot,             \* the slot it works on
  started,          \* history: the filters started and not stopped
  sessions,         \* the first sessionsnum slots of the array
  heap,             \* contents of the messages allocated by StartSession
  firsts,           \* their first frames: what is left of a header, and history
  cpc,              \* where the communication thread is
  frame,            \* the first frame it is handling
  filteridx,
  frames,           \* number of frames received
  sent,             \* history: the last message the adapter took, if any
  assembled,        \* history: the messages put into the receive buffer
  fault             \* "none", or what was overrun or misused

app == <<filters, filtersnum, runningFilterId, apc, slot, started>>
comm == <<sessions, heap, firsts, cpc, frame, filteridx, frames, assembled>>
vars == <<app, comm, sent, fault>>

Unset == [id |-> -1, len |-> 4]
NULL == 0
Slots == 0..(MAX_FLOW_FILTERS - 1)

Init ==
  /\ filters = [s \in Slots |-> Unset]
  /\ filtersnum = 0 /\ runningFilterId = 0
  /\ apc = "idle" /\ slot = 0 /\ started = {}
  /\ sessions = <<>> /\ heap = <<>> /\ firsts = <<>>
  /\ cpc = "idle" /\ frame = <<>> /\ filteridx = -1 /\ frames = 0
  /\ sent = {} /\ assembled = <<>>
  /\ fault = "none"

-----------------------------------------------------------------------------
(* Matching.                                                               *)

Masked(d, f, j) == IF j \in f.mask THEN d[j] ELSE 0

Matches(d, f, field) ==
  \A j \in 1..(IF f.ext THEN 5 ELSE 4) : Masked(d, f, j) = f[field][j]

\* The search ends at the first filter of the other kind of addressing,
\* which yields `false`, or that matches, which yields `true`: as an index,
\* 0 or 1.  It yields -1 when it meets neither.
GetMatchingFilter(d, ext, field) ==
  LET ends == {i \in 0..(filtersnum - 1) :
                 filters[i].ext # ext \/ Matches(d, filters[i], field)}
  IN  IF ends = {} THEN -1 ELSE IF filters[Min(ends)].ext # ext THEN 0 ELSE 1

DoesMatchFilter(d, ext, field) == GetMatchingFilter(d, ext, field) # -1

-----------------------------------------------------------------------------
(* The application thread.                                                 *)

\* Neither of the two addresses is known to a filter yet.
UniquePatternOnly(q) ==
  \A field \in {"pattern", "fc"} : ~DoesMatchFilter(q.pattern, q.patternExt, field)

Unique(q) ==
  \A field \in {"pattern", "fc"} :
    /\ ~DoesMatchFilter(q.pattern, q.patternExt, field)
    /\ ~DoesMatchFilter(q.fc, q.ext, field)

NewFilter(q, id) ==
  [pattern |-> q.pattern, mask |-> q.mask, fc |-> q.fc, ext |-> q.ext,
   len |-> IF q.pad THEN 12 ELSE IF q.ext THEN 5 ELSE 4, id |-> id]

\* StartMsgFilter and CreateFilter, to the last write of the slot; any
\* refusal (protocol id, sizes, ERR_NOT_UNIQUE) changes nothing.
StartMsgFilter(q) ==
  /\ apc = "idle" /\ runningFilterId < MaxFilters
  /\ Unique(q)
  /\ IF filtersnum \in Slots
       THEN /\ filters' = [filters EXCEPT ![filtersnum] = NewFilter(q, runningFilterId)]
            /\ runningFilterId' = runningFilterId + 1
            /\ apc' = "publish"
            /\ UNCHANGED fault
       ELSE /\ fault' = "filters_overrun"
            /\ UNCHANGED <<filters, runningFilterId, apc>>
  /\ UNCHANGED <<filtersnum, slot, started, comm, sent>>

\* filtersnum++
Publish ==
  /\ apc = "publish"
  /\ filtersnum' = filtersnum + 1
  /\ started' = started \cup {filters[filtersnum]}
  /\ apc' = "idle"
  /\ UNCHANGED <<filters, runningFilterId, slot, comm, sent, fault>>

\* StopMsgFilter: the slot is found; an unknown id changes nothing.
StopMsgFilter(i) ==
  /\ apc = "idle" /\ i < filtersnum
  /\ apc' = "shift" /\ slot' = i
  /\ started' = {f \in started : f.id # filters[i].id}
  /\ UNCHANGED <<filters, filtersnum, runningFilterId, comm, sent, fault>>

\* Its loop, one slot at a time, and filtersnum--.
LastSlotNotMoved == filtersnum - 2

LastSlot == filtersnum - 1

Shift ==
  /\ apc = "shift" /\ slot < LastSlot
  /\ filters' = [filters EXCEPT ![slot] = filters[slot + 1]]
  /\ slot' = slot + 1
  /\ UNCHANGED <<filtersnum, runningFilterId, apc, started, comm, sent, fault>>

CountDown ==
  /\ apc = "shift" /\ slot >= LastSlot
  /\ filtersnum' = filtersnum - 1
  /\ apc' = "idle" /\ slot' = 0
  /\ UNCHANGED <<filters, runningFilterId, started, comm, sent, fault>>

DeleteFilters ==
  /\ apc = "idle"
  /\ filtersnum' = 0 /\ started' = {}
  /\ UNCHANGED <<filters, runningFilterId, apc, slot, comm, sent, fault>>

\* WriteMsg; the adapter may refuse the message, then nothing changes.
PaddedLen(m) == IF m.pad /\ Len(m.data) < 12 THEN 12 ELSE Len(m.data)

WriteMsg(m) ==
  /\ apc = "idle"
  /\ DoesMatchFilter(m.data, m.ext, "fc")
  /\ Len(m.data) <= 12
  /\ sent' = {[fc |-> FALSE, filter |-> Unset, frame |-> <<>>, len |-> PaddedLen(m)]}
  /\ UNCHANGED <<app, comm, fault>>

-----------------------------------------------------------------------------
(* The communication thread.                                               *)

PCI(d) == IF Len(d) < 5 THEN 0 ELSE d[5] \div 16

Receive(d, pci) ==
  /\ cpc = "idle" /\ frames < MaxFrames
  /\ PCI(d) \in pci
  /\ frames' = frames + 1

\* A first frame: HandleMsg looks for its filter; without one the frame goes
\* to the receive buffer as it is, like a single frame.
FirstFrame(d) ==
  /\ Receive(d, {1})
  /\ filteridx' = GetMatchingFilter(d, FALSE, "pattern")
  /\ IF filteridx' = -1
       THEN UNCHANGED <<cpc, frame>>
       ELSE cpc' = "answer" /\ frame' = d
  /\ UNCHANGED <<app, sessions, heap, firsts, assembled, sent, fault>>

\* StartSession: the loop that copies the header has an `i` of its own, so
\* the length is taken from Data[0] and Data[1] and what follows them
\* overwrites the header.
Expected(d) == (d[1] % 16) * 256 + d[2]

Session(d) ==
  [msg |-> Len(heap) + 1, payloadLen |-> Len(d) - 2,
   expected_length |-> Expected(d)]

StartSession ==
  IF Len(sessions) < MAX_FC_SESSIONS
    THEN /\ sessions' = Append(sessions, Session(frame))
         /\ heap' = Append(heap, SubSeq(frame, 3, Len(frame)))
         /\ firsts' = Append(firsts, frame)
         /\ UNCHANGED fault
    ELSE /\ fault' = "sessions_overrun"
         /\ UNCHANGED <<sessions, heap, firsts>>

Return == cpc' = "idle" /\ frame' = <<>> /\ filteridx' = -1

\* GenerateFlowControlMsg and what HandleMsg does with its result.  A padded
\* filter yields 13 bytes, which CProtocolCAN::WriteMsg refuses; so may the
\* adapter.  A slot never written holds anything, its length included.
FlowControlSent ==
  /\ cpc = "answer"
  /\ filters[filteridx].len + 1 <= 12
  /\ sent' = {[fc |-> TRUE, filter |-> filters[filteridx], frame |-> frame,
                         len |-> filters[filteridx].len + 1]}
  /\ StartSession
  /\ Return
  /\ UNCHANGED <<app, frames, assembled>>

FlowControlRefused ==
  /\ cpc = "answer"
  /\ Return
  /\ UNCHANGED <<app, sessions, heap, firsts, frames, assembled, sent, fault>>

FlowControlFromGarbage ==
  /\ cpc = "answer" /\ filters[filteridx] = Unset
  /\ fault' = "length_never_set"
  /\ UNCHANGED <<app, comm, sent>>

\* GetSessionByMsg: the first session with the sender's id, or one whose msg
\* is NULL, which it dereferences.  A first frame of 5 bytes has overwritten
\* three of the four bytes that are compared.
Header(msg) == SubSeq(Append(heap[msg], firsts[msg][4]), 1, 4)

SessionsFor(d) ==
  {i \in DOMAIN sessions : \/ sessions[i].msg = NULL
                           \/ Header(sessions[i].msg) = SubSeq(d, 1, 4)}

\* HandleConsecutiveFrame: how many bytes are copied.
RemainingBytes(s) == s.expected_length - s.payloadLen

CopiesAll(d, s) == Len(d) - 5

Copies(d, s) == Min({Len(d) - 5, RemainingBytes(s)})

\* DeleteSession: the sessions behind it move down and are not counted down.
Deleted(ss, i) ==
  [j \in DOMAIN ss |-> IF j >= i /\ j < Len(ss) THEN ss[j + 1] ELSE ss[j]]

Assemble(d, i) ==
  LET s == sessions[i]
      n == Copies(d, s)
      grown == [s EXCEPT !.payloadLen = @ + Max({n, 0})]
  IN  /\ heap' = [heap EXCEPT ![s.msg] = @ \o SubSeq(d, 1, n)]
      /\ IF RemainingBytes(s) <= Len(d) - 5
           THEN /\ assembled' = Append(assembled, s.msg)
                /\ sessions' = Deleted([sessions EXCEPT ![i] = [grown EXCEPT !.msg = NULL]], i)
           ELSE /\ sessions' = [sessions EXCEPT ![i] = grown]
                /\ UNCHANGED assembled

ConsecutiveFrame(d) ==
  /\ Receive(d, {2})
  /\ LET found == SessionsFor(d)
         s == sessions[Min(found)]
     IN  IF found = {}
           THEN UNCHANGED <<sessions, heap, assembled, fault>>
         ELSE IF s.msg = NULL \/ \E k \in DOMAIN assembled : assembled[k] = s.msg
           THEN /\ fault' = IF s.msg = NULL THEN "no_message" ELSE "message_given_away"
                /\ UNCHANGED <<sessions, heap, assembled>>
         ELSE Assemble(d, Min(found)) /\ UNCHANGED fault
  /\ UNCHANGED <<app, firsts, cpc, frame, filteridx, sent>>

\* Single frames and unknown types go to the receive buffer, flow control
\* frames of other hosts are ignored.
OtherFrame(d) ==
  /\ Receive(d, 0..15 \ {1, 2})
  /\ UNCHANGED <<app, sessions, heap, firsts, cpc, frame, filteridx, assembled, sent,
                 fault>>

Next ==
  /\ fault = "none"
  /\ \/ \E q \in Requests : StartMsgFilter(q)
     \/ Publish
     \/ \E i \in Slots : StopMsgFilter(i)
     \/ Shift \/ CountDown \/ DeleteFilters
     \/ \E m \in Messages : WriteMsg(m)
     \/ \E d \in Frames : FirstFrame(d) \/ ConsecutiveFrame(d) \/ OtherFrame(d)
     \/ FlowControlSent \/ FlowControlRefused \/ FlowControlFromGarbage

Spec == Init /\ [][Next]_vars

-----------------------------------------------------------------------------
\* Between two calls the array holds the filters that were started and not
\* stopped, each once, in the order they were started, which is that of their
\* ids: CreateFilter, the shifting of StopMsgFilter and DeleteFilters keep the
\* array, its count and the ids in step with each other.
FiltersAreThoseStarted ==
  apc = "idle" =>
    /\ started = {filters[k] : k \in 0..(filtersnum - 1)}
    /\ \A j, k \in 0..(filtersnum - 1) : j < k => filters[j].id < filters[k].id

\* No filter takes the frames or the answers of one that was started after
\* it, and all use one kind of addressing: the four checks of StartMsgFilter
\* (ERR_NOT_UNIQUE) are enough, whatever was stopped in between.
FiltersApart ==
  \A f, g \in started : f.id < g.id =>
    /\ f.ext = g.ext
    /\ \A field \in {"pattern", "fc"} :
         ~Matches(g.pattern, f, field) /\ ~Matches(g.fc, f, field)

\* A message put together from several frames has exactly the length its own
\* first frame made the code expect, or that of the first frame's bytes when
\* these are more: whatever frames of other senders come in between, and
\* however entries are moved and left behind, the last frame is cut to what
\* remains.  What the code expects is not what the frame announces: see
\* AssembledToAnnouncedLength.
AssembledToExpectedLength ==
  \A k \in DOMAIN assembled :
    LET first == firsts[assembled[k]]
    IN  Len(heap[assembled[k]]) = Max({Expected(first), Len(first) - 2})

\* ProtocolISO15765.cpp:194, "total msg chunk length = low nibble of PCI1 (MSB
\* part) + second PCI2 (LSB part)": an assembled message has the length that
\* its first frame announces, with or without the four bytes of its header.
Announced(d) == (d[5] % 16) * 256 + (IF Len(d) > 5 THEN d[6] ELSE 0)

AssembledToAnnouncedLength ==
  \A k \in DOMAIN assembled :
    LET announced == Announced(firsts[assembled[k]])
    IN  Len(heap[assembled[k]]) \in {announced, announced + 4}

\* ProtocolISO15765.h:75, "Then a flow control message is sent to the
\* sender": every flow control message is that of a filter which the first
\* frame matches.
FlowControlGoesToTheSender ==
  \A x \in sent : x.fc /\ x.filter # Unset => Matches(x.frame, x.filter, "pattern")
=============================================================================
