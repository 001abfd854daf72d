---------------------------- MODULE ChannelCalls ----------------------------
(***************************************************************************)
(* Writing on the channels, their parameters, and the error of the last    *)
(* call (WriteMsgs, DoWriteMsg, SetDatarate and IOCTL of Protocol.cpp with *)
(* the overrides of the protocols, Send of Arduino.cpp, the end of         *)
(* Sardine.cpp).                                                           *)
(*                                                                         *)
(* A channel has two threads: the application thread that calls it, and    *)
(* the thread that sends its periodic messages.  All write through Send,   *)
(* which holds write_lock from WriteFile until the outcome has been read   *)
(* from the one OVERLAPPED record of the library.  The port may take a     *)
(* line whole, refuse it or cut it; a line after a cut one reaches the     *)
(* adapter as its continuation and means nothing.                          *)
(*                                                                         *)
(* What a message holds is in modules Usbcan and Iso15765; here it is one  *)
(* that WriteMsg refuses, one the interceptor takes, or neither.  The      *)
(* lines are far below the 256 characters Send refuses.                    *)
(***************************************************************************)
EXTENDS Integers, Sequences, FiniteSets

CONSTANTS
  Channels,
  Kind,               \* Kind[c]: the protocol of channel c
  Messages,
  Refused,            \* messages that WriteMsg refuses (size, no filter)
  Intercepted,        \* messages that match the interceptor
  Batches,            \* message arrays the application may write
  ParamLists,         \* parameter lists of SET_CONFIG and GET_CONFIG
  MAX_J2534_MESSAGES, \* 10 in the code
  MaxCalls            \* bound: calls and periodic messages in a behaviour

Commands == {"C", "S4", "O"}

ASSUME CallsAssumption ==
  /\ Kind \in [Channels -> {"CAN", "ISO15765", "ISO9141"}]
  /\ Messages \cap Commands = {}
  /\ Refused \subseteq Messages /\ Intercepted \subseteq Messages \ Refused
  /\ Batches \subseteq Seq(Messages) \ {<<>>}
  /\ \A list \in ParamLists : list \in Seq([param : STRING, value : Nat])
  /\ MAX_J2534_MESSAGES \in Nat /\ MaxCalls \in Nat

Threads == Channels \X {"app", "timer"}
App(c) == <<c, "app">>
NoThread == <<>>

VARIABLES
  isConnected,
  opened,             \* channels that PassThruConnect has entered
  config,             \* the parameters a handler stores
  pc,                 \* where each thread is
  todo,               \* the lines it still has to write
  write_lock,         \* its holder
  port,               \* writes the port has not finished
  overlap,            \* write_overlap: the outcome, or "pending"
  adapter,            \* the adapter: open, rate, half a line received
  last_error, last_error_msg,
  call,               \* history: the last WriteMsgs of each channel
  disturbed,          \* history: some write was refused or cut
  calls               \* counter for the bound

line == <<write_lock, port, overlap, adapter, disturbed>>
errors == <<last_error, last_error_msg>>
vars == <<isConnected, opened, config, pc, todo, line, errors, call, calls>>

Stored == {"LOOPBACK", "J1962_PINS", "ISO15765_BS", "ISO15765_STMIN", "CAN_MIXED_FORMAT"}

NoCall == [batch |-> <<>>, delivered |-> <<>>, copies |-> <<>>, echo |-> FALSE,
           result |-> "NOERROR"]

\* Another program may have left the adapter open, at any rate.
Init ==
  /\ isConnected = FALSE /\ opened = {}
  /\ config = [c \in Channels |-> [p \in Stored |-> 0]]
  /\ pc = [t \in Threads |-> "idle"] /\ todo = [t \in Threads |-> <<>>]
  /\ write_lock = NoThread /\ port = <<>> /\ overlap = "none"
  /\ adapter \in [open : BOOLEAN, rate : {"S4", "S6"}, half : {FALSE}]
  /\ last_error = "NOERROR" /\ last_error_msg = ""
  /\ call = [c \in Channels |-> NoCall]
  /\ disturbed = FALSE /\ calls = 0

-----------------------------------------------------------------------------
(* Calls, up to what they write.                                           *)

Begin(t, lines) ==
  /\ pc' = [pc EXCEPT ![t] = "next"] /\ todo' = [todo EXCEPT ![t] = lines]

Idle(t) ==
  /\ pc' = [pc EXCEPT ![t] = "idle"] /\ todo' = [todo EXCEPT ![t] = <<>>]

Called(t) == pc[t] = "idle" /\ calls < MaxCalls /\ calls' = calls + 1

\* OpenDevice has succeeded, see CommThread; a failing PassThruOpen leaves
\* the text of the communication thread.
DeviceOpened ==
  /\ ~isConnected /\ isConnected' = TRUE
  /\ UNCHANGED <<opened, config, pc, todo, line, errors, call, calls>>

PassThruOpenFails ==
  /\ ~isConnected
  /\ last_error' = "ERR_FAILED" /\ last_error_msg' = "comm_error"
  /\ UNCHANGED <<isConnected, opened, config, pc, todo, line, call, calls>>

\* SetDatarate at the default rate; the outcomes of its Sends are ignored.
SetDatarateWithoutClose == <<"S4", "O">>

SetDatarate == <<"C", "S4", "O">>

Connect(c) ==
  /\ Called(App(c)) /\ isConnected /\ c \notin opened
  /\ Begin(App(c), IF Kind[c] = "ISO9141" THEN <<>> ELSE SetDatarate)
  /\ config' = [config EXCEPT ![c] = [p \in Stored |-> 0]]
  /\ call' = [call EXCEPT ![c] = NoCall]
  /\ UNCHANGED <<isConnected, opened, line, errors>>

Disconnect(c) ==
  /\ Called(App(c)) /\ c \in opened
  /\ opened' = opened \ {c} /\ last_error' = "NOERROR"
  /\ UNCHANGED <<isConnected, config, pc, todo, line, last_error_msg, call>>

WriteMsgs(c, batch) ==
  /\ Called(App(c)) /\ c \in opened
  /\ LET refusal == IF ~isConnected THEN "ERR_DEVICE_NOT_CONNECTED"
                    ELSE IF Len(batch) > MAX_J2534_MESSAGES THEN "ERR_EXCEEDED_LIMIT"
                    ELSE "NOERROR"
     IN  /\ call' = [call EXCEPT ![c] =
                       [NoCall EXCEPT !.batch = batch, !.result = refusal,
                                      !.echo = config[c]["LOOPBACK"] = 1]]
         /\ IF refusal = "NOERROR"
              THEN Begin(App(c), batch) /\ UNCHANGED last_error
              ELSE last_error' = refusal /\ UNCHANGED <<pc, todo>>
  /\ UNCHANGED <<isConnected, opened, config, line, last_error_msg>>

\* A timer of the channel goes off: SendPeriodicMsg.
SendPeriodicMsg(c, m) ==
  /\ Called(<<c, "timer">>) /\ c \in opened /\ isConnected
  /\ Begin(<<c, "timer">>, <<m>>)
  /\ UNCHANGED <<isConnected, opened, config, line, errors, call>>

-----------------------------------------------------------------------------
(* WriteMsg, DoWriteMsg and Send.                                          *)

At(t, place) == pc[t] = place /\ todo[t] # <<>>

Delivered(t, m) ==
  call' = IF t[2] = "app" /\ m \in Messages
            THEN [call EXCEPT ![t[1]].delivered = Append(@, m)]
            ELSE call

\* Of a periodic message the result is dropped.
Fail(t, code) ==
  /\ Idle(t)
  /\ IF t[2] = "app"
       THEN /\ call' = [call EXCEPT ![t[1]].result = code]
            /\ last_error' = code
       ELSE UNCHANGED <<call, last_error>>

RefuseMsg(t) ==
  /\ At(t, "next") /\ Kind[t[1]] # "ISO9141" /\ Head(todo[t]) \in Refused
  /\ Fail(t, "ERR_INVALID_MSG")
  /\ UNCHANGED <<isConnected, opened, config, line, last_error_msg, calls>>

\* ISO 9141 sends nothing, nor does the interceptor, which puts the related
\* messages into the receive buffer.
WriteNothing(t) ==
  /\ At(t, "next") /\ Head(todo[t]) \in Messages
  /\ Kind[t[1]] = "ISO9141" \/ Head(todo[t]) \in Intercepted
  /\ Delivered(t, Head(todo[t]))
  /\ pc' = [pc EXCEPT ![t] = "written"]
  /\ UNCHANGED <<isConnected, opened, config, todo, line, errors, calls>>

\* Send, to WriteFile.
SendUnlocked(t) ==
  /\ At(t, "next")
  /\ \/ Head(todo[t]) \in Commands
     \/ Kind[t[1]] # "ISO9141" /\ Head(todo[t]) \notin Refused \cup Intercepted
  /\ port' = Append(port, <<t, Head(todo[t])>>) /\ overlap' = "pending"
  /\ pc' = [pc EXCEPT ![t] = "sending"]
  /\ UNCHANGED <<isConnected, opened, config, todo, write_lock, adapter, disturbed,
                 errors, call, calls>>

Send(t) ==
  /\ At(t, "next")
  /\ \/ Head(todo[t]) \in Commands
     \/ Kind[t[1]] # "ISO9141" /\ Head(todo[t]) \notin Refused \cup Intercepted
  /\ write_lock = NoThread /\ write_lock' = t
  /\ port' = Append(port, <<t, Head(todo[t])>>) /\ overlap' = "pending"
  /\ pc' = [pc EXCEPT ![t] = "sending"]
  /\ UNCHANGED <<isConnected, opened, config, todo, adapter, disturbed, errors, call, calls>>

\* The adapter takes a line: it opens and closes its CAN channel, and changes
\* the rate only while this is closed.
Obey(a, cmd) ==
  CASE a.half -> [a EXCEPT !.half = FALSE]
    [] cmd = "C" -> [a EXCEPT !.open = FALSE]
    [] cmd = "O" -> [a EXCEPT !.open = TRUE]
    [] cmd = "S4" /\ ~a.open -> [a EXCEPT !.rate = "S4"]
    [] OTHER -> a

PortFinishes(outcome) ==
  /\ port # <<>> /\ port' = Tail(port)
  /\ overlap' = outcome
  /\ disturbed' = (disturbed \/ outcome # "whole")
  /\ LET written == Head(port)
     IN  IF outcome = "whole"
           THEN adapter' = Obey(adapter, written[2]) /\ Delivered(written[1], written[2])
           ELSE /\ adapter' = [adapter EXCEPT !.half = @ \/ outcome = "cut"]
                /\ UNCHANGED call
  /\ UNCHANGED <<isConnected, opened, config, pc, todo, write_lock, errors, calls>>

\* Send, from the outcome on.
Sent(t) ==
  /\ pc[t] = "sending" /\ overlap # "pending"
  /\ write_lock' = NoThread
  /\ IF overlap = "whole" \/ Head(todo[t]) \in Commands
       THEN pc' = [pc EXCEPT ![t] = "written"] /\ UNCHANGED <<todo, call, last_error>>
       ELSE Fail(t, "ERR_FAILED")
  /\ UNCHANGED <<isConnected, opened, config, port, overlap, adapter, disturbed,
                 last_error_msg, calls>>

\* The loop of WriteMsgs after a WriteMsg: AddLoopbackMsg, if IsLoopback.
Written(t) ==
  /\ At(t, "written")
  /\ call' = IF t[2] = "app" /\ Head(todo[t]) \in Messages /\ config[t[1]]["LOOPBACK"] = 1
               THEN [call EXCEPT ![t[1]].copies = Append(@, Head(todo[t]))]
               ELSE call
  /\ todo' = [todo EXCEPT ![t] = Tail(@)]
  /\ pc' = [pc EXCEPT ![t] = "next"]
  /\ UNCHANGED <<isConnected, opened, config, line, errors, calls>>

\* Nothing is left: the call returns; PassThruConnect enters its channel.
Finish(t) ==
  /\ pc[t] = "next" /\ todo[t] = <<>>
  /\ Idle(t)
  /\ IF t[2] = "app"
       THEN opened' = opened \cup {t[1]} /\ last_error' = "NOERROR"
       ELSE UNCHANGED <<opened, last_error>>
  /\ UNCHANGED <<isConnected, config, line, last_error_msg, call, calls>>

-----------------------------------------------------------------------------
(* Parameters and the last error.                                          *)

BaseParams == {"DATA_RATE", "LOOPBACK", "J1962_PINS"}
CanParams == BaseParams \cup {"BIT_SAMPLE_POINT", "SYNC_JUMP_WIDTH"}
Iso15765Params == {"ISO15765_BS", "ISO15765_STMIN", "CAN_MIXED_FORMAT"}
Iso9141Params ==
  {"P1_MIN", "P1_MAX", "P2_MIN", "P2_MAX", "P3_MIN", "P3_MAX", "P4_MIN", "P4_MAX",
   "W0", "W1", "W2", "W3", "W4", "W5", "TIDLE", "TINIL", "TWUP", "PARITY"}

Readable(kind) ==
  CASE kind = "CAN" -> CanParams
    [] kind = "ISO15765" -> CanParams \cup Iso15765Params
    [] kind = "ISO9141" -> BaseParams \cup Iso9141Params

Writable(kind) ==
  Readable(kind) \cup (IF kind = "ISO9141" THEN {"FIVE_BAUD_MOD", "DATA_BITS"} ELSE {})

\* What the getter and the setter of a protocol store.  GetIOCTLParam of the
\* base class sets the pins; the setter of ISO 15765 hands what it does not
\* know to that getter, so it does not reach LOOPBACK.
StoredByGet == {"J1962_PINS"}

StoredBySet(kind) ==
  IF kind = "ISO15765" THEN Iso15765Params \cup StoredByGet
                       ELSE {"LOOPBACK", "J1962_PINS"}

\* A list is worked off up to its first parameter that is not known.
Handled(list, known) ==
  {i \in DOMAIN list : \A j \in 1..i : list[j].param \in known}

Apply(cfg, list, known, stores) ==
  [p \in Stored |->
     LET hits == {i \in Handled(list, known) : list[i].param = p}
     IN  IF p \notin stores \/ hits = {} THEN cfg[p]
         ELSE list[CHOOSE i \in hits : \A j \in hits : j <= i].value]

Config(c, list, known, stores) ==
  /\ Called(App(c)) /\ c \in opened
  /\ config' = [config EXCEPT ![c] = Apply(@, list, known, stores)]
  /\ last_error' = IF Handled(list, known) = DOMAIN list THEN "NOERROR"
                                                         ELSE "ERR_NOT_SUPPORTED"
  /\ UNCHANGED <<isConnected, opened, pc, todo, line, last_error_msg, call>>

SetConfig(c, list) == Config(c, list, Writable(Kind[c]), StoredBySet(Kind[c]))

GetConfig(c, list) == Config(c, list, Readable(Kind[c]), StoredByGet)

\* The other IOCTLs: those that clear something (in modules RxBuffer,
\* PeriodicMessages, Iso15765), and those the handler does not know, for
\* which it returns an error number of Windows.  READ_VBATT,
\* READ_PROG_VOLTAGE and unknown ids leave last_error alone.
Ioctl(c, code) ==
  /\ Called(App(c)) /\ c \in opened
  /\ last_error' = code
  /\ UNCHANGED <<isConnected, opened, config, pc, todo, line, last_error_msg, call>>

\* PassThruGetLastError has no text for that number.
GetLastError ==
  /\ last_error = "ERROR_NOT_SUPPORTED"
  /\ last_error_msg' = "Internal_Sardine_Error"
  /\ UNCHANGED <<isConnected, opened, config, pc, todo, line, last_error, call, calls>>

Next ==
  \/ DeviceOpened \/ PassThruOpenFails \/ GetLastError
  \/ \E c \in Channels :
       \/ Connect(c) \/ Disconnect(c)
       \/ \E batch \in Batches : WriteMsgs(c, batch)
       \/ \E m \in Messages : SendPeriodicMsg(c, m)
       \/ \E list \in ParamLists : SetConfig(c, list) \/ GetConfig(c, list)
       \/ \E code \in {"NOERROR", "ERROR_NOT_SUPPORTED"} : Ioctl(c, code)
  \/ \E t \in Threads : RefuseMsg(t) \/ WriteNothing(t) \/ Send(t) \/ Sent(t)
                        \/ Written(t) \/ Finish(t)
  \/ \E outcome \in {"whole", "cut", "refused"} : PortFinishes(outcome)

Spec == Init /\ [][Next]_vars

-----------------------------------------------------------------------------
\* When PassThruWriteMsgs has returned, what it reports is what was delivered:
\* what the port took whole, and the messages of ISO 9141 and those the
\* interceptor takes, which count although nothing is written for them.
\* Success means all messages, an error a proper prefix of them; and with
\* loopback on the receive buffer has got a copy of exactly these, in their
\* order.  The other threads that write, fail and are cut in between do not
\* blur it, since write_lock covers the outcome as well as the write.
ReportsMatchTheWire ==
  \A c \in Channels :
    LET done == call[c]
    IN  pc[App(c)] = "idle" =>
          /\ done.delivered = SubSeq(done.batch, 1, Len(done.delivered))
          /\ done.result = "NOERROR" <=> Len(done.delivered) = Len(done.batch)
          /\ done.copies = IF done.echo THEN done.delivered ELSE <<>>

\* As long as no write failed, the adapter is open at the channel's rate once
\* PassThruConnect has returned and no other is under way: SetDatarate works
\* whatever state the adapter was in, and two of them may interleave.
AdapterFollowsConnect ==
  /\ ~disturbed
  /\ \A t \in Threads : \A i \in DOMAIN todo[t] : todo[t][i] \notin Commands
  /\ \E c \in opened : Kind[c] # "ISO9141"
  => adapter = [open |-> TRUE, rate |-> "S4", half |-> FALSE]

\* Sardine.cpp:48, "valid if last_error==ERR_FAILED".
ErrorTextIsValid == last_error = "ERR_FAILED" => last_error_msg # ""
=============================================================================
