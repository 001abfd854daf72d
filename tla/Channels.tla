------------------------------ MODULE Channels ------------------------------
(***************************************************************************)
(* The life of a channel: the table of open channels and the channel ids   *)
(* (Sardine/Sardine.cpp), the table of listeners (Sardine/Arduino.cpp),    *)
(* and the protocol handlers both tables point to.                         *)
(*                                                                         *)
(* Application threads connect, use and disconnect channels.  channel_lock *)
(* and listener_lock make single accesses of the tables atomic (module     *)
(* Benaphore), but a PassThru call takes them one after the other, uses    *)
(* the channel it found after it has left the lock, and increments the id  *)
(* counter under no lock.  The communication thread walks the table of     *)
(* listeners under no lock at all, so that the entries a removal moves,    *)
(* one by one, are steps of their own.                                     *)
(*                                                                         *)
(* A handler is the address of its object: a freed address may be returned *)
(* by a later new.  A PassThru call with an unknown id, a protocol that is *)
(* in use or one the DLL does not know only returns an error code: it is   *)
(* no step.  The device stays connected (Comm::IsConnected).               *)
(***************************************************************************)
EXTENDS Integers, Sequences, FiniteSets

CONSTANTS
  Apps,             \* application threads
  Protocols,        \* protocols whose handler can connect (6 in the code)
  Unsupported,      \* protocols whose handler refuses to connect (J1850VPW)
  ThreadMayFail,    \* whether the thread of a handler may fail to be created
  Handlers,         \* addresses new returns; bounds the handlers alive at once
  NoHandler,        \* content of a listener slot that was never written
  MAX_CHANNELS,     \* 8 in the code
  MAX_LISTENERS,    \* 8 in the code
  MaxIds            \* bound: no connect starts when the counter is here

ASSUME ChannelsAssumption ==
  /\ Protocols # {} /\ Protocols \cap Unsupported = {}
  /\ ThreadMayFail \in BOOLEAN
  /\ NoHandler \notin Handlers
  /\ MAX_CHANNELS \in Nat \ {0}
  /\ MAX_LISTENERS \in Nat \ {0}
  /\ MaxIds \in Nat

VARIABLES
  channels,            \* channels[0 .. channelcount - 1], as a sequence
  channel_id_counter,
  listeners,           \* slot -> data pointer of the listener
  listeners_count,
  alive,               \* addresses that hold a handler
  listening,           \* handlers with listening set
  issued,              \* history: ids of the channels that were ever opened
  closed,              \* history: ids of the channels that were deleted
  overlapped,          \* history: a call began while another one was going on
  inOrder,             \* history: the application closes the oldest first
  born,                \* history: while it does, the handlers alive, oldest first
  pc,                  \* where each application thread is
  ch,                  \* the channel the thread works on
  pos,                 \* the slot its RemoveListener is at
  walk,                \* whether the communication thread is in MsgReceived
  i,                   \* its index
  target,              \* the listener it is calling, or NoHandler
  called,              \* history: listeners this message was given to
  arrived,             \* history: the table when it arrived, as a sequence
  removals             \* history: removals since, or under way at that time

tables == <<channels, channel_id_counter, listeners, listeners_count>>
objects == <<alive, listening>>
calls == <<pc, ch, pos>>
delivery == <<walk, i, target, called, arrived, removals>>
history == <<issued, closed, overlapped, inOrder, born>>
vars == <<tables, objects, history, calls, delivery>>

Slots == 0..(MAX_LISTENERS - 1)
Channel == [id : Nat, protocol : Protocols \cup Unsupported,
            handler : Handlers \cup {NoHandler}]
NewChannel(p) == [id |-> 0, protocol |-> p, handler |-> NoHandler]

\* The content of a local variable that is not in use.
NoChannel == NewChannel(CHOOSE p \in Protocols : TRUE)

ChannelIds == {channels[k].id : k \in 1..Len(channels)}
OpenProtocols == {channels[k].protocol : k \in 1..Len(channels)}
OpenHandlers == {channels[k].handler : k \in 1..Len(channels)}
Registered == {listeners[s] : s \in {t \in Slots : t < listeners_count}}

\* The first entry of the table with this id.
IndexOf(id) ==
  CHOOSE k \in 1..Len(channels) :
    /\ channels[k].id = id
    /\ \A j \in 1..(k - 1) : channels[j].id # id

\* The table with entry k taken out and those after it moved down.
Without(k) ==
  [j \in 1..(Len(channels) - 1) |-> channels[IF j < k THEN j ELSE j + 1]]

\* A call of thread a begins.
BeginCall(a) == overlapped' = (overlapped \/ \E b \in Apps \ {a} : pc[b] # "idle")

Goto(a, label) == pc' = [pc EXCEPT ![a] = label]

Return(a) ==
  /\ Goto(a, "idle")
  /\ ch' = [ch EXCEPT ![a] = NoChannel]
  /\ pos' = [pos EXCEPT ![a] = 0]

\* A removal holds channel_lock and listener_lock.
Removing == {a \in Apps : pc[a] = "remove"}
LocksFree == Removing = {}

Init ==
  /\ channels = <<>>
  /\ channel_id_counter = 0
  /\ listeners = [s \in Slots |-> NoHandler]
  /\ listeners_count = 0
  /\ alive = {} /\ listening = {}
  /\ issued = {} /\ closed = {} /\ overlapped = FALSE
  /\ inOrder = TRUE /\ born = <<>>
  /\ pc = [a \in Apps |-> "idle"]
  /\ ch = [a \in Apps |-> NoChannel]
  /\ pos = [a \in Apps |-> 0]
  /\ walk = "idle" /\ i = 0
  /\ target = NoHandler
  /\ called = {} /\ arrived = <<>> /\ removals = 0

-----------------------------------------------------------------------------
(* PassThruConnect.                                                        *)

\* GetchannelByProtocolId found no channel, and the struct is made.
ConnectUnchecked(a, p) ==
  /\ pc[a] = "idle" /\ LocksFree
  /\ channel_id_counter < MaxIds
  /\ ch' = [ch EXCEPT ![a] = NewChannel(p)]
  /\ Goto(a, "create")
  /\ BeginCall(a)
  /\ UNCHANGED <<tables, objects, issued, closed, inOrder, born, pos, delivery>>

Connect(a, p) ==
  /\ pc[a] = "idle" /\ LocksFree
  /\ channel_id_counter < MaxIds
  /\ p \notin OpenProtocols
  /\ ch' = [ch EXCEPT ![a] = NewChannel(p)]
  /\ Goto(a, "create")
  /\ BeginCall(a)
  /\ UNCHANGED <<tables, objects, issued, closed, inOrder, born, pos, delivery>>

\* RegisterListener.  A full table returns -1, which the constructor ignores.
RegisterUnbounded(h) ==
  /\ listeners' = [listeners EXCEPT ![listeners_count] = h]
  /\ listeners_count' = listeners_count + 1

RegisterOneLess(h) ==
  IF listeners_count < MAX_LISTENERS - 1
  THEN /\ listeners' = [listeners EXCEPT ![listeners_count] = h]
       /\ listeners_count' = listeners_count + 1
  ELSE UNCHANGED <<listeners, listeners_count>>

RegisterListener(h) ==
  IF listeners_count < MAX_LISTENERS
  THEN /\ listeners' = [listeners EXCEPT ![listeners_count] = h]
       /\ listeners_count' = listeners_count + 1
  ELSE UNCHANGED <<listeners, listeners_count>>

\* new CProtocol...(ProtocolID): the constructor registers the listener.
CreateHandler(a, h) ==
  /\ pc[a] = "create" /\ LocksFree
  /\ h \in Handlers \ alive
  /\ alive' = alive \cup {h}
  /\ listening' = listening \ {h}
  /\ RegisterListener(h)
  /\ inOrder' = (inOrder /\ Len(born) < MAX_LISTENERS)
  /\ born' = IF inOrder' THEN Append(born, h) ELSE <<>>
  /\ ch' = [ch EXCEPT ![a].handler = h]
  /\ Goto(a, "load")
  /\ UNCHANGED <<channels, channel_id_counter, issued, closed, overlapped, pos, delivery>>

\* channel_id_counter++ under no lock: a load, a store, and a load again for
\* ch->channelId (part of ConnectHandler).
RecycleCounter(a) ==
  /\ pc[a] = "load"
  /\ ch' = [ch EXCEPT ![a].id = Len(channels)]
  /\ Goto(a, "store")
  /\ UNCHANGED <<tables, objects, history, pos, delivery>>

LoadCounter(a) ==
  /\ pc[a] = "load"
  /\ ch' = [ch EXCEPT ![a].id = channel_id_counter]
  /\ Goto(a, "store")
  /\ UNCHANGED <<tables, objects, history, pos, delivery>>

StoreCounter(a) ==
  /\ pc[a] = "store"
  /\ channel_id_counter' = ch[a].id + 1
  /\ Goto(a, "connect")
  /\ UNCHANGED <<channels, listeners, listeners_count, objects, history, ch, pos,
                 delivery>>

\* handler->Connect succeeds: the handler listens.
ConnectHandler(a) ==
  /\ pc[a] = "connect"
  /\ ch[a].protocol \in Protocols
  /\ ch' = [ch EXCEPT ![a].id = channel_id_counter]
  /\ listening' = listening \cup {ch[a].handler}
  /\ Goto(a, "add")
  /\ UNCHANGED <<tables, alive, history, pos, delivery>>

\* handler->Connect fails: the channel is freed, its handler is not, and stays
\* registered.
ConnectFails(a) ==
  /\ pc[a] = "connect"
  /\ ch[a].protocol \in Unsupported \/ ThreadMayFail
  /\ Return(a)
  /\ UNCHANGED <<tables, objects, history, delivery>>

\* AddChannel, with room in the table.
AddChannel(a) ==
  /\ pc[a] = "add" /\ LocksFree
  /\ Len(channels) < MAX_CHANNELS
  /\ channels' = Append(channels, ch[a])
  /\ issued' = issued \cup {ch[a].id}
  /\ Return(a)
  /\ UNCHANGED <<channel_id_counter, listeners, listeners_count, objects,
                 closed, overlapped, inOrder, born, delivery>>

\* AddChannel returns -1: as in ConnectFails, but the handler listens.
TooManyChannels(a) ==
  /\ pc[a] = "add" /\ LocksFree
  /\ Len(channels) >= MAX_CHANNELS
  /\ Return(a)
  /\ UNCHANGED <<tables, objects, history, delivery>>

-----------------------------------------------------------------------------
(* Every other PassThru call on a channel, and PassThruDisconnect.         *)

\* GetChannelByChannelId: the pointer outlives the lock.
FindChannel(a, id) ==
  /\ pc[a] = "idle" /\ LocksFree
  /\ id \in ChannelIds
  /\ ch' = [ch EXCEPT ![a] = channels[IndexOf(id)]]
  /\ Goto(a, "found")
  /\ BeginCall(a)
  /\ UNCHANGED <<tables, objects, issued, closed, inOrder, born, pos, delivery>>

\* ch->handler->ReadMsgs, WriteMsgs, IOCTL, StartMsgFilter, ...
UseHandler(a) ==
  /\ pc[a] = "found"
  /\ Return(a)
  /\ UNCHANGED <<tables, objects, history, delivery>>

\* ch->handler->Disconnect stops the periodic messages; it goes on listening.
DisconnectHandler(a) ==
  /\ pc[a] = "found"
  /\ Goto(a, "delete")
  /\ UNCHANGED <<tables, objects, history, ch, pos, delivery>>

\* DeleteChannel finds no such channel any more.
AlreadyDeleted(a) ==
  /\ pc[a] = "delete" /\ LocksFree
  /\ ch[a].id \notin ChannelIds
  /\ Return(a)
  /\ UNCHANGED <<tables, objects, history, delivery>>

\* DeleteChannel searches again, and the destructor calls RemoveListener.
\* It looks for the first entry with the callback ArduinoListener, which every
\* entry has: the entry in slot 0, whosever it is.
DeleteChannel(a) ==
  /\ pc[a] = "delete" /\ LocksFree
  /\ ch[a].id \in ChannelIds
  /\ ch' = [ch EXCEPT ![a] = channels[IndexOf(ch[a].id)]]
  /\ pos' = [pos EXCEPT ![a] = 0]
  /\ Goto(a, "remove")
  /\ inOrder' = (inOrder /\ ch'[a].handler = born[1])
  /\ born' = IF inOrder' THEN born ELSE <<>>
  /\ removals' = IF walk = "walking" THEN removals + 1 ELSE removals
  /\ UNCHANGED <<tables, objects, issued, closed, overlapped, walk, i, target, called,
                 arrived>>

\* One turn of the loop that moves the entries after it one lower.
ShiftListener(a) ==
  /\ pc[a] = "remove"
  /\ pos[a] < listeners_count - 1
  /\ listeners' = [listeners EXCEPT ![pos[a]] = listeners[pos[a] + 1]]
  /\ pos' = [pos EXCEPT ![a] = @ + 1]
  /\ UNCHANGED <<channels, channel_id_counter, listeners_count, objects, history,
                 pc, ch, delivery>>

\* The end of RemoveListener, the destructor and DeleteChannel.
Deleted(a) ==
  /\ pc[a] = "remove"
  /\ pos[a] >= listeners_count - 1
  /\ alive' = alive \ {ch[a].handler}
  /\ listening' = listening \ {ch[a].handler}
  /\ closed' = closed \cup {ch[a].id}
  /\ born' = IF inOrder THEN SubSeq(born, 2, Len(born)) ELSE <<>>
  /\ Return(a)
  /\ UNCHANGED <<channel_id_counter, listeners, issued, overlapped, inOrder, delivery>>

DeleteKeepsEntry(a) ==
  /\ Deleted(a)
  /\ listeners_count' = listeners_count - 1
  /\ channels' = SubSeq(channels, 1, Len(channels) - 1)

DeleteKeepsCount(a) ==
  /\ Deleted(a)
  /\ channels' = Without(IndexOf(ch[a].id))
  /\ UNCHANGED listeners_count

EndDelete(a) ==
  /\ Deleted(a)
  /\ listeners_count' = listeners_count - 1
  /\ channels' = Without(IndexOf(ch[a].id))

-----------------------------------------------------------------------------
(* MsgReceived, in the communication thread.                               *)

Arrives(first) ==
  /\ walk = "idle"
  /\ walk' = "walking"
  /\ i' = first
  /\ called' = {}
  /\ arrived' = [k \in 1..listeners_count |-> listeners[k - 1]]
  /\ removals' = IF LocksFree THEN 0 ELSE 1
  /\ UNCHANGED <<tables, objects, history, calls, target>>

ArrivesAtOne == Arrives(1)

MsgArrives == Arrives(0)

\* Take the next entry.
NextListener ==
  /\ walk = "walking" /\ target = NoHandler
  /\ i < listeners_count
  /\ target' = listeners[i]
  /\ UNCHANGED <<tables, objects, history, calls, walk, i, called, arrived, removals>>

\* Call it, and i++.
CallListener ==
  /\ walk = "walking" /\ target # NoHandler
  /\ called' = called \cup {target}
  /\ target' = NoHandler
  /\ i' = i + 1
  /\ UNCHANGED <<tables, objects, history, calls, walk, arrived, removals>>

WalkEnds == walk = "walking" /\ target = NoHandler /\ i >= listeners_count

MsgDone ==
  /\ WalkEnds
  /\ walk' = "idle"
  /\ i' = 0 /\ called' = {} /\ arrived' = <<>> /\ removals' = 0
  /\ UNCHANGED <<tables, objects, history, calls, target>>

MsgReceived == MsgArrives \/ NextListener \/ CallListener \/ MsgDone

AppStep(a) ==
  \/ \E p \in Protocols \cup Unsupported : Connect(a, p)
  \/ \E h \in Handlers : CreateHandler(a, h)
  \/ LoadCounter(a) \/ StoreCounter(a)
  \/ ConnectHandler(a) \/ ConnectFails(a)
  \/ AddChannel(a) \/ TooManyChannels(a)
  \/ \E id \in 1..(MaxIds + Cardinality(Apps)) : FindChannel(a, id)
  \/ UseHandler(a) \/ DisconnectHandler(a)
  \/ AlreadyDeleted(a) \/ DeleteChannel(a) \/ ShiftListener(a) \/ EndDelete(a)

Next == (\E a \in Apps : AppStep(a)) \/ MsgReceived

Spec == Init /\ [][Next]_vars

\* The application threads alone: no message arrives.
AppSpec == Init /\ [][\E a \in Apps : AppStep(a)]_vars

-----------------------------------------------------------------------------
(* Properties.                                                             *)

Labels == {"idle", "create", "load", "store", "connect", "add", "found",
           "delete", "remove"}

\* Every variable has its type.
TypeOK ==
  /\ channels \in Seq(Channel) /\ Len(channels) <= MAX_CHANNELS
  /\ channel_id_counter \in Nat
  /\ listeners \in [Slots -> Handlers \cup {NoHandler}]
  /\ listeners_count \in Int /\ listeners_count <= MAX_LISTENERS
  /\ alive \subseteq Handlers /\ listening \subseteq alive
  /\ issued \subseteq Nat /\ closed \subseteq Nat /\ overlapped \in BOOLEAN
  /\ inOrder \in BOOLEAN /\ born \in Seq(Handlers)
  /\ pc \in [Apps -> Labels]
  /\ ch \in [Apps -> Channel]
  /\ pos \in [Apps -> Nat]
  /\ walk \in {"idle", "walking"} /\ i \in Nat
  /\ target \in Handlers \cup {NoHandler}
  /\ called \subseteq Handlers
  /\ arrived \in Seq(Handlers \cup {NoHandler}) /\ removals \in Nat

\* Every open channel has a handler of its own, which exists and listens: no
\* interleaving of connects, failed connects and disconnects frees the handler
\* of a channel that stays in the table, or gives one handler to two channels.
ChannelsHaveHandlers ==
  /\ OpenHandlers \subseteq listening
  /\ \A j, k \in 1..Len(channels) :
       channels[j].handler = channels[k].handler => j = k

\* An application whose calls never overlapped, from whichever threads, may
\* count on more.
Serial(P) == ~overlapped => P

\* "There can be only one channel by protocol in use": the check at the start
\* of PassThruConnect still holds when AddChannel enters the channel.
OneChannelPerProtocol ==
  \A j, k \in 1..Len(channels) :
    channels[j].protocol = channels[k].protocol => j = k

\* With calls that do not overlap, no protocol has two channels, whatever
\* connects and disconnects succeeded or failed before.
SerialOneChannelPerProtocol == Serial(OneChannelPerProtocol)

\* "Counter for unique channels (only increments)": with calls that do not
\* overlap, the id a thread is about to enter was never the id of a channel,
\* open or closed.
SerialIdsAreUnique ==
  Serial(\A a \in Apps : pc[a] = "add" => ch[a].id \notin issued)

\* A call that found its channel uses, or disconnects, the handler of an open
\* channel, which exists and listens, however other threads connect and
\* disconnect between its lookup and its use: it can lose the handler only to
\* a disconnect of the id it is a call on.
CallsKeepTheirHandlers ==
  \A a \in Apps :
    pc[a] \in {"found", "delete"} /\ ch[a].id \notin closed =>
      ch[a].handler \in OpenHandlers \cap listening

\* Although a handler that found the table full was never registered, and one
\* whose connect failed stays registered for ever, removals never take more
\* entries than there are: every open channel is matched by an entry (with
\* calls that do not overlap, and as many listeners as protocols).
SerialEntriesCoverChannels == Serial(listeners_count >= Len(channels))

\* As long as an application closes the oldest channel first, failed connects
\* counted, and no more handlers exist than the table has room for, it does
\* not notice that RemoveListener takes the entry in slot 0 whosever it is.  At
\* every step, those of a removal included, every open channel but the one that
\* is being closed is in the table, and every entry is a handler that exists.
OrderedClosesKeepListeners ==
  inOrder =>
    /\ OpenHandlers \ {ch[a].handler : a \in Removing} \subseteq Registered
    /\ Registered \subseteq alive

\* The walk holds no lock, so that removals move entries under it and listeners
\* are missed.  But a removal costs no more than one in a row: of any n + 1
\* neighbours in the table at the time the message arrived at least one is
\* called, when n removals went on during the walk, and with none all of them
\* are, whatever is registered meanwhile.
NeighboursNotAllMissed ==
  WalkEnds =>
    \A k \in 1..(Len(arrived) - removals) :
      \E j \in k..(k + removals) : arrived[j] \in called

-----------------------------------------------------------------------------
(* What does not hold.                                                     *)

\* Every open channel is registered: it is given the messages that arrive.
OpenChannelsHear == LocksFree => OpenHandlers \subseteq Registered

\* "Callback for each listener": a listener that is registered when a message
\* arrives, and until it is handed out, is called.
EachListenerCalled ==
  WalkEnds =>
    \A k \in 1..Len(arrived) : arrived[k] \in Registered => arrived[k] \in called
=============================================================================
