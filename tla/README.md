# A TLA+ model of Sardine CAN

Sardine CAN (`src/Sardine`) is a J2534 pass-thru driver: a Windows DLL through
which a diagnostic program talks to a vehicle's CAN bus by way of an Arduino or
a USB CAN adapter on a serial port. This directory holds a formal model of the
concurrent core of that DLL, model-checked with TLC and, where a property should
hold for every size, proved with TLAPS.

## 1. The system

Three kinds of threads share the DLL's state:

* **application threads** call the exported `PassThru...` functions;
* **the communication thread** (`comm.cpp`), created when the DLL is loaded,
  opens the serial port, waits for events and hands every message it reads to the
  listeners;
* **a periodic-message thread** per connected channel sends the messages the
  application wants repeated.

All locks are objects of one class, `Benaphore`.

| Component | State | Operations | Talks to |
|---|---|---|---|
| Benaphore (`Benaphore.h`) | counter, semaphore | Lock, Unlock | all others |
| Receive buffer, reads (`Protocol.cpp`) | ring of 256 messages, two indices, size, overflow flag; the locals of a read | AddToRXBuffer, PopMessage, ClearRXBuffer, ReadMsgs | filled by the communication thread, by loopback and the interceptor |
| Channels and ids (`Sardine.cpp`) | table of 8 channels, id counter | PassThruConnect, PassThruDisconnect, lookup by id or protocol | owns protocol handlers |
| Listeners (`Arduino.cpp`) | table of 8 listeners | RegisterListener, RemoveListener, MsgReceived | constructor and destructor of a handler; the communication thread |
| Periodic messages (`PeriodicMessageHandler.cpp`, `PeriodicMsg.cpp`) | array of 10 messages, timers, event, stop flag | Start, Stop, StopAll, destructor; HandleSignal in the thread | sends through the protocol handler |
| Communication thread (`comm.cpp`, `dllmain.cpp`) | request, completion and exit events, device name, error | start, initialise on request, serve serial events, exit | PassThruOpen, OpenDevice |
| Serial framing and writes (`Arduino.cpp`) | collection buffer; write overlap | ReadRequestCompleted, Send, OpenDevice | MsgReceived; protocol handlers |
| USBCAN codec (`Protocol.cpp`, `helper.cpp`) | none | parse, format | framing, writes |
| Writes, loopback, interceptor (`Protocol.cpp`, `ProtocolCAN.cpp`, `Interceptor.cpp`) | loopback flag, datarate | WriteMsgs, IOCTL, SetDatarate | Send, the receive buffer |
| ISO 15765 (`ProtocolISO15765.cpp`) | reassembly sessions, flow control filters | HandleMsg, StartMsgFilter, StopMsgFilter | receives CAN frames, sends flow control frames |
| Last error (`Sardine.cpp`) | one code and one text | every call; PassThruGetLastError | |
| Registry, tracing, helpers | settings, log | I/O and formatting | |

What is hard here, and which properties make each component correct:

* *Benaphore*: the counter and the semaphore change in separate steps. It must
  exclude, wake exactly who sleeps, and wake everybody in the end.
* *Receive buffer*: the lock covers single accesses only. The ring must keep the
  newest messages in order through overflow, wrap and clearing, and a read, which
  acts on a count it took earlier, must not pop what is not there, hand a message
  out twice or out of order, or misreport a loss.
* *Channels and listeners*: lookups and the entries they lead to are separate
  accesses, failures leave half-made objects behind, and the communication thread
  takes no lock. Every open channel needs a live handler, its own protocol, an id
  nobody had before, and its listener. The code gives the first without conditions; the
  others depend on calls that do not overlap and on the order of closing, and the
  properties say on which.
* *Periodic messages*: one event announces new messages and the order to stop, and
  the thread that serves them resets it. No started message may be forgotten and
  the thread has to go when it is told to.
* *Communication thread*: requests and completions through manual-reset events,
  with time-outs; a stale completion, a lost request and a lock that is not left.
* *Framing*: the stream is cut anywhere; the messages must not depend on where.
* *Writes*: several threads share one serial line, and a write may be cut in the middle.
  What a call reports, and the copies that loopback adds, must be what the port took; the
  sequence that sets the datarate has to work from any state of the adapter.
* *ISO 15765*: lost, repeated and interleaved frames; sessions that end early; an array
  of filters that one thread searches while the other shifts it. The array must hold the
  filters that were started, none in the shadow of another, and a message must end where
  its own first frame said. The code reads that length from the wrong bytes; what can be asked
  of it is that a message ends where its session expects it to.

## 2. The modules

    Mutex  <--implements--  Benaphore        BenaphoreProofs
    BoundedFifo <--implements-- RxBuffer     RxBufferProofs
    Channels                                 ChannelsProofs
    PeriodicMessages                         PeriodicMessagesProofs
    CommThread                               CommThreadProofs
    Usbcan  <--extends--  SerialReceive      SerialReceiveProofs
    Iso15765                                 Iso15765Proofs
    ChannelCalls                             ChannelCallsProofs
    MC...: small instances for TLC, one per module with a specification

`Benaphore` justifies the step size of all others: because the benaphore is a
mutex (proved), a piece of code between `Lock()` and `Unlock()` on the same lock is
one atomic step of the modules above it, unless a thread that takes no lock can see
its inside (the listener table) or it does something slow there (the scan of the
periodic messages): then it is several steps and the lock is modelled.

Operators such as `UnlockOffByOne`, `StoreOneTooMany`, `AnswerBeforeStore` or
`SendUnlocked`, each just before the definition it deviates from, are not used
by any specification. They are plausible mistakes, and PROJECT.json says which
property tells each of them from the code.

### Benaphore and Mutex

`m_counter` and `m_semaphore` are the members of the class; `pc` says whether a
thread is outside, waiting on the semaphore, inside, or between the two halves of
`Unlock`. `Lock` and `Unlock` are the interlocked operations and the decision on
their result, `Acquire` is the end of `WaitForSingleObject`, and `Release` is
`ReleaseSemaphore`, which fails without effect at the maximum of 1. `Mutex` is what
a lock promises; `phaseBar` maps a thread that is still releasing to one that has
left.

### RxBuffer and BoundedFifo

The variables of the ring are the members of `CProtocol` of the same names. Messages
are numbered as they come in (`arrived`); `deleted` collects those the ring freed,
`delivered` those it handed out. `ReadMsgs` is cut where it takes and leaves
`rx_lock`: `CountMsgs`, `LookAtOverflow` (and the choice among its branches),
`WakeUp` after the sleep, `PopMessage` once per message, `ReturnMsgs`. An `int` count
stored in an `unsigned long` wraps (`UnsignedLong`). `Receive`, `AddLoopbackMsg` and
`ClearRXBuffer` happen in between. `BoundedFifo` is a queue that displaces its oldest
message when full; `Queue` reads the ring from `lowIndex` on.

### Channels

The arrays with their counts are a sequence (`channels`) and a function with
`listeners_count`; a listener is its data pointer since the callback is the same for
all. A handler is the address of its object, and a freed address may come back from
a later `new`. `ch` is the struct a call works on. `PassThruConnect` is `Connect`
(the check), `CreateHandler` (the constructor, with `RegisterListener`),
`LoadCounter` and `StoreCounter`, `ConnectHandler` or `ConnectFails`, `AddChannel` or
`TooManyChannels`. Every other call is `FindChannel` followed by `UseHandler`;
`PassThruDisconnect` is `FindChannel`, `DisconnectHandler`, `DeleteChannel`,
`ShiftListener` once per entry moved, `EndDelete`. `MsgArrives`, `NextListener`,
`CallListener` and `MsgDone` are `MsgReceived` in the communication thread.

History variables say what the properties need of the past: `issued` and `closed` the ids
that were opened and deleted, `overlapped` whether two calls ever overlapped, `inOrder` whether
so far the oldest handler was the one to go (and the listener table had room for each), `born` the
handlers in that case, oldest first; of the message that is being handed out, `arrived` is the
table at its arrival, `called` who got it, `removals` how many removals it met.

Abstractions: calls that only return an error are no steps. Memory that was freed is
assumed to keep its content as long as a call in progress uses it; this concerns runs
with two application threads only, where no property depends on such a call. The
search of `RemoveListener` always succeeds at slot 0: that slot is written by the
first registration and never cleared. Reading the count and the entry in
`NextListener` is one step: a change between the two gives the same sequences of calls
as a change before or after both.

### PeriodicMessages

`periodicMessages`, `stopped`, `rollingPeriodicMsgId` are the members of those names;
`timers` are the messages with an `hTimer`, `armed` those whose timer is set and will go
off, `once` those with `TimeInterval` 0, which nobody rejects and which makes a timer
without a period; `event` is the state of `hMsgHandlerEvent`, `apcs` what the system has
queued for the thread. `CreateTimer` may fail to create the timer, or create it and fail to
set it: in the second case `hTimer` stays, the thread never tries again, and the timer never
goes off. `failed` remembers the messages of either kind. `opc` follows
the owner through the destructor, `hpc` the thread through `HandleSignal`: `Wait`,
`Woken`, `Exit` or `GoOn`, `CreateTimers`, `ResetEvent`, and `TimerSignaled` with
`Sent` for a callback. `HandlerLock` is held while `hpc = "reset"`; a started message
and its announcement are one step under it. Deleting a message cancels its timer and
the APC that waits. On closed handles a wait fails and a reset has no effect; in freed
memory the stop flag may read as anything.

### CommThread

The four events, the flags `isConnected` and `port` (`hCommPort` is open), `init_lock` and
the globals of `comm.cpp`. An opener is `Open`, `Check` (IsConnected), `Ask`, `Signal`,
then `Woken` and `ReadErrorCode`, or `TimedOut`. The thread is `WaitForEvents`, which
takes the first signaled event in the order of `waitHandles`, followed by
`HandleCommEvent` and `ServeTraffic` (reset the event, then `Listen`), by `LookUp`,
`OpenDevice`, `Answer` and `ResetRequest`, or by `CloseDevice`. Each way out of
`OpenDevice` is a disjunct of it; in the one where `CreateEvent` fails the lock stays held
and the port open, as in the code. `armed` says that a `WaitCommEvent` is outstanding,
`arrival` that the port has noted one in the meantime. `AskForExit` and `CloseEvents` are
`DllMain` at the end, which waits for five seconds at most.

Abstractions: a failed `CreateEvent` at load time ends the load. The registry only says
whether a name is known. `init_lock` is taken and left in one step by `AlreadyConnected`
and `PortRefused`.

### Usbcan and SerialReceive

`Usbcan` has the lines of `DoWriteMsg` and the parser with its two helpers as operators,
character by character because what matters is in the characters: sizes that have to
agree, an error code stored into an unsigned char, a length that passes through a decimal
digit. `SerialReceive` has the bytes on their way (`incoming`), those in the port
(`cbInQue`), the piece being read (`buffer`, `i`) and `collectionbuf`. `Collect` is one byte
of the inner loop of `ReadRequestCompleted`, `EndLine` the rest of a turn of the outer loop with
`MsgReceived`, `EndRead` the return. The reference `Framed` splits all bytes received so far by a
recursive function over them that knows nothing of reads. A read that fills the buffer writes a
zero behind it: the model either keeps that byte harmless or lets it be `cbufi`, the
variable declared next, and stops (`overrun`).

### Iso15765

`filters`, `filtersnum`, `sessions` are the members of those names; `heap` holds the
contents of the messages that sessions point to. The application thread is
`StartMsgFilter`, `Publish` (the increment of `filtersnum`), `StopMsgFilter`, `Shift` once
per slot, `CountDown`, `DeleteFilters`, `WriteMsg`; it takes no lock, so the
communication thread acts between any two of them: `FirstFrame`, then
`FlowControlSent` or `FlowControlRefused`, `ConsecutiveFrame`, `OtherFrame`. What is wrong
in the code is wrong in the model: `GetMatchingFilter` yields 0 or 1 for an index, a session
takes its length (`Expected`) from the first two bytes of the identifier and its header
(`Header`) from the wrong bytes, `DeleteSession` does not count down. A frame has 3 to 19 bytes, all
that the parser lets through.
Where this leads out of an array, to a NULL or to a message given away, `fault` says so and
the behaviour ends. `started` is history: the filters whose start has returned and whose stop has
not begun.

### ChannelCalls

Each channel has an application thread and a thread for its periodic messages. `Connect`,
`WriteMsgs` and `SendPeriodicMsg` set up what the thread has to write (`todo`); then every
line goes through `Send` (write_lock, `WriteFile`), `PortFinishes` (whole, cut or refused)
and `Sent` (the outcome, from the shared `overlap`), and every message ends in `Written`
(the loopback copy). `RefuseMsg` and `WriteNothing` are the other ends of a `WriteMsg`.
`SetConfig` and `GetConfig` work a list off up to the first parameter the protocol does not
know; `Readable`, `Writable` and `StoredBySet` say what each protocol makes of a parameter.
`last_error` and its text follow every return. The adapter is external: that it refuses
a new rate while open is why `SetDatarate` closes it first.

## 3. The runs

| Run | Checks | Shows |
|---|---|---|
| `MCBenaphore` | `TypeOK`, `MutualExclusion`, `NoLostRelease`, `WaiterIsOwedWakeup`, `NoStaleWakeup`, `ImplementsMutex`, `EveryWaiterServed` | five threads, all interleavings, fair kernel |
| `MCRxBuffer` | `TypeOK`, `IndicesAgree`, `HoldsTheNewest`, `ReaderNeverUnderruns`, `OwnershipPassedOnce`, `DeliveredInOrder`, `OverflowReportMeansLoss`, `ImplementsFifo` | one reader per channel, ring of 3 |
| `MCChannels` | `TypeOK`, `ChannelsHaveHandlers`, `SerialOneChannelPerProtocol`, `SerialIdsAreUnique`, `CallsKeepTheirHandlers`, `SerialEntriesCoverChannels`, `OrderedClosesKeepListeners` | two application threads, two protocols that connect, one that does not, failing threads |
| `MCChannelsListeners` | `OrderedClosesKeepListeners`, `NeighboursNotAllMissed` | three listeners; messages are handed out while channels open, fail and close in any order |
| `MCPeriodic` | `TypeOK`, `NoLostWakeup`, `EveryMessageIsSent` | starts, stops, timers without a period, timers that fail, destruction; messages keep being sent |
| `MCIso15765` | `FiltersAreThoseStarted`, `FiltersApart`, `AssembledToExpectedLength` | filters started, stopped and shifted while frames of two senders arrive |
| `MCCommThread` | `OpenMeansConnected`, `PortMatchesConnected`, `NeverDeaf`, `EveryOpenReturns`, `ExitIsServed` | two openers, traffic, every failure of the port, unloading |
| `MCSerialReceive` | `LinesDoNotDependOnReads`, `MessagesArriveAsSent`, `EveryByteIsRead` | lines cut into reads in every way; what was formatted is parsed back |
| `MCChannelCalls` | `ReportsMatchTheWire`, `AdapterFollowsConnect` | three channels with two threads each on one serial line that may fail |

The properties whose names begin with `Serial` are about an application, of any number of
threads, whose calls have not overlapped so far (`overlapped` remembers whether they did).
The DLL does not serialise calls; what overlapping calls break is shown below, and
`ChannelsHaveHandlers` and `CallsKeepTheirHandlers` are what they cannot break: a call can lose the
handler it found only to a disconnect of the very id it is a call on.

Two properties say how far the listener table can be relied on. `RemoveListener` compares the
callback, which all listeners share, and so takes the entry in slot 0 whosever it is:
`OrderedClosesKeepListeners` says that nobody notices as long as the oldest handler is the first
to go. A connect that fails leaves its handler in the table for ever, and counts: what is closed
after it is no longer the oldest. `NeighboursNotAllMissed` bounds what a message loses when
removals shift the table under the walk: with n of them never more than n neighbours in a row.
Single listeners are skipped, as `MCChannelsSkipped` shows below.

What some of the properties leave out is as much a part of what they say.
`EveryMessageIsSent` and `NoLostWakeup` exempt a message whose timer could not be created or set;
`AssembledToExpectedLength` is about the length the code expects, which is not the one the frame
announces; `ReportsMatchTheWire` counts what needs no port, messages of ISO 9141 and intercepted
ones, as delivered; `AdapterFollowsConnect` promises nothing after a failed write; `EveryOpenReturns`
and `PortMatchesConnected` promise nothing after a failed `CreateEvent`, with which `init_lock` stays
taken; `EveryByteIsRead` excuses what a read left behind in the port. These are weaknesses of the code,
and the hazards in PROJECT.json name them as not covered.

Three runs TLC answers with a counterexample, because the code does not do what a text of
the repository says of it:

| Run | Property | What happens |
|---|---|---|
| `MCPeriodicStop` | `StoppedThreadExits` | the order to stop is erased by the thread's reset of the event |
| `MCIso15765Sender` | `FlowControlGoesToTheSender` | the flow control message is that of the wrong filter |
| `MCCommThreadStale` | `AnswerIsFresh` | the second open returns the answer of the first |

Eight more configurations show further disagreements of the same kind. They are kept beside
the runs, to be repeated with `tlc -config X.cfg` on the module named before the colon:

| Configuration | Property | What happens |
|---|---|---|
| MCRxBuffer: `MCRxBufferTwoReaders` | `OwnershipPassedOnce` | a second reader pops emptied slots |
| MCRxBuffer: `MCRxBufferLoss` | `LossIsReported` | a loss during the sleep of a read is reported by nobody |
| MCChannels: `MCChannelsDeaf` | `OpenChannelsHear` | closing the newer of two channels unregisters the older |
| MCChannels: `MCChannelsSkipped` | `EachListenerCalled` | a listener moved during the walk is passed over |
| MCIso15765: `MCIso15765Length` | `AssembledToAnnouncedLength` | a message is handed on with another length than its first frame announced (ProtocolISO15765.cpp:194) |
| MCChannels: `MCChannelsProtocols` | `OneChannelPerProtocol` | two threads open two channels of one protocol |
| MCPeriodic: `MCPeriodicFreed` | `ObjectOutlivesThread` | the object is freed under its thread |
| MCChannelCalls: `MCChannelCallsErrorText` | `ErrorTextIsValid` | a write fails with ERR_FAILED and no text (Sardine.cpp:48) |

Other disagreements have no property of their own. The assertion in
`GetRXMessageCount` (Protocol.cpp:602) compares the size with a remainder of the indices, which
is 0 for a full ring and, in C, negative for a wrapped one; `IndicesAgree` is the relation that
does hold. A timed read that finds nothing after its sleep (Protocol.cpp:999) leaves `*pNumMsgs`
at the number requested. Two overlapping connects can get one id (Sardine.cpp:252), in the
same way as they can get one protocol. SET_CONFIG of an ISO 15765 channel ends in the getter
for whatever it does not know itself (ProtocolISO15765.cpp:368), so that it never turns
loopback on. While a second channel connects, the adapter is closed for a moment and drops
what the first one writes without anybody noticing.

### Bounds

* *Benaphore*: 5 threads. Three threads already show every interleaving of one releasing,
  one waiting and one arriving; the proofs are for any finite set.
* *RxBuffer*: a ring of 3 slots (`MAX_RX_BUFFER_SIZE`, 256 in the code), requests of up
  to 4 messages, 7 messages in all (`MaxMsgs`): the ring fills, overflows and wraps
  twice, and reads ask for less, as much as, and more than there is.
  `ULONG_RANGE` is 1000 instead of 2^32; it only has to be larger than the ring.
* *Channels*: two connectable protocols (6 in the code: CAN, ISO 15765 and ISO 9141,
  each also pin-switched), `MAX_LISTENERS` = 2 and `MAX_CHANNELS` = 2 (8 in the code).
  `SerialEntriesCoverChannels` needs no more connectable protocols than listener slots, and
  the instance is at that limit. `Handlers` (addresses) bounds the handlers alive at
  once: three leave one for a leaked one beside two open channels. `MaxIds` = 4 stops new
  connects. For the walk, `MCChannelsListeners` has three listener slots and four addresses, one
  application thread (removals exclude each other anyhow) and messages: up to three
  entries, of open channels and failed connects, shift while the walk is at any of them, and a
  walk can meet two removals and still have a neighbourhood of three to answer for. Addresses, and application threads, are interchangeable, hence the symmetry set.
  The proofs are for any of these numbers.
* *PeriodicMessages*: room for 2 messages (10 in the code), 4 started in all, so that the
  array fills, empties and fills again; each with or without a period.
* *Iso15765*: 3 filter slots and 2 sessions (10 and 16 in the code), 4 filters, 4 frames:
  both arrays fill and are overrun, filters are started after others were stopped, and a
  message is assembled from a first frame and others, with a frame of the second sender between
  them. Among the frames are one without data, a first frame with nothing behind its
  first PCI byte, and one that announces another length than the code expects. The requests differ in one
  respect each (mask, padding, addressing, an answer in common); addresses are bytes, of which
  a handful is used.
* *CommThread*: 2 openers, 2 opens and 2 events of the port in all: an open during an open, and
  traffic before, during and after the reset of the event. One name is registered and one is not.
* *SerialReceive*: a read buffer of 5 bytes and a collection buffer of 14 (256 and 1024 in the
  code), 2 lines of 5 to 16 bytes: lines take several reads, reads hold the end of one line and
  the start of the next, and a line exceeds the collection buffer. Only two lines are on the
  way, since nothing but `collectionbuf` connects one line to the next.
* *ChannelCalls*: one channel of each protocol, at most 2 messages per call (10 in the code),
  4 calls or periodic messages in all: a connect, the setting of loopback and a write, with
  one call of another thread between any two of their steps.

Deadlock is checked in the runs of `Benaphore`, `RxBuffer` and of `Channels` with messages. The
other systems stop when the application makes no more calls (a bound), when everything was
destroyed or unloaded, or at a recorded fault.

### Fairness

* *Benaphore*: threads inside `Lock`/`Unlock` and critical sections are scheduled (weak
  fairness); a waiter on the semaphore is not passed over for ever (strong fairness of
  `Acquire`), since Windows queues the threads that wait for an object. Nobody is
  obliged to call `Lock`.
* *PeriodicMessages*: the thread and a destructor in progress are scheduled, and a timer that
  is set goes off, again and again if it has a period and once if it has not (weak
  fairness). Nothing is assumed of a timer that could not be set. Strong fairness of `Woken` and of each
  `TimerSignaled`: an alertable wait ends for the event or for an APC, whichever the
  kernel takes first; the thread comes back to the wait every time, and the kernel
  neither ignores a signaled event nor drops a queued APC. Application calls are not
  fair.
* *CommThread*: the communication thread and a call in progress are scheduled (weak fairness).
  A wait with a time limit ends. Traffic is bounded, which `ExitIsServed` needs: steady
  traffic has the lower index and keeps the thread from the request to exit.
* *SerialReceive*: the communication thread is scheduled and bytes that were sent arrive (weak
  fairness).

## 4. The proofs

`BenaphoreProofs`, for any finite set of threads. The inductive invariant is `TypeOK`
with `CounterCounts` (the counter is the number of threads waiting or inside),
`OneBaton` and `BatonExists` (the lock is held, being handed over by a releasing thread,
or in the semaphore: one of the three, and one only, while anybody waits) and
`NoStaleWakeup`. None of the checked invariants is inductive alone: exclusion needs to know that a
semaphore count is never left beside a holder. From it follow `TypeOK`,
`MutualExclusion`, `NoLostRelease`, `WaiterIsOwedWakeup`, `NoStaleWakeup`, and, step by
step, the refinement `ImplementsMutex`.

`RxBufferProofs`, for any ring size, bound on messages and set of requests. With any number
of readers: types, and, as long as no pop hits an empty ring, nothing more is needed for
`IndicesAgree` and `HoldsTheNewest`; the theorems hold for all readers because the
arithmetic of the ring is kept even by a pop too many. With one application thread
(`ASSUME OneReader`): the size never drops below what the reader still has to pop
(`ReaderNeverUnderruns`), hence what it pops is newer than all it popped before
(`DeliveredInOrder`), was not freed and was not handed out (`OwnershipPassedOnce`), a
report of overflow stands next to a gap (`OverflowReportMeansLoss`), and the ring
implements `BoundedFifo`. The run with two readers shows that the assumption is needed.

`ChannelsProofs`, for any number of threads, tables of any size, any addresses. `Inv` says who
owns a handler: the thread that made it until it is entered (`PendingAreOwned`), then one entry
of the table, until the one thread inside `DeleteChannel` frees both (`RemoverHoldsEntry`: the entry
it found is still where it found it, because `channel_lock` is held). It is inductive with the
types, and `ChannelsHaveHandlers` is a part of it. `SerialInv` adds, as long as calls have not
overlapped, that the thread that steps is alone, that the protocol found free is still free, that
the id counter is ahead of the ids given out, and that a call in progress has an open channel.
`CoverInv` adds, under `EnoughSlots` (at least as many listener slots as protocols that connect, 8
and 6 in the code), that there is an entry to spare while a channel is on its way into the table;
the case of the full table is a pigeonhole argument over the protocols.

`CallInv` says that what a call found is in the table until a channel of its id is deleted; with
`Inv` it gives `CallsKeepTheirHandlers`. `OrderInv` relates the listener table to `born`: the
same handlers in the same order, and in the middle of a removal the slots below its place have
moved; so slot 0 holds the oldest, and `OrderedClosesKeepListeners` follows. `WalkInv` says that
every slot, the entry the walk holds and the entries it has called come from the table at arrival, from as many
slots further down as there were removals (one less where the removal in progress has not come by);
`NeighboursNotAllMissed` is what is left of it when the walk has passed the end. These three hold
for any number of threads, overlapping and failing calls included, and need no assumption on the
client.

`PeriodicMessagesProofs`, for any limit: `TypeOK` and `NoLostWakeup`. The strengthening
`Lifetime` says that there are no messages once the destructor has begun, and that the
thread has no reason to exit before the flag is set.

`CommThreadProofs`, for any openers, names and traffic. `PortMatchesConnected` needs to know
that `OpenDevice` works on a closed port and under `init_lock` (`DeviceInv`).
`OpenMeansConnected` needs `OpenInv`: `isConnected` holds wherever a success is on its way, in
the thread's result, in the error code once its announcement is due, and nobody reads that code
before an announcement; and the thread does not get to `CloseDevice` before it is asked to
exit. `NeverDeaf` becomes inductive when it is said of the whole loop: only between the reset of
the event and the `WaitCommEvent` after it may an arrival go unnoticed (`HearInv`).

`ChannelCallsProofs`, for any channels, messages, batches and parameter lists. `LockInv` says that the port works on the line of the holder of `write_lock`, or on none, and that
what a thread has to write is a batch of an open channel or a tail of `SetDatarate`. `AdapterInv`
counts in lines the adapter has taken: a thread that has had its "C" taken and not its "O" will
still open it, and as long as no thread has had its rate taken, the adapter is closed for each that
has had its "C" taken, so that the first rate is accepted and none is changed afterwards. From it
follows `AdapterFollowsConnect`. `ProgressInv` says how a batch is split between what was delivered,
what was copied and what is left, with one message of difference between a write and the end of its
turn of the loop; `ReportsMatchTheWire` is what it says of a call that has returned.

`Iso15765Proofs`, for any number of slots, sessions, requests and frames. `FilterInv` describes the
array in the middle of a shift: the slot `StopMsgFilter` is at is a hole, the others hold the
filters that are left, in the order of their ids, and a filter that is written but not yet counted
is already told apart from all others. `FiltersAreThoseStarted` and `FiltersApart` follow, and
since the communication thread only reads the array they need nothing about frames. `SessionInv`
is about `DeleteSession`, which does not count down and so leaves the last entry there twice: of the
entries for one message only the first is ever found, so that only the first has to have counted what
the message holds, and what it expects is what the message's own first frame made it expect.
`AssembledToExpectedLength` is the last conjunct of it. That a message has the length its
frame announces is not proved, since it is not true.

`SerialReceiveProofs`, for any sizes of the buffers, any lines and any cutting into reads. Its
reference is recursive, and what a recursive function computes takes an induction, for which the
library's theorems cannot be used. The module proves the two instances it needs from the
well-foundedness of the natural numbers, which has no operator parameter: the least number for
which something fails cannot exist (`Least`, `Induction`). With them a framing exists, is unique, and
can be continued by a byte (`FramedAppend`) or by another whole stream (`FramedAfter`). `FramingInv`
relates each step of `ReadRequestCompleted` to one byte of the reference. The subtle case is a
full `collectionbuf`: the reference ends the line with the byte that fills it, the code when it next comes
by, at the end of the read at the latest. `LinesDoNotDependOnReads` follows. For
`MessagesArriveAsSent`, `StreamInv` says that what was sent is the framing of the whole stream, wherever
its bytes are: read, in the port, or on their way. More bytes only add messages at the end
(`MessagesGrow`), so that what was handed on is at every moment a beginning of what was sent
(`ReceivedInv`), also in the state after an overrun. `SentIsReceived` assumes that each line is whole
and means its messages (`LinesAreWhole`; the lines of the run are of that kind).
`MessagesGetThrough` does away with this assumption for lines that are written as `DoWriteMsg` writes
them, by the theorem `WrittenIsRead`: format and parser undo each other for every
identifier and every payload of 0 to 8 bytes. It asks for a `collectionbuf` of more than 26 bytes, the
longest line; the code has 1024.

The theorems use the bounds `MaxCalls`, `MaxOpens` and the like nowhere: they hold for any.

Every invariant that a run checks is stated by a theorem. Only model-checked are the liveness
properties `EveryWaiterServed`, `EveryMessageIsSent`, `EveryOpenReturns`, `ExitIsServed` and
`EveryByteIsRead`, because they depend on fairness, which needs ENABLED and is out of the prover's
reach.

## 5. Not modelled

* Call tracing (`shim_debug.cpp`) and the other string helpers only format log lines; the
  registry's values and `UseInterceptor` are read from Windows.
* `Sardine::Close`, which nothing calls, and the variants of the code behind
  `#ifndef USBCAN_PROTOCOL`, which `sardine_defs.h` excludes from the build.
* J1850 VPW refuses to connect (in `Channels`); its other operations are never reached. The
  branches of ISO 15765 for received extended addresses are not reached either: the parser
  sets no such flag.
* The values that GET_CONFIG returns, and NULL parameters.
* Failures of `ClearCommError` and of reads from the port, and what a read error leaves in
  `collectionbuf`.
* The test program, a sequential client.

## 6. Plan

* `Iso15765` composed with `RxBuffer`: a message that a session gives away is owned by the buffer.
* `WrittenIsRead` for lines that carry a time stamp or line feeds, which the run has and
  `MessagesGetThrough` leaves to its assumption.
* An abstract specification of the serial line, a queue of lines, implemented by `SerialReceive`.
