----------------------------- MODULE CommThread -----------------------------
(***************************************************************************)
(* The communication thread, the opening of the adapter, and the end of    *)
(* both (comm.cpp, dllmain.cpp, OpenDevice to Listen of Arduino.cpp).      *)
(*                                                                         *)
(* Application threads in PassThruOpen ask for an initialisation through   *)
(* ghRequestInitEvent and wait for ghInitReqCompleteEvent; the serial port *)
(* signals ghCommEvent; the thread that unloads the library asks for the   *)
(* exit.  All events are manual-reset.  The communication thread serves    *)
(* the signaled event of the lowest index: traffic, request, exit.         *)
(*                                                                         *)
(* What HandleCommEvent does with the bytes is in module SerialReceive.    *)
(***************************************************************************)
EXTENDS Integers

CONSTANTS
  Openers,            \* application threads that call PassThruOpen
  Names,              \* device names they pass
  Registered,         \* the names GetSettingsFromRegistry finds
  CreateEventMayFail, \* whether OpenDevice may fail to create its event
  MaxOpens,           \* bound: calls of PassThruOpen in a behaviour
  MaxTraffic          \* bound: events of the serial port in a behaviour

ASSUME CommAssumption ==
  /\ Registered \subseteq Names
  /\ CreateEventMayFail \in BOOLEAN
  /\ MaxOpens \in Nat /\ MaxTraffic \in Nat

VARIABLES
  commEvent, requestInit, initReqComplete, commExit,   \* events
  closed,             \* CloseEvents has closed the handles
  isConnected,
  port,               \* hCommPort is open
  init_lock,          \* its holder: "free", or "comm"
  armed,              \* a WaitCommEvent is outstanding
  arrival,            \* the port noted an event while none was
  RequestedDeviceName,
  deviceId,
  errorCode,          \* arduinoInitErrorCode
  cpc,                \* where the communication thread is
  result,             \* what OpenArduino is about to return
  mpc,                \* where the unloading thread is
  pc,                 \* where each opener is
  name,               \* the name it passes
  status,             \* what its last call returned
  opens, traffic,     \* counters for the bounds
  fresh,              \* history: openers since whose request an attempt ended
  failed              \* history: which calls of the system failed for good

events == <<commEvent, requestInit, initReqComplete, commExit, closed>>
device == <<isConnected, port, init_lock>>
listening == <<armed, arrival, traffic>>
request == <<RequestedDeviceName, deviceId, errorCode>>
calls == <<pc, name, status, opens>>
vars == <<events, device, listening, request, cpc, result, mpc, calls, fresh, failed>>

NoDevice == "none"

Init ==
  /\ commEvent = FALSE /\ requestInit = FALSE /\ initReqComplete = FALSE
  /\ commExit = FALSE /\ closed = FALSE
  /\ isConnected = FALSE /\ port = FALSE /\ init_lock = "free"
  /\ armed = FALSE /\ arrival = FALSE
  /\ RequestedDeviceName = NoDevice /\ deviceId = NoDevice
  /\ errorCode = "NOERROR" /\ result = "NOERROR"
  /\ cpc = "wait" /\ mpc = "run"
  /\ pc = [a \in Openers |-> "idle"] /\ name = [a \in Openers |-> NoDevice]
  /\ status = [a \in Openers |-> "none"]
  /\ opens = 0 /\ traffic = 0
  /\ fresh = {} /\ failed = {}

-----------------------------------------------------------------------------
(* PassThruOpen and WaitUntilInitialized.                                  *)

Goto(a, place) == pc' = [pc EXCEPT ![a] = place]

Return(a, s) == Goto(a, "idle") /\ status' = [status EXCEPT ![a] = s]

Open(a, n) ==
  /\ pc[a] = "idle" /\ opens < MaxOpens /\ mpc = "run"
  /\ Goto(a, "check")
  /\ name' = [name EXCEPT ![a] = n]
  /\ status' = [status EXCEPT ![a] = "none"]
  /\ opens' = opens + 1
  /\ UNCHANGED <<events, device, listening, request, cpc, result, mpc, fresh, failed>>

\* IsConnected, under init_lock.
Check(a) ==
  /\ pc[a] = "check" /\ init_lock = "free"
  /\ IF isConnected THEN Return(a, "NOERROR") ELSE Goto(a, "ask") /\ UNCHANGED status
  /\ UNCHANGED <<events, device, listening, request, cpc, result, mpc,
                 name, opens, fresh, failed>>

\* RequestInitialization
Ask(a) ==
  /\ pc[a] = "ask"
  /\ RequestedDeviceName' = name[a]
  /\ Goto(a, "signal")
  /\ UNCHANGED <<events, device, listening, deviceId, errorCode, cpc, result, mpc,
                 name, status, opens, fresh, failed>>

Signal(a) ==
  /\ pc[a] = "signal"
  /\ requestInit' = TRUE
  /\ fresh' = fresh \ {a} /\ name' = [name EXCEPT ![a] = NoDevice]
  /\ Goto(a, "wait")
  /\ UNCHANGED <<commEvent, initReqComplete, commExit, closed, device, listening, request,
                 cpc, result, mpc, status, opens, failed>>

\* The completion event is signaled, or COMM_INIT_TIMEOUT is over.
Woken(a) ==
  /\ pc[a] = "wait" /\ initReqComplete
  /\ Goto(a, "read")
  /\ UNCHANGED <<events, device, listening, request, cpc, result, mpc,
                 name, status, opens, fresh, failed>>

TimedOut(a) ==
  /\ pc[a] = "wait"
  /\ Return(a, "FAILED")
  /\ UNCHANGED <<events, device, listening, request, cpc, result, mpc,
                 name, opens, fresh, failed>>

ReadErrorCode(a) ==
  /\ pc[a] = "read"
  /\ Return(a, errorCode)
  /\ UNCHANGED <<events, device, listening, request, cpc, result, mpc,
                 name, opens, fresh, failed>>

Opener(a) == Check(a) \/ Ask(a) \/ Signal(a) \/ Woken(a) \/ TimedOut(a) \/ ReadErrorCode(a)

-----------------------------------------------------------------------------
(* The communication thread: WaitForEvents.                                *)

CommStep == UNCHANGED <<mpc, calls>>

WaitForEvents ==
  /\ cpc = "wait"
  /\ \/ closed /\ cpc' = "close"              \* the wait fails
     \/ ~closed /\ commEvent /\ cpc' = "handle"
     \/ ~closed /\ ~commEvent /\ requestInit /\ cpc' = "look_up"
     \/ ~closed /\ ~commEvent /\ ~requestInit /\ commExit /\ cpc' = "close"
  /\ CommStep
  /\ UNCHANGED <<events, device, listening, request, result, fresh, failed>>

\* HandleCommEvent, ResetEvent, Listen.
HandleCommEvent ==
  /\ cpc = "handle"
  /\ cpc' = "reset"
  /\ CommStep
  /\ UNCHANGED <<events, device, listening, request, result, fresh, failed>>

ResetCommEvent(then) ==
  /\ commEvent' = FALSE
  /\ cpc' = then
  /\ CommStep
  /\ UNCHANGED <<requestInit, initReqComplete, commExit, closed, device, listening,
                 request, result, fresh, failed>>

\* WaitCommEvent; when it fails nobody notices.
Listen(then) ==
  /\ \/ /\ arrival /\ commEvent' = TRUE
        /\ UNCHANGED <<armed, failed>>
     \/ /\ ~arrival /\ armed' = TRUE
        /\ UNCHANGED <<commEvent, failed>>
     \/ /\ failed' = failed \cup {"Listen"}
        /\ UNCHANGED <<armed, commEvent>>
  /\ arrival' = FALSE
  /\ cpc' = then
  /\ CommStep
  /\ UNCHANGED <<traffic, requestInit, initReqComplete, commExit, closed, device,
                 request, result, fresh>>

ServeTrafficResetsLast ==
  \/ cpc = "reset" /\ Listen("listen")
  \/ cpc = "listen" /\ ResetCommEvent("wait")

ServeTraffic ==
  \/ cpc = "reset" /\ ResetCommEvent("listen")
  \/ cpc = "listen" /\ Listen("wait")

\* OpenArduino: the registry.
LookUp ==
  /\ cpc = "look_up"
  /\ IF RequestedDeviceName \in Registered
       THEN /\ deviceId' = RequestedDeviceName
            /\ cpc' = "open"
            /\ UNCHANGED result
       ELSE /\ deviceId' = NoDevice
            /\ result' = "FAILED" /\ cpc' = "answer"
  /\ CommStep
  /\ UNCHANGED <<events, device, listening, RequestedDeviceName, errorCode, fresh, failed>>

\* OpenDevice: init_lock, then CreateFile.
OpenStep == CommStep /\ UNCHANGED <<events, listening, request, fresh>>

AlreadyConnected ==
  /\ cpc = "open" /\ init_lock = "free" /\ isConnected
  /\ result' = "NOERROR" /\ cpc' = "answer"
  /\ OpenStep /\ UNCHANGED <<device, failed>>

PortRefusedKeepsLock ==
  /\ cpc = "open" /\ init_lock = "free" /\ ~isConnected
  /\ init_lock' = "comm"
  /\ \E e \in {"IN_USE", "NOT_CONNECTED"} : result' = e
  /\ cpc' = "answer"
  /\ OpenStep /\ UNCHANGED <<isConnected, port, failed>>

PortRefused ==
  /\ cpc = "open" /\ init_lock = "free" /\ ~isConnected
  /\ \E e \in {"IN_USE", "NOT_CONNECTED"} : result' = e
  /\ cpc' = "answer"
  /\ OpenStep /\ UNCHANGED <<device, failed>>

PortOpened ==
  /\ cpc = "open" /\ init_lock = "free" /\ ~isConnected
  /\ init_lock' = "comm" /\ port' = TRUE
  /\ cpc' = "configure"
  /\ OpenStep /\ UNCHANGED <<isConnected, result, failed>>

\* Get/SetCommState or SetCommMask fails: the port is closed again.
ConfigureFailedLeavesPort ==
  /\ cpc = "configure"
  /\ init_lock' = "free"
  /\ result' = "FAILED" /\ cpc' = "answer"
  /\ OpenStep /\ UNCHANGED <<isConnected, port, failed>>

ConfigureFailed ==
  /\ cpc = "configure"
  /\ port' = FALSE /\ init_lock' = "free"
  /\ result' = "FAILED" /\ cpc' = "answer"
  /\ OpenStep /\ UNCHANGED <<isConnected, failed>>

\* CreateEvent fails: OpenDevice returns with the port open and the lock held.
CreateEventFailed ==
  /\ cpc = "configure" /\ CreateEventMayFail
  /\ failed' = failed \cup {"CreateEvent"}
  /\ result' = "FAILED" /\ cpc' = "answer"
  /\ OpenStep /\ UNCHANGED device

Configured ==
  /\ cpc = "configure"
  /\ isConnected' = TRUE /\ init_lock' = "free"
  /\ result' = "NOERROR" /\ cpc' = "first_listen"
  /\ OpenStep /\ UNCHANGED <<port, failed>>

OpenDevice ==
  \/ AlreadyConnected \/ PortRefused \/ PortOpened
  \/ ConfigureFailed \/ CreateEventFailed \/ Configured
  \/ cpc = "first_listen" /\ Listen("answer")

\* WaitForEvents, when OpenArduino has returned.
StoreErrorCode(then) ==
  /\ errorCode' = result
  /\ fresh' = Openers
  /\ cpc' = then
  /\ CommStep
  /\ UNCHANGED <<events, device, listening, RequestedDeviceName, deviceId, result, failed>>

SetInitReqComplete(then) ==
  /\ initReqComplete' = TRUE
  /\ cpc' = then
  /\ CommStep
  /\ UNCHANGED <<commEvent, requestInit, commExit, closed, device, listening, request,
                 result, fresh, failed>>

AnswerBeforeStore ==
  \/ cpc = "answer" /\ SetInitReqComplete("complete")
  \/ cpc = "complete" /\ StoreErrorCode("reset_request")

Answer ==
  \/ cpc = "answer" /\ StoreErrorCode("complete")
  \/ cpc = "complete" /\ SetInitReqComplete("reset_request")

KeepRequest ==
  /\ cpc = "reset_request"
  /\ cpc' = "wait"
  /\ CommStep
  /\ UNCHANGED <<events, device, listening, request, result, fresh, failed>>

ResetRequest ==
  /\ cpc = "reset_request"
  /\ requestInit' = FALSE
  /\ cpc' = "wait"
  /\ CommStep
  /\ UNCHANGED <<commEvent, initReqComplete, commExit, closed, device, listening,
                 request, result, fresh, failed>>

\* StartComm after its loop: CloseDevice, and ghCommExitedEvent (cpc "done").
CloseDevice ==
  /\ cpc = "close" /\ init_lock = "free"
  /\ port' = FALSE /\ isConnected' = FALSE /\ armed' = FALSE
  /\ cpc' = "done"
  /\ CommStep
  /\ UNCHANGED <<init_lock, arrival, traffic, events, request, result, fresh, failed>>

Comm ==
  \/ WaitForEvents \/ HandleCommEvent \/ ServeTraffic \/ LookUp
  \/ OpenDevice \/ Answer \/ ResetRequest \/ CloseDevice

-----------------------------------------------------------------------------
(* The port, and the thread that unloads the library.                      *)

Traffic ==
  /\ port /\ isConnected /\ traffic < MaxTraffic
  /\ traffic' = traffic + 1
  /\ IF armed THEN armed' = FALSE /\ commEvent' = TRUE /\ UNCHANGED arrival
              ELSE arrival' = TRUE /\ UNCHANGED <<armed, commEvent>>
  /\ UNCHANGED <<requestInit, initReqComplete, commExit, closed, device, request,
                 cpc, result, mpc, calls, fresh, failed>>

\* CloseCommThread: the thread is asked to exit; when it has, or after five
\* seconds, the handles are closed.
AskForExit ==
  /\ mpc = "run"
  /\ commExit' = TRUE /\ mpc' = "wait"
  /\ UNCHANGED <<commEvent, requestInit, initReqComplete, closed, device, listening,
                 request, cpc, result, calls, fresh, failed>>

CloseEvents ==
  /\ mpc = "wait"
  /\ closed' = TRUE /\ mpc' = "done"
  /\ UNCHANGED <<commEvent, requestInit, initReqComplete, commExit, device, listening,
                 request, cpc, result, calls, fresh, failed>>

Next ==
  \/ \E a \in Openers : Opener(a) \/ \E n \in Names : Open(a, n)
  \/ Comm \/ Traffic \/ AskForExit \/ CloseEvents

\* Every thread that can run does: a call that waits is woken or times out.
Spec == Init /\ [][Next]_vars
FairSpec == Spec /\ WF_vars(Comm) /\ \A a \in Openers : WF_vars(Opener(a))

-----------------------------------------------------------------------------
\* A call that returned STATUS_NOERROR found the adapter open or had it
\* opened, and it stays open until the library is unloaded: the error code,
\* which starts as STATUS_NOERROR, is stored before the waiting threads wake.
OpenMeansConnected ==
  mpc = "run" => \A a \in Openers : status[a] = "NOERROR" => isConnected

\* Whoever holds init_lock sees the port open exactly when isConnected says
\* so: every way out of OpenDevice that fails closes the port again.
PortMatchesConnected == init_lock = "free" => (port <=> isConnected)

\* When the communication thread waits and the adapter is open, either the
\* port will signal ghCommEvent or the event is signaled: the reset of the
\* event never loses one.  A failed WaitCommEvent is not reported to anybody.
NeverDeaf ==
  cpc = "wait" /\ isConnected => armed \/ commEvent \/ "Listen" \in failed

\* Every PassThruOpen returns: no path but the failed CreateEvent leaves
\* init_lock held, and the wait has a time limit.
EveryOpenReturns ==
  \A a \in Openers : pc[a] # "idle" ~> pc[a] = "idle" \/ "CreateEvent" \in failed

\* Once asked to exit the communication thread closes the adapter and ends,
\* when the traffic pauses and the requests are served: each request is
\* reset, so that the exit, the last of the events, has its turn.
ExitIsServed == commExit ~> cpc = "done" \/ "CreateEvent" \in failed

\* comm.cpp:29, "signaled to other threads when arduino initialization ended"
\* and :30, "other threads can request init, if first one failed": the call
\* is woken by the end of an attempt that was not over when it asked for one.
AnswerIsFresh == \A a \in Openers : pc[a] = "read" => a \in fresh
=============================================================================
