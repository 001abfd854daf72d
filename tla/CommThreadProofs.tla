-------------------------- MODULE CommThreadProofs --------------------------
(***************************************************************************)
(* Proofs about CommThread: for any number of openers, any names and any   *)
(* amount of traffic, what an open reports is true, the port agrees with   *)
(* isConnected, and the communication thread never waits deaf.             *)
(***************************************************************************)
EXTENDS CommThread, TLAPS

Codes == {"none", "NOERROR", "FAILED", "IN_USE", "NOT_CONNECTED"}

\* The types the proofs need.
TypeOK ==
  /\ pc \in [Openers -> {"idle", "check", "ask", "signal", "wait", "read"}]
  /\ status \in [Openers -> Codes]
  /\ errorCode \in Codes /\ result \in Codes

\* OpenDevice works on a closed port, under init_lock.
DeviceInv ==
  /\ PortMatchesConnected
  /\ cpc = "configure" => init_lock = "comm" /\ port /\ ~isConnected

\* The adapter is open wherever an attempt is about to be reported as a
\* success, and nothing closes it before the library is unloaded.
OpenInv ==
  /\ OpenMeansConnected
  /\ mpc = "run" => ~commExit /\ ~closed /\ cpc \notin {"close", "done"}
  /\ mpc = "run" /\ cpc = "first_listen" => isConnected
  /\ mpc = "run" /\ cpc = "answer" /\ result = "NOERROR" => isConnected
  /\ mpc = "run" /\ errorCode = "NOERROR" /\ (initReqComplete \/ cpc = "complete")
       => isConnected
  /\ \A a \in Openers : pc[a] = "read" => initReqComplete

\* Only between the reset of the event and the next WaitCommEvent, and before
\* the first one, is no arrival on its way to the thread.
HearInv ==
  isConnected /\ cpc \notin {"listen", "first_listen"} =>
    armed \/ commEvent \/ "Listen" \in failed

-----------------------------------------------------------------------------
\* Every step keeps the types.
LEMMA TypeStep == TypeOK /\ [Next]_vars => TypeOK'
<1> SUFFICES ASSUME TypeOK, [Next]_vars PROVE TypeOK'
  OBVIOUS
<1> USE DEF TypeOK, Codes
<1>1. CASE \E a \in Openers : Opener(a)
  BY <1>1 DEF Opener, Check, Ask, Signal, Woken, TimedOut, ReadErrorCode, Return, Goto,
     request, calls
<1>2. CASE \E a \in Openers, n \in Names : Open(a, n)
  BY <1>2 DEF Open, Goto, request
<1>3. CASE Comm
  <2>1. CASE OpenDevice
    BY <2>1 DEF OpenDevice, AlreadyConnected, PortRefused, PortOpened, ConfigureFailed,
       CreateEventFailed, Configured, Listen, OpenStep, CommStep, request, calls
  <2>2. CASE LookUp
    BY <2>2 DEF LookUp, CommStep, calls
  <2>3. CASE WaitForEvents \/ HandleCommEvent \/ ServeTraffic \/ ResetRequest \/ CloseDevice
    BY <2>3 DEF WaitForEvents, HandleCommEvent, ServeTraffic, ResetCommEvent, Listen,
       ResetRequest, CloseDevice, CommStep, request, calls
  <2>4. CASE Answer
    BY <2>4 DEF Answer, StoreErrorCode, SetInitReqComplete, CommStep, request, calls
  <2> QED
    BY <1>3, <2>1, <2>2, <2>3, <2>4 DEF Comm
<1>4. CASE Traffic \/ AskForExit \/ CloseEvents
  BY <1>4 DEF Traffic, AskForExit, CloseEvents, request, calls
<1>5. CASE UNCHANGED vars
  BY <1>5 DEF vars, request, calls
<1> QED
  BY <1>1, <1>2, <1>3, <1>4, <1>5 DEF Next

\* Every step keeps the port and isConnected together.
LEMMA DeviceStep == DeviceInv /\ [Next]_vars => DeviceInv'
<1> SUFFICES ASSUME DeviceInv, [Next]_vars PROVE DeviceInv'
  OBVIOUS
<1> USE DEF DeviceInv, PortMatchesConnected
<1>1. CASE \E a \in Openers : Opener(a)
  BY <1>1 DEF Opener, Check, Ask, Signal, Woken, TimedOut, ReadErrorCode, device
<1>2. CASE \E a \in Openers, n \in Names : Open(a, n)
  BY <1>2 DEF Open, device
<1>3. CASE Comm
  <2>1. CASE OpenDevice
    BY <2>1 DEF OpenDevice, AlreadyConnected, PortRefused, PortOpened, ConfigureFailed,
       CreateEventFailed, Configured, Listen, OpenStep, CommStep, device
  <2>2. CASE LookUp
    BY <2>2 DEF LookUp, device
  <2>3. CASE WaitForEvents \/ HandleCommEvent \/ ServeTraffic \/ ResetRequest
    BY <2>3 DEF WaitForEvents, HandleCommEvent, ServeTraffic, ResetCommEvent, Listen,
       ResetRequest, device
  <2>4. CASE Answer
    BY <2>4 DEF Answer, StoreErrorCode, SetInitReqComplete, device
  <2>5. CASE CloseDevice
    BY <2>5 DEF CloseDevice
  <2> QED
    BY <1>3, <2>1, <2>2, <2>3, <2>4, <2>5 DEF Comm
<1>4. CASE Traffic \/ AskForExit \/ CloseEvents
  BY <1>4 DEF Traffic, AskForExit, CloseEvents, device
<1>5. CASE UNCHANGED vars
  BY <1>5 DEF vars, device
<1> QED
  BY <1>1, <1>2, <1>3, <1>4, <1>5 DEF Next

\* Every step keeps the reports of opens true.
LEMMA OpenStepInv == TypeOK /\ OpenInv /\ [Next]_vars => OpenInv'
<1> SUFFICES ASSUME TypeOK, OpenInv, [Next]_vars PROVE OpenInv'
  OBVIOUS
<1> USE DEF TypeOK, OpenInv, OpenMeansConnected
<1>1. ASSUME NEW a \in Openers, Opener(a) PROVE OpenInv'
  <2>1. CASE Check(a)
    BY <2>1 DEF Check, Return, Goto, events, device, request
  <2>2. CASE Ask(a) \/ Signal(a)
    BY <2>2 DEF Ask, Signal, Goto, events, device, request
  <2>3. CASE Woken(a) \/ TimedOut(a)
    BY <2>3 DEF Woken, TimedOut, Return, Goto, events, device, request
  <2>4. CASE ReadErrorCode(a)
    BY <2>4 DEF ReadErrorCode, Return, Goto, events, device, request
  <2> QED
    BY <1>1, <2>1, <2>2, <2>3, <2>4 DEF Opener
<1>2. ASSUME NEW a \in Openers, NEW n \in Names, Open(a, n) PROVE OpenInv'
  BY <1>2 DEF Open, Goto, events, device, request
<1>3. CASE Comm
  <2>1. CASE OpenDevice
    BY <2>1 DEF OpenDevice, AlreadyConnected, PortRefused, PortOpened, ConfigureFailed,
       CreateEventFailed, Configured, Listen, OpenStep, CommStep, events, device, request, calls
  <2>2. CASE LookUp
    BY <2>2 DEF LookUp, CommStep, events, device, request, calls
  <2>3. CASE WaitForEvents \/ HandleCommEvent \/ ServeTraffic \/ ResetRequest
    BY <2>3 DEF WaitForEvents, HandleCommEvent, ServeTraffic, ResetCommEvent, Listen,
       ResetRequest, CommStep, events, device, request, calls
  <2>4. CASE Answer
    BY <2>4 DEF Answer, StoreErrorCode, SetInitReqComplete, CommStep, events, device,
       request, calls
  <2>5. CASE CloseDevice
    BY <2>5 DEF CloseDevice, CommStep, events, request, calls
  <2> QED
    BY <1>3, <2>1, <2>2, <2>3, <2>4, <2>5 DEF Comm
<1>4. CASE Traffic \/ AskForExit \/ CloseEvents
  BY <1>4 DEF Traffic, AskForExit, CloseEvents, device, request, calls
<1>5. CASE UNCHANGED vars
  BY <1>5 DEF vars, events, device, request, calls
<1> QED
  BY <1>1, <1>2, <1>3, <1>4, <1>5 DEF Next

\* Every step keeps the thread within hearing of the port.
LEMMA HearStep == HearInv /\ [Next]_vars => HearInv'
<1> SUFFICES ASSUME HearInv, [Next]_vars PROVE HearInv'
  OBVIOUS
<1> USE DEF HearInv
<1>1. ASSUME NEW a \in Openers, Opener(a) PROVE HearInv'
  <2>1. CASE Check(a) \/ Ask(a) \/ Signal(a)
    BY <2>1 DEF Check, Ask, Signal, events, device, listening
  <2>2. CASE Woken(a) \/ TimedOut(a) \/ ReadErrorCode(a)
    BY <2>2 DEF Woken, TimedOut, ReadErrorCode, events, device, listening
  <2> QED
    BY <1>1, <2>1, <2>2 DEF Opener
<1>2. CASE \E a \in Openers, n \in Names : Open(a, n)
  BY <1>2 DEF Open, events, device, listening
<1>3. CASE Comm
  <2>1. CASE OpenDevice
    BY <2>1 DEF OpenDevice, AlreadyConnected, PortRefused, PortOpened, ConfigureFailed,
       CreateEventFailed, Configured, Listen, OpenStep, CommStep, events, device, listening
  <2>2. CASE LookUp
    BY <2>2 DEF LookUp, events, device, listening
  <2>3. CASE WaitForEvents \/ HandleCommEvent \/ ServeTraffic \/ ResetRequest
    BY <2>3 DEF WaitForEvents, HandleCommEvent, ServeTraffic, ResetCommEvent, Listen,
       ResetRequest, CommStep, events, device, listening
  <2>4. CASE Answer
    BY <2>4 DEF Answer, StoreErrorCode, SetInitReqComplete, CommStep, events, device, listening
  <2>5. CASE CloseDevice
    BY <2>5 DEF CloseDevice
  <2> QED
    BY <1>3, <2>1, <2>2, <2>3, <2>4, <2>5 DEF Comm
<1>4. CASE Traffic \/ AskForExit \/ CloseEvents
  BY <1>4 DEF Traffic, AskForExit, CloseEvents, device, listening
<1>5. CASE UNCHANGED vars
  BY <1>5 DEF vars, events, device, listening
<1> QED
  BY <1>1, <1>2, <1>3, <1>4, <1>5 DEF Next

-----------------------------------------------------------------------------
\* Whoever holds init_lock finds the port open exactly when isConnected says
\* so, whatever fails in OpenDevice.
THEOREM PortAgrees == Spec => []PortMatchesConnected
<1>1. Init => DeviceInv
  BY DEF Init, DeviceInv, PortMatchesConnected
<1>2. DeviceInv => PortMatchesConnected
  BY DEF DeviceInv
<1> QED
  BY <1>1, <1>2, DeviceStep, PTL DEF Spec

\* An open that succeeded found the adapter open, and it stays open until
\* the library is unloaded.
THEOREM OpensTellTheTruth == Spec => []OpenMeansConnected
<1>1. Init => TypeOK /\ OpenInv
  BY DEF Init, TypeOK, Codes, OpenInv, OpenMeansConnected
<1>2. OpenInv => OpenMeansConnected
  BY DEF OpenInv
<1> QED
  BY <1>1, <1>2, TypeStep, OpenStepInv, PTL DEF Spec

\* The thread does not wait without an arrival being able to wake it, unless
\* WaitCommEvent failed.
THEOREM ThreadHears == Spec => []NeverDeaf
<1>1. Init => HearInv
  BY DEF Init, HearInv
<1>2. HearInv => NeverDeaf
  BY DEF HearInv, NeverDeaf
<1> QED
  BY <1>1, <1>2, HearStep, PTL DEF Spec
=============================================================================
