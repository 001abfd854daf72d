-------------------------- MODULE PeriodicMessages --------------------------
(***************************************************************************)
(* The periodic messages of one channel (PeriodicMessageHandler.cpp and    *)
(* PeriodicMsg.cpp).                                                       *)
(*                                                                         *)
(* The application thread that owns the channel starts and stops messages  *)
(* and at last destroys the handler object.  The handler thread waits,     *)
(* alertably, for a manual-reset event; when it is set it gives every new  *)
(* message a timer.  A timer that goes off queues an APC, which the system *)
(* runs in the handler thread while it waits.                              *)
(*                                                                         *)
(* HandlerLock (module Benaphore) is held by the handler thread from its   *)
(* scan of the messages to the reset of the event; Start and Stop hold it  *)
(* for the length of a step.  The destructor takes it only to remove the   *)
(* messages: it sets the flag and the event under no lock.                 *)
(***************************************************************************)
EXTENDS Integers, FiniteSets

CONSTANTS
  MAX_PERIODIC_MSGS,    \* 10 in the code
  TimersMayFail,        \* whether CreateWaitableTimer, or SetWaitableTimer, may fail
  MaxIds                \* bound: messages started in a behaviour

ASSUME PeriodicAssumption ==
  /\ MAX_PERIODIC_MSGS \in Nat
  /\ TimersMayFail \in BOOLEAN
  /\ MaxIds \in Nat

VARIABLES
  rollingPeriodicMsgId,  \* id of the next message, counted from 1
  periodicMessages,      \* ids of the messages in the array
  once,                  \* those with TimeInterval 0: their timers go off once
  timers,                \* those with an hTimer
  armed,                 \* those whose timer is set and will go off
  failed,                \* history: those whose last CreateTimer failed
  apcs,                  \* those whose APC is queued
  event,                 \* hMsgHandlerEvent is signaled
  stopped,
  opc,                   \* where the owner is in the destructor
  hpc,                   \* where the handler thread is
  current                \* the message whose callback runs, or 0

messages == <<rollingPeriodicMsgId, periodicMessages, once, timers, armed, failed,
              apcs>>
vars == <<messages, event, stopped, opc, hpc, current>>

Ids == 1..MaxIds

\* The owner may make a call, and gets HandlerLock.
OwnerNeedsNoLock == opc = "open"

OwnerMayCall == opc = "open" /\ hpc # "reset"

Init ==
  /\ rollingPeriodicMsgId = 1
  /\ periodicMessages = {} /\ once = {}
  /\ timers = {} /\ armed = {} /\ failed = {} /\ apcs = {}
  /\ event = FALSE
  /\ stopped = FALSE
  /\ opc = "open"
  /\ hpc = "top"
  /\ current = 0

-----------------------------------------------------------------------------
(* The owner.                                                              *)

\* A message is put at the end of the array; its TimeInterval, which nobody
\* checks, is 0 or not.
Add ==
  /\ OwnerMayCall
  /\ rollingPeriodicMsgId <= MaxIds
  /\ periodicMessages' = periodicMessages \cup {rollingPeriodicMsgId}
  /\ once' \in {once, once \cup {rollingPeriodicMsgId}}
  /\ rollingPeriodicMsgId' = rollingPeriodicMsgId + 1
  /\ event' = TRUE
  /\ UNCHANGED <<timers, armed, failed, apcs, stopped, opc, hpc, current>>

\* StartPeriodicMsg and AddPeriodicMessage; at the limit the call returns
\* ERR_EXCEEDED_LIMIT and changes nothing.
StartOneTooMany == Cardinality(periodicMessages) <= MAX_PERIODIC_MSGS /\ Add

StartPeriodicMsg == Cardinality(periodicMessages) < MAX_PERIODIC_MSGS /\ Add

\* The messages are deleted: their timers are cancelled, and with them the
\* APCs that wait to run.
Remove(ids) ==
  /\ periodicMessages' = periodicMessages \ ids
  /\ once' = once \ ids
  /\ timers' = timers \ ids
  /\ armed' = armed \ ids
  /\ failed' = failed \ ids
  /\ apcs' = apcs \ ids

\* RemovePeriodicMessage; an unknown id changes nothing.
StopPeriodicMsg(id) ==
  /\ OwnerMayCall
  /\ id \in periodicMessages
  /\ Remove({id})
  /\ UNCHANGED <<rollingPeriodicMsgId, event, stopped, opc, hpc, current>>

\* RemoveAllPeriodicMessages (CLEAR_PERIODIC_MSGS, CProtocol::Disconnect).
StopPeriodicMessages ==
  /\ OwnerMayCall
  /\ Remove(periodicMessages)
  /\ UNCHANGED <<rollingPeriodicMsgId, event, stopped, opc, hpc, current>>

\* The destructor: remove the messages, set the flag, set the event, close the
\* handles, and leave the memory to be freed.  It waits for nobody.
BeginDestroy ==
  /\ OwnerMayCall
  /\ Remove(periodicMessages)
  /\ opc' = "stop"
  /\ UNCHANGED <<rollingPeriodicMsgId, event, stopped, hpc, current>>

SetStopped ==
  /\ opc = "stop"
  /\ stopped' = TRUE
  /\ opc' = "signal"
  /\ UNCHANGED <<messages, event, hpc, current>>

SignalStop ==
  /\ opc = "signal"
  /\ event' = TRUE
  /\ opc' = "close"
  /\ UNCHANGED <<messages, stopped, hpc, current>>

CloseHandles ==
  /\ opc = "close"
  /\ opc' = "closed"
  /\ UNCHANGED <<messages, event, stopped, hpc, current>>

Free ==
  /\ opc = "closed"
  /\ opc' = "freed"
  /\ UNCHANGED <<messages, event, stopped, hpc, current>>

Owner ==
  \/ StartPeriodicMsg
  \/ \E id \in Ids : StopPeriodicMsg(id)
  \/ StopPeriodicMessages
  \/ BeginDestroy \/ SetStopped \/ SignalStop \/ CloseHandles \/ Free

-----------------------------------------------------------------------------
(* The handler thread: HandleSignal in a loop.                             *)

HandlesOpen == opc \notin {"closed", "freed"}

\* WaitForSingleObjectEx is called; on a closed handle it fails, and the
\* thread exits.
Wait ==
  /\ hpc = "top"
  /\ hpc' = IF HandlesOpen THEN "wait" ELSE "exited"
  /\ UNCHANGED <<messages, event, stopped, opc, current>>

\* The wait ends with WAIT_OBJECT_0.
Woken ==
  /\ hpc = "wait" /\ event
  /\ hpc' = "woken"
  /\ UNCHANGED <<messages, event, stopped, opc, current>>

\* The flag tells the thread to go.
Exit ==
  /\ hpc = "woken" /\ stopped
  /\ hpc' = "exited"
  /\ UNCHANGED <<messages, event, stopped, opc, current>>

\* The flag is not set (in freed memory it may read as anything).
GoOn ==
  /\ hpc = "woken" /\ (~stopped \/ opc = "freed")
  /\ hpc' = "scan"
  /\ UNCHANGED <<messages, event, stopped, opc, current>>

\* The timers of these messages are created and set, where that succeeds.  A
\* message whose timer was created and could not be set has an hTimer all the
\* same: nobody tries again, and it never goes off.
CreateTimer(ids) ==
  \E created \in SUBSET ids : \E set \in SUBSET created :
    /\ TimersMayFail \/ set = ids
    /\ timers' = timers \cup created
    /\ armed' = armed \cup set
    /\ failed' = (failed \cup ids) \ set

\* HandlerLock is taken, and every message without a timer gets one; what
\* CreateTimer returns is ignored.
CreateTimers ==
  /\ hpc = "scan"
  /\ CreateTimer(periodicMessages \ timers)
  /\ hpc' = "reset"
  /\ UNCHANGED <<rollingPeriodicMsgId, periodicMessages, once, apcs, event,
                 stopped, opc, current>>

\* ResetEvent, and HandlerLock is left.
ResetEvent ==
  /\ hpc = "reset"
  /\ event' = (event /\ ~HandlesOpen)
  /\ hpc' = "top"
  /\ UNCHANGED <<messages, stopped, opc, current>>

\* The system runs an APC of the waiting thread: TimerSignaled sends the
\* message.
TimerSignaled(id) ==
  /\ hpc = "wait" /\ id \in apcs
  /\ apcs' = apcs \ {id}
  /\ current' = id
  /\ hpc' = "callback"
  /\ UNCHANGED <<rollingPeriodicMsgId, periodicMessages, once, timers, armed, failed,
                 event, stopped, opc>>

\* The message is sent, and the wait ends with STATUS_USER_APC.
Sent ==
  /\ hpc = "callback"
  /\ current' = 0
  /\ hpc' = "top"
  /\ UNCHANGED <<messages, event, stopped, opc>>

Handler ==
  \/ Wait \/ Woken \/ Exit \/ GoOn \/ CreateTimers \/ ResetEvent \/ Sent
  \/ \E id \in Ids : TimerSignaled(id)

\* A timer that is set goes off, one without a period for the last time; a
\* timer has at most one APC in the queue.
TimerGoesOff(id) ==
  /\ id \in armed \ apcs
  /\ hpc # "exited"
  /\ apcs' = apcs \cup {id}
  /\ armed' = IF id \in once THEN armed \ {id} ELSE armed
  /\ UNCHANGED <<rollingPeriodicMsgId, periodicMessages, once, timers, failed, event,
                 stopped, opc, hpc, current>>

Next == Owner \/ Handler \/ \E id \in Ids : TimerGoesOff(id)

Spec == Init /\ [][Next]_vars

(***************************************************************************)
(* Fairness: the handler thread and a destructor that has begun are        *)
(* scheduled, callbacks return, and a timer that is set goes off, again    *)
(* and again if it has a period.  A wait that is entered over and over     *)
(* with the event set ends, and the system does not forget a queued APC: a *)
(* thread that keeps coming back to an alertable wait gets both (strong    *)
(* fairness, as each of them may end a wait before the other).  Nobody is  *)
(* obliged to make a call.                                                 *)
(***************************************************************************)
Fairness ==
  /\ WF_vars(Wait \/ Exit \/ GoOn \/ CreateTimers \/ ResetEvent \/ Sent)
  /\ SF_vars(Woken)
  /\ \A id \in Ids : SF_vars(TimerSignaled(id)) /\ WF_vars(TimerGoesOff(id))
  /\ WF_vars(SetStopped \/ SignalStop \/ CloseHandles \/ Free)

FairSpec == Spec /\ Fairness

-----------------------------------------------------------------------------
(* Properties.                                                             *)

\* Type invariant: the array never overflows, only messages in it have timers,
\* queued APCs and failures, and a timer that failed does not go off.
TypeOK ==
  /\ rollingPeriodicMsgId \in 1..(MaxIds + 1)
  /\ periodicMessages \subseteq 1..(rollingPeriodicMsgId - 1)
  /\ Cardinality(periodicMessages) <= MAX_PERIODIC_MSGS
  /\ once \subseteq periodicMessages
  /\ timers \subseteq periodicMessages
  /\ failed \subseteq periodicMessages
  /\ armed \subseteq timers \ failed
  /\ apcs \subseteq timers \ failed
  /\ event \in BOOLEAN /\ stopped \in BOOLEAN
  /\ opc \in {"open", "stop", "signal", "close", "closed", "freed"}
  /\ hpc \in {"top", "wait", "woken", "scan", "reset", "callback", "exited"}
  /\ current \in 0..MaxIds

\* A message that was started and has no timer yet (unless creating it failed)
\* is not forgotten: the event that tells the handler thread of it is set, will
\* not be reset before the thread has looked, and the thread is there to see
\* it, although the thread resets the event for messages it has not heard of.
NoLostWakeup ==
  \A id \in periodicMessages \ (timers \cup failed) :
    event /\ hpc \notin {"reset", "exited"}

\* A message with a period, once started, is sent again and again until it is
\* stopped; one with TimeInterval 0 is sent once.  Only a message whose timer
\* could not be created or set is not sent, as the code ignores the failure.
Due(id) == id \in periodicMessages /\ (id \in once \cap timers => id \in armed \cup apcs)

EveryMessageIsSent ==
  \A id \in Ids :
    Due(id) ~> (current = id \/ id \in failed \/ id \notin periodicMessages)

-----------------------------------------------------------------------------
(* What the destructor's comment says and the code does not do.            *)

\* "Notify the other thread to exit gracefully": the handler thread has left
\* the object when its memory is freed.
ObjectOutlivesThread == opc = "freed" => hpc = "exited"

\* "Notify the other thread to exit": once told to stop, it exits.
StoppedThreadExits == stopped ~> (hpc = "exited")
=============================================================================
