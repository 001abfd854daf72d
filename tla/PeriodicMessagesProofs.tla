----------------------- MODULE PeriodicMessagesProofs -----------------------
(***************************************************************************)
(* Proofs about the periodic messages of a channel, for any limit and any  *)
(* number of messages started.                                             *)
(***************************************************************************)
EXTENDS PeriodicMessages, FiniteSetTheorems, TLAPS

\* Until the destructor has set the flag the thread has no reason to exit, and
\* from its start on there are no messages.
Lifetime ==
  /\ periodicMessages # {} => opc = "open"
  /\ opc \in {"open", "stop"} => ~stopped /\ hpc # "exited"

IInv == TypeOK /\ NoLostWakeup /\ Lifetime

\* The number of messages after one more is started, and after some are gone.
LEMMA OneMore ==
  ASSUME NEW S, IsFiniteSet(S), NEW x, NEW m \in Nat, Cardinality(S) < m
  PROVE  Cardinality(S \cup {x}) <= m
<1>1. /\ Cardinality(S) \in Nat
      /\ Cardinality(S \cup {x}) = IF x \in S THEN Cardinality(S)
                                               ELSE Cardinality(S) + 1
  BY FS_AddElement, FS_CardinalityType
<1> QED BY <1>1

LEMMA SomeLess ==
  ASSUME NEW S, IsFiniteSet(S), NEW ids, NEW m \in Nat, Cardinality(S) <= m
  PROVE  Cardinality(S \ ids) <= m
<1>1. /\ IsFiniteSet(S \ ids)
      /\ Cardinality(S \ ids) <= Cardinality(S)
  BY FS_Subset, S \ ids \subseteq S
<1>2. Cardinality(S) \in Nat /\ Cardinality(S \ ids) \in Nat
  BY <1>1, FS_CardinalityType
<1> QED BY <1>1, <1>2

\* A set of ids given out so far is finite.
LEMMA MessagesFinite ==
  ASSUME TypeOK
  PROVE  IsFiniteSet(periodicMessages)
<1>1. 1 \in Int /\ rollingPeriodicMsgId - 1 \in Int
  BY PeriodicAssumption DEF TypeOK
<1>2. IsFiniteSet(1..(rollingPeriodicMsgId - 1))
  BY <1>1, FS_Interval
<1> QED BY <1>2, FS_Subset DEF TypeOK

\* The invariant holds when the thread has been created.
LEMMA InitIInv == Init => IInv
<1> SUFFICES ASSUME Init PROVE IInv
  OBVIOUS
<1>1. Cardinality(periodicMessages) <= MAX_PERIODIC_MSGS
  BY FS_EmptySet, PeriodicAssumption DEF Init
<1>2. TypeOK
  <2>1. rollingPeriodicMsgId \in 1..(MaxIds + 1) /\ current \in 0..MaxIds
    BY PeriodicAssumption DEF Init
  <2>2. /\ periodicMessages \subseteq 1..(rollingPeriodicMsgId - 1)
        /\ once \subseteq periodicMessages
        /\ timers \subseteq periodicMessages
        /\ failed \subseteq periodicMessages
        /\ armed \subseteq timers \ failed
        /\ apcs \subseteq timers \ failed
    BY DEF Init
  <2>3. event \in BOOLEAN /\ stopped \in BOOLEAN
    BY DEF Init
  <2>4. /\ opc \in {"open", "stop", "signal", "close", "closed", "freed"}
        /\ hpc \in {"top", "wait", "woken", "scan", "reset", "callback", "exited"}
    BY DEF Init
  <2> QED BY <1>1, <2>1, <2>2, <2>3, <2>4 DEF TypeOK
<1>3. NoLostWakeup /\ Lifetime
  BY DEF Init, NoLostWakeup, Lifetime
<1> QED BY <1>2, <1>3 DEF IInv

\* Deleting messages keeps the parts of the invariant that speak of them.
LEMMA RemoveKeeps ==
  ASSUME IInv, NEW ids, Remove(ids),
         UNCHANGED <<rollingPeriodicMsgId, event, hpc, current>>
  PROVE  /\ periodicMessages' \subseteq 1..(rollingPeriodicMsgId' - 1)
         /\ Cardinality(periodicMessages') <= MAX_PERIODIC_MSGS
         /\ once' \subseteq periodicMessages'
         /\ timers' \subseteq periodicMessages'
         /\ failed' \subseteq periodicMessages'
         /\ armed' \subseteq timers' \ failed'
         /\ apcs' \subseteq timers' \ failed'
         /\ NoLostWakeup'
<1>1. Cardinality(periodicMessages') <= MAX_PERIODIC_MSGS
  BY MessagesFinite, SomeLess, PeriodicAssumption DEF IInv, TypeOK, Remove
<1>2. NoLostWakeup'
  BY DEF IInv, NoLostWakeup, Remove
<1> QED BY <1>1, <1>2 DEF IInv, TypeOK, Remove

\* Every step of the owner, the destructor's included, keeps the invariant.
LEMMA OwnerStep == IInv /\ Owner => IInv'
<1> SUFFICES ASSUME IInv, Owner PROVE IInv'
  OBVIOUS
<1> USE PeriodicAssumption
<1>1. CASE StartPeriodicMsg
  <2>1. Cardinality(periodicMessages') <= MAX_PERIODIC_MSGS
    BY <1>1, MessagesFinite, OneMore DEF IInv, StartPeriodicMsg, Add
  <2>2. TypeOK'
    <3>1. rollingPeriodicMsgId' \in 1..(MaxIds + 1)
      BY <1>1 DEF IInv, TypeOK, StartPeriodicMsg, Add
    <3>2. periodicMessages' \subseteq 1..(rollingPeriodicMsgId' - 1)
      BY <1>1 DEF IInv, TypeOK, StartPeriodicMsg, Add
    <3>3. /\ once' \subseteq periodicMessages'
          /\ timers' \subseteq periodicMessages'
          /\ failed' \subseteq periodicMessages'
          /\ armed' \subseteq timers' \ failed'
          /\ apcs' \subseteq timers' \ failed'
      BY <1>1 DEF IInv, TypeOK, StartPeriodicMsg, Add
    <3> QED
      BY <1>1, <2>1, <3>1, <3>2, <3>3 DEF IInv, TypeOK, StartPeriodicMsg, Add
  <2>3. NoLostWakeup'
    BY <1>1 DEF IInv, NoLostWakeup, Lifetime, StartPeriodicMsg, Add, OwnerMayCall
  <2>4. Lifetime'
    BY <1>1 DEF IInv, Lifetime, StartPeriodicMsg, Add, OwnerMayCall
  <2> QED BY <2>2, <2>3, <2>4 DEF IInv
<1>2. ASSUME NEW id \in Ids, StopPeriodicMsg(id) PROVE IInv'
  <2>1. Lifetime'
    BY <1>2 DEF IInv, Lifetime, StopPeriodicMsg, Remove, OwnerMayCall
  <2> QED BY <1>2, <2>1, RemoveKeeps DEF IInv, TypeOK, StopPeriodicMsg
<1>3. CASE StopPeriodicMessages
  <2>1. Lifetime'
    BY <1>3 DEF IInv, Lifetime, StopPeriodicMessages, Remove, OwnerMayCall
  <2> QED BY <1>3, <2>1, RemoveKeeps DEF IInv, TypeOK, StopPeriodicMessages
<1>4. CASE BeginDestroy
  <2>1. Lifetime'
    BY <1>4 DEF IInv, Lifetime, BeginDestroy, Remove, OwnerMayCall
  <2> QED BY <1>4, <2>1, RemoveKeeps DEF IInv, TypeOK, BeginDestroy
<1>5. CASE SetStopped
  BY <1>5 DEF IInv, TypeOK, NoLostWakeup, Lifetime, SetStopped, messages
<1>6. CASE SignalStop
  BY <1>6 DEF IInv, TypeOK, NoLostWakeup, Lifetime, SignalStop, messages
<1>7. CASE CloseHandles
  BY <1>7 DEF IInv, TypeOK, NoLostWakeup, Lifetime, CloseHandles, messages
<1>8. CASE Free
  BY <1>8 DEF IInv, TypeOK, NoLostWakeup, Lifetime, Free, messages
<1> QED BY <1>1, <1>2, <1>3, <1>4, <1>5, <1>6, <1>7, <1>8 DEF Owner

\* Every step of the handler thread keeps it.
LEMMA HandlerStep == IInv /\ Handler => IInv'
<1> SUFFICES ASSUME IInv, Handler PROVE IInv'
  OBVIOUS
<1> USE PeriodicAssumption
<1>1. CASE Wait
  BY <1>1 DEF IInv, TypeOK, NoLostWakeup, Lifetime, Wait, HandlesOpen, messages
<1>2. CASE Woken
  BY <1>2 DEF IInv, TypeOK, NoLostWakeup, Lifetime, Woken, messages
<1>3. CASE Exit
  BY <1>3 DEF IInv, TypeOK, NoLostWakeup, Lifetime, Exit, messages
<1>4. CASE GoOn
  BY <1>4 DEF IInv, TypeOK, NoLostWakeup, Lifetime, GoOn, messages
<1>5. CASE CreateTimers
  <2>1. PICK created \in SUBSET (periodicMessages \ timers) :
          \E set \in SUBSET created :
            /\ timers' = timers \cup created
            /\ armed' = armed \cup set
            /\ failed' = (failed \cup (periodicMessages \ timers)) \ set
    BY <1>5 DEF CreateTimers, CreateTimer
  <2>2. PICK set \in SUBSET created :
          /\ timers' = timers \cup created
          /\ armed' = armed \cup set
          /\ failed' = (failed \cup (periodicMessages \ timers)) \ set
    BY <2>1
  <2>3. TypeOK'
    <3>1. apcs' \subseteq timers' \ failed' /\ armed' \subseteq timers' \ failed'
      BY <1>5, <2>2 DEF IInv, TypeOK, CreateTimers
    <3>2. timers' \subseteq periodicMessages' /\ failed' \subseteq periodicMessages'
      BY <1>5, <2>2 DEF IInv, TypeOK, CreateTimers
    <3> QED BY <1>5, <3>1, <3>2 DEF IInv, TypeOK, CreateTimers
  \* Every message without a timer has failed.
  <2>4. NoLostWakeup'
    BY <1>5, <2>2 DEF NoLostWakeup, CreateTimers
  <2>5. Lifetime'
    BY <1>5 DEF IInv, Lifetime, CreateTimers
  <2> QED BY <2>3, <2>4, <2>5 DEF IInv
<1>6. CASE ResetEvent
  <2>1. TypeOK'
    <3>1. event' \in BOOLEAN
      BY <1>6 DEF ResetEvent
    <3> QED BY <1>6, <3>1 DEF IInv, TypeOK, ResetEvent, messages
  \* At "reset" every message has been looked at.
  <2>2. NoLostWakeup'
    BY <1>6 DEF IInv, NoLostWakeup, ResetEvent, messages
  <2>3. Lifetime'
    BY <1>6 DEF IInv, Lifetime, ResetEvent, messages
  <2> QED BY <2>1, <2>2, <2>3 DEF IInv
<1>7. CASE Sent
  BY <1>7 DEF IInv, TypeOK, NoLostWakeup, Lifetime, Sent, messages
<1>8. ASSUME NEW id \in Ids, TimerSignaled(id) PROVE IInv'
  BY <1>8 DEF IInv, TypeOK, NoLostWakeup, Lifetime, TimerSignaled, Ids
<1> QED BY <1>1, <1>2, <1>3, <1>4, <1>5, <1>6, <1>7, <1>8 DEF Handler

\* So does every step of the system.
LEMMA NextStep == IInv /\ [Next]_vars => IInv'
<1> SUFFICES ASSUME IInv, [Next]_vars PROVE IInv'
  OBVIOUS
<1>1. CASE Owner
  BY <1>1, OwnerStep
<1>2. CASE Handler
  BY <1>2, HandlerStep
<1>3. ASSUME NEW id \in Ids, TimerGoesOff(id) PROVE IInv'
  BY <1>3 DEF IInv, TypeOK, NoLostWakeup, Lifetime, TimerGoesOff
<1>4. CASE UNCHANGED vars
  BY <1>4 DEF IInv, TypeOK, NoLostWakeup, Lifetime, vars, messages
<1> QED BY <1>1, <1>2, <1>3, <1>4 DEF Next

\* The inductive invariant holds in every reachable state.
THEOREM Invariance == Spec => []IInv
BY InitIInv, NextStep, PTL DEF Spec

\* The array of messages never overflows, and timers and APCs belong to
\* messages that are in it.
THEOREM TypeCorrect == Spec => []TypeOK
<1>1. IInv => TypeOK BY DEF IInv
<1> QED BY <1>1, Invariance, PTL

\* No message that was started is ever forgotten by the handler thread.
THEOREM NoWakeupIsLost == Spec => []NoLostWakeup
<1>1. IInv => NoLostWakeup BY DEF IInv
<1> QED BY <1>1, Invariance, PTL
=============================================================================
