--------------------------- MODULE BenaphoreProofs ---------------------------
(***************************************************************************)
(* Proofs about Benaphore for any finite set of threads.  None of the      *)
(* properties is inductive alone; IInv ties the counter to the threads     *)
(* that are between the increment and the decrement, and says that one     *)
(* "baton" at most is about: a holder, a thread that owes a release, or    *)
(* the semaphore's count.                                                  *)
(***************************************************************************)
EXTENDS Benaphore, FiniteSetTheorems, TLAPS

\* Threads that the counter counts.
Engaged == {t \in Threads : pc[t] \in {"wait", "cs"}}

\* Threads that carry the baton.
Carriers == {t \in Threads : pc[t] \in {"cs", "release"}}

CounterCounts == m_counter = Cardinality(Engaged)

OneBaton ==
  /\ \A t, u \in Carriers : t = u
  /\ m_semaphore > 0 => Carriers = {}

BatonExists == Engaged # {} => Carriers # {} \/ m_semaphore > 0

IInv ==
  /\ TypeOK
  /\ CounterCounts
  /\ OneBaton
  /\ BatonExists
  /\ NoStaleWakeup

LEMMA EngagedFinite == IsFiniteSet(Engaged)
  BY ThreadsFinite, FS_Subset DEF Engaged

\* The counter is zero exactly when nobody is engaged.
LEMMA CounterZero ==
  ASSUME IInv
  PROVE  m_counter = 0 <=> Engaged = {}
  BY EngagedFinite, FS_EmptySet DEF IInv, CounterCounts

LEMMA InitIInv == Init => IInv
<1> SUFFICES ASSUME Init PROVE IInv
  OBVIOUS
<1>1. TypeOK
  BY DEF Init, TypeOK, SemaphoreMax
<1>2. Engaged = {} /\ Carriers = {}
  BY DEF Init, Engaged, Carriers
<1>3. CounterCounts
  BY <1>2, FS_EmptySet DEF Init, CounterCounts
<1>4. OneBaton /\ BatonExists
  BY <1>2 DEF Init, OneBaton, BatonExists
<1>5. NoStaleWakeup
  BY DEF Init, NoStaleWakeup, At
<1> QED
  BY <1>1, <1>3, <1>4, <1>5 DEF IInv

LEMMA StepIInv == IInv /\ [Next]_vars => IInv'
<1> SUFFICES ASSUME IInv, [Next]_vars PROVE IInv'
  OBVIOUS
<1> USE DEF IInv, SemaphoreMax
<1>1. ASSUME NEW t \in Threads, Lock(t) PROVE IInv'
  <2>1. TypeOK'
    BY <1>1 DEF Lock, TypeOK
  <2>2. Engaged' = Engaged \cup {t} /\ t \notin Engaged
    BY <1>1 DEF Lock, TypeOK, Engaged
  <2>3. CounterCounts'
    BY <1>1, <2>2, EngagedFinite, FS_AddElement
       DEF Lock, CounterCounts, TypeOK
  <2>4. CASE m_counter = 0
    <3>1. Engaged = {}
      BY <2>4, CounterZero
    <3>2. Carriers = {} /\ m_semaphore = 0
      BY <3>1 DEF NoStaleWakeup, At, Engaged, Carriers, TypeOK
    <3>3. pc' = [pc EXCEPT ![t] = "cs"] /\ m_semaphore' = m_semaphore
      BY <1>1, <2>4 DEF Lock
    <3>4. Carriers' = {t}
      BY <3>2, <3>3 DEF Carriers, TypeOK
    <3>5. OneBaton' /\ BatonExists'
      BY <3>2, <3>3, <3>4 DEF OneBaton, BatonExists
    <3>6. NoStaleWakeup'
      BY <3>2, <3>3 DEF NoStaleWakeup, At, Carriers, TypeOK
    <3> QED
      BY <2>1, <2>3, <3>5, <3>6
  <2>5. CASE m_counter > 0
    <3>0. m_counter' > 1
      BY <1>1, <2>5 DEF Lock, TypeOK
    <3>1. pc' = [pc EXCEPT ![t] = "wait"] /\ m_semaphore' = m_semaphore
      BY <1>1, <3>0 DEF Lock
    <3>2. Carriers' = Carriers
      BY <1>1, <3>1 DEF Carriers, TypeOK, Lock
    <3>3. Engaged # {}
      BY <2>5, CounterZero DEF TypeOK
    <3>4. OneBaton' /\ BatonExists'
      BY <3>1, <3>2, <3>3 DEF OneBaton, BatonExists
    <3>5. NoStaleWakeup'
      BY <3>1 DEF NoStaleWakeup, At, TypeOK
    <3> QED
      BY <2>1, <2>3, <3>4, <3>5
  <2> QED
    BY <2>4, <2>5 DEF TypeOK
<1>2. ASSUME NEW t \in Threads, Acquire(t) PROVE IInv'
  <2>1. m_semaphore = 1 /\ m_semaphore' = 0
    BY <1>2 DEF Acquire, TypeOK
  <2>2. TypeOK'
    BY <1>2, <2>1 DEF Acquire, TypeOK
  <2>3. Engaged' = Engaged
    BY <1>2 DEF Acquire, TypeOK, Engaged
  <2>4. Carriers = {}
    BY <2>1 DEF OneBaton
  <2>5. Carriers' = {t}
    BY <1>2, <2>4 DEF Carriers, TypeOK, Acquire
  <2>6. CounterCounts'
    BY <1>2, <2>3 DEF CounterCounts, Acquire
  <2>7. OneBaton' /\ BatonExists'
    BY <2>1, <2>5 DEF OneBaton, BatonExists
  <2>8. At("release")' = {}
    BY <1>2, <2>4 DEF At, Carriers, TypeOK, Acquire
  <2> QED
    BY <2>1, <2>2, <2>6, <2>7, <2>8 DEF NoStaleWakeup
<1>3. ASSUME NEW t \in Threads, Unlock(t) PROVE IInv'
  <2>1. t \in Engaged /\ Engaged' = Engaged \ {t}
    BY <1>3 DEF Unlock, TypeOK, Engaged
  <2>2. Carriers = {t} /\ m_semaphore = 0
    BY <1>3 DEF Unlock, OneBaton, Carriers, TypeOK
  <2>3. /\ m_counter' = Cardinality(Engaged')
        /\ m_counter' \in Nat
        /\ m_counter' = 0 <=> Engaged' = {}
    <3>1. IsFiniteSet(Engaged')
      BY <2>1, EngagedFinite, FS_RemoveElement
    <3>2. Cardinality(Engaged') = Cardinality(Engaged) - 1
      BY <2>1, EngagedFinite, FS_RemoveElement
    <3>3. m_counter' = m_counter - 1
      BY <1>3 DEF Unlock
    <3>4. m_counter' = Cardinality(Engaged')
      BY <3>2, <3>3 DEF CounterCounts
    <3>5. Cardinality(Engaged') \in Nat
      BY <3>1, FS_CardinalityType
    <3>6. Cardinality(Engaged') = 0 <=> Engaged' = {}
      BY <3>1, FS_EmptySet
    <3> QED
      BY <3>4, <3>5, <3>6
  <2>4. TypeOK'
    BY <1>3, <2>3 DEF Unlock, TypeOK
  <2>5. \A u \in Threads : u # t => pc'[u] = pc[u] /\ u \notin Carriers
    BY <1>3, <2>2 DEF Unlock, TypeOK
  <2>6. CASE m_counter' > 0
    <3>1. pc'[t] = "release" /\ m_semaphore' = 0
      BY <1>3, <2>2, <2>6 DEF Unlock, TypeOK
    <3>2. Carriers' = {t}
      BY <2>5, <3>1 DEF Carriers
    <3>3. OneBaton' /\ BatonExists'
      BY <3>1, <3>2 DEF OneBaton, BatonExists
    <3>4. PICK u \in Engaged' : TRUE
      BY <2>3, <2>6
    <3>5. u \in At("wait")'
      BY <2>1, <2>5, <3>4 DEF Engaged, Carriers, At
    <3> QED
      BY <2>3, <2>4, <3>3, <3>5 DEF CounterCounts, NoStaleWakeup
  <2>7. CASE m_counter' = 0
    <3>1. pc'[t] = "idle" /\ m_semaphore' = 0
      BY <1>3, <2>2, <2>7 DEF Unlock, TypeOK
    <3>2. Carriers' = {} /\ At("release")' = {}
      BY <2>5, <3>1 DEF Carriers, At
    <3>3. OneBaton' /\ BatonExists' /\ NoStaleWakeup'
      BY <2>3, <2>7, <3>1, <3>2 DEF OneBaton, BatonExists, NoStaleWakeup
    <3> QED
      BY <2>3, <2>4, <3>3 DEF CounterCounts
  <2> QED
    BY <2>3, <2>6, <2>7
<1>4. ASSUME NEW t \in Threads, Release(t) PROVE IInv'
  <2>1. Carriers = {t} /\ m_semaphore = 0 /\ At("wait") # {}
    BY <1>4 DEF Release, OneBaton, Carriers, TypeOK, NoStaleWakeup, At
  <2>2. m_semaphore' = 1
    BY <1>4, <2>1 DEF Release
  <2>3. TypeOK'
    BY <1>4, <2>2 DEF Release, TypeOK
  <2>4. Engaged' = Engaged
    BY <1>4 DEF Release, TypeOK, Engaged
  <2>5. Carriers' = {}
    BY <1>4, <2>1 DEF Carriers, TypeOK, Release
  <2>6. CounterCounts'
    BY <1>4, <2>4 DEF CounterCounts, Release
  <2>7. OneBaton' /\ BatonExists'
    BY <2>2, <2>5 DEF OneBaton, BatonExists
  <2>8. NoStaleWakeup'
    BY <1>4, <2>1 DEF NoStaleWakeup, At, Release, TypeOK
  <2> QED
    BY <2>3, <2>6, <2>7, <2>8
<1>5. CASE UNCHANGED vars
  BY <1>5 DEF vars, TypeOK, CounterCounts, Engaged, OneBaton, Carriers,
              BatonExists, NoStaleWakeup, At
<1> QED
  BY <1>1, <1>2, <1>3, <1>4, <1>5 DEF Next

\* The inductive invariant holds in every reachable state.
THEOREM Invariance == Spec => []IInv
  BY InitIInv, StepIInv, PTL DEF Spec

\* The counter never goes below zero and the semaphore keeps its bounds.
THEOREM TypeCorrect == Spec => []TypeOK
<1>1. IInv => TypeOK
  BY DEF IInv
<1> QED
  BY <1>1, Invariance, PTL

\* At most one thread is between Lock() and Unlock().
THEOREM MutualExclusionHolds == Spec => []MutualExclusion
<1>1. IInv => MutualExclusion
  BY DEF IInv, OneBaton, MutualExclusion, Carriers, At
<1> QED
  BY <1>1, Invariance, PTL

\* ReleaseSemaphore never finds the semaphore at its maximum.
THEOREM NoReleaseIsLost == Spec => []NoLostRelease
<1>1. IInv => NoLostRelease
  BY DEF IInv, OneBaton, NoLostRelease, Carriers, At, TypeOK, SemaphoreMax
<1> QED
  BY <1>1, Invariance, PTL

\* Whoever sleeps in Lock() is owed a wakeup that is still on its way.
THEOREM NoWaiterForgotten == Spec => []WaiterIsOwedWakeup
<1>1. IInv => WaiterIsOwedWakeup
  <2> SUFFICES ASSUME IInv, At("wait") # {}
               PROVE  At("cs") # {} \/ At("release") # {} \/ m_semaphore > 0
    BY DEF WaiterIsOwedWakeup
  <2>1. Engaged # {}
    BY DEF At, Engaged
  <2>2. CASE Carriers # {}
    BY <2>2 DEF Carriers, At
  <2> QED
    BY <2>1, <2>2 DEF IInv, BatonExists
<1> QED
  BY <1>1, Invariance, PTL

\* The semaphore keeps no count that no waiter is there to take.
THEOREM NoWakeupIsStale == Spec => []NoStaleWakeup
<1>1. IInv => NoStaleWakeup
  BY DEF IInv
<1> QED
  BY <1>1, Invariance, PTL

\* Every step of the benaphore is a step of the mutex or leaves it alone.
LEMMA StepRefines ==
  ASSUME IInv, [Next]_vars
  PROVE  [Abstract!Next]_phaseBar
<1> USE DEF IInv
<1>1. ASSUME NEW t \in Threads, Lock(t), m_counter = 0
      PROVE  Abstract!Enter(t)
  <2>1. Engaged = {}
    BY <1>1, CounterZero
  <2>2. \A u \in Threads : phaseBar[u] # "holding"
    BY <2>1 DEF phaseBar, Engaged, TypeOK
  <2>3. pc' = [pc EXCEPT ![t] = "cs"]
    BY <1>1 DEF Lock
  <2>5. phaseBar' = [phaseBar EXCEPT ![t] = "holding"]
    BY <2>3 DEF phaseBar, TypeOK
  <2>4. phaseBar[t] = "idle"
    BY <1>1 DEF Lock, phaseBar
  <2> QED
    BY <2>2, <2>4, <2>5 DEF Abstract!Enter, Abstract!Free
<1>2. ASSUME NEW t \in Threads, Lock(t), m_counter > 0
      PROVE  Abstract!Request(t)
  <2>0. m_counter' > 1
    BY <1>2 DEF Lock, TypeOK
  <2>1. pc' = [pc EXCEPT ![t] = "wait"]
    BY <1>2, <2>0 DEF Lock
  <2> QED
    BY <1>2, <2>1 DEF Lock, phaseBar, TypeOK, Abstract!Request
<1>3. ASSUME NEW t \in Threads, Acquire(t) PROVE Abstract!Enter(t)
  <2>1. \A u \in Threads : pc[u] # "cs"
    BY <1>3 DEF Acquire, OneBaton, Carriers
  <2>2. \A u \in Threads : phaseBar[u] # "holding"
    BY <2>1 DEF phaseBar, TypeOK
  <2>3. phaseBar' = [phaseBar EXCEPT ![t] = "holding"]
    BY <1>3 DEF Acquire, phaseBar, TypeOK
  <2>4. phaseBar[t] = "wanting"
    BY <1>3 DEF Acquire, phaseBar
  <2> QED
    BY <2>2, <2>3, <2>4 DEF Abstract!Enter, Abstract!Free
<1>4. ASSUME NEW t \in Threads, Unlock(t) PROVE Abstract!Leave(t)
  <2>1. pc' = [pc EXCEPT ![t] = "release"] \/ pc' = [pc EXCEPT ![t] = "idle"]
    BY <1>4 DEF Unlock
  <2>2. phaseBar' = [phaseBar EXCEPT ![t] = "idle"]
    BY <2>1 DEF phaseBar, TypeOK
  <2>3. phaseBar[t] = "holding"
    BY <1>4 DEF Unlock, phaseBar
  <2> QED
    BY <2>2, <2>3 DEF Abstract!Leave
<1>5. ASSUME NEW t \in Threads, Release(t) PROVE UNCHANGED phaseBar
  BY <1>5 DEF Release, phaseBar, TypeOK
<1>6. CASE UNCHANGED vars
  BY <1>6 DEF vars, phaseBar
<1>7. ASSUME NEW t \in Threads, Lock(t) PROVE Abstract!Next
  BY <1>1, <1>2, <1>7 DEF TypeOK, Abstract!Next
<1> QED
  BY <1>3, <1>4, <1>5, <1>6, <1>7 DEF Next, Abstract!Next

\* The benaphore implements the mutex, for any finite set of threads.
THEOREM Refinement == Spec => ImplementsMutex
<1>1. Init => Abstract!Init
  BY DEF Init, phaseBar, Abstract!Init
<1> QED
  BY <1>1, StepRefines, Invariance, PTL
     DEF Spec, ImplementsMutex, Abstract!Spec
=============================================================================
