------------------------------ MODULE Benaphore ------------------------------
(***************************************************************************)
(* class Benaphore (Sardine/Benaphore.h): the lock every shared structure  *)
(* of the driver is guarded with.  An interlocked counter tells a thread   *)
(* whether the lock was free; only when it was not does the thread sleep   *)
(* on, or wake another thread through, a semaphore of maximum count one.   *)
(*                                                                         *)
(* Each interlocked operation and each semaphore call is one step; between *)
(* two of them a thread may be preempted for as long as one likes.  The    *)
(* 32-bit width of m_counter is not modelled: the counter never exceeds    *)
(* the number of threads.                                                  *)
(***************************************************************************)
EXTENDS Integers, FiniteSets

CONSTANT Threads

ASSUME ThreadsFinite == IsFiniteSet(Threads)

VARIABLES
  m_counter,     \* threads inside Lock() .. Unlock(), waiting ones included
  m_semaphore,   \* count of the semaphore, created with 0
  pc             \* where each thread is

vars == <<m_counter, m_semaphore, pc>>

\* Third argument of CreateSemaphore.
SemaphoreMax == 1

Init ==
  /\ m_counter = 0
  /\ m_semaphore = 0
  /\ pc = [t \in Threads |-> "idle"]

\* Lock(): the increment decides between the fast path and the semaphore.
LockMutant(t) ==
  /\ pc[t] = "idle"
  /\ m_counter' = m_counter + 1
  /\ pc' = [pc EXCEPT ![t] = IF m_counter' > 2 THEN "wait" ELSE "cs"]
  /\ UNCHANGED m_semaphore

Lock(t) ==
  /\ pc[t] = "idle"
  /\ m_counter' = m_counter + 1
  /\ pc' = [pc EXCEPT ![t] = IF m_counter' > 1 THEN "wait" ELSE "cs"]
  /\ UNCHANGED m_semaphore

\* Lock(): WaitForSingleObject returns, taking the semaphore's count.
AcquireNoWait(t) ==
  /\ pc[t] = "wait"
  /\ m_semaphore' = m_semaphore - 1
  /\ pc' = [pc EXCEPT ![t] = "cs"]
  /\ UNCHANGED m_counter

AcquireRechecks(t) ==
  /\ pc[t] = "wait"
  /\ m_semaphore > 0 /\ m_counter > 1
  /\ m_semaphore' = m_semaphore - 1
  /\ pc' = [pc EXCEPT ![t] = "cs"]
  /\ UNCHANGED m_counter

Acquire(t) ==
  /\ pc[t] = "wait"
  /\ m_semaphore > 0
  /\ m_semaphore' = m_semaphore - 1
  /\ pc' = [pc EXCEPT ![t] = "cs"]
  /\ UNCHANGED m_counter

\* Unlock(): the decrement tells whether somebody has to be woken.
UnlockOffByOne(t) ==
  /\ pc[t] = "cs"
  /\ m_counter' = m_counter - 1
  /\ pc' = [pc EXCEPT ![t] = IF m_counter' > 1 THEN "release" ELSE "idle"]
  /\ UNCHANGED m_semaphore

UnlockAlwaysReleases(t) ==
  /\ pc[t] = "cs"
  /\ m_counter' = m_counter - 1
  /\ pc' = [pc EXCEPT ![t] = "release"]
  /\ UNCHANGED m_semaphore

Unlock(t) ==
  /\ pc[t] = "cs"
  /\ m_counter' = m_counter - 1
  /\ pc' = [pc EXCEPT ![t] = IF m_counter' > 0 THEN "release" ELSE "idle"]
  /\ UNCHANGED m_semaphore

\* Unlock(): ReleaseSemaphore, which fails and changes nothing at the maximum.
Release(t) ==
  /\ pc[t] = "release"
  /\ m_semaphore' = IF m_semaphore < SemaphoreMax THEN m_semaphore + 1
                                                  ELSE m_semaphore
  /\ pc' = [pc EXCEPT ![t] = "idle"]
  /\ UNCHANGED m_counter

Next == \E t \in Threads : Lock(t) \/ Acquire(t) \/ Unlock(t) \/ Release(t)

Spec == Init /\ [][Next]_vars

(***************************************************************************)
(* Fairness: a thread that holds the lock leaves it and a thread inside    *)
(* Unlock() completes it (threads are scheduled and no critical section of *)
(* the driver blocks forever); the kernel does not pass over one waiter    *)
(* for ever while it grants the semaphore to others (it queues waiters).   *)
(* Nobody is obliged to call Lock().                                       *)
(***************************************************************************)
Fairness ==
  \A t \in Threads : /\ WF_vars(Unlock(t))
                     /\ WF_vars(Release(t))
                     /\ SF_vars(Acquire(t))

FairSpec == Spec /\ Fairness

-----------------------------------------------------------------------------
At(place) == {t \in Threads : pc[t] = place}

\* Type invariant: the counter is never negative and the semaphore stays
\* within the bounds CreateSemaphore was given.
TypeOK ==
  /\ m_counter \in Nat
  /\ m_semaphore \in 0..SemaphoreMax
  /\ pc \in [Threads -> {"idle", "wait", "cs", "release"}]

\* Two threads are never between Lock() and Unlock() together, whatever the
\* order in which increments, decrements and semaphore calls interleave.
MutualExclusion == \A t, u \in At("cs") : t = u

\* ReleaseSemaphore is never called while the semaphore is already at its
\* maximum: that call would fail silently and its wakeup would be lost.
NoLostRelease == At("release") # {} => m_semaphore = 0

\* A thread sleeping in Lock() is always owed a wakeup by somebody: the
\* holder of the lock, a thread inside Unlock(), or the semaphore's count.
WaiterIsOwedWakeup ==
  At("wait") # {} => At("cs") # {} \/ At("release") # {} \/ m_semaphore > 0

\* No count is left in the semaphore once every waiter is gone; a stale count
\* would let a later thread walk past a holder.
NoStaleWakeup == m_semaphore > 0 \/ At("release") # {} => At("wait") # {}

\* Refinement: seen through where its threads are, the benaphore is a mutex.
phaseBar ==
  [t \in Threads |-> CASE pc[t] = "wait" -> "wanting"
                       [] pc[t] = "cs"   -> "holding"
                       [] OTHER          -> "idle"]

Abstract == INSTANCE Mutex WITH phase <- phaseBar

\* The benaphore does nothing a mutex could not do.
ImplementsMutex == Abstract!Spec

\* A thread that calls Lock() and finds the lock taken gets it in the end.
EveryWaiterServed ==
  \A t \in Threads : (pc[t] = "wait") ~> (pc[t] = "cs")
=============================================================================
