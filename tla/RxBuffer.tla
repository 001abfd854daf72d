------------------------------ MODULE RxBuffer ------------------------------
(***************************************************************************)
(* The receive buffer of a channel (class CProtocol, Sardine/Protocol.cpp) *)
(* and the PassThruReadMsgs call that drains it.                           *)
(*                                                                         *)
(* The communication thread puts incoming messages into a ring of          *)
(* MAX_RX_BUFFER_SIZE pointers; application threads put loopback copies    *)
(* there, clear the ring, and read it.  rx_lock makes each single access   *)
(* of the ring atomic (module Benaphore), but ReadMsgs takes and leaves    *)
(* the lock once per access: it counts the messages, then looks at the     *)
(* overflow flag, may sleep, and pops the messages one by one, and other   *)
(* threads act in between.  Each locked access is one step here.           *)
(*                                                                         *)
(* Messages are numbered in the order they are put into the ring, which is *)
(* all the properties need to know of them.                                *)
(***************************************************************************)
EXTENDS Integers, Sequences, FiniteSets

CONSTANTS
  Apps,                 \* application threads that use the channel
  MAX_RX_BUFFER_SIZE,   \* slots of the ring (256 in the code)
  Requests,             \* values of *pNumMsgs that callers pass to ReadMsgs
  ULONG_RANGE,          \* number of values of an unsigned long (2^32)
  MaxMsgs               \* bound: messages put into the ring in a behaviour

ASSUME RxAssumption ==
  /\ MAX_RX_BUFFER_SIZE \in Nat \ {0}
  /\ ULONG_RANGE \in Nat /\ ULONG_RANGE > MAX_RX_BUFFER_SIZE
  /\ Requests \subseteq Nat
  /\ MaxMsgs \in Nat

VARIABLES
  rxbuffer,           \* slot -> message, or NoMsg before it is first written
  lowIndex,           \* slot of the oldest message
  hiIndex,            \* slot the next message goes to
  rxBufferSize,
  rxBufferOverflow,
  arrived,            \* number of messages put into the ring so far
  deleted,            \* messages freed by the ring itself
  pc,                 \* where each thread is in ReadMsgs
  timed,              \* whether its Timeout argument is not zero
  pNumMsgs,           \* its in/out argument *pNumMsgs
  count,              \* its local count, an unsigned long
  overflow,           \* its local overflow
  pMsgs,              \* the messages stored into its array so far
  status,             \* what its last ReadMsgs returned
  delivered           \* history: every message popped, in order

ring == <<rxbuffer, lowIndex, hiIndex, rxBufferSize, rxBufferOverflow>>
call == <<pc, timed, pNumMsgs, count, overflow, pMsgs, status>>
vars == <<ring, call, arrived, deleted, delivered>>

NoMsg == 0
Slots == 0..(MAX_RX_BUFFER_SIZE - 1)

\* x++; x %= MAX_RX_BUFFER_SIZE
IncNoWrap(x) == x + 1

Inc(x) == (x + 1) % MAX_RX_BUFFER_SIZE

\* An int assigned to an unsigned long: a negative one wraps to a huge one.
UnsignedLong(x) == IF x < 0 THEN x + ULONG_RANGE ELSE x

Init ==
  /\ rxbuffer = [s \in Slots |-> NoMsg]
  /\ lowIndex = 0
  /\ hiIndex = 0
  /\ rxBufferSize = 0
  /\ rxBufferOverflow = FALSE
  /\ arrived = 0
  /\ deleted = {}
  /\ pc = [a \in Apps |-> "idle"]
  /\ timed = [a \in Apps |-> FALSE]
  /\ pNumMsgs = [a \in Apps |-> 0]
  /\ count = [a \in Apps |-> 0]
  /\ overflow = [a \in Apps |-> FALSE]
  /\ pMsgs = [a \in Apps |-> <<>>]
  /\ status = [a \in Apps |-> "none"]
  /\ delivered = <<>>

-----------------------------------------------------------------------------
(* Putting messages into the ring.                                         *)

\* DoAddToRXBuffer, ring full: the oldest message is freed, the new one
\* takes its slot, the size stays.
OverwriteKeepsLow(m) ==
  /\ rxBufferSize >= MAX_RX_BUFFER_SIZE
  /\ rxBufferOverflow' = TRUE
  /\ deleted' = deleted \cup {rxbuffer[lowIndex]}
  /\ rxbuffer' = [rxbuffer EXCEPT ![hiIndex] = m]
  /\ hiIndex' = Inc(hiIndex)
  /\ UNCHANGED <<lowIndex, rxBufferSize>>

Overwrite(m) ==
  /\ rxBufferSize >= MAX_RX_BUFFER_SIZE
  /\ rxBufferOverflow' = TRUE
  /\ deleted' = deleted \cup {rxbuffer[lowIndex]}
  /\ lowIndex' = Inc(lowIndex)
  /\ rxbuffer' = [rxbuffer EXCEPT ![hiIndex] = m]
  /\ hiIndex' = Inc(hiIndex)
  /\ UNCHANGED rxBufferSize

\* DoAddToRXBuffer, ring not full.
StoreOneTooMany(m) ==
  /\ rxBufferSize <= MAX_RX_BUFFER_SIZE
  /\ rxbuffer' = [rxbuffer EXCEPT ![hiIndex] = m]
  /\ hiIndex' = Inc(hiIndex)
  /\ rxBufferSize' = rxBufferSize + 1
  /\ UNCHANGED <<lowIndex, rxBufferOverflow, deleted>>

Store(m) ==
  /\ rxBufferSize < MAX_RX_BUFFER_SIZE
  /\ rxbuffer' = [rxbuffer EXCEPT ![hiIndex] = m]
  /\ hiIndex' = Inc(hiIndex)
  /\ rxBufferSize' = rxBufferSize + 1
  /\ UNCHANGED <<lowIndex, rxBufferOverflow, deleted>>

AddToRXBuffer(m) == Overwrite(m) \/ Store(m)

Put ==
  /\ arrived < MaxMsgs
  /\ AddToRXBuffer(arrived + 1)
  /\ arrived' = arrived + 1
  /\ UNCHANGED <<call, delivered>>

\* The communication thread parsed a message of this channel (ParseMsg).
Receive == Put

\* An application thread puts the copy of a message it wrote (AddLoopbackMsg)
\* or the answers of the interceptor into the ring.
AddLoopbackMsg(a) == pc[a] = "idle" /\ Put

\* IOCTL(CLEAR_RX_BUFFER) and StartMsgFilter; the flag is part of it.
ClearKeepsHi(a) ==
  /\ pc[a] = "idle"
  /\ rxBufferOverflow' = FALSE
  /\ lowIndex' = 0
  /\ rxBufferSize' = 0
  /\ UNCHANGED <<rxbuffer, hiIndex, call, arrived, deleted, delivered>>

ClearRXBuffer(a) ==
  /\ pc[a] = "idle"
  /\ rxBufferOverflow' = FALSE
  /\ lowIndex' = 0
  /\ hiIndex' = 0
  /\ rxBufferSize' = 0
  /\ UNCHANGED <<rxbuffer, call, arrived, deleted, delivered>>

-----------------------------------------------------------------------------
(* ReadMsgs, one action per access of the ring.                            *)

ReadMsgs(a, n, wait) ==
  /\ pc[a] = "idle"
  /\ pc' = [pc EXCEPT ![a] = "count"]
  /\ timed' = [timed EXCEPT ![a] = wait]
  /\ pNumMsgs' = [pNumMsgs EXCEPT ![a] = n]
  /\ pMsgs' = [pMsgs EXCEPT ![a] = <<>>]
  /\ UNCHANGED <<ring, count, overflow, status, arrived, deleted, delivered>>

\* First GetRXMessageCount(): return at once if empty and Timeout is zero.
CountMsgs(a) ==
  /\ pc[a] = "count"
  /\ count' = [count EXCEPT ![a] = UnsignedLong(rxBufferSize)]
  /\ IF count'[a] = 0 /\ ~timed[a]
     THEN /\ pNumMsgs' = [pNumMsgs EXCEPT ![a] = 0]
          /\ status' = [status EXCEPT ![a] = "ERR_BUFFER_EMPTY"]
          /\ pc' = [pc EXCEPT ![a] = "idle"]
     ELSE /\ pc' = [pc EXCEPT ![a] = "overflow"]
          /\ UNCHANGED <<pNumMsgs, status>>
  /\ UNCHANGED <<ring, timed, overflow, pMsgs, arrived, deleted, delivered>>

\* IsRXBufferOverflow(), and the choice of how many messages to pop now.
LookAtOverflow(a) ==
  /\ pc[a] = "overflow"
  /\ overflow' = [overflow EXCEPT ![a] = rxBufferOverflow]
  /\ \/ /\ count[a] >= pNumMsgs[a]
        /\ pc' = [pc EXCEPT ![a] = "pop"]
        /\ UNCHANGED pNumMsgs
     \/ /\ count[a] < pNumMsgs[a] /\ ~timed[a] /\ count[a] > 0
        /\ pNumMsgs' = [pNumMsgs EXCEPT ![a] = count[a]]
        /\ pc' = [pc EXCEPT ![a] = "pop"]
     \/ /\ count[a] < pNumMsgs[a] /\ timed[a]
        /\ pc' = [pc EXCEPT ![a] = "sleep"]
        /\ UNCHANGED pNumMsgs
  /\ UNCHANGED <<ring, timed, count, pMsgs, status, arrived, deleted, delivered>>

\* SleepEx is over; second GetRXMessageCount().  The overflow flag is not
\* looked at again.
WakeUpNoMinimum(a) ==
  /\ pc[a] = "sleep"
  /\ count' = [count EXCEPT ![a] = UnsignedLong(rxBufferSize)]
  /\ IF count'[a] > 0
     THEN /\ pc' = [pc EXCEPT ![a] = "pop"]
          /\ UNCHANGED status
     ELSE /\ status' = [status EXCEPT ![a] = "ERR_BUFFER_EMPTY"]
          /\ pc' = [pc EXCEPT ![a] = "idle"]
  /\ UNCHANGED <<ring, timed, pNumMsgs, overflow, pMsgs, arrived, deleted,
                 delivered>>

WakeUp(a) ==
  /\ pc[a] = "sleep"
  /\ count' = [count EXCEPT ![a] = UnsignedLong(rxBufferSize)]
  /\ IF count'[a] > 0
     THEN /\ pNumMsgs' = [pNumMsgs EXCEPT ![a] =
                            IF count'[a] > @ THEN @ ELSE count'[a]]
          /\ pc' = [pc EXCEPT ![a] = "pop"]
          /\ UNCHANGED status
     ELSE /\ status' = [status EXCEPT ![a] = "ERR_BUFFER_EMPTY"]
          /\ pc' = [pc EXCEPT ![a] = "idle"]
          /\ UNCHANGED pNumMsgs
  /\ UNCHANGED <<ring, timed, overflow, pMsgs, arrived, deleted, delivered>>

\* PopMessage(), one round of the loop of DoReadMsgs: no check that the ring
\* holds anything, and the overflow flag is reset.
PopKeepsFlag(a) ==
  /\ pc[a] = "pop"
  /\ Len(pMsgs[a]) < pNumMsgs[a]
  /\ pMsgs' = [pMsgs EXCEPT ![a] = Append(@, rxbuffer[lowIndex])]
  /\ delivered' = Append(delivered, rxbuffer[lowIndex])
  /\ lowIndex' = Inc(lowIndex)
  /\ rxBufferSize' = rxBufferSize - 1
  /\ UNCHANGED <<rxbuffer, hiIndex, rxBufferOverflow, arrived, deleted>>
  /\ UNCHANGED <<pc, timed, pNumMsgs, count, overflow, status>>

PopMessage(a) ==
  /\ pc[a] = "pop"
  /\ Len(pMsgs[a]) < pNumMsgs[a]
  /\ pMsgs' = [pMsgs EXCEPT ![a] = Append(@, rxbuffer[lowIndex])]
  /\ delivered' = Append(delivered, rxbuffer[lowIndex])
  /\ lowIndex' = Inc(lowIndex)
  /\ rxBufferSize' = rxBufferSize - 1
  /\ rxBufferOverflow' = FALSE
  /\ UNCHANGED <<rxbuffer, hiIndex, arrived, deleted>>
  /\ UNCHANGED <<pc, timed, pNumMsgs, count, overflow, status>>

\* The end of DoReadMsgs.
ReturnMsgs(a) ==
  /\ pc[a] = "pop"
  /\ Len(pMsgs[a]) >= pNumMsgs[a]
  /\ status' = [status EXCEPT ![a] = IF overflow[a] THEN "ERR_BUFFER_OVERFLOW"
                                                    ELSE "STATUS_NOERROR"]
  /\ pc' = [pc EXCEPT ![a] = "idle"]
  /\ UNCHANGED <<ring, timed, pNumMsgs, count, overflow, pMsgs, arrived,
                 deleted, delivered>>

Next ==
  \/ Receive
  \/ \E a \in Apps :
       \/ AddLoopbackMsg(a)
       \/ ClearRXBuffer(a)
       \/ \E n \in Requests, wait \in BOOLEAN : ReadMsgs(a, n, wait)
       \/ CountMsgs(a)
       \/ LookAtOverflow(a)
       \/ WakeUp(a)
       \/ PopMessage(a)
       \/ ReturnMsgs(a)

Spec == Init /\ [][Next]_vars

-----------------------------------------------------------------------------
\* The slot k places after slot low, and after the oldest message.
SlotAfter(low, k) == (low + k) % MAX_RX_BUFFER_SIZE
Slot(k) == SlotAfter(lowIndex, k)

\* The messages the ring holds, oldest first.
Queue == [k \in 1..rxBufferSize |-> rxbuffer[Slot(k - 1)]]

RingTypeOK ==
  /\ rxbuffer \in [Slots -> Nat]
  /\ lowIndex \in Slots /\ hiIndex \in Slots
  /\ rxBufferSize \in Int
  /\ rxBufferOverflow \in BOOLEAN
  /\ arrived \in Nat
  /\ deleted \subseteq Nat
  /\ delivered \in Seq(Nat)

CallTypeOK ==
  /\ pc \in [Apps -> {"idle", "count", "overflow", "sleep", "pop"}]
  /\ timed \in [Apps -> BOOLEAN]
  /\ pNumMsgs \in [Apps -> Nat]
  /\ count \in [Apps -> Int]
  /\ overflow \in [Apps -> BOOLEAN]
  /\ pMsgs \in [Apps -> Seq(Nat)]
  /\ status \in [Apps -> {"none", "STATUS_NOERROR", "ERR_BUFFER_EMPTY",
                          "ERR_BUFFER_OVERFLOW"}]

\* Type invariant: no index ever leaves the ring.
TypeOK == RingTypeOK /\ CallTypeOK

\* The three ways the ring measures itself agree: hiIndex is rxBufferSize
\* slots after lowIndex, across wrap-around, overwriting and clearing.
IndicesAgree ==
  /\ rxBufferSize <= MAX_RX_BUFFER_SIZE
  /\ hiIndex = Slot(rxBufferSize)

\* The ring holds exactly the newest rxBufferSize messages, in the order they
\* came: overwriting drops the oldest one and never any other.
HoldsTheNewest ==
  \A k \in 0..(rxBufferSize - 1) : rxbuffer[Slot(k)] = arrived - rxBufferSize + 1 + k

\* A reader that goes on to pop finds as many messages as it counted, although
\* the ring is overwritten and refilled while it pops or sleeps: PopMessage,
\* which does not check, is never called on an empty ring.
ReaderNeverUnderruns ==
  \A a \in Apps :
    pc[a] = "pop" => pNumMsgs[a] - Len(pMsgs[a]) <= rxBufferSize

\* PopMessage hands a message over once and for all: it is a message that was
\* received, not one popped before, and not one the ring has freed.
OwnershipPassedOnce ==
  /\ \A i \in DOMAIN delivered : delivered[i] \in 1..arrived \ deleted
  /\ \A i, j \in DOMAIN delivered : delivered[i] = delivered[j] => i = j

\* Messages reach the application in the order they came in, over any number
\* of calls, of buffer overflows and of clears.
DeliveredInOrder ==
  \A i, j \in DOMAIN delivered : i < j => delivered[i] < delivered[j]

\* When ReadMsgs reports ERR_BUFFER_OVERFLOW, the message just before the
\* first one it stores was lost: the report is never left over from a loss
\* that an earlier read or clear has dealt with.
OverflowReportMeansLoss ==
  \A a \in Apps :
    pc[a] = "idle" /\ status[a] = "ERR_BUFFER_OVERFLOW" /\ pMsgs[a] # <<>>
      => pMsgs[a][1] - 1 \in deleted

\* Refinement: the ring with its separate locked accesses is a bounded queue
\* that displaces its oldest message.
Fifo == INSTANCE BoundedFifo
          WITH Capacity <- MAX_RX_BUFFER_SIZE, Messages <- 1..MaxMsgs,
               queue <- Queue, lost <- deleted

\* Every step on the ring is a step of the queue or leaves it alone.
ImplementsFifo == Fifo!Spec

-----------------------------------------------------------------------------
(* What the sources say of the code and the code does not do: the property *)
(* of a run of its own, which TLC finds violated.                          *)

\* ERR_BUFFER_OVERFLOW "indicates a buffer overflow occurred and messages
\* were lost".  A call that returns STATUS_NOERROR though the message before
\* its first one was lost (since the last pop, so no earlier call told of it)
\* must at least leave the flag up that makes the next call report the loss.
LossIsReported ==
  \A a \in Apps :
    /\ pc[a] = "idle"
    /\ status[a] = "STATUS_NOERROR"
    /\ pMsgs[a] # <<>>
    /\ pMsgs[a][1] - 1 \in deleted
    => rxBufferOverflow
=============================================================================
