--------------------------- MODULE RxBufferProofs ---------------------------
(***************************************************************************)
(* Proofs about RxBuffer for every ring size, every number of messages and *)
(* every set of requests.  What the ring holds is proved for any number of *)
(* application threads; that a reader never pops an empty ring needs, and  *)
(* assumes, that only one application thread uses the channel.             *)
(***************************************************************************)
EXTENDS RxBuffer, TLAPS

-----------------------------------------------------------------------------
(* Arithmetic of ring indices.                                             *)

LEMMA ModRange ==
  ASSUME NEW N \in Nat \ {0}, NEW x \in Int
  PROVE  x % N \in 0..(N - 1)
  OBVIOUS

LEMMA ModQuotient ==
  ASSUME NEW N \in Nat \ {0}, NEW x \in Int
  PROVE  x \div N \in Int /\ x = (x \div N) * N + (x % N)
  OBVIOUS

LEMMA ModUnique ==
  ASSUME NEW N \in Nat \ {0}, NEW q \in Int, NEW r \in 0..(N - 1)
  PROVE  (q * N + r) % N = r
  OBVIOUS

LEMMA ModSmall ==
  ASSUME NEW N \in Nat \ {0}, NEW x \in 0..(N - 1)
  PROVE  x % N = x
  OBVIOUS

LEMMA ModOnce ==
  ASSUME NEW N \in Nat \ {0}, NEW x \in N..(2 * N - 1)
  PROVE  x % N = x - N
  OBVIOUS

N == MAX_RX_BUFFER_SIZE

LEMMA SizeType == N \in Nat \ {0} /\ Slots = 0..(N - 1) /\ 0 \in Slots
  BY RxAssumption DEF N, Slots

LEMMA ZeroIsSlot == 0 \in Slots
  BY SizeType

LEMMA IncType ==
  ASSUME NEW x \in Slots
  PROVE  Inc(x) \in Slots
<1>1. x + 1 \in Int
  BY SizeType
<1> QED
  BY <1>1, SizeType, ModRange DEF Inc, N

LEMMA SlotType ==
  ASSUME NEW low \in Slots, NEW k \in Int
  PROVE  SlotAfter(low, k) \in Slots
<1>1. low + k \in Int
  BY SizeType
<1> QED
  BY <1>1, SizeType, ModRange DEF SlotAfter, N

\* No place further, and one whole round further.
LEMMA SlotSelf ==
  ASSUME NEW low \in Slots
  PROVE  SlotAfter(low, 0) = low /\ SlotAfter(low, N) = low
  BY SizeType, ModSmall, ModOnce DEF SlotAfter, N

\* One place further than k places is k + 1 places.
LEMMA SlotSucc ==
  ASSUME NEW low \in Slots, NEW k \in Int
  PROVE  Inc(SlotAfter(low, k)) = SlotAfter(low, k + 1)
<1> DEFINE x == low + k
           q == x \div N
           r == x % N
<1>1. N \in Nat \ {0} /\ x \in Int
  BY SizeType
<1>2. q \in Int /\ x = q * N + r /\ r \in 0..(N - 1)
  BY <1>1, ModRange, ModQuotient
<1>3. (r + 1) % N = (x + 1) % N
  <2> HIDE DEF x, q, r
  <2>1. CASE r + 1 < N
    <3>1. r + 1 \in 0..(N - 1)
      BY <1>1, <1>2, <2>1
    <3>2. x + 1 = q * N + (r + 1)
      BY <1>1, <1>2
    <3>3. (x + 1) % N = r + 1
      BY <1>1, <1>2, <3>1, <3>2, ModUnique
    <3>4. (r + 1) % N = r + 1
      BY <1>1, <3>1, ModSmall
    <3> QED
      BY <3>3, <3>4
  <2>2. CASE r + 1 = N
    <3>1. q + 1 \in Int /\ 0 \in 0..(N - 1)
      BY <1>1, <1>2
    <3>2. x + 1 = (q + 1) * N + 0
      BY <1>1, <1>2, <2>2
    <3>3. (x + 1) % N = 0
      BY <1>1, <3>1, <3>2, ModUnique
    <3>4. (r + 1) % N = 0
      BY <1>1, <2>2, ModOnce
    <3> QED
      BY <3>3, <3>4
  <2> QED
    BY <1>1, <1>2, <2>1, <2>2
<1>4. Inc(SlotAfter(low, k)) = (r + 1) % N
  BY DEF Inc, SlotAfter, N
<1>5. SlotAfter(low, k + 1) = (x + 1) % N
  BY SizeType DEF SlotAfter, N
<1> QED
  BY <1>3, <1>4, <1>5

\* k places after the next slot is k + 1 places after this one.
LEMMA SlotOfNext ==
  ASSUME NEW low \in Slots, NEW k \in Int
  PROVE  SlotAfter(Inc(low), k) = SlotAfter(low, k + 1)
<1>1. N \in Nat \ {0} /\ low \in 0..(N - 1)
  BY SizeType
<1>2. CASE low + 1 < N
  <2>1. Inc(low) = low + 1
    BY <1>1, <1>2, ModSmall DEF Inc, N
  <2> QED
    BY <1>1, <2>1 DEF SlotAfter
<1>3. CASE low + 1 = N
  <2>1. Inc(low) = 0
    BY <1>1, <1>3, ModOnce DEF Inc, N
  <2> DEFINE q == k \div N
             r == k % N
  <2>2. q \in Int /\ k = q * N + r /\ r \in 0..(N - 1)
    BY <1>1, ModRange, ModQuotient
  <2>3. (low + (k + 1)) % N = r
    <3> HIDE DEF q, r
    <3>1. low + (k + 1) = (q + 1) * N + r
      BY <1>1, <1>3, <2>2
    <3> QED
      BY <1>1, <2>2, <3>1, ModUnique
  <2>4. SlotAfter(Inc(low), k) = k % N
    BY <2>1 DEF SlotAfter, N
  <2> QED
    BY <2>3, <2>4 DEF SlotAfter, N
<1> QED
  BY <1>1, <1>2, <1>3

\* Within one round, different distances are different slots.
LEMMA SlotsDiffer ==
  ASSUME NEW low \in Slots, NEW j \in 0..(N - 1), NEW k \in 0..(N - 1), j # k
  PROVE  SlotAfter(low, j) # SlotAfter(low, k)
<1>1. N \in Nat \ {0} /\ low \in 0..(N - 1)
  BY SizeType
<1>2. (low + j) % N # (low + k) % N
  BY <1>1, ModSmall, ModOnce
<1> QED
  BY <1>2 DEF SlotAfter, N

-----------------------------------------------------------------------------
(* Types.                                                                  *)

LEMMA UnsignedLongType ==
  \A x \in Int : UnsignedLong(x) \in Int /\ (x >= 0 => UnsignedLong(x) = x)
  BY RxAssumption DEF UnsignedLong

LEMMA PutType == RingTypeOK /\ Put => RingTypeOK'
<1> SUFFICES ASSUME RingTypeOK, Put PROVE RingTypeOK'
  OBVIOUS
<1> USE DEF RingTypeOK
<1>0. Inc(lowIndex) \in Slots /\ Inc(hiIndex) \in Slots /\ arrived + 1 \in Nat
  BY SMTT(30), IncType, SizeType
<1>1. CASE Overwrite(arrived + 1)
  BY <1>0, <1>1 DEF Put, Overwrite
<1>2. CASE Store(arrived + 1)
  BY <1>0, <1>2 DEF Put, Store
<1> QED
  BY <1>1, <1>2 DEF Put, AddToRXBuffer

LEMMA StepType == TypeOK /\ [Next]_vars => TypeOK'
<1> SUFFICES ASSUME RingTypeOK, CallTypeOK, [Next]_vars
             PROVE  RingTypeOK' /\ CallTypeOK'
  BY DEF TypeOK
<1>1. ASSUME UNCHANGED <<ring, arrived, deleted, delivered>> PROVE RingTypeOK'
  BY <1>1 DEF RingTypeOK, ring
<1>2. ASSUME UNCHANGED call PROVE CallTypeOK'
  BY <1>2 DEF CallTypeOK, call
<1>3. ASSUME Put PROVE RingTypeOK' /\ CallTypeOK'
  BY <1>2, <1>3, PutType DEF Put
<1>4. CASE Receive \/ \E a \in Apps : AddLoopbackMsg(a)
  BY <1>3, <1>4 DEF Receive, AddLoopbackMsg
<1>5. ASSUME NEW a \in Apps, ClearRXBuffer(a)
      PROVE  RingTypeOK' /\ CallTypeOK'
  <2>1. RingTypeOK'
    BY <1>5, ZeroIsSlot DEF RingTypeOK, ClearRXBuffer
  <2> QED
    BY <1>2, <1>5, <2>1 DEF ClearRXBuffer
<1>6. ASSUME NEW a \in Apps, NEW n \in Requests, NEW wait \in BOOLEAN,
             ReadMsgs(a, n, wait)
      PROVE  RingTypeOK' /\ CallTypeOK'
  <2>1. CallTypeOK'
    BY <1>6, RxAssumption DEF CallTypeOK, ReadMsgs
  <2> QED
    BY <1>1, <1>6, <2>1 DEF ReadMsgs
<1>7. ASSUME NEW a \in Apps, CountMsgs(a) PROVE RingTypeOK' /\ CallTypeOK'
  <2>1. CallTypeOK'
    <3>1. UnsignedLong(rxBufferSize) \in Int
      BY UnsignedLongType DEF RingTypeOK
    <3>2. count' \in [Apps -> Int]
      BY <1>7, <3>1 DEF CallTypeOK, CountMsgs
    <3>3. pNumMsgs' \in [Apps -> Nat]
      <4>1. pNumMsgs' = pNumMsgs \/ pNumMsgs' = [pNumMsgs EXCEPT ![a] = 0]
        BY <1>7 DEF CountMsgs
      <4> QED
        BY <4>1 DEF CallTypeOK
    <3>4. status' \in [Apps -> {"none", "STATUS_NOERROR", "ERR_BUFFER_EMPTY",
                                "ERR_BUFFER_OVERFLOW"}]
      BY <1>7 DEF CallTypeOK, CountMsgs
    <3>5. pc' \in [Apps -> {"idle", "count", "overflow", "sleep", "pop"}]
      BY ZenonT(40), <1>7 DEF CallTypeOK, CountMsgs
    <3> QED
      BY <1>7, <3>2, <3>3, <3>4, <3>5 DEF CallTypeOK, CountMsgs
  <2> QED
    BY <1>1, <1>7, <2>1 DEF CountMsgs
<1>8. ASSUME NEW a \in Apps, LookAtOverflow(a) PROVE RingTypeOK' /\ CallTypeOK'
  <2>1. CallTypeOK'
    <3>1. pNumMsgs' \in [Apps -> Nat]
      BY <1>8 DEF CallTypeOK, LookAtOverflow
    <3>2. pc' \in [Apps -> {"idle", "count", "overflow", "sleep", "pop"}]
      BY <1>8 DEF CallTypeOK, LookAtOverflow
    <3>3. overflow' \in [Apps -> BOOLEAN]
      BY <1>8 DEF CallTypeOK, RingTypeOK, LookAtOverflow
    <3> QED
      BY <1>8, <3>1, <3>2, <3>3 DEF CallTypeOK, LookAtOverflow
  <2> QED
    BY <1>1, <1>8, <2>1 DEF LookAtOverflow
<1>9. ASSUME NEW a \in Apps, WakeUp(a) PROVE RingTypeOK' /\ CallTypeOK'
  <2>1. CallTypeOK'
    <3>1. UnsignedLong(rxBufferSize) \in Int
      BY UnsignedLongType DEF RingTypeOK
    <3>2. count' \in [Apps -> Int] /\ count'[a] \in Int
      BY <1>9, <3>1 DEF CallTypeOK, WakeUp
    <3>3. pNumMsgs' \in [Apps -> Nat]
      BY <1>9, <3>2 DEF CallTypeOK, WakeUp
    <3>4. status' \in [Apps -> {"none", "STATUS_NOERROR", "ERR_BUFFER_EMPTY",
                                "ERR_BUFFER_OVERFLOW"}]
      BY <1>9 DEF CallTypeOK, WakeUp
    <3>5. pc' \in [Apps -> {"idle", "count", "overflow", "sleep", "pop"}]
      BY ZenonT(40), <1>9 DEF CallTypeOK, WakeUp
    <3> QED
      BY <1>9, <3>2, <3>3, <3>4, <3>5 DEF CallTypeOK, WakeUp
  <2> QED
    BY <1>1, <1>9, <2>1 DEF WakeUp
<1>10. ASSUME NEW a \in Apps, PopMessage(a) PROVE RingTypeOK' /\ CallTypeOK'
  <2>1. rxbuffer[lowIndex] \in Nat
    BY DEF RingTypeOK
  <2>2. RingTypeOK'
    <3>1. Inc(lowIndex) \in Slots
      BY IncType, SizeType DEF RingTypeOK
    <3>2. delivered' \in Seq(Nat)
      BY <1>10, <2>1 DEF RingTypeOK, PopMessage
    <3>3. rxBufferSize' \in Int
      BY <1>10 DEF RingTypeOK, PopMessage
    <3> QED
      BY <1>10, <3>1, <3>2, <3>3 DEF RingTypeOK, PopMessage
  <2>3. CallTypeOK'
    BY <1>10, <2>1 DEF CallTypeOK, PopMessage
  <2> QED
    BY <2>2, <2>3
<1>11. ASSUME NEW a \in Apps, ReturnMsgs(a) PROVE RingTypeOK' /\ CallTypeOK'
  <2>1. CallTypeOK'
    BY <1>11 DEF CallTypeOK, ReturnMsgs
  <2> QED
    BY <1>1, <1>11, <2>1 DEF ReturnMsgs
<1>12. CASE UNCHANGED vars
  BY <1>1, <1>2, <1>12 DEF vars
<1> QED
  BY <1>4, <1>5, <1>6, <1>7, <1>8, <1>9, <1>10, <1>11, <1>12 DEF Next

LEMMA InitType == Init => TypeOK
<1>1. Init => RingTypeOK
  <2> SUFFICES ASSUME Init PROVE RingTypeOK
    OBVIOUS
  <2>1. rxbuffer \in [Slots -> Nat]
    BY DEF Init, NoMsg
  <2>2. delivered \in Seq(Nat)
    BY DEF Init
  <2>3. deleted \subseteq Nat
    BY DEF Init
  <2>4. lowIndex \in Slots /\ hiIndex \in Slots
    BY ZeroIsSlot DEF Init
  <2>5. rxBufferSize \in Int /\ arrived \in Nat
    BY DEF Init
  <2>6. rxBufferOverflow \in BOOLEAN
    BY DEF Init
  <2> QED
    BY <2>1, <2>2, <2>3, <2>4, <2>5, <2>6 DEF RingTypeOK
<1>2. Init => CallTypeOK
  BY DEF Init, CallTypeOK
<1> QED
  BY <1>1, <1>2 DEF TypeOK

\* Every variable keeps its type, for any number of threads and messages.
THEOREM TypeCorrect == Spec => []TypeOK
  BY InitType, StepType, PTL DEF Spec

-----------------------------------------------------------------------------
(* What the ring holds.                                                    *)

RingInv == TypeOK /\ IndicesAgree /\ HoldsTheNewest

LEMMA RingFacts ==
  ASSUME RingInv
  PROVE  /\ lowIndex \in Slots /\ rxbuffer \in [Slots -> Nat]
         /\ rxBufferSize \in Int /\ rxBufferSize <= N /\ arrived \in Nat
         /\ hiIndex = SlotAfter(lowIndex, rxBufferSize) /\ hiIndex \in Slots
         /\ \A k \in 0..(rxBufferSize - 1) :
              rxbuffer[SlotAfter(lowIndex, k)] = arrived - rxBufferSize + 1 + k
  BY DEF RingInv, TypeOK, RingTypeOK, IndicesAgree, HoldsTheNewest, Slot, N

LEMMA RingAfterPut == RingInv /\ Put => IndicesAgree' /\ HoldsTheNewest'
<1> SUFFICES ASSUME RingInv, Put PROVE IndicesAgree' /\ HoldsTheNewest'
  OBVIOUS
<1>0. /\ lowIndex \in Slots /\ rxbuffer \in [Slots -> Nat]
      /\ rxBufferSize \in Int /\ rxBufferSize <= N /\ arrived \in Nat
      /\ hiIndex = SlotAfter(lowIndex, rxBufferSize) /\ hiIndex \in Slots
      /\ N \in Nat \ {0}
  BY RingFacts, SizeType
<1>1. CASE Overwrite(arrived + 1)
  <2>1. rxBufferSize = N /\ rxBufferSize' = N /\ arrived' = arrived + 1
    BY <1>0, <1>1 DEF Put, Overwrite, N
  <2>2. hiIndex = lowIndex
    BY <1>0, <2>1, SlotSelf
  <2>3. /\ lowIndex' = Inc(lowIndex) /\ hiIndex' = Inc(lowIndex)
        /\ rxbuffer' = [rxbuffer EXCEPT ![lowIndex] = arrived + 1]
    BY <1>1, <2>2 DEF Overwrite
  <2>4. Inc(lowIndex) \in Slots
    BY <1>0, IncType, SizeType
  <2>5. IndicesAgree'
    BY <1>0, <2>1, <2>3, <2>4, SlotSelf DEF IndicesAgree, Slot, N
  <2>6. ASSUME NEW k \in 0..(N - 1)
        PROVE  rxbuffer'[SlotAfter(Inc(lowIndex), k)] = arrived' - N + 1 + k
    <3>1. SlotAfter(Inc(lowIndex), k) = SlotAfter(lowIndex, k + 1)
      BY <1>0, SlotOfNext
    <3>2. CASE k + 1 < N
      <4>1. SlotAfter(lowIndex, k + 1) # SlotAfter(lowIndex, 0)
        BY <1>0, <3>2, SlotsDiffer
      <4>2. SlotAfter(lowIndex, k + 1) # lowIndex
        BY <1>0, <4>1, SlotSelf
      <4>3. SlotAfter(lowIndex, k + 1) \in Slots
        BY <1>0, SlotType
      <4>4. rxbuffer[SlotAfter(lowIndex, k + 1)] = arrived - N + 1 + (k + 1)
        BY <1>0, <2>1, <3>2, RingFacts
      <4> QED
        BY <1>0, <2>1, <2>3, <3>1, <4>2, <4>3, <4>4
    <3>3. CASE k + 1 = N
      <4>1. SlotAfter(lowIndex, k + 1) = lowIndex
        BY <1>0, <3>3, SlotSelf
      <4> QED
        BY <1>0, <2>1, <2>3, <3>1, <3>3, <4>1
    <3> QED
      BY <1>0, <3>2, <3>3
  <2>7. HoldsTheNewest'
    BY <2>1, <2>3, <2>6 DEF HoldsTheNewest, Slot
  <2> QED
    BY <2>5, <2>7
<1>2. CASE Store(arrived + 1)
  <2>1. /\ rxBufferSize < N /\ rxBufferSize' = rxBufferSize + 1
        /\ arrived' = arrived + 1 /\ lowIndex' = lowIndex
        /\ rxbuffer' = [rxbuffer EXCEPT ![hiIndex] = arrived + 1]
        /\ hiIndex' = Inc(hiIndex)
    BY <1>2 DEF Put, Store, N
  <2>2. hiIndex' = SlotAfter(lowIndex, rxBufferSize + 1)
    BY <1>0, <2>1, SlotSucc
  <2>3. IndicesAgree'
    BY <1>0, <2>1, <2>2 DEF IndicesAgree, Slot, N
  <2>4. ASSUME NEW k \in 0..rxBufferSize
        PROVE  rxbuffer'[SlotAfter(lowIndex, k)] = arrived - rxBufferSize + 1 + k
    <3>1. CASE k = rxBufferSize
      BY <1>0, <2>1, <3>1
    <3>2. CASE k < rxBufferSize
      <4>1. SlotAfter(lowIndex, k) # hiIndex
        BY <1>0, <2>1, <3>2, SlotsDiffer
      <4>2. SlotAfter(lowIndex, k) \in Slots
        BY <1>0, SlotType
      <4>3. rxbuffer[SlotAfter(lowIndex, k)] = arrived - rxBufferSize + 1 + k
        BY <1>0, <3>2, RingFacts
      <4> QED
        BY <1>0, <2>1, <4>1, <4>2, <4>3
    <3> QED
      BY <1>0, <3>1, <3>2
  <2>5. HoldsTheNewest'
    BY <1>0, <2>1, <2>4 DEF HoldsTheNewest, Slot
  <2> QED
    BY <2>3, <2>5
<1> QED
  BY <1>1, <1>2 DEF Put, AddToRXBuffer

LEMMA RingAfterPop ==
  ASSUME RingInv, NEW a \in Apps, PopMessage(a)
  PROVE  IndicesAgree' /\ HoldsTheNewest'
<1>0. /\ lowIndex \in Slots /\ rxBufferSize \in Int /\ rxBufferSize <= N
      /\ arrived \in Nat /\ hiIndex = SlotAfter(lowIndex, rxBufferSize)
      /\ N \in Nat \ {0}
  BY RingFacts, SizeType
<1>1. /\ lowIndex' = Inc(lowIndex) /\ rxBufferSize' = rxBufferSize - 1
      /\ hiIndex' = hiIndex /\ rxbuffer' = rxbuffer /\ arrived' = arrived
  BY DEF PopMessage
<1>2. IndicesAgree'
  <2>1. SlotAfter(Inc(lowIndex), rxBufferSize - 1) = SlotAfter(lowIndex, rxBufferSize)
    BY <1>0, SlotOfNext
  <2> QED
    BY <1>0, <1>1, <2>1 DEF IndicesAgree, Slot, N
<1>3. HoldsTheNewest'
  <2> SUFFICES ASSUME NEW k \in 0..(rxBufferSize - 2)
               PROVE  rxbuffer[SlotAfter(Inc(lowIndex), k)]
                        = arrived - (rxBufferSize - 1) + 1 + k
    BY <1>0, <1>1 DEF HoldsTheNewest, Slot
  <2>1. rxbuffer[SlotAfter(lowIndex, k + 1)] = arrived - rxBufferSize + 1 + (k + 1)
    BY <1>0, RingFacts
  <2>2. SlotAfter(Inc(lowIndex), k) = SlotAfter(lowIndex, k + 1)
    BY <1>0, SlotOfNext
  <2> QED
    BY <1>0, <2>1, <2>2
<1> QED
  BY <1>2, <1>3

LEMMA StepRing == RingInv /\ [Next]_vars => RingInv'
<1> SUFFICES ASSUME RingInv, [Next]_vars PROVE RingInv'
  OBVIOUS
<1>0. TypeOK'
  BY StepType DEF RingInv
<1>1. ASSUME UNCHANGED <<ring, arrived>> PROVE RingInv'
  BY <1>0, <1>1 DEF RingInv, IndicesAgree, HoldsTheNewest, Slot, ring
<1>2. CASE Receive
  BY <1>0, <1>2, RingAfterPut DEF Receive, RingInv
<1>3. ASSUME NEW a \in Apps, AddLoopbackMsg(a) PROVE RingInv'
  BY <1>0, <1>3, RingAfterPut DEF AddLoopbackMsg, RingInv
<1>4. ASSUME NEW a \in Apps, ClearRXBuffer(a) PROVE RingInv'
  <2>1. lowIndex' = 0 /\ hiIndex' = 0 /\ rxBufferSize' = 0
    BY <1>4 DEF ClearRXBuffer
  <2>2. IndicesAgree'
    BY <2>1, SizeType, SlotSelf DEF IndicesAgree, Slot, N
  <2>3. HoldsTheNewest'
    BY <2>1 DEF HoldsTheNewest
  <2> QED
    BY <1>0, <2>2, <2>3 DEF RingInv
<1>5. ASSUME NEW a \in Apps, PopMessage(a) PROVE RingInv'
  BY <1>0, <1>5, RingAfterPop DEF RingInv
<1>6. ASSUME NEW a \in Apps,
             \/ \E n \in Requests, wait \in BOOLEAN : ReadMsgs(a, n, wait)
             \/ CountMsgs(a) \/ LookAtOverflow(a) \/ WakeUp(a) \/ ReturnMsgs(a)
      PROVE  RingInv'
  BY <1>1, <1>6 DEF ReadMsgs, CountMsgs, LookAtOverflow, WakeUp, ReturnMsgs
<1>7. CASE UNCHANGED vars
  BY <1>1, <1>7 DEF vars
<1> QED
  BY <1>2, <1>3, <1>4, <1>5, <1>6, <1>7 DEF Next

LEMMA RingInvariance == Spec => []RingInv
<1>1. Init => RingInv
  <2> SUFFICES ASSUME Init PROVE RingInv
    OBVIOUS
  <2>1. TypeOK
    BY InitType
  <2>2. IndicesAgree
    BY SizeType, SlotSelf DEF Init, IndicesAgree, Slot, N
  <2>3. HoldsTheNewest
    BY DEF Init, HoldsTheNewest
  <2> QED
    BY <2>1, <2>2, <2>3 DEF RingInv
<1> QED
  BY <1>1, StepRing, PTL DEF Spec

\* lowIndex, hiIndex and rxBufferSize agree, whatever number of threads
\* read, clear and fill the ring.
THEOREM RingIndicesAgree == Spec => []IndicesAgree
<1>1. RingInv => IndicesAgree
  BY DEF RingInv
<1> QED
  BY <1>1, RingInvariance, PTL

\* The ring holds the newest messages in order of arrival.
THEOREM RingHoldsTheNewest == Spec => []HoldsTheNewest
<1>1. RingInv => HoldsTheNewest
  BY DEF RingInv
<1> QED
  BY <1>1, RingInvariance, PTL

-----------------------------------------------------------------------------
(* A single application thread: its reads never find the ring empty.       *)

OneReader == \A a, b \in Apps : a = b

\* What a read that is under way may rely on.
ReadInv ==
  /\ rxBufferSize \in 0..arrived
  /\ \A a \in Apps :
       /\ pc[a] \in {"count", "overflow", "sleep"} => pMsgs[a] = <<>>
       /\ pc[a] = "overflow" => count[a] <= rxBufferSize
  /\ ReaderNeverUnderruns

\* What a message put into the ring does to it, at either fill level.
LEMMA PutEffect ==
  ASSUME RingInv, ReadInv, Put
  PROVE  /\ arrived' = arrived + 1
         /\ \/ /\ rxBufferSize' = rxBufferSize + 1
               /\ deleted' = deleted
               /\ rxBufferOverflow' = rxBufferOverflow
            \/ /\ rxBufferSize' = rxBufferSize
               /\ rxBufferSize = N
               /\ deleted' = deleted \cup {arrived - rxBufferSize + 1}
<1>0. /\ lowIndex \in Slots /\ rxBufferSize \in 0..arrived /\ rxBufferSize <= N
      /\ N \in Nat \ {0} /\ arrived \in Nat
  BY RingFacts, SizeType DEF ReadInv
<1>1. CASE Overwrite(arrived + 1)
  <2>1. rxBufferSize = N /\ rxBufferSize' = rxBufferSize
    BY <1>0, <1>1 DEF Overwrite, N
  <2>2. rxbuffer[SlotAfter(lowIndex, 0)] = arrived - rxBufferSize + 1 + 0
    BY <1>0, <2>1, RingFacts
  <2>3. rxbuffer[lowIndex] = arrived - rxBufferSize + 1
    BY <1>0, <2>2, SlotSelf
  <2>4. deleted' = deleted \cup {arrived - rxBufferSize + 1}
    BY <1>1, <2>3 DEF Overwrite
  <2> QED
    BY <2>1, <2>4 DEF Put
<1>2. CASE Store(arrived + 1)
  BY <1>2 DEF Put, Store
<1> QED
  BY <1>1, <1>2 DEF Put, AddToRXBuffer

\* What PopMessage takes is the oldest message, and there is one.
LEMMA PopEffect ==
  ASSUME RingInv, ReadInv, NEW a \in Apps, PopMessage(a)
  PROVE  /\ rxBufferSize > 0
         /\ rxbuffer[lowIndex] = arrived - rxBufferSize + 1
<1>0. lowIndex \in Slots /\ rxBufferSize \in Int /\ arrived \in Nat
  BY RingFacts
<1>1. /\ pNumMsgs[a] \in Nat /\ Len(pMsgs[a]) \in Nat
      /\ pNumMsgs[a] - Len(pMsgs[a]) <= rxBufferSize
      /\ Len(pMsgs[a]) < pNumMsgs[a]
  BY DEF RingInv, TypeOK, CallTypeOK, ReadInv, ReaderNeverUnderruns, PopMessage
<1>2. rxBufferSize > 0
  BY <1>0, <1>1
<1>3. rxbuffer[SlotAfter(lowIndex, 0)] = arrived - rxBufferSize + 1 + 0
  BY <1>0, <1>2, RingFacts
<1> QED
  BY <1>0, <1>2, <1>3, SlotSelf

\* While no thread reads or pops, growing the ring cannot make a read underrun.
LEMMA ReadInvAfterPut ==
  ASSUME RingInv, ReadInv, Put
  PROVE  ReadInv'
<1>1. UNCHANGED <<pc, pMsgs, pNumMsgs, count>>
  BY DEF Put, call
<1>2. /\ rxBufferSize \in 0..arrived /\ arrived \in Nat
      /\ arrived' = arrived + 1
      /\ rxBufferSize' = rxBufferSize + 1 \/ rxBufferSize' = rxBufferSize
  BY PutEffect, RingFacts DEF ReadInv
<1>3. \A a \in Apps : /\ pNumMsgs[a] \in Nat /\ count[a] \in Int
                      /\ Len(pMsgs[a]) \in Nat
  BY DEF RingInv, TypeOK, CallTypeOK
<1>4. ReaderNeverUnderruns'
  BY <1>1, <1>2, <1>3 DEF ReadInv, ReaderNeverUnderruns
<1>5. \A a \in Apps : pc[a] = "overflow" => count[a] <= rxBufferSize'
  BY <1>2, <1>3 DEF ReadInv
<1> QED
  BY <1>1, <1>2, <1>4, <1>5 DEF ReadInv

LEMMA StepReadInv ==
  ASSUME OneReader, RingInv, ReadInv, [Next]_vars
  PROVE  ReadInv'
<1>0. /\ \A a \in Apps : /\ pNumMsgs[a] \in Nat /\ count[a] \in Int
                         /\ Len(pMsgs[a]) \in Nat
      /\ rxBufferSize \in 0..arrived /\ arrived \in Nat
      /\ pc \in [Apps -> {"idle", "count", "overflow", "sleep", "pop"}]
      /\ pMsgs \in [Apps -> Seq(Nat)]
      /\ pNumMsgs \in [Apps -> Nat] /\ count \in [Apps -> Int]
  BY DEF RingInv, TypeOK, RingTypeOK, CallTypeOK, ReadInv
<1>1. CASE Receive \/ \E a \in Apps : AddLoopbackMsg(a)
  BY <1>1, ReadInvAfterPut DEF Receive, AddLoopbackMsg
<1>2. ASSUME NEW a \in Apps, ClearRXBuffer(a) PROVE ReadInv'
  <2>1. \A b \in Apps : pc[b] = "idle" /\ pc'[b] = "idle"
    BY <1>2 DEF OneReader, ClearRXBuffer, call
  <2>2. rxBufferSize' = 0 /\ arrived' = arrived
    BY <1>2 DEF ClearRXBuffer
  <2> QED
    BY <1>0, <2>1, <2>2 DEF ReadInv, ReaderNeverUnderruns
<1>3. ASSUME NEW a \in Apps, NEW n \in Requests, NEW wait \in BOOLEAN,
             ReadMsgs(a, n, wait)
      PROVE  ReadInv'
  <2>1. \A b \in Apps : pc'[b] = "count" /\ pMsgs'[b] = <<>>
    BY <1>0, <1>3 DEF OneReader, ReadMsgs
  <2>2. rxBufferSize' = rxBufferSize /\ arrived' = arrived
    BY <1>3 DEF ReadMsgs, ring
  <2> QED
    BY <1>0, <2>1, <2>2 DEF ReadInv, ReaderNeverUnderruns
<1>4. ASSUME NEW a \in Apps, CountMsgs(a) PROVE ReadInv'
  <2>1. count'[a] = rxBufferSize
    BY <1>0, <1>4, UnsignedLongType DEF CountMsgs
  <2>2. /\ rxBufferSize' = rxBufferSize /\ arrived' = arrived
        /\ pMsgs' = pMsgs /\ pMsgs[a] = <<>>
    BY <1>4 DEF CountMsgs, ring, ReadInv
  <2>3. pc'[a] \in {"idle", "overflow"}
    BY <1>0, <1>4 DEF CountMsgs
  <2> QED
    BY <1>0, <2>1, <2>2, <2>3 DEF ReadInv, ReaderNeverUnderruns, OneReader
<1>5. ASSUME NEW a \in Apps, LookAtOverflow(a) PROVE ReadInv'
  <2>1. /\ rxBufferSize' = rxBufferSize /\ arrived' = arrived
        /\ pMsgs' = pMsgs /\ pMsgs[a] = <<>> /\ count[a] <= rxBufferSize
    BY <1>5 DEF LookAtOverflow, ring, ReadInv
  <2>2. \/ pc'[a] = "sleep"
        \/ pc'[a] = "pop" /\ pNumMsgs'[a] <= count[a]
    BY <1>0, <1>5 DEF LookAtOverflow
  <2>3. pNumMsgs'[a] \in Nat
    BY <1>0, <1>5 DEF LookAtOverflow
  <2> QED
    BY <1>0, <2>1, <2>2, <2>3 DEF ReadInv, ReaderNeverUnderruns, OneReader
<1>6. ASSUME NEW a \in Apps, WakeUp(a) PROVE ReadInv'
  <2>1. count'[a] = rxBufferSize
    BY <1>0, <1>6, UnsignedLongType DEF WakeUp
  <2>2. /\ rxBufferSize' = rxBufferSize /\ arrived' = arrived
        /\ pMsgs' = pMsgs /\ pMsgs[a] = <<>>
    BY <1>6 DEF WakeUp, ring, ReadInv
  <2>3. \/ pc'[a] = "idle"
        \/ pc'[a] = "pop" /\ pNumMsgs'[a] <= rxBufferSize /\ pNumMsgs'[a] \in Nat
    BY <1>0, <1>6, <2>1 DEF WakeUp
  <2> QED
    BY <1>0, <2>2, <2>3 DEF ReadInv, ReaderNeverUnderruns, OneReader
<1>7. ASSUME NEW a \in Apps, PopMessage(a) PROVE ReadInv'
  <2>1. rxBufferSize > 0 /\ rxBufferSize' = rxBufferSize - 1 /\ arrived' = arrived
    BY <1>7, PopEffect DEF PopMessage
  <2>2. pc'[a] = "pop" /\ pNumMsgs'[a] = pNumMsgs[a]
    BY <1>7 DEF PopMessage
  <2>3. Len(pMsgs'[a]) = Len(pMsgs[a]) + 1
    <3>1. rxbuffer[lowIndex] \in Nat
      BY DEF RingInv, TypeOK, RingTypeOK
    <3>2. pMsgs'[a] = Append(pMsgs[a], rxbuffer[lowIndex])
      BY <1>0, <1>7 DEF PopMessage
    <3> QED
      BY <1>0, <3>1, <3>2
  <2>4. pNumMsgs[a] - Len(pMsgs[a]) <= rxBufferSize
    BY <1>7 DEF ReadInv, ReaderNeverUnderruns, PopMessage
  <2> QED
    BY <1>0, <2>1, <2>2, <2>3, <2>4 DEF ReadInv, ReaderNeverUnderruns, OneReader
<1>8. ASSUME NEW a \in Apps, ReturnMsgs(a) PROVE ReadInv'
  <2>1. rxBufferSize' = rxBufferSize /\ arrived' = arrived /\ pc'[a] = "idle"
    BY <1>0, <1>8 DEF ReturnMsgs, ring
  <2> QED
    BY <1>0, <2>1 DEF ReadInv, ReaderNeverUnderruns, OneReader
<1>9. CASE UNCHANGED vars
  BY <1>9 DEF vars, ring, call, ReadInv, ReaderNeverUnderruns
<1> QED
  BY <1>1, <1>2, <1>3, <1>4, <1>5, <1>6, <1>7, <1>8, <1>9 DEF Next

LEMMA ReadInvariance ==
  ASSUME OneReader
  PROVE  Spec => []ReadInv
<1>1. Init => ReadInv
  BY DEF Init, ReadInv, ReaderNeverUnderruns
<1>2. RingInv /\ ReadInv /\ [Next]_vars => ReadInv'
  BY OneReader, StepReadInv
<1> QED
  BY <1>1, <1>2, RingInvariance, PTL DEF Spec

\* With one application thread per channel, PopMessage is never called on an
\* empty ring, whatever the communication thread does during the read.
THEOREM NoUnderrun ==
  ASSUME OneReader
  PROVE  Spec => []ReaderNeverUnderruns
<1>1. ReadInv => ReaderNeverUnderruns
  BY DEF ReadInv
<1>2. Spec => []ReadInv
  BY OneReader, ReadInvariance
<1> QED
  BY <1>1, <1>2, PTL

-----------------------------------------------------------------------------
(* A single application thread: what it gets, and what it is told.         *)

\* Everything that has left the ring is older than everything in it.
HistoryInv ==
  /\ \A i \in DOMAIN delivered : delivered[i] \in 1..(arrived - rxBufferSize)
  /\ \A d \in deleted : d \in 1..(arrived - rxBufferSize)
  /\ \A i \in DOMAIN delivered : delivered[i] \notin deleted
  /\ DeliveredInOrder

LEMMA StepHistory ==
  ASSUME RingInv, ReadInv, HistoryInv, [Next]_vars
  PROVE  HistoryInv'
<1>0. /\ rxBufferSize \in 0..arrived /\ arrived \in Nat
      /\ delivered \in Seq(Nat)
  BY DEF RingInv, TypeOK, RingTypeOK, ReadInv
<1>1. ASSUME Put PROVE HistoryInv'
  <2>1. delivered' = delivered
    BY <1>1 DEF Put
  <2> DEFINE oldest == arrived - rxBufferSize + 1
  <2>2. arrived' = arrived + 1
    BY <1>1, PutEffect
  <2>3. CASE rxBufferSize' = rxBufferSize + 1 /\ deleted' = deleted
    <3>1. arrived' - rxBufferSize' = arrived - rxBufferSize
      BY <1>0, <2>2, <2>3
    <3> QED
      BY <2>1, <2>3, <3>1 DEF HistoryInv, DeliveredInOrder
  <2>4. CASE /\ rxBufferSize' = rxBufferSize /\ rxBufferSize = N
             /\ deleted' = deleted \cup {oldest}
    <3>1. arrived' - rxBufferSize' = oldest /\ oldest \in Nat \ {0}
      BY <1>0, <2>2, <2>4
    <3> HIDE DEF oldest
    <3>2. arrived - rxBufferSize = oldest - 1
      BY <1>0 DEF oldest
    <3>3. \A i \in DOMAIN delivered : delivered[i] \in 1..(oldest - 1)
      BY <3>2 DEF HistoryInv
    <3>4. \A d \in deleted : d \in 1..(oldest - 1)
      BY <3>2 DEF HistoryInv
    <3>5. \A i \in DOMAIN delivered : /\ delivered[i] \in 1..oldest
                                      /\ delivered[i] \notin deleted'
      BY <2>4, <3>1, <3>3 DEF HistoryInv
    <3>6. \A d \in deleted' : d \in 1..oldest
      BY <2>4, <3>1, <3>4
    <3> QED
      BY <2>1, <3>1, <3>5, <3>6 DEF HistoryInv, DeliveredInOrder
  <2> QED
    BY <1>1, <2>3, <2>4, PutEffect
<1>2. CASE Receive \/ \E a \in Apps : AddLoopbackMsg(a)
  BY <1>1, <1>2 DEF Receive, AddLoopbackMsg
<1>3. ASSUME NEW a \in Apps, ClearRXBuffer(a) PROVE HistoryInv'
  <2>1. /\ delivered' = delivered /\ deleted' = deleted
        /\ arrived' - rxBufferSize' = arrived
    BY <1>0, <1>3 DEF ClearRXBuffer
  <2>2. 1..(arrived - rxBufferSize) \subseteq 1..arrived
    BY <1>0
  <2> QED
    BY <2>1, <2>2 DEF HistoryInv, DeliveredInOrder
<1>4. ASSUME NEW a \in Apps, PopMessage(a) PROVE HistoryInv'
  <2> DEFINE m == arrived - rxBufferSize + 1
  <2>1. /\ delivered' = Append(delivered, m) /\ deleted' = deleted
        /\ arrived' - rxBufferSize' = m /\ m \in Nat \ {0}
    <3>1. rxbuffer[lowIndex] = m
      BY <1>4, PopEffect
    <3>2. delivered' = Append(delivered, m) /\ deleted' = deleted
      BY <1>4, <3>1 DEF PopMessage
    <3>3. arrived' = arrived /\ rxBufferSize' = rxBufferSize - 1
      BY <1>4 DEF PopMessage
    <3> QED
      BY <1>0, <3>2, <3>3
  <2>2. arrived - rxBufferSize = m - 1
    BY <1>0
  <2> HIDE DEF m
  <2>3. \A i \in DOMAIN delivered : delivered[i] \in 1..(m - 1)
    BY <2>2 DEF HistoryInv
  <2>4. \A d \in deleted : d \in 1..(m - 1)
    BY <2>2 DEF HistoryInv
  <2>5. /\ DOMAIN delivered = 1..Len(delivered) /\ Len(delivered) \in Nat
        /\ DOMAIN delivered' = 1..(Len(delivered) + 1)
        /\ delivered'[Len(delivered) + 1] = m
        /\ \A i \in 1..Len(delivered) : delivered'[i] = delivered[i]
    BY <1>0, <2>1
  <2>6. \A i \in DOMAIN delivered' :
           \/ i \in DOMAIN delivered /\ delivered'[i] = delivered[i]
           \/ i = Len(delivered) + 1 /\ delivered'[i] = m
    BY <2>5
  <2>7. \A i \in DOMAIN delivered' : delivered'[i] \in 1..m
    BY <2>1, <2>3, <2>6
  <2>8. \A d \in deleted' : d \in 1..m
    BY <2>1, <2>4
  <2>9. \A i \in DOMAIN delivered' : delivered'[i] \notin deleted'
    BY <2>1, <2>4, <2>6 DEF HistoryInv
  <2>10. DeliveredInOrder'
    <3> SUFFICES ASSUME NEW i \in DOMAIN delivered', NEW j \in DOMAIN delivered',
                        i < j
                 PROVE  delivered'[i] < delivered'[j]
      BY DEF DeliveredInOrder
    <3>1. i \in DOMAIN delivered /\ delivered'[i] = delivered[i]
      BY <2>5
    <3>2. CASE j \in DOMAIN delivered
      BY <2>5, <3>1, <3>2 DEF HistoryInv, DeliveredInOrder
    <3>3. CASE j = Len(delivered) + 1
      BY <2>1, <2>3, <2>5, <3>1, <3>3
    <3> QED
      BY <2>6, <3>2, <3>3
  <2> QED
    BY <2>1, <2>7, <2>8, <2>9, <2>10 DEF HistoryInv
<1>5. ASSUME UNCHANGED <<rxBufferSize, arrived, deleted, delivered>>
      PROVE  HistoryInv'
  BY <1>5 DEF HistoryInv, DeliveredInOrder
<1>6. ASSUME NEW a \in Apps,
             \/ \E n \in Requests, wait \in BOOLEAN : ReadMsgs(a, n, wait)
             \/ CountMsgs(a) \/ LookAtOverflow(a) \/ WakeUp(a) \/ ReturnMsgs(a)
      PROVE  HistoryInv'
  BY <1>5, <1>6
     DEF ReadMsgs, CountMsgs, LookAtOverflow, WakeUp, ReturnMsgs, ring
<1>7. CASE UNCHANGED vars
  BY <1>5, <1>7 DEF vars, ring
<1> QED
  BY <1>2, <1>3, <1>4, <1>6, <1>7 DEF Next

LEMMA HistoryInvariance ==
  ASSUME OneReader
  PROVE  Spec => []HistoryInv
<1>1. Init => HistoryInv
  BY DEF Init, HistoryInv, DeliveredInOrder
<1>2. RingInv /\ ReadInv /\ HistoryInv /\ [Next]_vars => HistoryInv'
  BY StepHistory
<1>3. Spec => []ReadInv
  BY OneReader, ReadInvariance
<1> QED
  BY <1>1, <1>2, <1>3, RingInvariance, PTL DEF Spec

\* With one application thread, messages reach it in the order they came in.
THEOREM InOrder ==
  ASSUME OneReader
  PROVE  Spec => []DeliveredInOrder
<1>1. HistoryInv => DeliveredInOrder
  BY DEF HistoryInv
<1>2. Spec => []HistoryInv
  BY OneReader, HistoryInvariance
<1> QED
  BY <1>1, <1>2, PTL

\* With one application thread, no message is handed out twice, none that was
\* freed, and no slot that never held one.
THEOREM PassedOnce ==
  ASSUME OneReader
  PROVE  Spec => []OwnershipPassedOnce
<1>1. TypeOK /\ ReadInv /\ HistoryInv => OwnershipPassedOnce
  <2> SUFFICES ASSUME TypeOK, ReadInv, HistoryInv PROVE OwnershipPassedOnce
    OBVIOUS
  <2>1. /\ rxBufferSize \in 0..arrived /\ arrived \in Nat
        /\ delivered \in Seq(Nat)
    BY DEF TypeOK, RingTypeOK, ReadInv
  <2>2. \A i \in DOMAIN delivered : delivered[i] \in 1..arrived \ deleted
    BY <2>1 DEF HistoryInv
  <2>3. ASSUME NEW i \in DOMAIN delivered, NEW j \in DOMAIN delivered,
               delivered[i] = delivered[j]
        PROVE  i = j
    BY <2>1, <2>2, <2>3 DEF HistoryInv, DeliveredInOrder
  <2> QED
    BY <2>2, <2>3 DEF OwnershipPassedOnce
<1>2. Spec => []ReadInv /\ []HistoryInv
  BY OneReader, ReadInvariance, HistoryInvariance
<1> QED
  BY <1>1, <1>2, TypeCorrect, PTL

-----------------------------------------------------------------------------
(* A single application thread: the overflow report.                       *)

\* From the loss of a message to the call that reports it: the flag, then the
\* caller's copy of it, then the caller's first message mark the gap.
ReportInv ==
  /\ rxBufferOverflow => arrived - rxBufferSize \in deleted
  /\ \A a \in Apps :
       pc[a] \in {"sleep", "pop"} /\ overflow[a] =>
         IF pMsgs[a] = <<>> THEN arrived - rxBufferSize \in deleted
                            ELSE pMsgs[a][1] - 1 \in deleted
  /\ OverflowReportMeansLoss

LEMMA StepReport ==
  ASSUME OneReader, RingInv, ReadInv, ReportInv, [Next]_vars
  PROVE  ReportInv'
<1>0. /\ rxBufferSize \in 0..arrived /\ arrived \in Nat
      /\ pc \in [Apps -> {"idle", "count", "overflow", "sleep", "pop"}]
      /\ pMsgs \in [Apps -> Seq(Nat)]
      /\ overflow \in [Apps -> BOOLEAN]
      /\ status \in [Apps -> {"none", "STATUS_NOERROR", "ERR_BUFFER_EMPTY",
                              "ERR_BUFFER_OVERFLOW"}]
  BY DEF RingInv, TypeOK, RingTypeOK, CallTypeOK, ReadInv
<1>1. ASSUME Put PROVE ReportInv'
  <2>1. UNCHANGED <<pc, overflow, pMsgs, status>>
    BY <1>1 DEF Put, call
  <2>2. arrived' = arrived + 1
    BY <1>1, PutEffect
  <2>3. CASE /\ rxBufferSize' = rxBufferSize + 1 /\ deleted' = deleted
             /\ rxBufferOverflow' = rxBufferOverflow
    <3>1. arrived' - rxBufferSize' = arrived - rxBufferSize
      BY <1>0, <2>2, <2>3
    <3> QED
      BY <2>1, <2>3, <3>1 DEF ReportInv, OverflowReportMeansLoss
  <2>4. CASE /\ rxBufferSize' = rxBufferSize
             /\ deleted' = deleted \cup {arrived - rxBufferSize + 1}
    <3>1. arrived' - rxBufferSize' = arrived - rxBufferSize + 1
      BY <1>0, <2>2, <2>4
    <3>2. arrived' - rxBufferSize' \in deleted' /\ deleted \subseteq deleted'
      BY <2>4, <3>1
    <3> QED
      BY <2>1, <3>2 DEF ReportInv, OverflowReportMeansLoss
  <2> QED
    BY <1>1, <2>3, <2>4, PutEffect
<1>2. CASE Receive \/ \E a \in Apps : AddLoopbackMsg(a)
  BY <1>1, <1>2 DEF Receive, AddLoopbackMsg
<1>3. ASSUME NEW a \in Apps, ClearRXBuffer(a) PROVE ReportInv'
  <2>1. /\ \A b \in Apps : pc[b] = "idle"
        /\ UNCHANGED <<pc, overflow, pMsgs, status, deleted>>
        /\ rxBufferOverflow' = FALSE
    BY <1>3 DEF OneReader, ClearRXBuffer, call
  <2> QED
    BY <2>1 DEF ReportInv, OverflowReportMeansLoss
<1>4. ASSUME UNCHANGED <<ring, arrived, deleted>>
      PROVE  /\ rxBufferOverflow' => arrived' - rxBufferSize' \in deleted'
             /\ arrived' - rxBufferSize' = arrived - rxBufferSize
             /\ deleted' = deleted
  BY <1>4 DEF ring, ReportInv
<1>5. ASSUME NEW a \in Apps, NEW n \in Requests, NEW wait \in BOOLEAN,
             ReadMsgs(a, n, wait)
      PROVE  ReportInv'
  <2>1. \A b \in Apps : pc'[b] = "count"
    BY <1>0, <1>5 DEF OneReader, ReadMsgs
  <2> QED
    BY <1>4, <1>5, <2>1 DEF ReadMsgs, ReportInv, OverflowReportMeansLoss
<1>6. ASSUME NEW a \in Apps, CountMsgs(a) PROVE ReportInv'
  <2>1. \A b \in Apps : \/ pc'[b] = "overflow"
                        \/ pc'[b] = "idle" /\ status'[b] = "ERR_BUFFER_EMPTY"
    BY <1>0, <1>6 DEF OneReader, CountMsgs
  <2> QED
    BY <1>4, <1>6, <2>1 DEF CountMsgs, ReportInv, OverflowReportMeansLoss
<1>7. ASSUME NEW a \in Apps, LookAtOverflow(a) PROVE ReportInv'
  <2>1. \A b \in Apps : /\ pc'[b] \in {"sleep", "pop"}
                        /\ overflow'[b] = rxBufferOverflow
                        /\ pMsgs'[b] = <<>>
    BY <1>0, <1>7 DEF OneReader, LookAtOverflow, ReadInv
  <2>2. rxBufferOverflow => arrived - rxBufferSize \in deleted
    BY DEF ReportInv
  <2> QED
    BY <1>4, <1>7, <2>1, <2>2
       DEF LookAtOverflow, ReportInv, OverflowReportMeansLoss
<1>8. ASSUME NEW a \in Apps, WakeUp(a) PROVE ReportInv'
  <2>1. \A b \in Apps : /\ pc[b] = "sleep"
                        /\ \/ pc'[b] = "pop"
                           \/ pc'[b] = "idle" /\ status'[b] = "ERR_BUFFER_EMPTY"
    BY <1>0, <1>8 DEF OneReader, WakeUp
  <2>2. UNCHANGED <<overflow, pMsgs>>
    BY <1>8 DEF WakeUp
  <2> QED
    BY <1>4, <1>8, <2>1, <2>2 DEF WakeUp, ReportInv, OverflowReportMeansLoss
<1>9. ASSUME NEW a \in Apps, PopMessage(a) PROVE ReportInv'
  <2>1. /\ rxBufferOverflow' = FALSE /\ deleted' = deleted
        /\ UNCHANGED <<pc, overflow>>
        /\ pc[a] = "pop"
    BY <1>9 DEF PopMessage
  <2> DEFINE m == rxbuffer[lowIndex]
  <2>2. m - 1 = arrived - rxBufferSize /\ m \in Nat
    BY <1>0, <1>9, PopEffect DEF RingInv, TypeOK, RingTypeOK
  <2>3. pMsgs'[a] = Append(pMsgs[a], m)
    BY <1>0, <1>9 DEF PopMessage
  <2> HIDE DEF m
  <2>4. pMsgs'[a] # <<>> /\ pMsgs[a] = <<>> => pMsgs'[a][1] = m
    BY <1>0, <2>2, <2>3
  <2>5. pMsgs[a] # <<>> => pMsgs'[a][1] = pMsgs[a][1]
    BY <1>0, <2>2, <2>3
  <2>6. pMsgs'[a] # <<>>
    <3>1. Len(pMsgs'[a]) = Len(pMsgs[a]) + 1 /\ Len(pMsgs[a]) \in Nat
      BY <1>0, <2>2, <2>3
    <3>2. Len(pMsgs'[a]) # 0
      BY <3>1
    <3> QED
      BY <3>2
  <2>7. overflow[a] => pMsgs'[a][1] - 1 \in deleted
    BY <2>1, <2>2, <2>4, <2>5, <2>6 DEF ReportInv
  <2> QED
    BY <2>1, <2>6, <2>7 DEF ReportInv, OverflowReportMeansLoss, OneReader
<1>10. ASSUME NEW a \in Apps, ReturnMsgs(a) PROVE ReportInv'
  <2>1. /\ pc[a] = "pop" /\ pc'[a] = "idle"
        /\ pMsgs' = pMsgs
        /\ status'[a] = "ERR_BUFFER_OVERFLOW" => overflow[a]
    BY <1>0, <1>10 DEF ReturnMsgs
  <2> QED
    BY <1>4, <1>10, <2>1
       DEF ReturnMsgs, ReportInv, OverflowReportMeansLoss, OneReader
<1>11. CASE UNCHANGED vars
  BY <1>4, <1>11 DEF vars, call, ReportInv, OverflowReportMeansLoss
<1> QED
  BY <1>2, <1>3, <1>5, <1>6, <1>7, <1>8, <1>9, <1>10, <1>11 DEF Next

\* With one application thread, ERR_BUFFER_OVERFLOW always stands for a
\* message lost just before the first one the call stored.
THEOREM ReportMeansLoss ==
  ASSUME OneReader
  PROVE  Spec => []OverflowReportMeansLoss
<1>1. Init => ReportInv
  BY DEF Init, ReportInv, OverflowReportMeansLoss
<1>2. RingInv /\ ReadInv /\ ReportInv /\ [Next]_vars => ReportInv'
  BY OneReader, StepReport
<1>3. ReportInv => OverflowReportMeansLoss
  BY DEF ReportInv
<1>4. Spec => []ReadInv
  BY OneReader, ReadInvariance
<1> QED
  BY <1>1, <1>2, <1>3, <1>4, RingInvariance, PTL DEF Spec

-----------------------------------------------------------------------------
(* A single application thread: the ring is a bounded queue.               *)

\* The s newest of n messages.
Newest(n, s) == [k \in 1..s |-> n - s + k]

QueueInv == Queue = Newest(arrived, rxBufferSize)

LEMMA QueueIsNewest ==
  ASSUME RingInv
  PROVE  QueueInv
<1>1. rxBufferSize \in Int /\ arrived \in Nat
  BY RingFacts
<1>2. ASSUME NEW k \in 1..rxBufferSize
      PROVE  rxbuffer[Slot(k - 1)] = arrived - rxBufferSize + k
  <2>1. k - 1 \in 0..(rxBufferSize - 1)
    BY <1>1
  <2>2. rxbuffer[Slot(k - 1)] = arrived - rxBufferSize + 1 + (k - 1)
    BY <2>1 DEF RingInv, HoldsTheNewest
  <2> QED
    BY <1>1, <2>2
<1> QED
  BY <1>2 DEF Queue, Newest, QueueInv

LEMMA NewestSeq ==
  ASSUME NEW n \in Nat, NEW s \in 0..n
  PROVE  /\ Newest(n, s) \in Seq(Nat) /\ Len(Newest(n, s)) = s
         /\ \A k \in 1..s : Newest(n, s)[k] = n - s + k
<1>1. Newest(n, s) \in [1..s -> Nat]
  BY DEF Newest
<1> QED
  BY <1>1 DEF Newest

LEMMA NewestAppend ==
  ASSUME NEW n \in Nat, NEW s \in 0..n
  PROVE  Append(Newest(n, s), n + 1) = Newest(n + 1, s + 1)
  BY NewestSeq DEF Newest

LEMMA NewestTail ==
  ASSUME NEW n \in Nat, NEW s \in 1..n
  PROVE  /\ Tail(Newest(n, s)) = Newest(n, s - 1)
         /\ Head(Newest(n, s)) = n - s + 1
         /\ Newest(n, s) # <<>>
  BY NewestSeq DEF Newest

LEMMA StepRefines ==
  ASSUME RingInv, ReadInv, QueueInv, QueueInv', [Next]_vars
  PROVE  [Fifo!Next]_(Fifo!vars)
<1>0. /\ rxBufferSize \in 0..arrived /\ arrived \in Nat /\ N \in Nat \ {0}
      /\ rxBufferSize <= N
      /\ Queue = Newest(arrived, rxBufferSize)
      /\ Queue' = Newest(arrived', rxBufferSize')
      /\ Len(Queue) = rxBufferSize
  <2>1. rxBufferSize \in 0..arrived /\ arrived \in Nat
    BY RingFacts DEF ReadInv
  <2>2. Queue = Newest(arrived, rxBufferSize)
    BY DEF QueueInv
  <2>3. Queue' = Newest(arrived', rxBufferSize')
    BY DEF QueueInv
  <2> QED
    BY <2>1, <2>2, <2>3, NewestSeq, RingFacts, SizeType
<1>1. ASSUME Put PROVE Fifo!Next
  <2>1. arrived' = arrived + 1 /\ delivered' = delivered /\ arrived + 1 \in 1..MaxMsgs
    BY <1>0, <1>1, RxAssumption DEF Put
  <2>2. CASE Store(arrived + 1)
    <3>1. rxBufferSize < N /\ rxBufferSize' = rxBufferSize + 1 /\ deleted' = deleted
      BY <2>2 DEF Store, N
    <3>2. Queue' = Append(Queue, arrived + 1)
      BY <1>0, <2>1, <3>1, NewestAppend
    <3>3. Fifo!Put(arrived + 1)
      BY <1>0, <2>1, <3>1, <3>2 DEF Fifo!Put, N
    <3> QED
      BY <2>1, <3>3 DEF Fifo!Next
  <2>3. CASE Overwrite(arrived + 1)
    <3>1. rxBufferSize = N /\ rxBufferSize' = rxBufferSize
      BY <1>0, <2>3 DEF Overwrite, N
    <3>2. /\ Tail(Queue) = Newest(arrived, rxBufferSize - 1)
          /\ Head(Queue) = arrived - rxBufferSize + 1
      <4>1. rxBufferSize \in 1..arrived
        BY <1>0, <3>1
      <4>2. /\ Tail(Newest(arrived, rxBufferSize)) = Newest(arrived, rxBufferSize - 1)
            /\ Head(Newest(arrived, rxBufferSize)) = arrived - rxBufferSize + 1
        BY <1>0, <4>1, NewestTail
      <4> QED
        BY <1>0, <4>2
    <3>3. Queue' = Append(Tail(Queue), arrived + 1)
      <4>1. rxBufferSize - 1 \in 0..arrived
        BY <1>0, <3>1
      <4>2. Append(Newest(arrived, rxBufferSize - 1), arrived + 1)
              = Newest(arrived + 1, rxBufferSize - 1 + 1)
        BY <1>0, <4>1, NewestAppend
      <4> QED
        BY <1>0, <2>1, <3>1, <3>2, <4>2
    <3>4. deleted' = deleted \cup {Head(Queue)}
      <4>1. rxbuffer[lowIndex] = arrived - rxBufferSize + 1
        <5>1. rxbuffer[SlotAfter(lowIndex, 0)] = arrived - rxBufferSize + 1 + 0
          BY <1>0, <3>1, RingFacts
        <5> QED
          BY <1>0, <5>1, SlotSelf, RingFacts
      <4> QED
        BY <2>3, <3>2, <4>1 DEF Overwrite
    <3>5. Fifo!Displace(arrived + 1)
      BY <1>0, <2>1, <3>1, <3>3, <3>4 DEF Fifo!Displace, N
    <3> QED
      BY <2>1, <3>5 DEF Fifo!Next
  <2> QED
    BY <1>1, <2>2, <2>3 DEF Put, AddToRXBuffer
<1>2. CASE Receive \/ \E a \in Apps : AddLoopbackMsg(a)
  BY <1>1, <1>2 DEF Receive, AddLoopbackMsg
<1>3. ASSUME NEW a \in Apps, ClearRXBuffer(a) PROVE Fifo!Next
  <2>1. /\ rxBufferSize' = 0 /\ arrived' = arrived
        /\ deleted' = deleted /\ delivered' = delivered
    BY <1>3 DEF ClearRXBuffer
  <2>2. Queue' = <<>>
    BY <1>0, <2>1 DEF Newest
  <2> QED
    BY <2>1, <2>2 DEF Fifo!Clear, Fifo!Next
<1>4. ASSUME NEW a \in Apps, PopMessage(a) PROVE Fifo!Next
  <2>1. /\ rxBufferSize > 0
        /\ rxbuffer[lowIndex] = arrived - rxBufferSize + 1
    BY <1>4, PopEffect
  <2>2. /\ rxBufferSize' = rxBufferSize - 1 /\ arrived' = arrived
        /\ deleted' = deleted
        /\ delivered' = Append(delivered, arrived - rxBufferSize + 1)
    BY <1>4, <2>1 DEF PopMessage
  <2>3. /\ Tail(Queue) = Newest(arrived, rxBufferSize - 1)
        /\ Head(Queue) = arrived - rxBufferSize + 1 /\ Queue # <<>>
    <3>1. rxBufferSize \in 1..arrived
      BY <1>0, <2>1
    <3>2. /\ Tail(Newest(arrived, rxBufferSize)) = Newest(arrived, rxBufferSize - 1)
          /\ Head(Newest(arrived, rxBufferSize)) = arrived - rxBufferSize + 1
          /\ Newest(arrived, rxBufferSize) # <<>>
      BY <1>0, <3>1, NewestTail
    <3> QED
      BY <1>0, <3>2
  <2>4. Queue' = Tail(Queue)
    BY <1>0, <2>2, <2>3
  <2> QED
    BY <2>2, <2>3, <2>4 DEF Fifo!Take, Fifo!Next
<1>5. ASSUME UNCHANGED <<ring, deleted, delivered>>
      PROVE  UNCHANGED Fifo!vars
  BY <1>5 DEF Fifo!vars, ring, Queue, Slot
<1>6. ASSUME NEW a \in Apps,
             \/ \E n \in Requests, wait \in BOOLEAN : ReadMsgs(a, n, wait)
             \/ CountMsgs(a) \/ LookAtOverflow(a) \/ WakeUp(a) \/ ReturnMsgs(a)
      PROVE  UNCHANGED Fifo!vars
  BY <1>5, <1>6 DEF ReadMsgs, CountMsgs, LookAtOverflow, WakeUp, ReturnMsgs
<1>7. CASE UNCHANGED vars
  BY <1>5, <1>7 DEF vars
<1> QED
  BY <1>2, <1>3, <1>4, <1>6, <1>7 DEF Next

\* With one application thread, the ring with its separately locked accesses
\* implements the bounded queue.
THEOREM Refinement ==
  ASSUME OneReader
  PROVE  Spec => ImplementsFifo
<1>1. Init => Fifo!Init
  <2> SUFFICES ASSUME Init PROVE Fifo!Init
    OBVIOUS
  <2>1. Queue = <<>>
    BY DEF Init, Queue
  <2> QED
    BY <2>1 DEF Init, Fifo!Init
<1>2. RingInv /\ ReadInv /\ QueueInv /\ QueueInv' /\ [Next]_vars
        => [Fifo!Next]_(Fifo!vars)
  BY StepRefines
<1>4. RingInv => QueueInv
  BY QueueIsNewest
<1>3. Spec => []ReadInv
  BY OneReader, ReadInvariance
<1> QED
  BY <1>1, <1>2, <1>3, <1>4, RingInvariance, PTL
     DEF Spec, ImplementsFifo, Fifo!Spec
=============================================================================
