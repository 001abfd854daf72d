------------------------- MODULE SerialReceiveProofs -------------------------
(***************************************************************************)
(* The lines do not depend on the reads, and the messages that were sent   *)
(* arrive, for every size of the buffers and every stream of bytes.        *)
(*                                                                         *)
(* The reference is a recursive function over the bytes: that there is     *)
(* such a function, and that it can be continued byte by byte, comes       *)
(* first.  The induction over the bytes is one by the least number for     *)
(* which something fails.                                                  *)
(***************************************************************************)
EXTENDS SerialReceive, SequenceTheorems, NaturalsInduction, WellFoundedInduction, TLAPS

Nothing == [lines |-> <<>>, msgs |-> <<>>, part |-> <<>>]

\* f is the framing of the first n bytes.
IsFraming(f, bytes, n) ==
  f = [k \in 0..n |-> IF k = 0 THEN Nothing ELSE FrameByte(f[k - 1], bytes[k])]

\* A set of numbers that is not empty has a least one.
LEMMA Least ==
  ASSUME NEW S, S \subseteq Nat, S # {}
  PROVE  \E k \in S : \A j \in S : ~(j < k)
<1> DEFINE R == {ss \in Nat \X Nat : ss[1] < ss[2]}
<1>1. IsWellFoundedOn(R, Nat)
  BY NatLessThanWellFounded DEF OpToRel
<1>2. \A j, k \in Nat : j < k => <<j, k>> \in R
  OBVIOUS
<1> HIDE DEF R
<1>3. \E k \in S : \A j \in S : <<j, k>> \notin R
  BY <1>1, WFMin
<1> QED
  BY <1>2, <1>3

\* A set of numbers that has 0 and with every number the next has them all.
LEMMA Induction ==
  ASSUME NEW S, 0 \in S, \A k \in Nat : k \in S => k + 1 \in S
  PROVE  Nat \subseteq S
<1> SUFFICES ASSUME Nat \ S # {} PROVE FALSE
  OBVIOUS
<1>1. PICK k \in Nat \ S : \A j \in Nat \ S : ~(j < k)
  BY Least
<1>2. k # 0 /\ k - 1 \in Nat /\ k - 1 < k /\ (k - 1) + 1 = k
  BY <1>1
<1>3. k - 1 \in S
  BY <1>1, <1>2
<1> QED
  BY <1>1, <1>2, <1>3

\* Every stream has a framing.
LEMMA FramingExists ==
  ASSUME NEW bytes
  PROVE  \A n \in Nat : \E f : IsFraming(f, bytes, n)
<1> DEFINE S == {n \in Nat : \E f : IsFraming(f, bytes, n)}
<1>1. 0 \in S
  <2> DEFINE f == [k \in 0..0 |-> Nothing]
  <2>1. IsFraming(f, bytes, 0)
    BY DEF IsFraming
  <2> QED
    BY <2>1
<1>2. ASSUME NEW n \in Nat, n \in S PROVE n + 1 \in S
  <2>1. PICK f : IsFraming(f, bytes, n)
    BY <1>2
  <2> DEFINE g == [k \in 0..(n + 1) |-> IF k = n + 1 THEN FrameByte(f[n], bytes[n + 1]) ELSE f[k]]
  <2>2. ASSUME NEW k \in 0..(n + 1)
        PROVE  g[k] = IF k = 0 THEN Nothing ELSE FrameByte(g[k - 1], bytes[k])
    <3>1. CASE k = n + 1
      <4>1. g[k] = FrameByte(f[n], bytes[n + 1])
        BY <3>1
      <4>2. g[k - 1] = f[n] /\ k # 0
        BY <3>1
      <4> QED
        BY <3>1, <4>1, <4>2
    <3>2. CASE k # n + 1 /\ k # 0
      <4>1. k \in 0..n /\ k - 1 \in 0..n /\ k - 1 # n + 1 /\ k - 1 \in 0..(n + 1)
        BY <3>2
      <4>2. f[k] = FrameByte(f[k - 1], bytes[k])
        BY <2>1, <3>2, <4>1 DEF IsFraming
      <4>3. g[k] = f[k] /\ g[k - 1] = f[k - 1]
        BY <3>2, <4>1
      <4> QED
        BY <3>2, <4>2, <4>3
    <3>3. CASE k = 0
      <4>1. f[0] = Nothing
        BY <2>1 DEF IsFraming
      <4> QED
        BY <3>3, <4>1
    <3> QED
      BY <3>1, <3>2, <3>3
  <2>3. IsFraming(g, bytes, n + 1)
    <3> HIDE DEF g
    <3>1. g = [k \in 0..(n + 1) |-> g[k]]
      BY DEF g
    <3> QED
      BY <2>2, <3>1 DEF IsFraming
  <2> QED
    BY <2>3
<1>3. Nat \subseteq S
  <2> HIDE DEF S
  <2> QED
    BY <1>1, <1>2, Induction
<1> QED
  BY <1>3

\* Framings of streams that begin alike begin alike.
LEMMA FramingsAgree ==
  ASSUME NEW f, NEW g, NEW b, NEW c, NEW n \in Nat, NEW m \in Nat,
         IsFraming(f, b, n), IsFraming(g, c, m), n <= m, \A k \in 1..n : b[k] = c[k]
  PROVE  \A k \in 0..n : f[k] = g[k]
<1> DEFINE S == {k \in Nat : k <= n => f[k] = g[k]}
<1>1. 0 \in S
  BY DEF IsFraming
<1>2. ASSUME NEW k \in Nat, k \in S PROVE k + 1 \in S
  <2> SUFFICES ASSUME k + 1 <= n PROVE f[k + 1] = g[k + 1]
    OBVIOUS
  <2>1. k + 1 \in 0..n /\ k + 1 \in 0..m /\ k + 1 \in 1..n /\ k + 1 # 0 /\ (k + 1) - 1 = k /\ k <= n
    OBVIOUS
  <2>2. f[k] = g[k] /\ b[k + 1] = c[k + 1]
    BY <1>2, <2>1
  <2>3. f[k + 1] = FrameByte(f[k], b[k + 1])
    BY <2>1 DEF IsFraming
  <2>4. g[k + 1] = FrameByte(g[k], c[k + 1])
    BY <2>1 DEF IsFraming
  <2> QED
    BY <2>2, <2>3, <2>4
<1>3. Nat \subseteq S
  <2> HIDE DEF S
  <2> QED
    BY <1>1, <1>2, Induction
<1> QED
  BY <1>3

\* Framed is the last value of a framing.
LEMMA FramedIs ==
  ASSUME NEW bytes, Len(bytes) \in Nat
  PROVE  \E f : IsFraming(f, bytes, Len(bytes)) /\ Framed(bytes) = f[Len(bytes)]
<1> DEFINE f == CHOOSE f : IsFraming(f, bytes, Len(bytes))
<1>1. IsFraming(f, bytes, Len(bytes))
  BY FramingExists
<1>2. Framed(bytes) = f[Len(bytes)]
  BY DEF Framed, IsFraming, Nothing
<1> QED
  BY <1>1, <1>2

LEMMA FramedEmpty == Framed(<<>>) = Nothing
  BY FramedIs DEF IsFraming

\* The reference can be continued.
LEMMA FramedAppend ==
  ASSUME NEW S, NEW bytes \in Seq(S), NEW c \in S
  PROVE  Framed(Append(bytes, c)) = FrameByte(Framed(bytes), c)
<1> DEFINE n == Len(bytes)
           more == Append(bytes, c)
<1>1. n \in Nat /\ Len(more) = n + 1 /\ more[n + 1] = c /\ \A k \in 1..n : bytes[k] = more[k]
  OBVIOUS
<1> HIDE DEF n, more
<1>2. PICK f : IsFraming(f, bytes, n) /\ Framed(bytes) = f[n]
  BY <1>1, FramedIs DEF n
<1>3. PICK g : IsFraming(g, more, n + 1) /\ Framed(more) = g[n + 1]
  <2>1. Len(more) \in Nat
    BY <1>1
  <2> QED
    BY <1>1, <2>1, FramedIs
<1>4. f[n] = g[n]
  <2>1. n + 1 \in Nat /\ n <= n + 1 /\ n \in 0..n
    BY <1>1
  <2> QED
    BY <1>1, <1>2, <1>3, <2>1, FramingsAgree
<1>5. g[n + 1] = FrameByte(g[n], more[n + 1])
  <2>1. n + 1 \in 0..(n + 1) /\ n + 1 # 0 /\ (n + 1) - 1 = n
    BY <1>1
  <2> QED
    BY <1>3, <2>1 DEF IsFraming
<1> QED
  BY <1>1, <1>2, <1>3, <1>4, <1>5 DEF more

-----------------------------------------------------------------------------
(* The lines do not depend on the reads.                                   *)

Octet == 0..255

\* The bytes of the stream that have been handled.
HandledBytes == SubSeq(consumed, 1, Len(consumed) - Len(buffer) + i)

SerialTypes ==
  /\ incoming \in Seq(Octet) /\ cbInQue \in Seq(Octet) /\ consumed \in Seq(Octet)
  /\ buffer \in Seq(Octet) /\ collectionbuf \in Seq(Octet)
  /\ i \in Nat /\ i <= Len(buffer)
  /\ asked \in Nat
  /\ cpc \in {"wait", "read", "collect", "done"}

\* The thread asks for bytes that are there; it has handled all of a buffer
\* when it leaves it.
ReadsInOrder ==
  /\ cpc = "read" => 0 < asked /\ asked <= Len(cbInQue)
  /\ cpc \in {"wait", "read"} => buffer = <<>>
  /\ cpc = "done" => i = Len(buffer)

\* The buffer is the end of what was consumed.
BufferIsTheEnd ==
  /\ Len(buffer) <= Len(consumed)
  /\ \A k \in 1..Len(buffer) : buffer[k] = consumed[Len(consumed) - Len(buffer) + k]

\* The lines so far are those of the bytes handled; a full collectionbuf is a
\* line the reference has already counted.
LinesSoFar ==
  /\ Len(collectionbuf) <= MAX_COLLECTION_BUF_SIZE
  /\ cpc # "collect" => Len(collectionbuf) < MAX_COLLECTION_BUF_SIZE
  /\ Framed(HandledBytes) =
       IF Len(collectionbuf) = MAX_COLLECTION_BUF_SIZE
         THEN [lines |-> Append(lines, collectionbuf), msgs |-> rx \o Messages(collectionbuf), part |-> <<>>]
         ELSE [lines |-> lines, msgs |-> rx, part |-> collectionbuf]

FramingInv ==
  /\ overrun => cpc = "collect"
  /\ ~overrun => SerialTypes /\ ReadsInOrder /\ BufferIsTheEnd /\ LinesSoFar

\* What a byte does to the reference.
LEMMA ReturnEnds ==
  ASSUME NEW L, NEW M, NEW P, P # <<>>
  PROVE  FrameByte([lines |-> L, msgs |-> M, part |-> P], CR)
           = [lines |-> Append(L, P), msgs |-> M \o Messages(P), part |-> <<>>]
  BY DEF FrameByte

LEMMA ReturnOfNothing ==
  ASSUME NEW L, NEW M
  PROVE  FrameByte([lines |-> L, msgs |-> M, part |-> <<>>], CR)
           = [lines |-> L, msgs |-> M, part |-> <<>>]
  BY DEF FrameByte

LEMMA FeedIsIgnored ==
  ASSUME NEW L, NEW M, NEW P, Len(P) # MAX_COLLECTION_BUF_SIZE
  PROVE  FrameByte([lines |-> L, msgs |-> M, part |-> P], LF)
           = [lines |-> L, msgs |-> M, part |-> P]
  BY DEF FrameByte, CR, LF

WithChar(L, M, P, c) ==
  IF Len(Append(P, c)) = MAX_COLLECTION_BUF_SIZE
    THEN [lines |-> Append(L, Append(P, c)), msgs |-> M \o Messages(Append(P, c)), part |-> <<>>]
    ELSE [lines |-> L, msgs |-> M, part |-> Append(P, c)]

LEMMA CharIsAdded ==
  ASSUME NEW L, NEW M, NEW S, NEW P \in Seq(S), NEW c \in S, c # CR, c # LF
  PROVE  FrameByte([lines |-> L, msgs |-> M, part |-> P], c) = WithChar(L, M, P, c)
<1>1. PICK Q : Q = Append(P, c)
  OBVIOUS
<1>2. Q # <<>>
  BY <1>1, AppendProperties
<1>3. FrameByte([lines |-> L, msgs |-> M, part |-> P], c)
        = IF Len(Q) = MAX_COLLECTION_BUF_SIZE
            THEN [lines |-> Append(L, Q), msgs |-> M \o Messages(Q), part |-> <<>>]
            ELSE [lines |-> L, msgs |-> M, part |-> Q]
  <2> DEFINE so == [lines |-> L, msgs |-> M, part |-> P]
  <2>1. so.part = P /\ so.lines = L /\ so.msgs = M
    OBVIOUS
  <2> HIDE DEF so
  <2>2. FrameByte(so, c) = IF Len(Q) = MAX_COLLECTION_BUF_SIZE
                             THEN [lines |-> Append(so.lines, Q), msgs |-> so.msgs \o Messages(Q), part |-> <<>>]
                             ELSE [lines |-> so.lines, msgs |-> so.msgs, part |-> Q]
    BY <1>1, <1>2, <2>1, Zenon DEF FrameByte
  <2> QED
    BY <2>1, <2>2 DEF so
<1> QED
  BY <1>1, <1>3 DEF WithChar

\* One more byte of a prefix.
LEMMA LongerPrefix ==
  ASSUME NEW S, NEW s \in Seq(S), NEW n \in Nat, n + 1 <= Len(s)
  PROVE  /\ SubSeq(s, 1, n) \in Seq(S)
         /\ s[n + 1] \in S
         /\ SubSeq(s, 1, n + 1) = Append(SubSeq(s, 1, n), s[n + 1])
  OBVIOUS

LEMMA FramingInit == ASSUME SerialAssumption, Init PROVE FramingInv
<1>1. HandledBytes = <<>> /\ Len(<<>>) = 0 /\ 0 < MAX_COLLECTION_BUF_SIZE
  BY DEF Init, SerialAssumption, HandledBytes
<1>2. LinesSoFar
  BY <1>1, FramedEmpty DEF Init, LinesSoFar, Nothing, SerialAssumption
<1> QED
  BY <1>2 DEF Init, FramingInv, SerialTypes, ReadsInOrder, BufferIsTheEnd

LEMMA FramingPort ==
  ASSUME SerialAssumption, FramingInv, ~overrun, Arrive \/ \E l \in Lines : Send(l)
  PROVE  FramingInv'
<1>1. SerialTypes'
  <2>1. CASE Arrive
    BY <2>1, HeadTailProperties, AppendProperties DEF Arrive, FramingInv, SerialTypes, heard, said
  <2>2. CASE \E l \in Lines : Send(l)
    BY <2>2 DEF Send, FramingInv, SerialTypes, heard, said, SerialAssumption, Octet
  <2> QED
    BY <2>1, <2>2
<1>2. ReadsInOrder'
  <2>1. Len(cbInQue') \in Nat /\ Len(cbInQue) \in Nat /\ Len(cbInQue') >= Len(cbInQue)
    BY DEF Arrive, Send, FramingInv, SerialTypes, Octet
  <2>2. UNCHANGED <<cpc, asked, buffer, i>>
    BY DEF Arrive, Send
  <2> QED
    BY <2>1, <2>2 DEF FramingInv, ReadsInOrder, SerialTypes
<1>3. BufferIsTheEnd' /\ LinesSoFar'
  <2>1. UNCHANGED <<cpc, buffer, i, consumed, collectionbuf, lines, rx>>
    BY DEF Arrive, Send, heard
  <2> QED
    BY <2>1 DEF FramingInv, BufferIsTheEnd, LinesSoFar, HandledBytes
<1>4. UNCHANGED overrun
  BY DEF Arrive, Send
<1> QED
  BY <1>1, <1>2, <1>3, <1>4 DEF FramingInv

LEMMA FramingHandleCommEvent ==
  ASSUME FramingInv, ~overrun, HandleCommEvent PROVE FramingInv'
<1>1. Len(cbInQue) \in Nat /\ (cbInQue # <<>> => 0 < Len(cbInQue))
  BY DEF FramingInv, SerialTypes
<1>2. SerialTypes' /\ ReadsInOrder'
  BY <1>1 DEF HandleCommEvent, FramingInv, SerialTypes, ReadsInOrder, heard
<1>3. BufferIsTheEnd' /\ LinesSoFar'
  BY DEF HandleCommEvent, FramingInv, BufferIsTheEnd, LinesSoFar, HandledBytes, heard
<1> QED
  BY <1>2, <1>3 DEF FramingInv, HandleCommEvent

\* A read is a piece of the stream, and none of it is handled.
LEMMA FramingBlockingRead ==
  ASSUME SerialAssumption, FramingInv, ~overrun, BlockingRead PROVE FramingInv'
<1> SUFFICES ASSUME ~overrun' PROVE SerialTypes' /\ ReadsInOrder' /\ BufferIsTheEnd' /\ LinesSoFar'
  BY DEF FramingInv, BlockingRead
<1> DEFINE n == BytesToRead
<1>1. n \in Nat /\ 0 < n /\ n <= Len(cbInQue)
  BY DEF FramingInv, ReadsInOrder, SerialTypes, BlockingRead, BytesToRead, SerialAssumption
<1>2. cbInQue \in Seq(Octet) /\ consumed \in Seq(Octet) /\ collectionbuf \in Seq(Octet) /\ incoming \in Seq(Octet)
  BY DEF FramingInv, SerialTypes
<1>3. UNCHANGED <<incoming, collectionbuf, asked, lines, rx>> /\ i' = 0 /\ cpc' = "collect"
      /\ buffer' = SubSeq(cbInQue, 1, n) /\ cbInQue' = SubSeq(cbInQue, n + 1, Len(cbInQue))
      /\ consumed' = consumed \o buffer'
  BY DEF BlockingRead
<1> HIDE DEF n
<1>4. ASSUME NEW S, NEW q \in Seq(S), NEW c \in Seq(S), n <= Len(q)
      PROVE  /\ SubSeq(q, 1, n) \in Seq(S) /\ Len(SubSeq(q, 1, n)) = n
             /\ SubSeq(q, n + 1, Len(q)) \in Seq(S)
             /\ c \o SubSeq(q, 1, n) \in Seq(S) /\ Len(c \o SubSeq(q, 1, n)) = Len(c) + n
             /\ SubSeq(c \o SubSeq(q, 1, n), 1, Len(c)) = c
             /\ \A k \in 1..n : SubSeq(q, 1, n)[k] = (c \o SubSeq(q, 1, n))[Len(c) + k]
  BY <1>1, <1>4
<1>5. /\ buffer' \in Seq(Octet) /\ Len(buffer') = n /\ cbInQue' \in Seq(Octet)
      /\ consumed' \in Seq(Octet) /\ Len(consumed') = Len(consumed) + n
      /\ SubSeq(consumed', 1, Len(consumed)) = consumed
      /\ \A k \in 1..n : buffer'[k] = consumed'[Len(consumed) + k]
  <2>1. PICK q, c : q = cbInQue /\ c = consumed
    OBVIOUS
  <2>2. q \in Seq(Octet) /\ c \in Seq(Octet) /\ n <= Len(q)
    BY <1>1, <1>2, <2>1
  <2>3. /\ SubSeq(q, 1, n) \in Seq(Octet) /\ Len(SubSeq(q, 1, n)) = n
        /\ SubSeq(q, n + 1, Len(q)) \in Seq(Octet)
        /\ c \o SubSeq(q, 1, n) \in Seq(Octet) /\ Len(c \o SubSeq(q, 1, n)) = Len(c) + n
        /\ SubSeq(c \o SubSeq(q, 1, n), 1, Len(c)) = c
        /\ \A k \in 1..n : SubSeq(q, 1, n)[k] = (c \o SubSeq(q, 1, n))[Len(c) + k]
    BY <2>2, <1>4
  <2>4. buffer' = SubSeq(q, 1, n) /\ consumed' = c \o SubSeq(q, 1, n)
        /\ cbInQue' = SubSeq(q, n + 1, Len(q))
    BY <1>3, <2>1
  <2> QED
    BY <2>1, <2>3, <2>4
<1>6. Len(consumed) \in Nat
  BY <1>2
<1>7. SerialTypes'
  BY <1>1, <1>2, <1>3, <1>5 DEF SerialTypes, FramingInv
<1>8. ReadsInOrder'
  BY <1>3 DEF ReadsInOrder
<1>9. BufferIsTheEnd'
  BY <1>1, <1>5, <1>6 DEF BufferIsTheEnd
<1>10. LinesSoFar'
  <2>1. HandledBytes' = consumed
    BY <1>1, <1>3, <1>5, <1>6 DEF HandledBytes
  <2>2. HandledBytes = consumed
    <3>1. Len(buffer) = 0 /\ i = 0
      BY DEF FramingInv, SerialTypes, ReadsInOrder, BlockingRead
    <3> QED
      BY <3>1, <1>2, <1>6 DEF HandledBytes
  <2>3. cpc # "collect"
    BY DEF BlockingRead
  <2> QED
    BY <1>3, <2>1, <2>2, <2>3 DEF LinesSoFar, FramingInv
<1> QED
  BY <1>7, <1>8, <1>9, <1>10

\* The next byte: where it is in the stream, and what the reference makes of it.
LEMMA NextByte ==
  ASSUME FramingInv, ~overrun, i < Len(buffer), UNCHANGED <<consumed, buffer>>, i' = i + 1
  PROVE  /\ Char \in Octet /\ i' \in Nat /\ i' <= Len(buffer)
         /\ Framed(HandledBytes') = FrameByte(Framed(HandledBytes), Char)
<1> DEFINE n == Len(consumed) - Len(buffer) + i
<1>1. Len(consumed) \in Nat /\ Len(buffer) \in Nat /\ i \in Nat /\ Len(buffer) <= Len(consumed)
  BY DEF FramingInv, SerialTypes, BufferIsTheEnd
<1>2. n \in Nat /\ n + 1 <= Len(consumed) /\ Len(consumed) - Len(buffer) + i' = n + 1
  BY <1>1
<1>3. Char = consumed[n + 1]
  <2>1. i + 1 \in 1..Len(buffer) /\ Len(consumed) - Len(buffer) + (i + 1) = n + 1
    BY <1>1
  <2>2. buffer[i + 1] = consumed[Len(consumed) - Len(buffer) + (i + 1)]
    BY <2>1 DEF FramingInv, BufferIsTheEnd
  <2> QED
    BY <2>1, <2>2 DEF Char
<1>4. HandledBytes = SubSeq(consumed, 1, n) /\ HandledBytes' = SubSeq(consumed, 1, n + 1)
  BY <1>2 DEF HandledBytes
<1>5. consumed \in Seq(Octet)
  BY DEF FramingInv, SerialTypes
<1> HIDE DEF n
<1>6. /\ SubSeq(consumed, 1, n) \in Seq(Octet) /\ consumed[n + 1] \in Octet
      /\ SubSeq(consumed, 1, n + 1) = Append(SubSeq(consumed, 1, n), consumed[n + 1])
  BY <1>2, <1>5, LongerPrefix
<1>7. Framed(Append(SubSeq(consumed, 1, n), consumed[n + 1]))
        = FrameByte(Framed(SubSeq(consumed, 1, n)), consumed[n + 1])
  BY <1>6, FramedAppend
<1>8. i' \in Nat /\ i' <= Len(buffer)
  BY <1>1
<1> QED
  BY <1>3, <1>4, <1>6, <1>7, <1>8

LEMMA FramingCollect == ASSUME SerialAssumption, FramingInv, ~overrun, Collect PROVE FramingInv'
<1>1. /\ i < Len(buffer) /\ Char # CR /\ Len(collectionbuf) < MAX_COLLECTION_BUF_SIZE
      /\ i' = i + 1 /\ UNCHANGED <<incoming, cbInQue, consumed, buffer, asked, cpc, lines, rx, overrun>>
      /\ cpc = "collect"
      /\ collectionbuf' = IF Char = LF THEN collectionbuf ELSE Append(collectionbuf, Char)
  BY DEF Collect, InLine, port
<1>2. /\ Char \in Octet /\ i' \in Nat /\ i' <= Len(buffer)
      /\ Framed(HandledBytes') = FrameByte(Framed(HandledBytes), Char)
  BY <1>1, NextByte
<1>3. Framed(HandledBytes) = [lines |-> lines, msgs |-> rx, part |-> collectionbuf]
  BY <1>1 DEF FramingInv, LinesSoFar
<1>4. collectionbuf \in Seq(Octet) /\ Len(collectionbuf) \in Nat /\ MAX_COLLECTION_BUF_SIZE \in Nat
  BY DEF FramingInv, SerialTypes, SerialAssumption
<1>5. collectionbuf' \in Seq(Octet) /\ Len(collectionbuf') \in Nat
      /\ Len(collectionbuf') <= MAX_COLLECTION_BUF_SIZE
  BY <1>1, <1>2, <1>4
<1>6. LinesSoFar'
  <2>1. CASE Char = LF
    <3>1. Framed(HandledBytes') = [lines |-> lines, msgs |-> rx, part |-> collectionbuf]
      BY <1>1, <1>2, <1>3, <1>4, <2>1, FeedIsIgnored
    <3> QED
      BY <1>1, <1>4, <1>5, <2>1, <3>1 DEF LinesSoFar
  <2>2. CASE Char # LF
    <3>1. Framed(HandledBytes') = WithChar(lines, rx, collectionbuf, Char)
      <4>1. collectionbuf \in Seq(Octet) /\ Char \in Octet /\ Char # CR /\ Char # LF
        BY <1>1, <1>2, <1>4, <2>2
      <4>2. FrameByte([lines |-> lines, msgs |-> rx, part |-> collectionbuf], Char)
              = WithChar(lines, rx, collectionbuf, Char)
        BY <4>1, CharIsAdded
      <4> QED
        BY <1>2, <1>3, <4>2
    <3> QED
      BY <1>1, <1>5, <2>2, <3>1 DEF LinesSoFar, WithChar
  <2> QED
    BY <2>1, <2>2
<1>7. SerialTypes' /\ ReadsInOrder' /\ BufferIsTheEnd'
  BY <1>1, <1>2, <1>5 DEF FramingInv, SerialTypes, ReadsInOrder, BufferIsTheEnd
<1> QED
  BY <1>1, <1>6, <1>7 DEF FramingInv

LEMMA FramingEndLine == ASSUME SerialAssumption, FramingInv, ~overrun, EndLine PROVE FramingInv'
<1>1. /\ UNCHANGED <<incoming, cbInQue, consumed, buffer, asked, overrun>>
      /\ i' = IF Char \in {CR, LF} THEN i + 1 ELSE i
      /\ cpc' = IF i' < Len(buffer) THEN "collect" ELSE "done"
  BY DEF EndLine, port
<1>2. /\ i \in Nat /\ Len(buffer) \in Nat /\ i <= Len(buffer) /\ Len(collectionbuf) \in Nat
      /\ MAX_COLLECTION_BUF_SIZE \in Nat \ {0} /\ collectionbuf \in Seq(Octet)
      /\ Len(collectionbuf) <= MAX_COLLECTION_BUF_SIZE
      /\ <<>> \in Seq(Octet) /\ Len(<<>>) = 0
  BY DEF FramingInv, SerialTypes, LinesSoFar, SerialAssumption
<1> DEFINE full == Len(collectionbuf) = MAX_COLLECTION_BUF_SIZE
           given == [lines |-> Append(lines, collectionbuf),
                     msgs |-> rx \o Messages(collectionbuf), part |-> <<>>]
           kept == [lines |-> lines, msgs |-> rx, part |-> collectionbuf]
<1>3. Framed(HandledBytes) = IF full THEN given ELSE kept
  BY DEF FramingInv, LinesSoFar
<1>4. Char \in {CR, LF} => i < Len(buffer)
  BY DEF Char, NUL, CR, LF
<1>5. Char \in {CR, LF} =>
        i' \in Nat /\ i' <= Len(buffer) /\ Framed(HandledBytes') = FrameByte(Framed(HandledBytes), Char)
  BY <1>1, <1>4, NextByte
<1>6. Char \notin {CR, LF} => i' = i /\ HandledBytes' = HandledBytes
  BY <1>1 DEF HandledBytes
<1>7. i' \in Nat /\ i' <= Len(buffer) /\ (cpc' = "done" => i' = Len(buffer))
  BY <1>1, <1>2, <1>5, <1>6
<1>8. CR # LF
  BY DEF CR, LF
<1>9. /\ collectionbuf' \in Seq(Octet) /\ Len(collectionbuf') < MAX_COLLECTION_BUF_SIZE
      /\ Framed(HandledBytes') = [lines |-> lines', msgs |-> rx', part |-> collectionbuf']
  <2>1. CASE LineComplete /\ collectionbuf # <<>>
    <3>1. collectionbuf' = <<>> /\ lines' = Append(lines, collectionbuf)
          /\ rx' = rx \o Messages(collectionbuf)
      BY <2>1 DEF EndLine
    <3>2. Framed(HandledBytes') = given
      <4>1. CASE full /\ Char = CR
        BY <1>3, <1>5, <4>1, ReturnOfNothing
      <4>2. CASE full /\ Char = LF
        BY <1>2, <1>3, <1>5, <4>2, FeedIsIgnored
      <4>3. CASE full /\ Char \notin {CR, LF}
        BY <1>3, <1>6, <4>3
      <4>4. CASE ~full
        <5>1. Char = CR
          BY <2>1, <4>4 DEF LineComplete
        <5>2. FrameByte(kept, CR) = given
          BY <2>1, ReturnEnds
        <5>3. Framed(HandledBytes') = FrameByte(Framed(HandledBytes), CR)
          BY <1>5, <5>1
        <5> QED
          BY <1>3, <4>4, <5>2, <5>3
      <4> QED
        BY <4>1, <4>2, <4>3, <4>4
    <3> QED
      BY <1>2, <3>1, <3>2
  <2>2. CASE ~(LineComplete /\ collectionbuf # <<>>)
    <3>1. UNCHANGED <<collectionbuf, lines, rx>>
      BY <2>2 DEF EndLine, heard
    <3>2. ~full
      BY <1>2, <2>2 DEF LineComplete
    <3>3. Framed(HandledBytes') = kept
      <4>1. CASE Char = CR
        <5>1. collectionbuf = <<>>
          BY <2>2, <4>1 DEF LineComplete
        <5> QED
          BY <1>3, <1>5, <3>2, <4>1, <5>1, ReturnOfNothing
      <4>2. CASE Char = LF
        BY <1>3, <1>5, <3>2, <4>2, FeedIsIgnored
      <4>3. CASE Char \notin {CR, LF}
        BY <1>3, <1>6, <3>2, <4>3
      <4> QED
        BY <4>1, <4>2, <4>3
    <3> QED
      BY <1>2, <3>1, <3>2, <3>3
  <2> QED
    BY <2>1, <2>2
<1>10. LinesSoFar'
  BY <1>2, <1>9 DEF LinesSoFar
<1>11. SerialTypes' /\ ReadsInOrder' /\ BufferIsTheEnd'
  BY <1>1, <1>2, <1>7, <1>9 DEF FramingInv, SerialTypes, ReadsInOrder, BufferIsTheEnd
<1> QED
  BY <1>1, <1>10, <1>11 DEF FramingInv

LEMMA FramingEndRead == ASSUME FramingInv, ~overrun, EndRead PROVE FramingInv'
<1>1. /\ UNCHANGED <<incoming, cbInQue, consumed, asked, overrun, collectionbuf, lines, rx>>
      /\ cpc = "done" /\ cpc' = "wait" /\ buffer' = <<>> /\ i' = 0
  BY DEF EndRead, port, heard
<1>2. /\ i = Len(buffer) /\ Len(buffer) \in Nat /\ consumed \in Seq(Octet) /\ Len(consumed) \in Nat
      /\ <<>> \in Seq(Octet) /\ Len(<<>>) = 0
  BY <1>1 DEF FramingInv, ReadsInOrder, SerialTypes
<1>3. HandledBytes' = HandledBytes
  <2>1. Len(consumed) - Len(buffer) + i = Len(consumed) /\ Len(consumed') - Len(buffer') + i' = Len(consumed)
    BY <1>1, <1>2
  <2> QED
    BY <1>1, <2>1 DEF HandledBytes
<1>4. SerialTypes' /\ ReadsInOrder' /\ BufferIsTheEnd'
  BY <1>1, <1>2 DEF FramingInv, SerialTypes, ReadsInOrder, BufferIsTheEnd
<1>5. LinesSoFar'
  BY <1>1, <1>3 DEF FramingInv, LinesSoFar
<1> QED
  BY <1>1, <1>4, <1>5 DEF FramingInv

LEMMA FramingNext == ASSUME SerialAssumption, FramingInv, [Next]_vars PROVE FramingInv'
<1>1. CASE UNCHANGED vars
  BY <1>1 DEF vars, port, heard, said, FramingInv, SerialTypes, ReadsInOrder, BufferIsTheEnd,
              LinesSoFar, HandledBytes
<1>2. CASE Next
  <2>1. CASE Arrive \/ \E l \in Lines : Send(l)
    BY <1>2, <2>1, FramingPort DEF Next
  <2>2. CASE HandleCommEvent
    BY <1>2, <2>2, FramingHandleCommEvent DEF Next
  <2>3. CASE BlockingRead
    BY <1>2, <2>3, FramingBlockingRead DEF Next
  <2>4. CASE Collect
    BY <1>2, <2>4, FramingCollect DEF Next
  <2>5. CASE EndLine
    BY <1>2, <2>5, FramingEndLine DEF Next
  <2>6. CASE EndRead
    BY <1>2, <2>6, FramingEndRead DEF Next
  <2> QED
    BY <1>2, <2>1, <2>2, <2>3, <2>4, <2>5, <2>6 DEF Next, Comm
<1> QED
  BY <1>1, <1>2

\* The collection buffer and the lines handed on are, byte by byte, those of
\* the reference, wherever the reads begin and end.
THEOREM ReadsInStep == Spec => []FramingInv
<1>1. Init => FramingInv
  BY SerialAssumption, FramingInit
<1>2. FramingInv /\ [Next]_vars => FramingInv'
  BY SerialAssumption, FramingNext
<1> QED
  BY <1>1, <1>2, PTL DEF Spec

\* Between two reads everything that was consumed is handled.
LEMMA AllIsHandled ==
  ASSUME FramingInv, cpc = "wait"
  PROVE  /\ consumed \in Seq(Octet)
         /\ Framed(consumed) = [lines |-> lines, msgs |-> rx, part |-> collectionbuf]
<1>1. ~overrun /\ buffer = <<>>
  BY DEF FramingInv, ReadsInOrder
<1>2. consumed \in Seq(Octet) /\ Len(consumed) \in Nat /\ Len(<<>>) = 0 /\ i \in Nat /\ i <= 0
  BY <1>1 DEF FramingInv, SerialTypes
<1>3. HandledBytes = consumed
  <2>1. Len(consumed) - Len(buffer) + i = Len(consumed)
    BY <1>1, <1>2
  <2> QED
    BY <1>2, <2>1 DEF HandledBytes
<1> QED
  BY <1>1, <1>2, <1>3 DEF FramingInv, LinesSoFar

\* LinesDoNotDependOnReads: what ReadRequestCompleted hands to the listeners
\* depends on the bytes only, for every size of the two buffers.
THEOREM LinesAreTheBytes == Spec => []LinesDoNotDependOnReads
<1>1. FramingInv => LinesDoNotDependOnReads
  BY AllIsHandled DEF LinesDoNotDependOnReads
<1> QED
  BY <1>1, ReadsInStep, PTL

-----------------------------------------------------------------------------
(* The messages that were sent arrive.                                     *)

\* What holds of the empty sequence, and of every sequence that gets longer,
\* holds of all.
LEMMA SequenceInduction ==
  ASSUME NEW S, NEW T, <<>> \in T, \A s \in Seq(S), e \in S : s \in T => Append(s, e) \in T
  PROVE  Seq(S) \subseteq T
<1> DEFINE N == {n \in Nat : \A s \in Seq(S) : Len(s) = n => s \in T}
<1>1. 0 \in N
  BY EmptySeq
<1>2. ASSUME NEW n \in Nat, n \in N PROVE n + 1 \in N
  <2> SUFFICES ASSUME NEW s \in Seq(S), Len(s) = n + 1 PROVE s \in T
    OBVIOUS
  <2>1. s # <<>>
    BY EmptySeq
  <2>2. PICK f \in Seq(S), e \in S : s = Append(f, e)
    BY <2>1, SequenceEmptyOrAppend
  <2>3. Len(f) = n
    BY <2>2, AppendProperties, LenProperties
  <2> QED
    BY <1>2, <2>2, <2>3
<1>3. Nat \subseteq N
  <2> HIDE DEF N
  <2> QED
    BY <1>1, <1>2, Induction
<1> QED
  BY <1>3, LenProperties

\* The messages lines of such bytes can hold.
Readable(S) == {Parse(line) : line \in Seq(S)}

Framing(S) == [lines : Seq(Seq(S)), msgs : Seq(Readable(S)), part : Seq(S)]

\* Sequences and records, for any sets.
LEMMA OneElement == ASSUME NEW R, NEW p \in R PROVE <<p>> \in Seq(R) /\ <<>> \in Seq(R)
  OBVIOUS

LEMMA AppendAfter ==
  ASSUME NEW R, NEW s \in Seq(R), NEW t \in Seq(R), NEW e \in R
  PROVE  Append(s \o t, e) = s \o Append(t, e) /\ Append(t, e) \in Seq(R)
  OBVIOUS

LEMMA ConcatAfter ==
  ASSUME NEW R, NEW s \in Seq(R), NEW t \in Seq(R), NEW u \in Seq(R)
  PROVE  (s \o t) \o u = s \o (t \o u) /\ t \o u \in Seq(R)
<1>1. (s \o t) \o u = s \o (t \o u)
  BY ConcatAssociative
<1>2. t \o u \in Seq(R)
  BY ConcatProperties
<1> QED
  BY <1>1, <1>2

LEMMA MessagesType ==
  ASSUME NEW S, NEW line \in Seq(S)
  PROVE  Messages(line) \in Seq(Readable(S))
<1>1. Parse(line) \in Readable(S)
  BY DEF Readable
<1>2. <<Parse(line)>> \in Seq(Readable(S)) /\ <<>> \in Seq(Readable(S))
  BY <1>1, OneElement
<1> QED
  BY <1>2 DEF Messages

\* One framing after another.
After(before, so) ==
  [lines |-> before.lines \o so.lines, msgs |-> before.msgs \o so.msgs, part |-> so.part]

\* A byte keeps the types, and what came before stays before.
LEMMA FrameByteAfter ==
  ASSUME NEW S, NEW so \in Framing(S), NEW before \in Framing(S), NEW c \in S
  PROVE  /\ FrameByte(so, c) \in Framing(S)
         /\ FrameByte(After(before, so), c) = After(before, FrameByte(so, c))
<1>1. PICK Q : Q = IF c \in {CR, LF} THEN so.part ELSE Append(so.part, c)
  OBVIOUS
<1>2. Q \in Seq(S)
  BY <1>1 DEF Framing
<1> DEFINE both == After(before, so)
           ends == c = CR \/ Len(Q) = MAX_COLLECTION_BUF_SIZE
<1>3. both.lines = before.lines \o so.lines /\ both.msgs = before.msgs \o so.msgs /\ both.part = so.part
  BY DEF After
<1>4. Messages(Q) \in Seq(Readable(S))
  BY <1>2, MessagesType
<1>5. /\ so.lines \in Seq(Seq(S)) /\ before.lines \in Seq(Seq(S))
      /\ so.msgs \in Seq(Readable(S)) /\ before.msgs \in Seq(Readable(S))
  BY DEF Framing
<1> HIDE DEF both
<1>6. CASE ends /\ Q # <<>>
  <2>1. FrameByte(so, c) = [lines |-> Append(so.lines, Q), msgs |-> so.msgs \o Messages(Q), part |-> <<>>]
    BY <1>1, <1>6, Zenon DEF FrameByte
  <2>2. FrameByte(both, c) = [lines |-> Append(both.lines, Q), msgs |-> both.msgs \o Messages(Q), part |-> <<>>]
    BY <1>1, <1>3, <1>6, Zenon DEF FrameByte
  <2>3. Append(before.lines \o so.lines, Q) = before.lines \o Append(so.lines, Q)
        /\ Append(so.lines, Q) \in Seq(Seq(S))
    <3>1. Q \in Seq(S) /\ so.lines \in Seq(Seq(S)) /\ before.lines \in Seq(Seq(S))
      BY <1>2, <1>5
    <3> QED
      BY <3>1, AppendAfter
  <2>4. (before.msgs \o so.msgs) \o Messages(Q) = before.msgs \o (so.msgs \o Messages(Q))
        /\ so.msgs \o Messages(Q) \in Seq(Readable(S))
    <3>1. PICK R : R = Readable(S)
      OBVIOUS
    <3>2. PICK s \in Seq(R), t \in Seq(R), u \in Seq(R) :
            s = before.msgs /\ t = so.msgs /\ u = Messages(Q)
      BY <1>4, <1>5, <3>1
    <3>3. (s \o t) \o u = s \o (t \o u) /\ t \o u \in Seq(R)
      BY ConcatAfter
    <3> QED
      BY <3>1, <3>2, <3>3
  <2>5. FrameByte(so, c) \in Framing(S)
    BY <2>1, <2>3, <2>4 DEF Framing
  <2>6. FrameByte(both, c) = After(before, FrameByte(so, c))
    BY <1>3, <2>1, <2>2, <2>3, <2>4 DEF After
  <2> QED
    BY <2>5, <2>6 DEF both
<1>7. CASE ~(ends /\ Q # <<>>)
  <2>1. FrameByte(so, c) = [lines |-> so.lines, msgs |-> so.msgs, part |-> Q]
    BY <1>1, <1>7, Zenon DEF FrameByte
  <2>2. FrameByte(both, c) = [lines |-> both.lines, msgs |-> both.msgs, part |-> Q]
    BY <1>1, <1>3, <1>7, Zenon DEF FrameByte
  <2>3. FrameByte(so, c) \in Framing(S)
    BY <1>2, <1>5, <2>1 DEF Framing
  <2>4. FrameByte(both, c) = After(before, FrameByte(so, c))
    BY <1>3, <2>1, <2>2 DEF After
  <2> QED
    BY <2>3, <2>4 DEF both
<1> QED
  BY <1>6, <1>7

LEMMA NothingType == ASSUME NEW S PROVE Nothing \in Framing(S)
<1>1. ASSUME NEW R PROVE <<>> \in Seq(R)
  OBVIOUS
<1>2. <<>> \in Seq(Seq(S)) /\ <<>> \in Seq(Readable(S)) /\ <<>> \in Seq(S)
  BY <1>1
<1> QED
  BY <1>2 DEF Nothing, Framing

LEMMA FramedType ==
  ASSUME NEW S, NEW bytes \in Seq(S)
  PROVE  Framed(bytes) \in Framing(S)
<1> DEFINE T == {b \in Seq(S) : Framed(b) \in Framing(S)}
<1>1. <<>> \in T
  BY FramedEmpty, NothingType
<1>2. ASSUME NEW b \in Seq(S), NEW e \in S, b \in T PROVE Append(b, e) \in T
  <2>1. Framed(Append(b, e)) = FrameByte(Framed(b), e)
    BY FramedAppend
  <2>2. FrameByte(Framed(b), e) \in Framing(S)
    BY <1>2, FrameByteAfter
  <2> QED
    BY <2>1, <2>2
<1>3. Seq(S) \subseteq T
  <2> HIDE DEF T
  <2> QED
    BY <1>1, <1>2, SequenceInduction
<1> QED
  BY <1>3

\* Two streams, the first of which ends with a line: the lines and messages of
\* the one, then those of the other.
LEMMA FramedAfter ==
  ASSUME NEW S, NEW a \in Seq(S), NEW b \in Seq(S), Framed(a).part = <<>>
  PROVE  Framed(a \o b) = After(Framed(a), Framed(b))
<1> DEFINE T == {x \in Seq(S) : Framed(a \o x) = After(Framed(a), Framed(x))}
<1>1. Framed(a) \in Framing(S)
  BY FramedType
<1>2. <<>> \in T
  <2>1. a \o <<>> = a /\ <<>> \in Seq(S)
    OBVIOUS
  <2>2. Framed(a).lines \in Seq(Seq(S)) /\ Framed(a).msgs \in Seq(Readable(S))
        /\ Framed(a) = [lines |-> Framed(a).lines, msgs |-> Framed(a).msgs, part |-> Framed(a).part]
    BY <1>1 DEF Framing
  <2>3. Framed(<<>>).lines = <<>> /\ Framed(<<>>).msgs = <<>> /\ Framed(<<>>).part = <<>>
    BY FramedEmpty DEF Nothing
  <2>4. Framed(a).lines \o <<>> = Framed(a).lines /\ Framed(a).msgs \o <<>> = Framed(a).msgs
    BY <2>2, ConcatEmptySeq
  <2>5. After(Framed(a), Framed(<<>>)) = Framed(a)
    BY <2>2, <2>3, <2>4 DEF After
  <2> QED
    BY <2>1, <2>5
<1>3. ASSUME NEW x \in Seq(S), NEW e \in S, x \in T PROVE Append(x, e) \in T
  <2>1. a \o Append(x, e) = Append(a \o x, e) /\ a \o x \in Seq(S) /\ Append(x, e) \in Seq(S)
    OBVIOUS
  <2>2. Framed(Append(a \o x, e)) = FrameByte(Framed(a \o x), e)
    BY <2>1, FramedAppend
  <2>3. Framed(Append(x, e)) = FrameByte(Framed(x), e)
    BY FramedAppend
  <2>4. Framed(a \o x) = After(Framed(a), Framed(x))
    BY <1>3
  <2>5. Framed(x) \in Framing(S)
    BY FramedType
  <2>6. FrameByte(After(Framed(a), Framed(x)), e) = After(Framed(a), FrameByte(Framed(x), e))
    BY <1>1, <2>5, FrameByteAfter
  <2>7. Framed(a \o Append(x, e)) = After(Framed(a), Framed(Append(x, e)))
    BY <2>1, <2>2, <2>3, <2>4, <2>6
  <2> QED
    BY <2>1, <2>7
<1>4. Seq(S) \subseteq T
  <2> HIDE DEF T
  <2> QED
    BY <1>2, <1>3, SequenceInduction
<1> QED
  BY <1>4

\* Every line the adapter may send ends, and msgs is what it says.
LinesAreWhole ==
  \A l \in Lines : Framed(l.text).part = <<>> /\ Framed(l.text).msgs = l.msgs

\* All that was sent, wherever it is.
Stream == consumed \o cbInQue \o incoming

StreamInv == ~overrun => Framed(Stream).part = <<>> /\ Framed(Stream).msgs = sent

\* Bytes that move from one place to the next stay in the order of the stream.
LEMMA MoveFirst ==
  ASSUME NEW S
  PROVE  \A c, q, s \in Seq(S) :
           s # <<>> => (c \o Append(q, Head(s))) \o Tail(s) = (c \o q) \o s
<1> SUFFICES ASSUME NEW c \in Seq(S), NEW q \in Seq(S), NEW s \in Seq(S), s # <<>>
             PROVE  (c \o Append(q, Head(s))) \o Tail(s) = (c \o q) \o s
  OBVIOUS
<1>1. PICK h \in S, t \in Seq(S) : h = Head(s) /\ t = Tail(s)
  BY HeadTailProperties
<1>2. <<h>> \in Seq(S) /\ s = <<h>> \o t
  BY <1>1
<1>3. Append(q, h) = q \o <<h>> /\ q \o <<h>> \in Seq(S) /\ c \o q \in Seq(S)
  BY <1>2
<1>4. c \o (q \o <<h>>) = (c \o q) \o <<h>>
  BY <1>2, ConcatAssociative
<1>5. ((c \o q) \o <<h>>) \o t = (c \o q) \o (<<h>> \o t)
  BY <1>2, <1>3, ConcatAssociative
<1> QED
  BY <1>1, <1>2, <1>3, <1>4, <1>5

Piece(q, n) == SubSeq(q, 1, n)
Rest(q, n) == SubSeq(q, n + 1, Len(q))

LEMMA Cut ==
  ASSUME NEW S, NEW q \in Seq(S), NEW n \in Nat, n <= Len(q)
  PROVE  Piece(q, n) \in Seq(S) /\ Rest(q, n) \in Seq(S) /\ Piece(q, n) \o Rest(q, n) = q
<1>1. Len(q) \in Nat /\ (\A k \in 1..n : q[k] \in S) /\ \A k \in (n + 1)..Len(q) : q[k] \in S
  OBVIOUS
<1>2. SubSeq(q, 1, n) \in Seq(S)
  BY <1>1, SubSeqProperties
<1>3. SubSeq(q, n + 1, Len(q)) \in Seq(S)
  BY <1>1, SubSeqProperties
<1>4. 1 \in 1..(Len(q) + 1) /\ n \in (1 - 1)..Len(q) /\ Len(q) \in n..Len(q)
  BY <1>1
<1>5. SubSeq(q, 1, n) \o SubSeq(q, n + 1, Len(q)) = SubSeq(q, 1, Len(q))
  BY <1>4, ConcatAdjacentSubSeq
<1> QED
  BY <1>2, <1>3, <1>5, SubSeqFull DEF Piece, Rest

LEMMA StreamInit == Init => StreamInv
<1> SUFFICES ASSUME Init PROVE StreamInv
  OBVIOUS
<1>1. Stream = <<>> /\ sent = <<>>
  BY DEF Init, Stream
<1> QED
  BY <1>1, FramedEmpty DEF StreamInv, Nothing

LEMMA StreamNext ==
  ASSUME SerialAssumption, LinesAreWhole, FramingInv, StreamInv, [Next]_vars
  PROVE  StreamInv'
<1>1. CASE UNCHANGED vars
  BY <1>1 DEF vars, port, said, StreamInv, Stream
<1> SUFFICES ASSUME Next, ~overrun' PROVE Framed(Stream)'.part = <<>> /\ Framed(Stream)'.msgs = sent'
  BY <1>1 DEF StreamInv
<1>2. ~overrun
  BY DEF Next
<1>3. /\ consumed \in Seq(Octet) /\ cbInQue \in Seq(Octet) /\ incoming \in Seq(Octet)
      /\ consumed \o cbInQue \in Seq(Octet)
  BY <1>2 DEF FramingInv, SerialTypes
<1>4. Framed(Stream).part = <<>> /\ Framed(Stream).msgs = sent
  BY <1>2 DEF StreamInv
<1>5. CASE Stream' = Stream /\ sent' = sent
  BY <1>4, <1>5
<1>6. CASE \E l \in Lines : Send(l)
  <2>1. PICK l \in Lines : Send(l)
    BY <1>6
  <2>2. l.text \in Seq(Octet) /\ Framed(l.text).part = <<>> /\ Framed(l.text).msgs = l.msgs
    BY DEF SerialAssumption, LinesAreWhole, Octet
  <2>3. /\ incoming = <<>> /\ incoming' = l.text /\ sent' = sent \o l.msgs
        /\ UNCHANGED <<consumed, cbInQue>>
    BY <2>1 DEF Send
  <2> DEFINE all == consumed \o cbInQue
  <2>4. Stream = all /\ Stream' = all \o l.text
    <3>1. all \o <<>> = all
      BY <1>3
    <3> QED
      BY <2>3, <3>1 DEF Stream
  <2>5. all \in Seq(Octet)
    BY <1>3
  <2> HIDE DEF all
  <2>6. Framed(all \o l.text) = After(Framed(all), Framed(l.text))
    BY <1>4, <2>2, <2>4, <2>5, FramedAfter
  <2>7. Framed(all \o l.text).part = <<>> /\ Framed(all \o l.text).msgs = sent \o l.msgs
    <3>1. Framed(all).msgs = sent
      BY <1>4, <2>4
    <3> QED
      BY <2>2, <2>6, <3>1 DEF After
  <2> QED
    BY <2>3, <2>4, <2>7
<1>7. CASE Arrive
  <2>1. UNCHANGED <<consumed, sent>> /\ incoming # <<>>
        /\ cbInQue' = Append(cbInQue, Head(incoming)) /\ incoming' = Tail(incoming)
    BY <1>7 DEF Arrive, said
  <2>2. (consumed \o Append(cbInQue, Head(incoming))) \o Tail(incoming) = (consumed \o cbInQue) \o incoming
    <3>1. \A c, q, s \in Seq(Octet) :
            s # <<>> => (c \o Append(q, Head(s))) \o Tail(s) = (c \o q) \o s
      BY MoveFirst, SMTT(30)
    <3>2. consumed \in Seq(Octet) /\ cbInQue \in Seq(Octet) /\ incoming \in Seq(Octet)
      BY <1>3
    <3> QED
      BY <2>1, <3>1, <3>2, Zenon
  <2> QED
    BY <1>5, <2>2, <2>1 DEF Stream
<1>8. CASE BlockingRead
  <2> DEFINE n == BytesToRead
  <2>1. n \in Nat /\ n <= Len(cbInQue)
    BY <1>2, <1>8 DEF FramingInv, ReadsInOrder, SerialTypes, BlockingRead, BytesToRead, SerialAssumption
  <2>2. PICK u \in Seq(Octet), v \in Seq(Octet) :
          u = Piece(cbInQue, n) /\ v = Rest(cbInQue, n) /\ u \o v = cbInQue
    <3>1. PICK q \in Seq(Octet) : q = cbInQue
      BY <1>3
    <3>2. PICK k \in Nat : k = n /\ k <= Len(q)
      BY <2>1, <3>1
    <3>3. Piece(q, k) \in Seq(Octet) /\ Rest(q, k) \in Seq(Octet) /\ Piece(q, k) \o Rest(q, k) = q
      BY <3>2, Cut
    <3> QED
      BY <3>1, <3>2, <3>3
  <2>3. /\ cbInQue' = Rest(cbInQue, n)
        /\ consumed' = consumed \o Piece(cbInQue, n) /\ UNCHANGED <<incoming, sent>>
    BY <1>8 DEF BlockingRead, said, Piece, Rest
  <2> HIDE DEF n
  <2>4. (consumed \o u) \o v = consumed \o (u \o v)
    <3>1. consumed \in Seq(Octet)
      BY <1>3
    <3> QED
      BY <3>1, ConcatAssociative, SMTT(30)
  <2>5. Stream' = Stream
    BY <2>2, <2>3, <2>4 DEF Stream
  <2> QED
    BY <1>5, <2>3, <2>5
<1>9. CASE HandleCommEvent \/ Collect \/ EndLine \/ EndRead
  <2>1. UNCHANGED <<consumed, cbInQue, incoming, sent>>
    BY <1>9 DEF HandleCommEvent, Collect, EndLine, EndRead, port, said
  <2> QED
    BY <1>5, <2>1 DEF Stream
<1> QED
  BY <1>6, <1>7, <1>8, <1>9 DEF Next, Comm

\* What was received is a beginning of what was sent.
IsBeginning(r, s) == Len(r) <= Len(s) /\ r = SubSeq(s, 1, Len(r))

LEMMA BeginningOf ==
  ASSUME NEW R, NEW r \in Seq(R), NEW w \in Seq(R)
  PROVE  IsBeginning(r, r \o w)
<1>1. Len(r) \in Nat /\ Len(w) \in Nat /\ r \o w \in Seq(R) /\ Len(r \o w) = Len(r) + Len(w)
      /\ \A k \in 1..Len(r) : (r \o w)[k] = r[k]
  OBVIOUS
<1>2. Len(r) <= Len(r \o w)
  BY <1>1
<1>3. PICK n \in Nat, s \in Seq(R) : n = Len(r) /\ s = r \o w /\ n <= Len(s) /\ \A k \in 1..n : s[k] = r[k]
  BY <1>1, <1>2
<1>4. SubSeq(s, 1, n) \in Seq(R) /\ Len(SubSeq(s, 1, n)) = n /\ \A k \in 1..n : SubSeq(s, 1, n)[k] = s[k]
  BY <1>3
<1>5. r = SubSeq(s, 1, n)
  BY <1>3, <1>4, SeqEqual
<1> QED
  BY <1>2, <1>3, <1>5 DEF IsBeginning

\* More bytes add messages behind those there are.
LEMMA MessagesGrow ==
  ASSUME NEW S, NEW a \in Seq(S), NEW b \in Seq(S)
  PROVE  \E w \in Seq(Readable(S)) : Framed(a \o b).msgs = Framed(a).msgs \o w
<1> DEFINE R == Readable(S)
           T == {x \in Seq(S) : \E w \in Seq(R) : Framed(a \o x).msgs = Framed(a).msgs \o w}
<1>1. Framed(a).msgs \in Seq(R)
  BY FramedType DEF Framing
<1>2. <<>> \in T
  <2>1. a \o <<>> = a /\ <<>> \in Seq(S) /\ <<>> \in Seq(R)
    OBVIOUS
  <2>2. Framed(a).msgs \o <<>> = Framed(a).msgs
    BY <1>1, ConcatEmptySeq
  <2> QED
    BY <2>1, <2>2
<1>3. ASSUME NEW x \in Seq(S), NEW e \in S, x \in T PROVE Append(x, e) \in T
  <2>1. PICK w \in Seq(R) : Framed(a \o x).msgs = Framed(a).msgs \o w
    BY <1>3
  <2>2. a \o Append(x, e) = Append(a \o x, e) /\ a \o x \in Seq(S) /\ Append(x, e) \in Seq(S)
    BY AppendAfter
  <2>3. PICK so \in Framing(S) : so = Framed(a \o x)
    BY <2>2, FramedType
  <2>4. Framed(a \o Append(x, e)) = FrameByte(so, e)
    BY <2>2, <2>3, FramedAppend
  <2>5. PICK Q \in Seq(S) : FrameByte(so, e).msgs \in {so.msgs, so.msgs \o Messages(Q)}
    <3>1. PICK Q : Q = IF e \in {CR, LF} THEN so.part ELSE Append(so.part, e)
      OBVIOUS
    <3>2. Q \in Seq(S)
      BY <3>1 DEF Framing
    <3>3. FrameByte(so, e).msgs \in {so.msgs, so.msgs \o Messages(Q)}
      BY <3>1 DEF FrameByte
    <3> QED
      BY <3>2, <3>3
  <2>6. CASE FrameByte(so, e).msgs = so.msgs
    BY <2>1, <2>2, <2>3, <2>4, <2>6
  <2>7. CASE FrameByte(so, e).msgs = so.msgs \o Messages(Q)
    <3>1. PICK u \in Seq(R) : u = Messages(Q)
      BY MessagesType
    <3>2. (Framed(a).msgs \o w) \o u = Framed(a).msgs \o (w \o u) /\ w \o u \in Seq(R)
      <4>1. PICK f \in Seq(R) : f = Framed(a).msgs
        BY <1>1
      <4>2. (f \o w) \o u = f \o (w \o u) /\ w \o u \in Seq(R)
        BY ConcatAfter
      <4> QED
        BY <4>1, <4>2
    <3> QED
      BY <2>1, <2>2, <2>3, <2>4, <2>7, <3>1, <3>2
  <2> QED
    BY <2>5, <2>6, <2>7
<1>4. Seq(S) \subseteq T
  <2> HIDE DEF T
  <2> QED
    BY <1>2, <1>3, SequenceInduction
<1> QED
  BY <1>4

\* The messages received are a beginning of those sent, and have their type.
ReceivedInv == rx \in Seq(Readable(Octet)) /\ IsBeginning(rx, sent)

LEMMA ReceivedInit == Init => ReceivedInv
<1> SUFFICES ASSUME Init PROVE ReceivedInv
  OBVIOUS
<1>1. <<>> \in Seq(Readable(Octet)) /\ Len(<<>>) = 0 /\ SubSeq(<<>>, 1, 0) = <<>>
  <2>1. PICK R : R = Readable(Octet)
    OBVIOUS
  <2>2. <<>> \in Seq(R) /\ Len(<<>>) = 0 /\ SubSeq(<<>>, 1, 0) = <<>>
    OBVIOUS
  <2> QED
    BY <2>1, <2>2
<1> QED
  BY <1>1 DEF Init, ReceivedInv, IsBeginning

\* Of four pieces the first and the rest.
FirstAndRest(h, t, q, w, S) ==
  ((h \o t) \o q) \o w = h \o (t \o (q \o w)) /\ t \o (q \o w) \in Seq(S)

LEMMA FirstOfFour ==
  ASSUME NEW S, NEW h \in Seq(S), NEW t \in Seq(S), NEW q \in Seq(S), NEW w \in Seq(S)
  PROVE  FirstAndRest(h, t, q, w, S)
<1>1. h \o t \in Seq(S) /\ q \o w \in Seq(S) /\ t \o (q \o w) \in Seq(S)
  BY ConcatProperties, SMTT(30)
<1>2. ((h \o t) \o q) \o w = (h \o t) \o (q \o w)
  BY <1>1, ConcatAssociative, SMTT(30)
<1>3. (h \o t) \o (q \o w) = h \o (t \o (q \o w))
  BY <1>1, ConcatAssociative, SMTT(30)
<1> QED
  BY <1>1, <1>2, <1>3 DEF FirstAndRest

\* What is handled is a beginning of the stream.
LEMMA StreamIsCut ==
  ASSUME FramingInv, ~overrun
  PROVE  \E h \in Seq(Octet), w \in Seq(Octet) : h = HandledBytes /\ Stream = h \o w
<1>1. /\ consumed \in Seq(Octet) /\ cbInQue \in Seq(Octet) /\ incoming \in Seq(Octet)
      /\ buffer \in Seq(Octet) /\ i \in Nat /\ i <= Len(buffer) /\ Len(buffer) <= Len(consumed)
  BY DEF FramingInv, SerialTypes, BufferIsTheEnd
<1>2. PICK n \in Nat : n = Len(consumed) - Len(buffer) + i /\ n <= Len(consumed)
  <2>1. PICK a \in Nat, b \in Nat, k \in Nat :
          a = Len(consumed) /\ b = Len(buffer) /\ k = i /\ k <= b /\ b <= a
    BY <1>1, LenProperties
  <2>2. a - b + k \in Nat /\ a - b + k <= a
    BY <2>1
  <2> QED
    BY <2>1, <2>2
<1>3. PICK c \in Seq(Octet), q \in Seq(Octet), s \in Seq(Octet) : c = consumed /\ q = cbInQue /\ s = incoming
  BY <1>1
<1>4. n <= Len(c)
  BY <1>2, <1>3
<1>5. PICK h \in Seq(Octet), t \in Seq(Octet) : h = Piece(c, n) /\ t = Rest(c, n) /\ h \o t = c
  <2>1. Piece(c, n) \in Seq(Octet) /\ Rest(c, n) \in Seq(Octet) /\ Piece(c, n) \o Rest(c, n) = c
    BY <1>4, Cut
  <2> QED
    BY <2>1, Zenon
<1>6. ((h \o t) \o q) \o s = h \o (t \o (q \o s)) /\ t \o (q \o s) \in Seq(Octet)
  <2>1. FirstAndRest(h, t, q, s, Octet)
    BY FirstOfFour
  <2> QED
    BY <2>1 DEF FirstAndRest
<1>7. HandledBytes = h /\ Stream = ((h \o t) \o q) \o s
  BY <1>2, <1>3, <1>5 DEF HandledBytes, Piece, Stream
<1> QED
  BY <1>6, <1>7, Zenon

\* What keeps the messages received a beginning of those sent.
ReceivedIsSent ==
  FramingInv /\ StreamInv /\ ~overrun /\ rx \in Seq(Readable(Octet)) => IsBeginning(rx, sent)

LEMMA BeginningOfSent == ReceivedIsSent
<1> SUFFICES ASSUME FramingInv, StreamInv, ~overrun, rx \in Seq(Readable(Octet))
             PROVE  IsBeginning(rx, sent)
  BY DEF ReceivedIsSent
<1> DEFINE R == Readable(Octet)
<1>1. PICK h \in Seq(Octet), t \in Seq(Octet) : h = HandledBytes /\ Stream = h \o t
  BY StreamIsCut
<1>2. PICK u \in Seq(R) : Framed(h \o t).msgs = Framed(h).msgs \o u
  BY MessagesGrow
<1>3. sent = Framed(h).msgs \o u
  BY <1>1, <1>2 DEF StreamInv
<1>4. collectionbuf \in Seq(Octet)
  BY DEF FramingInv, SerialTypes
<1>5. PICK v \in Seq(R) : v = Messages(collectionbuf)
  BY <1>4, MessagesType
<1>6. Framed(h).msgs = rx \/ Framed(h).msgs = rx \o v
  BY <1>1, <1>5 DEF FramingInv, LinesSoFar
<1>7. PICK r \in Seq(R) : r = rx
  OBVIOUS
<1>8. CASE Framed(h).msgs = rx
  BY <1>3, <1>7, <1>8, BeginningOf
<1>9. CASE Framed(h).msgs = rx \o v
  <2>1. (r \o v) \o u = r \o (v \o u) /\ v \o u \in Seq(R)
    BY ConcatAfter
  <2>2. IsBeginning(r, r \o (v \o u))
    BY <2>1, BeginningOf
  <2> QED
    BY <1>3, <1>7, <1>9, <2>1, <2>2
<1> QED
  BY <1>6, <1>8, <1>9

LEMMA ReceivedNext ==
  ASSUME SerialAssumption, LinesAreWhole, FramingInv, StreamInv, ReceivedInv, ReceivedIsSent', [Next]_vars
  PROVE  ReceivedInv'
<1>1. CASE UNCHANGED vars
  BY <1>1 DEF vars, heard, said, ReceivedInv
<1>2. CASE Next
  <2>1. ~overrun
    BY <1>2 DEF Next
  <2>2. CASE UNCHANGED <<rx, sent>>
    BY <2>2 DEF ReceivedInv
  <2>3. CASE rx' \in Seq(Readable(Octet)) /\ ~overrun'
    <3>1. FramingInv'
      BY FramingNext
    <3>2. StreamInv'
      BY StreamNext
    <3> QED
      BY <2>3, <3>1, <3>2 DEF ReceivedInv, ReceivedIsSent
  <2>4. CASE EndLine
    <3>1. rx' = rx \/ rx' = rx \o Messages(collectionbuf)
      BY <2>4 DEF EndLine, heard
    <3>2. collectionbuf \in Seq(Octet)
      BY <2>1 DEF FramingInv, SerialTypes
    <3>3. PICK r \in Seq(Readable(Octet)), v \in Seq(Readable(Octet)) : r = rx /\ v = Messages(collectionbuf)
      BY <3>2, MessagesType DEF ReceivedInv
    <3>4. r \o v \in Seq(Readable(Octet))
      BY ConcatProperties
    <3>5. ~overrun'
      BY <2>1, <2>4 DEF EndLine
    <3> QED
      BY <2>3, <3>1, <3>3, <3>4, <3>5
  <2>5. CASE \E l \in Lines : Send(l)
    <3>1. rx' = rx /\ ~overrun'
      BY <2>1, <2>5 DEF Send, heard
    <3> QED
      BY <2>3, <3>1 DEF ReceivedInv
  <2>6. CASE Arrive \/ HandleCommEvent \/ BlockingRead \/ Collect \/ EndRead
    BY <2>2, <2>6 DEF Arrive, HandleCommEvent, BlockingRead, Collect, EndRead, heard, said
  <2> QED
    BY <1>2, <2>4, <2>5, <2>6 DEF Next, Comm
<1> QED
  BY <1>1, <1>2

\* MessagesArriveAsSent: for every size of the buffers and any set of lines of
\* which each is whole and means its messages, the channel receives a beginning
\* of what was sent, and has received it all once all of it has been read.
THEOREM SentIsReceived == ASSUME LinesAreWhole PROVE Spec => []MessagesArriveAsSent
<1>1. FramingInv /\ StreamInv /\ [Next]_vars => StreamInv'
  BY SerialAssumption, StreamNext
<1>2. FramingInv /\ StreamInv /\ ReceivedInv /\ ReceivedIsSent' /\ [Next]_vars => ReceivedInv'
  BY SerialAssumption, ReceivedNext
<1>3. FramingInv /\ StreamInv /\ ReceivedInv => MessagesArriveAsSent
  <2> SUFFICES ASSUME FramingInv, StreamInv, ReceivedInv PROVE MessagesArriveAsSent
    OBVIOUS
  <2>1. ASSUME cpc = "wait", incoming = <<>>, cbInQue = <<>> PROVE rx = sent
    <3>1. consumed \in Seq(Octet) /\ Framed(consumed).msgs = rx
      BY <2>1, AllIsHandled
    <3>2. Stream = consumed
      BY <2>1, <3>1 DEF Stream
    <3>3. ~overrun
      BY <2>1 DEF FramingInv
    <3> QED
      BY <3>1, <3>2, <3>3 DEF StreamInv
  <2>2. Len(rx) <= Len(sent) /\ rx = SubSeq(sent, 1, Len(rx))
    BY DEF ReceivedInv, IsBeginning
  <2> QED
    BY <2>1, <2>2 DEF MessagesArriveAsSent
<1> QED
  BY <1>1, <1>2, <1>3, StreamInit, ReceivedInit, BeginningOfSent, ReadsInStep, PTL DEF Spec

-----------------------------------------------------------------------------
(* What is written can be read.                                            *)

\* The messages CProtocolCAN::WriteMsg writes: 4 to 12 bytes, the first four
\* of which are an identifier of 29 or of 11 bits.
Message ==
  {m \in [x29 : BOOLEAN, data : Seq(Octet)] :
     /\ 4 <= Len(m.data) /\ Len(m.data) <= 12
     /\ ~m.x29 => m.data[1] = 0 /\ m.data[2] = 0 /\ m.data[3] < 8}

\* Digits and the two letters: none of them ends or interrupts a line.
Chars == 48..116

LEMMA NoBreak == ASSUME NEW c \in Chars PROVE c \in Octet /\ c # CR /\ c # LF
  BY DEF Chars, Octet, CR, LF

\* A digit is read as what it was written for.
LEMMA DigitRead ==
  ASSUME NEW n \in Nat, n < 16
  PROVE  Digit(n) \in Chars /\ Nibble(Digit(n)) = n
<1>1. CASE n < 10
  <2>1. Digit(n) = 48 + n /\ 48 + n \in 48..57 /\ 48 + n \in Chars
    BY <1>1 DEF Digit, Chars
  <2>2. Nibble(48 + n) = (48 + n) - 48
    BY <2>1 DEF Nibble
  <2> QED
    BY <1>1, <2>1, <2>2
<1>2. CASE n >= 10
  <2>1. Digit(n) = 87 + n /\ 87 + n \in 97..102 /\ 87 + n \notin 48..57 /\ 87 + n \notin 65..70 /\ 87 + n \in Chars
    BY <1>2 DEF Digit, Chars
  <2>2. Nibble(87 + n) = (87 + n) - 87
    BY <2>1 DEF Nibble
  <2> QED
    BY <1>2, <2>1, <2>2
<1> QED
  BY <1>1, <1>2

\* The two halves of a byte.
LEMMA Halves ==
  ASSUME NEW b \in Octet
  PROVE  /\ b \in Nat /\ b < 256
         /\ b \div 16 \in Nat /\ b \div 16 < 16 /\ b % 16 \in Nat /\ b % 16 < 16
         /\ 16 * (b \div 16) + (b % 16) = b /\ Byte(b) = b
  BY DEF Octet, Byte

LEMMA DigitsOfByte ==
  ASSUME NEW b \in Octet
  PROVE  Digit(b \div 16) \in Chars /\ Digit(b % 16) \in Chars
  BY Halves, DigitRead

HasHalf(j, n) ==
  /\ j % 2 = 1 => (j + 1) \div 2 \in 1..n
  /\ j % 2 # 1 => j \div 2 \in 1..n

LEMMA HalfOf ==
  ASSUME NEW n \in Nat, NEW j \in 1..(2 * n)
  PROVE  HasHalf(j, n)
  BY DEF HasHalf

\* HexOf writes two digits for each byte.
LEMMA HexOfBytes ==
  ASSUME NEW bytes \in Seq(Octet), NEW n \in Nat, n = Len(bytes)
  PROVE  /\ HexOf(bytes) \in Seq(Chars) /\ Len(HexOf(bytes)) = 2 * n
         /\ \A k \in 1..n :
              /\ HexOf(bytes)[2 * k - 1] = Digit(bytes[k] \div 16)
              /\ HexOf(bytes)[2 * k] = Digit(bytes[k] % 16)
<1> DEFINE c(j) == Digit(IF j % 2 = 1 THEN bytes[(j + 1) \div 2] \div 16 ELSE bytes[j \div 2] % 16)
<1>1. \A k \in 1..n : bytes[k] \in Octet
  OBVIOUS
<1>2. HexOf(bytes) = [j \in 1..(2 * n) |-> c(j)]
  BY DEF HexOf
<1>3. ASSUME NEW j \in 1..(2 * n)
      PROVE  c(j) \in Chars
  <2>1. HasHalf(j, n)
    BY HalfOf
  <2>2. (j % 2 = 1 => (j + 1) \div 2 \in 1..n) /\ (j % 2 # 1 => j \div 2 \in 1..n)
    BY <2>1 DEF HasHalf
  <2>3. CASE j % 2 = 1
    <3>1. (j + 1) \div 2 \in 1..n
      BY <2>3, <2>2, Zenon
    <3>2. PICK b \in Octet : b = bytes[(j + 1) \div 2]
      BY <1>1, <3>1
    <3>3. c(j) = Digit(bytes[(j + 1) \div 2] \div 16)
      BY <2>3
    <3> QED
      BY <3>2, <3>3, DigitsOfByte
  <2>4. CASE j % 2 # 1
    <3>1. j \div 2 \in 1..n
      BY <2>4, <2>2, Zenon
    <3>2. PICK b \in Octet : b = bytes[j \div 2]
      BY <1>1, <3>1
    <3>3. c(j) = Digit(bytes[j \div 2] % 16)
      BY <2>4
    <3> QED
      BY <3>2, <3>3, DigitsOfByte
  <2> QED
    BY <2>3, <2>4
<1>4. ASSUME NEW k \in 1..n
      PROVE  /\ 2 * k - 1 \in 1..(2 * n) /\ 2 * k \in 1..(2 * n)
             /\ c(2 * k - 1) = Digit(bytes[k] \div 16) /\ c(2 * k) = Digit(bytes[k] % 16)
  <2>1. /\ (2 * k - 1) % 2 = 1 /\ (2 * k) % 2 = 0
        /\ ((2 * k - 1) + 1) \div 2 = k /\ (2 * k) \div 2 = k
        /\ 2 * k - 1 \in 1..(2 * n) /\ 2 * k \in 1..(2 * n)
    BY <1>1
  <2> QED
    BY <2>1
<1> HIDE DEF c
<1>5. 2 * n \in Nat
  BY <1>1
<1>6. HexOf(bytes) \in Seq(Chars) /\ Len(HexOf(bytes)) = 2 * n
      /\ \A j \in 1..(2 * n) : HexOf(bytes)[j] = c(j)
  BY <1>2, <1>3, <1>5
<1> QED
  BY <1>4, <1>6

\* convert_hex_to_int, of one digit and of two.
LEMMA OneDigit ==
  ASSUME NEW line, NEW k \in Nat, NEW n \in Nat, n < 16, line[k + 1] = Digit(n)
  PROVE  HexToInt(line, k, 1) = n
<1> DEFINE digits == [j \in 1..1 |-> Nibble(line[k + j])]
<1>1. digits[1] = n
  BY DigitRead
<1>2. n # 16
  OBVIOUS
<1>3. ~\E j \in 1..1 : digits[j] = 16
  BY <1>1, <1>2
<1>4. HexToInt(line, k, 1) =
        IF \E j \in 1..1 : digits[j] = 16 THEN -1 ELSE digits[1]
  BY DEF HexToInt
<1> QED
  BY <1>1, <1>3, <1>4

LEMMA TwoDigits ==
  ASSUME NEW line, NEW k \in Nat, NEW b \in Octet,
         line[k + 1] = Digit(b \div 16), line[k + 2] = Digit(b % 16)
  PROVE  HexToInt(line, k, 2) = b
<1> DEFINE digits == [j \in 1..2 |-> Nibble(line[k + j])]
<1>1. /\ b \div 16 \in Nat /\ b \div 16 < 16 /\ b % 16 \in Nat /\ b % 16 < 16
      /\ 16 * (b \div 16) + (b % 16) = b
  BY Halves
<1>2. digits[1] = b \div 16 /\ digits[2] = b % 16
  BY <1>1, DigitRead
<1>3. ~\E j \in 1..2 : digits[j] = 16
  BY <1>1, <1>2
<1>4. HexToInt(line, k, 2) =
        IF \E j \in 1..2 : digits[j] = 16 THEN -1 ELSE 16 * digits[1] + digits[2]
  BY DEF HexToInt
<1> QED
  BY <1>1, <1>2, <1>3, <1>4

\* The digits of n bytes are in the line behind position k.
DigitsAt(line, k, bytes, n) ==
  /\ n = Len(bytes)
  /\ \A j \in 1..(2 * n) : line[k + j] = HexOf(bytes)[j]

\* Where they are they are read as these bytes.
LEMMA BytesRead ==
  ASSUME NEW line, NEW k \in Nat, NEW bytes \in Seq(Octet), NEW n \in Nat, DigitsAt(line, k, bytes, n)
  PROVE  BytesAt(line, k, n) = bytes
<1>1. n = Len(bytes) /\ \A j \in 1..(2 * n) : line[k + j] = HexOf(bytes)[j]
  BY DEF DigitsAt
<1>2. ASSUME NEW j \in 1..n PROVE Byte(HexToInt(line, k + 2 * (j - 1), 2)) = bytes[j]
  <2>1. /\ 2 * j - 1 \in 1..(2 * n) /\ 2 * j \in 1..(2 * n)
        /\ (k + 2 * (j - 1)) + 1 = k + (2 * j - 1) /\ (k + 2 * (j - 1)) + 2 = k + 2 * j
        /\ k + 2 * (j - 1) \in Nat
    OBVIOUS
  <2>2. line[k + (2 * j - 1)] = Digit(bytes[j] \div 16) /\ line[k + 2 * j] = Digit(bytes[j] % 16)
    <3>1. HexOf(bytes)[2 * j - 1] = Digit(bytes[j] \div 16) /\ HexOf(bytes)[2 * j] = Digit(bytes[j] % 16)
      BY <1>1, HexOfBytes
    <3> QED
      BY <1>1, <2>1, <3>1
  <2>3. bytes[j] \in Octet
    BY <1>1
  <2>4. HexToInt(line, k + 2 * (j - 1), 2) = bytes[j]
    BY <2>1, <2>2, <2>3, TwoDigits
  <2> QED
    BY <2>3, <2>4, Halves
<1>3. BytesAt(line, k, n) = [j \in 1..n |-> Byte(HexToInt(line, k + 2 * (j - 1), 2))]
  BY DEF BytesAt
<1> QED
  BY <1>1, <1>2, <1>3

LEMMA HexLength ==
  ASSUME NEW bytes \in Seq(Octet), NEW n \in Nat, n = Len(bytes)
  PROVE  HexOf(bytes) \in Seq(Chars) /\ Len(HexOf(bytes)) = 2 * n
  BY HexOfBytes

\* The parts of a line: a letter, k digits of the identifier, a digit for the
\* number of bytes, and q digits.
IsLine(line, h, a, k, x, p, q) ==
  /\ line \in Seq(Chars) /\ Len(line) = k + 2 + q
  /\ line[1] = h /\ line[k + 2] = x
  /\ \A j \in 1..k : line[1 + j] = a[j]
  /\ \A j \in 1..q : line[(k + 2) + j] = p[j]

LEMMA PartsOfLine ==
  ASSUME NEW h \in Chars, NEW a \in Seq(Chars), NEW x \in Chars, NEW p \in Seq(Chars),
         NEW k \in Nat, k = Len(a), NEW q \in Nat, q = Len(p),
         NEW line, line = ((<<h>> \o a) \o <<x>>) \o p
  PROVE  IsLine(line, h, a, k, x, p, q)
<1> DEFINE C == Chars
<1> HIDE DEF C
<1>1. h \in C /\ a \in Seq(C) /\ x \in C /\ p \in Seq(C)
  BY DEF C
<1>2. /\ line \in Seq(C) /\ Len(line) = k + 2 + q
      /\ line[1] = h /\ line[k + 2] = x
      /\ \A j \in 1..k : line[1 + j] = a[j]
      /\ \A j \in 1..q : line[(k + 2) + j] = p[j]
  BY <1>1
<1> QED
  BY <1>2 DEF IsLine, C

LEMMA FourElements ==
  ASSUME NEW S, NEW t \in Seq(S), Len(t) = 4
  PROVE  /\ t = <<t[1], t[2], t[3], t[4]>>
         /\ t[1] \in S /\ t[2] \in S /\ t[3] \in S /\ t[4] \in S
<1>1. PICK r : r = <<t[1], t[2], t[3], t[4]>>
  OBVIOUS
<1>2. t[1] \in S /\ t[2] \in S /\ t[3] \in S /\ t[4] \in S
  <2>1. 1 \in 1..Len(t) /\ 2 \in 1..Len(t) /\ 3 \in 1..Len(t) /\ 4 \in 1..Len(t)
    OBVIOUS
  <2> QED
    BY <2>1, ElementOfSeq
<1>3. r \in Seq(S) /\ Len(r) = 4 /\ r[1] = t[1] /\ r[2] = t[2] /\ r[3] = t[3] /\ r[4] = t[4]
  BY <1>1, <1>2
<1>4. \A j \in 1..Len(t) : t[j] = r[j]
  <2> TAKE j \in 1..Len(t)
  <2>1. j = 1 \/ j = 2 \/ j = 3 \/ j = 4
    OBVIOUS
  <2> QED
    BY <1>3, <2>1
<1>5. t = r
  BY <1>3, <1>4, SeqEqual
<1> QED
  BY <1>1, <1>2, <1>5

\* The identifier and the rest of a message.
PartsAre(d, id, pay, n) ==
  /\ id = SubSeq(d, 1, 4) /\ Len(id) = 4 /\ id = <<d[1], d[2], d[3], d[4]>>
  /\ pay = SubSeq(d, 5, Len(d)) /\ Len(pay) = n
  /\ id \o pay = d

LEMMA PartsOfData ==
  ASSUME NEW S, NEW d \in Seq(S), NEW n \in Nat, Len(d) = n + 4
  PROVE  \E id \in Seq(S), pay \in Seq(S) : PartsAre(d, id, pay, n)
<1>1. Len(d) \in Nat /\ \A j \in 1..Len(d) : d[j] \in S
  OBVIOUS
<1>2. SubSeq(d, 1, 4) \in Seq(S) /\ Len(SubSeq(d, 1, 4)) = 4
  <2>1. \A j \in 1..4 : d[j] \in S
    BY <1>1
  <2> QED
    BY <2>1, SubSeqProperties
<1>3. SubSeq(d, 5, Len(d)) \in Seq(S) /\ Len(SubSeq(d, 5, Len(d))) = n
  <2>1. \A j \in 5..Len(d) : d[j] \in S
    BY <1>1
  <2>2. SubSeq(d, 5, Len(d)) \in Seq(S)
    BY <1>1, <2>1, SubSeqProperties
  <2>3. 5 <= Len(d) + 1 /\ Len(d) - 5 + 1 = n
    BY <1>1
  <2> QED
    BY <1>1, <2>2, <2>3
<1>4. SubSeq(d, 1, 4) \o SubSeq(d, 5, Len(d)) = d
  <2>1. 1 \in 1..(Len(d) + 1) /\ 4 \in (1 - 1)..Len(d) /\ Len(d) \in 4..Len(d) /\ 4 + 1 = 5
    BY <1>1
  <2>2. SubSeq(d, 1, 4) \o SubSeq(d, 4 + 1, Len(d)) = SubSeq(d, 1, Len(d))
    BY <2>1, ConcatAdjacentSubSeq
  <2> QED
    BY <2>1, <2>2, SubSeqFull
<1>5. SubSeq(d, 1, 4) = <<d[1], d[2], d[3], d[4]>>
  <2>1. PICK t \in Seq(S) : t = SubSeq(d, 1, 4) /\ Len(t) = 4
    BY <1>2
  <2>2. t[1] = d[1] /\ t[2] = d[2] /\ t[3] = d[3] /\ t[4] = d[4]
    BY <1>1, <2>1
  <2>3. t = <<t[1], t[2], t[3], t[4]>>
    BY <2>1, FourElements
  <2> QED
    BY <2>1, <2>2, <2>3
<1>6. PartsAre(d, SubSeq(d, 1, 4), SubSeq(d, 5, Len(d)), n)
  BY <1>2, <1>3, <1>4, <1>5 DEF PartsAre
<1> QED
  BY <1>2, <1>3, <1>6
\* The size of a header with k digits, and of a payload of n bytes.
LEMMA Bounds ==
  ASSUME NEW k \in {3, 8}, NEW n \in Nat, n <= 8
  PROVE  /\ k \in Nat /\ k + 2 \in Nat /\ k + 1 \in Nat /\ (k + 1) + 1 = k + 2 /\ (k + 2) - 1 = k + 1
         /\ k + 2 + 2 * n >= 5 /\ k + 2 + 2 * n >= k + 2
         /\ (k + 2 + 2 * n) - ((k + 2) + 2 * n) \in {0, 4}
         /\ n < 16 /\ n \in 0..9
  OBVIOUS

\* A line with these parts is accepted, and its payload is read.
HasParts(line, k, n, pay) ==
  /\ k \in {3, 8} /\ n <= 8
  /\ Len(line) = k + 2 + 2 * n
  /\ line[1] = IF k = 8 THEN 84 ELSE 116
  /\ line[k + 2] = Digit(n)
  /\ DigitsAt(line, k + 2, pay, n)

IsRead(line, k, pay) ==
  /\ Accepted(line) /\ (line[1] = 84 <=> k = 8)
  /\ BytesAt(line, HeaderLen(line), PayloadLen(line)) = pay

LEMMA PartsRead ==
  ASSUME NEW k \in Nat, NEW n \in Nat, NEW pay \in Seq(Octet), NEW line, HasParts(line, k, n, pay)
  PROVE  IsRead(line, k, pay)
<1>1. /\ k \in {3, 8} /\ n <= 8
      /\ Len(line) = k + 2 + 2 * n /\ line[1] = IF k = 8 THEN 84 ELSE 116
      /\ line[k + 2] = Digit(n) /\ DigitsAt(line, k + 2, pay, n)
  BY DEF HasParts
<1>2. /\ k \in Nat /\ k + 2 \in Nat /\ k + 1 \in Nat /\ (k + 1) + 1 = k + 2 /\ (k + 2) - 1 = k + 1
      /\ k + 2 + 2 * n >= 5 /\ k + 2 + 2 * n >= k + 2
      /\ (k + 2 + 2 * n) - ((k + 2) + 2 * n) \in {0, 4}
      /\ n < 16 /\ n \in 0..9
  BY <1>1, Bounds
<1>3. (line[1] = 84 <=> k = 8) /\ line[1] \in {116, 84}
  BY <1>1
<1>4. HeaderLen(line) = k + 2
  <2>1. CASE k = 8
    BY <1>3, <2>1 DEF HeaderLen
  <2>2. CASE k = 3
    BY <1>3, <2>2 DEF HeaderLen
  <2> QED
    BY <1>1, <2>1, <2>2
<1>5. PayloadLen(line) = n
  <2>1. HexToInt(line, k + 1, 1) = n
    BY <1>1, <1>2, OneDigit
  <2> QED
    BY <1>2, <1>4, <2>1 DEF PayloadLen
<1>6. HasHeader(line)
  BY <1>1, <1>2, <1>3, <1>4 DEF HasHeader
<1>7. SizesAgree(line)
  BY <1>1, <1>2, <1>4, <1>5 DEF SizesAgree
<1>8. HandleMsg(line)
  BY <1>2, <1>5 DEF HandleMsg
<1>9. BytesAt(line, k + 2, n) = pay
  BY <1>1, <1>2, BytesRead
<1> QED
  BY <1>3, <1>4, <1>5, <1>6, <1>7, <1>8, <1>9 DEF Accepted, IsRead
\* The line of a message is short, and holds the message.
IsReadBack(m) ==
  /\ Format(m) \in Seq(Chars) /\ Len(Format(m)) \in 1..26
  /\ Messages(Format(m)) = <<m>>

\* DoParseUSBCANMsg undoes DoWriteMsg, for 29 bits.
LEMMA LongLine ==
  ASSUME NEW d \in Seq(Octet), NEW n \in Nat, n <= 8, Len(d) = n + 4
  PROVE  IsReadBack([x29 |-> TRUE, data |-> d])
<1>1. PICK id \in Seq(Octet), pay \in Seq(Octet) : PartsAre(d, id, pay, n)
  BY PartsOfData
<1>2. id = SubSeq(d, 1, 4) /\ Len(id) = 4 /\ pay = SubSeq(d, 5, Len(d)) /\ Len(pay) = n /\ id \o pay = d
  BY <1>1 DEF PartsAre
<1>3. PICK a \in Seq(Chars) : a = HexOf(id) /\ Len(a) = 8
  <2>1. PICK four \in Nat : four = Len(id) /\ 2 * four = 8
    BY <1>2
  <2> QED
    BY <2>1, HexLength
<1>4. PICK p \in Seq(Chars), q \in Nat : p = HexOf(pay) /\ q = 2 * n /\ Len(p) = q
  <2>1. 2 * n \in Nat
    OBVIOUS
  <2> QED
    BY <1>2, <2>1, HexLength
<1>5. PICK x \in Chars : x = Digit(n)
  <2>1. n < 16
    OBVIOUS
  <2> QED
    BY <2>1, DigitRead
<1>6. PICK h \in Chars : h = 84
  BY DEF Chars
<1>7. PICK k \in Nat : k = 8
  OBVIOUS
<1>8. PICK L : L = ((<<h>> \o a) \o <<x>>) \o p
  OBVIOUS
<1>9. IsLine(L, h, a, k, x, p, q)
  BY <1>3, <1>4, <1>7, <1>8, PartsOfLine
<1> DEFINE m == [x29 |-> TRUE, data |-> d]
<1>10. Format(m) = L
  <2>1. m.x29 = TRUE /\ m.data = d /\ Len(d) - 4 = n
    OBVIOUS
  <2> QED
    BY <1>2, <1>3, <1>4, <1>5, <1>6, <1>8, <2>1 DEF Format, Header
<1>11. /\ L \in Seq(Chars) /\ Len(L) = k + 2 + 2 * n
       /\ L[1] = h /\ L[k + 2] = x
       /\ \A j \in 1..8 : L[1 + j] = a[j]
       /\ \A j \in 1..(2 * n) : L[(k + 2) + j] = p[j]
  BY <1>4, <1>7, <1>9 DEF IsLine
<1>12. DigitsAt(L, k + 2, pay, n)
  BY <1>2, <1>4, <1>11 DEF DigitsAt
<1>13. Accepted(L) /\ L[1] = 84 /\ BytesAt(L, HeaderLen(L), PayloadLen(L)) = pay
  <2>1. k \in {3, 8} /\ k = 8 /\ L[1] = IF k = 8 THEN 84 ELSE 116
    BY <1>6, <1>7, <1>11
  <2>2. HasParts(L, k, n, pay)
    BY <1>5, <1>11, <1>12, <2>1 DEF HasParts
  <2>3. IsRead(L, k, pay)
    BY <2>2, PartsRead
  <2> QED
    BY <2>1, <2>3 DEF IsRead
<1>14. BytesAt(L, 1, 4) = id
  <2>1. PICK four \in Nat, one \in Nat : four = 4 /\ one = 1
    OBVIOUS
  <2>2. DigitsAt(L, one, id, four)
    BY <1>2, <1>3, <1>11, <2>1 DEF DigitsAt
  <2> QED
    BY <2>1, <2>2, BytesRead
<1>15. Parse(L) = m
  BY <1>2, <1>13, <1>14 DEF Parse, Identifier
<1>16. Len(L) \in 1..26
  BY <1>7, <1>11
<1> QED
  BY <1>10, <1>11, <1>13, <1>15, <1>16 DEF IsReadBack, Messages
\* Elements in front of a sequence.
LEMMA OneInFront ==
  ASSUME NEW S, NEW z \in S, NEW y \in Seq(S), NEW n \in Nat, n = Len(y)
  PROVE  /\ <<z>> \o y \in Seq(S) /\ Len(<<z>> \o y) = n + 1 /\ (<<z>> \o y)[1] = z
         /\ \A j \in 1..n : (<<z>> \o y)[j + 1] = y[j]
  OBVIOUS

LEMMA TwoElements == ASSUME NEW S, NEW h \in S, NEW z \in S PROVE <<h>> \o <<z>> = <<h, z>>
<1>1. <<h>> \in Seq(S) /\ <<h, z>> \in Seq(S) /\ <<z>> \in Seq(S)
  OBVIOUS
<1>2. PICK s \in Seq(S), t \in Seq(S) :
        s = <<h>> /\ t = <<z>> /\ Len(s) = 1 /\ Len(t) = 1 /\ s[1] = h /\ t[1] = z
  BY <1>1
<1>3. s \o t \in Seq(S) /\ Len(s \o t) = 2 /\ (s \o t)[1] = h /\ (s \o t)[2] = z
  BY <1>2
<1>4. PICK r \in Seq(S) : r = <<h, z>> /\ Len(r) = 2 /\ r[1] = h /\ r[2] = z
  BY <1>1
<1>5. s \o t = r
  <2>1. \A j \in 1..2 : j = 1 \/ j = 2
    OBVIOUS
  <2> QED
    BY <1>3, <1>4, <2>1, SeqEqual
<1> QED
  BY <1>2, <1>4, <1>5

LEMMA Single == ASSUME NEW S, NEW z \in S PROVE \E t \in Seq(S) : t = <<z>> /\ Len(t) = 1 /\ t[1] = z
<1>1. <<z>> \in Seq(S) /\ Len(<<z>>) = 1 /\ <<z>>[1] = z
  OBVIOUS
<1> QED
  BY <1>1

\* a is z and then y, and may stand behind h.
IsInFront(a, h, z, y, n) ==
  /\ Len(a) = n + 1 /\ a[1] = z /\ \A j \in 1..n : a[j + 1] = y[j]
  /\ <<h>> \o a = <<h, z>> \o y

LEMMA TwoInFront ==
  ASSUME NEW S, NEW h \in S, NEW z \in S, NEW y \in Seq(S), NEW n \in Nat, n = Len(y)
  PROVE  \E a \in Seq(S) : IsInFront(a, h, z, y, n)
<1>1. PICK t \in Seq(S) : t = <<z>>
  BY Single
<1>2. PICK u \in Seq(S) : u = <<h>>
  BY Single
<1>3. u \o (t \o y) = (u \o t) \o y
  BY ConcatAssociative, SMTT(30)
<1>4. u \o t = <<h, z>>
  BY <1>1, <1>2, TwoElements
<1>5. /\ <<z>> \o y \in Seq(S) /\ Len(<<z>> \o y) = n + 1 /\ (<<z>> \o y)[1] = z
      /\ \A j \in 1..n : (<<z>> \o y)[j + 1] = y[j]
  BY OneInFront
<1>6. <<h>> \o (<<z>> \o y) = <<h, z>> \o y
  BY <1>1, <1>2, <1>3, <1>4, Zenon
<1> QED
  BY <1>5, <1>6 DEF IsInFront

\* An identifier of 11 bits keeps what is written of it.
FitsInThree(b) == b % 8 = b /\ Byte(b) = b

LEMMA ThreeBits == ASSUME NEW b \in Nat, b < 8 PROVE FitsInThree(b)
  BY DEF FitsInThree, Byte

\* DoParseUSBCANMsg undoes DoWriteMsg, for 11 bits.
LEMMA ShortLine ==
  ASSUME NEW d \in Seq(Octet), NEW n \in Nat, n <= 8, Len(d) = n + 4,
         d[1] = 0, d[2] = 0, d[3] < 8
  PROVE  IsReadBack([x29 |-> FALSE, data |-> d])
<1>1. PICK id \in Seq(Octet), pay \in Seq(Octet) : PartsAre(d, id, pay, n)
  BY PartsOfData
<1>2. /\ id = <<d[1], d[2], d[3], d[4]>> /\ Len(id) = 4
      /\ pay = SubSeq(d, 5, Len(d)) /\ Len(pay) = n /\ id \o pay = d
  BY <1>1 DEF PartsAre
<1>3. PICK b \in Nat, e \in Octet : b = d[3] /\ b < 8 /\ b % 8 = b /\ Byte(b) = b /\ e = d[4]
  <2>1. 3 \in 1..Len(d) /\ 4 \in 1..Len(d)
    OBVIOUS
  <2>2. d[3] \in Octet /\ d[4] \in Octet
    BY <2>1, ElementOfSeq
  <2>3. d[3] \in Nat
    BY <2>2, Halves
  <2>4. PICK b \in Nat : b = d[3] /\ b < 8
    BY <2>3
  <2>5. FitsInThree(b)
    BY <2>4, ThreeBits
  <2>6. b % 8 = b /\ Byte(b) = b
    BY <2>5 DEF FitsInThree
  <2> QED
    BY <2>2, <2>4, <2>6
<1>4. PICK y \in Seq(Chars) : y = HexOf(<<e>>) /\ Len(y) = 2 /\ y[1] = Digit(e \div 16) /\ y[2] = Digit(e % 16)
  <2>1. PICK t \in Seq(Octet) : t = <<e>> /\ Len(t) = 1 /\ t[1] = e
    BY Single
  <2>2. PICK one \in Nat : one = 1 /\ Len(t) = one
    BY <2>1
  <2>3. HexOf(t) \in Seq(Chars) /\ Len(HexOf(t)) = 2 * one
    BY <2>2, HexLength
  <2>4. HexOf(t)[2 * one - 1] = Digit(t[one] \div 16) /\ HexOf(t)[2 * one] = Digit(t[one] % 16)
    <3>1. one \in 1..one
      BY <2>2
    <3> QED
      BY <2>2, <3>1, HexOfBytes
  <2>5. 2 * one - 1 = 1 /\ 2 * one = 2 /\ t[one] = e
    BY <2>2, <2>1
  <2> QED
    BY <2>1, <2>3, <2>4, <2>5
<1>5. PICK z \in Chars : z = Digit(b)
  BY <1>3, DigitRead
<1>6. PICK h \in Chars : h = 116
  BY DEF Chars
<1>7. PICK a \in Seq(Chars) :
        /\ Len(a) = 3 /\ a[1] = z /\ a[2] = y[1] /\ a[3] = y[2]
        /\ <<h>> \o a = <<h, z>> \o y
  <2>1. PICK two \in Nat : two = 2 /\ two = Len(y)
    BY <1>4
  <2>2. PICK a \in Seq(Chars) : IsInFront(a, h, z, y, two)
    BY <2>1, TwoInFront
  <2>3. /\ Len(a) = two + 1 /\ a[1] = z /\ <<h>> \o a = <<h, z>> \o y
        /\ \A j \in 1..two : a[j + 1] = y[j]
    BY <2>2, Zenon DEF IsInFront
  <2>4. Len(a) = 3 /\ a[2] = y[1] /\ a[3] = y[2]
    BY <2>1, <2>3
  <2> QED
    BY <2>3, <2>4
<1>8. PICK p \in Seq(Chars), q \in Nat : p = HexOf(pay) /\ q = 2 * n /\ Len(p) = q
  <2>1. 2 * n \in Nat
    OBVIOUS
  <2> QED
    BY <1>2, <2>1, HexLength
<1>9. PICK x \in Chars : x = Digit(n)
  <2>1. n < 16
    OBVIOUS
  <2> QED
    BY <2>1, DigitRead
<1>10. PICK k \in Nat : k = 3
  OBVIOUS
<1>11. PICK L : L = ((<<h>> \o a) \o <<x>>) \o p
  OBVIOUS
<1>12. IsLine(L, h, a, k, x, p, q)
  BY <1>7, <1>8, <1>10, <1>11, PartsOfLine
<1> DEFINE m == [x29 |-> FALSE, data |-> d]
<1>13. Format(m) = L
  <2>1. m.x29 = FALSE /\ m.data = d /\ Len(d) - 4 = n
    OBVIOUS
  <2>2. h = 116 /\ x = Digit(n) /\ p = HexOf(pay) /\ z = Digit(d[3] % 8) /\ y = HexOf(<<d[4]>>)
    BY <1>3, <1>4, <1>5, <1>6, <1>8, <1>9
  <2>3. Header(m) = (<<h, z>> \o y) \o <<x>>
    BY <2>1, <2>2, Zenon DEF Header
  <2>4. Format(m) = Header(m) \o p
    BY <1>2, <2>1, <2>2, Zenon DEF Format
  <2> QED
    BY <1>7, <1>11, <2>3, <2>4, Zenon
<1>14. /\ L \in Seq(Chars) /\ Len(L) = k + 2 + 2 * n
       /\ L[1] = h /\ L[k + 2] = x
       /\ \A j \in 1..3 : L[1 + j] = a[j]
       /\ \A j \in 1..(2 * n) : L[(k + 2) + j] = p[j]
  BY <1>8, <1>10, <1>12 DEF IsLine
<1>15. DigitsAt(L, k + 2, pay, n)
  BY <1>2, <1>8, <1>14 DEF DigitsAt
<1>16. Accepted(L) /\ L[1] # 84 /\ BytesAt(L, HeaderLen(L), PayloadLen(L)) = pay
  <2>1. k \in {3, 8} /\ k # 8 /\ L[1] = IF k = 8 THEN 84 ELSE 116
    BY <1>6, <1>10, <1>14
  <2>2. L[1] = 116 /\ L[k + 2] = Digit(n) /\ Len(L) = k + 2 + 2 * n
    BY <1>6, <1>9, <1>14
  <2>3. HasParts(L, k, n, pay)
    BY <1>15, <2>1, <2>2 DEF HasParts
  <2>4. IsRead(L, k, pay)
    BY <2>3, PartsRead
  <2> QED
    BY <2>1, <2>4 DEF IsRead
<1>17. L[1 + 1] = z /\ L[1 + 2] = y[1] /\ L[1 + 3] = y[2]
  <2>1. 1 \in 1..3 /\ 2 \in 1..3 /\ 3 \in 1..3
    OBVIOUS
  <2> QED
    BY <1>7, <1>14, <2>1, Zenon
<1>18. Byte(HexToInt(L, 1, 1)) = b
  <2>1. PICK one \in Nat : one = 1
    OBVIOUS
  <2>2. L[one + 1] = Digit(b)
    BY <1>17, <1>5, <2>1, Zenon
  <2>3. b < 16
    BY <1>3
  <2>4. HexToInt(L, one, 1) = b
    BY <2>2, <2>3, OneDigit
  <2> QED
    BY <1>3, <2>1, <2>4
<1>19. Byte(HexToInt(L, 2, 2)) = e
  <2>1. PICK two \in Nat : two = 2 /\ two + 1 = 1 + 2 /\ two + 2 = 1 + 3
    OBVIOUS
  <2>2. L[two + 1] = Digit(e \div 16) /\ L[two + 2] = Digit(e % 16)
    BY <1>17, <1>4, <2>1, Zenon
  <2>3. HexToInt(L, two, 2) = e
    BY <2>2, TwoDigits
  <2> QED
    BY <2>1, <2>3, Halves
<1>20. Parse(L) = m
  <2>1. Identifier(L) = <<0, 0, b, e>>
    BY <1>16, <1>18, <1>19 DEF Identifier
  <2>2. Identifier(L) = id
    BY <1>2, <1>3, <2>1
  <2>3. (L[1] = 84) = FALSE
    BY <1>16
  <2> QED
    BY <1>2, <1>16, <2>2, <2>3 DEF Parse
<1>21. Len(L) \in 1..26
  BY <1>10, <1>14
<1> QED
  BY <1>13, <1>14, <1>16, <1>20, <1>21 DEF IsReadBack, Messages

\* DoParseUSBCANMsg and HandleMsg undo WriteMsg and DoWriteMsg: the line
\* written for any message with 0 to 8 bytes is accepted and read as that
\* message.
THEOREM WrittenIsRead == ASSUME NEW m \in Message PROVE IsReadBack(m)
<1>1. PICK d \in Seq(Octet), n \in Nat : d = m.data /\ Len(d) = n + 4 /\ n <= 8
  <2>1. m.data \in Seq(Octet) /\ 4 <= Len(m.data) /\ Len(m.data) <= 12
    BY DEF Message
  <2>2. Len(m.data) - 4 \in Nat /\ Len(m.data) = (Len(m.data) - 4) + 4 /\ Len(m.data) - 4 <= 8
    BY <2>1
  <2> QED
    BY <2>1, <2>2
<1>2. m.x29 \in BOOLEAN /\ (~m.x29 => d[1] = 0 /\ d[2] = 0 /\ d[3] < 8)
  BY <1>1 DEF Message
<1>3. m = [x29 |-> m.x29, data |-> d]
  BY <1>1 DEF Message
<1>4. CASE m.x29
  BY <1>1, <1>2, <1>3, <1>4, LongLine
<1>5. CASE ~m.x29
  BY <1>1, <1>2, <1>3, <1>5, ShortLine
<1> QED
  BY <1>4, <1>5

\* Characters without a return wait in collectionbuf.
LEMMA TextWaits ==
  ASSUME SerialAssumption, NEW s \in Seq(Chars), Len(s) < MAX_COLLECTION_BUF_SIZE
  PROVE  Framed(s) = [lines |-> <<>>, msgs |-> <<>>, part |-> s]
<1> DEFINE T == {t \in Seq(Chars) : Len(t) < MAX_COLLECTION_BUF_SIZE =>
                   Framed(t) = [lines |-> <<>>, msgs |-> <<>>, part |-> t]}
<1>1. <<>> \in T
  BY FramedEmpty, EmptySeq DEF Nothing
<1>2. ASSUME NEW t \in Seq(Chars), NEW c \in Chars, t \in T PROVE Append(t, c) \in T
  <2>1. Append(t, c) \in Seq(Chars) /\ Len(Append(t, c)) = Len(t) + 1 /\ Len(t) \in Nat
    BY AppendProperties, LenProperties
  <2> SUFFICES ASSUME Len(Append(t, c)) < MAX_COLLECTION_BUF_SIZE
               PROVE  Framed(Append(t, c)) = [lines |-> <<>>, msgs |-> <<>>, part |-> Append(t, c)]
    BY <2>1
  <2>2. Len(t) < MAX_COLLECTION_BUF_SIZE /\ Len(Append(t, c)) # MAX_COLLECTION_BUF_SIZE
    BY <2>1 DEF SerialAssumption
  <2>3. Framed(t) = [lines |-> <<>>, msgs |-> <<>>, part |-> t]
    BY <1>2, <2>2
  <2>4. Framed(Append(t, c)) = FrameByte(Framed(t), c)
    BY FramedAppend
  <2>5. c # CR /\ c # LF
    BY NoBreak
  <2>6. FrameByte([lines |-> <<>>, msgs |-> <<>>, part |-> t], c)
          = [lines |-> <<>>, msgs |-> <<>>, part |-> Append(t, c)]
    <3>1. FrameByte([lines |-> <<>>, msgs |-> <<>>, part |-> t], c) = WithChar(<<>>, <<>>, t, c)
      BY <2>5, CharIsAdded
    <3> QED
      BY <2>2, <3>1 DEF WithChar
  <2> QED
    BY <2>3, <2>4, <2>6
<1>3. Seq(Chars) \subseteq T
  <2> HIDE DEF T
  <2> QED
    BY <1>1, <1>2, SequenceInduction
<1> QED
  BY <1>3

\* A message on a line of its own is the one message in it.
LEMMA LineOfMessage ==
  ASSUME SerialAssumption, MAX_COLLECTION_BUF_SIZE > 26, NEW m \in Message
  PROVE  Framed(Append(Format(m), CR)) = [lines |-> <<Format(m)>>, msgs |-> <<m>>, part |-> <<>>]
<1>1. PICK s \in Seq(Chars) : s = Format(m) /\ Len(s) \in 1..26 /\ Messages(s) = <<m>>
  BY WrittenIsRead DEF IsReadBack
<1>2. s # <<>> /\ Len(s) < MAX_COLLECTION_BUF_SIZE
  <2>1. MAX_COLLECTION_BUF_SIZE \in Nat
    BY DEF SerialAssumption
  <2>2. PICK n : n = Len(s)
    OBVIOUS
  <2>3. n \in 1..26
    BY <1>1, <2>2, Zenon
  <2>4. n # 0 /\ n < MAX_COLLECTION_BUF_SIZE
    BY <2>1, <2>3
  <2> QED
    BY <2>2, <2>4, EmptySeq
<1>3. Framed(s) = [lines |-> <<>>, msgs |-> <<>>, part |-> s]
  BY <1>2, TextWaits
<1>4. s \in Seq(Octet) /\ CR \in Octet
  <2>1. \A c \in Chars : c \in Octet
    BY NoBreak
  <2> QED
    BY <2>1 DEF CR, Octet
<1>5. Framed(Append(s, CR)) = FrameByte(Framed(s), CR)
  BY <1>4, FramedAppend
<1>6. FrameByte([lines |-> <<>>, msgs |-> <<>>, part |-> s], CR)
        = [lines |-> Append(<<>>, s), msgs |-> <<>> \o <<m>>, part |-> <<>>]
  <2>1. FrameByte([lines |-> <<>>, msgs |-> <<>>, part |-> s], CR)
          = [lines |-> Append(<<>>, s), msgs |-> <<>> \o Messages(s), part |-> <<>>]
    BY <1>2, ReturnEnds, Zenon
  <2> QED
    BY <1>1, <2>1, Zenon
<1>7. Append(<<>>, s) = <<s>> /\ <<>> \o <<m>> = <<m>>
  OBVIOUS
<1> QED
  BY <1>1, <1>3, <1>5, <1>6, <1>7

\* MessagesArriveAsSent without an assumption on what the lines mean: an
\* adapter that writes messages the way DoWriteMsg does, each on a line of its
\* own, gets every one of them through, of 11 and of 29 bits and with 0 to 8
\* bytes, if collectionbuf holds more than the longest line.
THEOREM MessagesGetThrough ==
  ASSUME MAX_COLLECTION_BUF_SIZE > 26,
         Lines \subseteq {[text |-> Append(Format(m), CR), msgs |-> <<m>>] : m \in Message}
  PROVE  Spec => []MessagesArriveAsSent
<1>1. LinesAreWhole
  <2> SUFFICES ASSUME NEW l \in Lines PROVE Framed(l.text).part = <<>> /\ Framed(l.text).msgs = l.msgs
    BY DEF LinesAreWhole
  <2>1. PICK m \in Message : l = [text |-> Append(Format(m), CR), msgs |-> <<m>>]
    OBVIOUS
  <2>2. Framed(l.text) = [lines |-> <<Format(m)>>, msgs |-> <<m>>, part |-> <<>>]
    BY <2>1, SerialAssumption, LineOfMessage
  <2> QED
    BY <2>1, <2>2
<1> QED
  BY <1>1, SentIsReceived
=============================================================================
