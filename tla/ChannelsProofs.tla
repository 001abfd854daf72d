--------------------------- MODULE ChannelsProofs ---------------------------
(***************************************************************************)
(* Proofs about Channels for any number of application threads, of         *)
(* channels, listeners and addresses.                                      *)
(***************************************************************************)
EXTENDS Channels, FiniteSetTheorems, SequenceTheorems, WellFoundedInduction, TLAPS

-----------------------------------------------------------------------------
(* The table of channels.                                                  *)

\* A set of numbers that is not empty has a least one.
LEMMA Least ==
  ASSUME NEW S, S \subseteq Nat, S # {}
  PROVE  \E k \in S : \A j \in S : ~(j < k)
<1> DEFINE R == {ss \in Nat \X Nat : ss[1] < ss[2]}
<1>1. IsWellFoundedOn(R, Nat)
  BY NatLessThanWellFounded DEF OpToRel
<1>2. \A j, k \in Nat : j < k => <<j, k>> \in R
  OBVIOUS
<1> HIDE DEF R
<1>3. \E k \in S : \A j \in S : <<j, k>> \notin R
  BY <1>1, WFMin
<1> QED
  BY <1>2, <1>3

\* An id that is in the table is found there.
LEMMA Found ==
  ASSUME TypeOK, NEW id \in ChannelIds
  PROVE  /\ IndexOf(id) \in 1..Len(channels)
         /\ channels[IndexOf(id)].id = id
<1> DEFINE S == {k \in 1..Len(channels) : channels[k].id = id}
           P(k) == /\ channels[k].id = id
                   /\ \A j \in 1..(k - 1) : channels[j].id # id
<1>0. Len(channels) \in Nat
  BY LenProperties DEF TypeOK
<1>1. S \subseteq Nat /\ S # {}
  BY <1>0 DEF ChannelIds
<1>2. PICK k \in S : \A j \in S : ~(j < k)
  <2> HIDE DEF S
  <2> QED BY <1>1, Least
<1>3. k \in 1..Len(channels) /\ P(k)
  BY <1>0, <1>2
<1> QED
  BY <1>3 DEF IndexOf

\* The table without one of its entries: shorter, and made of the others.
LEMMA WithoutOne ==
  ASSUME TypeOK, NEW k \in 1..Len(channels)
  PROVE  /\ Without(k) \in Seq(Channel)
         /\ Len(Without(k)) = Len(channels) - 1
         /\ \A j \in 1..(Len(channels) - 1) :
              LET m == IF j < k THEN j ELSE j + 1
              IN  m \in 1..Len(channels) /\ m # k /\ Without(k)[j] = channels[m]
<1> DEFINE n == Len(channels) - 1
           m(j) == IF j < k THEN j ELSE j + 1
<1>1. Len(channels) \in Nat /\ n \in Nat /\ k \in Int
  BY LenProperties DEF TypeOK
<1>2. \A j \in 1..n : m(j) \in 1..Len(channels) /\ m(j) # k
  BY <1>1
<1>3. \A j \in 1..n : channels[m(j)] \in Channel
  BY <1>2, ElementOfSeq DEF TypeOK
<1>4. Without(k) = [j \in 1..n |-> channels[m(j)]]
  BY DEF Without
<1> HIDE DEF n
<1>5. Without(k) \in [1..n -> Channel]
  BY <1>3, <1>4
<1>6. Without(k) \in Seq(Channel) /\ Len(Without(k)) = n
  BY <1>1, <1>5
<1> QED
  BY <1>2, <1>4, <1>6 DEF n

-----------------------------------------------------------------------------
(* The inductive invariant of any number of threads.                       *)

\* The thread has made a handler that is not in the table yet.
Pending(a) == pc[a] \in {"load", "store", "connect", "add"}

\* Handlers on their way into the table exist, are not in it, and belong to
\* one thread each; the ones about to be entered listen.
PendingAreOwned ==
  /\ \A a \in Apps : Pending(a) => ch[a].handler \in alive \ OpenHandlers
  /\ \A a, b \in Apps :
       Pending(a) /\ Pending(b) /\ ch[a].handler = ch[b].handler => a = b
  /\ \A a \in Apps : pc[a] = "add" => ch[a].handler \in listening

\* At most one thread is inside DeleteChannel, and what it deletes is the
\* entry it found, which nobody has moved.
RemoverHoldsEntry ==
  /\ \A a, b \in Apps : pc[a] = "remove" /\ pc[b] = "remove" => a = b
  /\ \A a \in Apps : pc[a] = "remove" =>
       ch[a].id \in ChannelIds /\ ch[a] = channels[IndexOf(ch[a].id)]

Inv == TypeOK /\ ChannelsHaveHandlers /\ PendingAreOwned /\ RemoverHoldsEntry

\* What the loop of DeleteChannel leaves in the table.
LEMMA DeletedEntry ==
  ASSUME Inv, NEW a \in Apps, EndDelete(a)
  PROVE  /\ Len(channels') = Len(channels) - 1
         /\ channels' \in Seq(Channel)
         /\ OpenHandlers' \subseteq OpenHandlers \ {ch[a].handler}
         /\ \A j, k \in 1..Len(channels') :
              channels'[j].handler = channels'[k].handler => j = k
<1> DEFINE k == IndexOf(ch[a].id)
           m(j) == IF j < k THEN j ELSE j + 1
<1>1. /\ ch[a].id \in ChannelIds
      /\ ch[a] = channels[k]
      /\ channels' = Without(k)
  BY DEF Inv, RemoverHoldsEntry, EndDelete, Deleted
<1>2. k \in 1..Len(channels)
  BY <1>1, Found DEF Inv
<1> HIDE DEF k
<1>3. /\ channels' \in Seq(Channel)
      /\ Len(channels') = Len(channels) - 1
      /\ \A j \in 1..(Len(channels) - 1) :
           m(j) \in 1..Len(channels) /\ m(j) # k /\ channels'[j] = channels[m(j)]
  BY <1>1, <1>2, WithoutOne DEF Inv
<1>4. Len(channels) \in Nat
  BY LenProperties DEF Inv, TypeOK
<1>5. \A j \in 1..Len(channels') :
         channels'[j].handler \in OpenHandlers \ {ch[a].handler}
  <2> SUFFICES ASSUME NEW j \in 1..Len(channels')
               PROVE  channels'[j].handler \in OpenHandlers \ {ch[a].handler}
    OBVIOUS
  <2>1. m(j) \in 1..Len(channels) /\ m(j) # k /\ channels'[j] = channels[m(j)]
    BY <1>3
  <2>2. channels[m(j)].handler # channels[k].handler
    BY <1>2, <2>1 DEF Inv, ChannelsHaveHandlers
  <2> QED
    BY <1>1, <2>1, <2>2 DEF OpenHandlers
<1>6. ASSUME NEW j \in 1..Len(channels'), NEW l \in 1..Len(channels'),
             channels'[j].handler = channels'[l].handler
      PROVE  j = l
  <2>1. m(j) = m(l)
    BY <1>3, <1>6 DEF Inv, ChannelsHaveHandlers
  <2> QED
    BY <1>2, <1>3, <1>4, <2>1
<1> QED
  BY <1>3, <1>5, <1>6 DEF OpenHandlers

\* What AddChannel leaves in the table.
LEMMA Added ==
  ASSUME TypeOK, NEW c \in Channel, Len(channels) < MAX_CHANNELS,
         channels' = Append(channels, c)
  PROVE  /\ channels' \in Seq(Channel)
         /\ Len(channels') = Len(channels) + 1
         /\ \A j \in 1..Len(channels) : channels'[j] = channels[j]
         /\ channels'[Len(channels')] = c
         /\ Len(channels) \in Nat
  BY DEF TypeOK

\* Return and Goto keep the types of what they assign.
LEMMA ReturnType ==
  ASSUME TypeOK, NEW a \in Apps, Return(a)
  PROVE  /\ pc' \in [Apps -> Labels]
         /\ ch' \in [Apps -> Channel]
         /\ pos' \in [Apps -> Nat]
<1>1. \E p \in Protocols : TRUE
  BY ChannelsAssumption
<1>2. NoChannel \in Channel
  BY <1>1 DEF NoChannel, NewChannel, Channel
<1> QED
  BY <1>2 DEF Return, Goto, TypeOK, Labels

\* A sequence without its first element.
LEMMA RestOf ==
  ASSUME NEW S, NEW s \in Seq(S)
  PROVE  /\ SubSeq(s, 2, Len(s)) \in Seq(S)
         /\ Len(s) # 0 =>
              /\ Len(SubSeq(s, 2, Len(s))) = Len(s) - 1
              /\ \A k \in 1..(Len(s) - 1) : SubSeq(s, 2, Len(s))[k] = s[k + 1]
<1>1. Len(s) \in Nat
  BY LenProperties
<1>2. CASE Len(s) = 0
  BY <1>2, SubSeqEmpty, EmptySeq
<1>3. CASE Len(s) # 0
  <2>1. \A k \in 2..Len(s) : s[k] \in S
    BY <1>1, ElementOfSeq
  <2> DEFINE t == SubSeq(s, 2, Len(s))
  <2>2. /\ t \in Seq(S)
        /\ Len(t) = IF 2 <= Len(s) THEN Len(s) - 2 + 1 ELSE 0
        /\ \A k \in 1..(Len(s) - 2 + 1) : t[k] = s[2 + k - 1]
    BY <1>1, <2>1, SubSeqProperties
  <2> HIDE DEF t
  <2>3. \A k \in 1..(Len(s) - 1) : t[k] = s[k + 1]
    BY <1>1, <2>2
  <2>4. Len(t) = Len(s) - 1
    <3>1. CASE 2 <= Len(s)
      BY <1>1, <2>2, <3>1
    <3>2. CASE Len(s) = 1
      BY <2>2, <3>2
    <3>3. 2 <= Len(s) \/ Len(s) = 1
      BY <1>1, <1>3
    <3> QED
      BY <3>1, <3>2, <3>3, Zenon
  <2> QED
    BY <2>2, <2>3, <2>4 DEF t
<1> QED
  BY <1>2, <1>3

\* The table of listeners, as the history keeps it.
LEMMA ArrivedType ==
  ASSUME TypeOK, NEW f, f = [k \in 1..listeners_count |-> listeners[k - 1]]
  PROVE  /\ f \in Seq(Handlers \cup {NoHandler})
         /\ Len(f) = IF listeners_count < 0 THEN 0 ELSE listeners_count
         /\ \A k \in 1..Len(f) : f[k] = listeners[k - 1]
<1> DEFINE n == IF listeners_count < 0 THEN 0 ELSE listeners_count
<1>1. n \in Nat /\ 1..listeners_count = 1..n
  BY DEF TypeOK
<1>2. \A k \in 1..n : k - 1 \in Slots
  BY <1>1, ChannelsAssumption DEF Slots, TypeOK
<1> HIDE DEF n
<1>3. f \in [1..n -> Handlers \cup {NoHandler}]
  BY <1>1, <1>2 DEF TypeOK
<1> DEFINE S == Handlers \cup {NoHandler}
<1> HIDE DEF S
<1>4. f \in [1..n -> S]
  BY <1>3 DEF S
<1>5. f \in Seq(S)
  BY <1>1, <1>4, SeqDef
<1>6. DOMAIN f = 1..n /\ DOMAIN f = 1..Len(f) /\ Len(f) \in Nat
  BY <1>4, <1>5, LenProperties
<1>7. Len(f) = n
  <2>1. \A x, y \in Nat : 1..x = 1..y => x = y
    <3> SUFFICES ASSUME NEW x \in Nat, NEW y \in Nat, 1..x = 1..y PROVE x = y
      OBVIOUS
    <3>1. (x \in 1..x <=> x \in 1..y) /\ (y \in 1..y <=> y \in 1..x)
      OBVIOUS
    <3> QED
      BY <3>1
  <2> QED
    BY <1>1, <1>6, <2>1, Zenon
<1>8. \A k \in 1..n : f[k] = listeners[k - 1]
  BY <1>1
<1> QED
  BY <1>5, <1>7, <1>8 DEF n, S

\* The types hold when the DLL has been loaded.
LEMMA InitType == Init => TypeOK
<1> SUFFICES ASSUME Init PROVE TypeOK
  OBVIOUS
<1>1. \E p \in Protocols : TRUE
  BY ChannelsAssumption
<1>2. NoChannel \in Channel
  BY <1>1 DEF NoChannel, NewChannel, Channel
<1>3. channels \in Seq(Channel) /\ Len(channels) <= MAX_CHANNELS
  BY ChannelsAssumption DEF Init
<1>4. /\ listeners \in [Slots -> Handlers \cup {NoHandler}]
      /\ listeners_count \in Int /\ listeners_count <= MAX_LISTENERS
      /\ channel_id_counter \in Nat
  BY ChannelsAssumption DEF Init
<1>5. /\ pc \in [Apps -> Labels] /\ ch \in [Apps -> Channel]
      /\ pos \in [Apps -> Nat]
  BY <1>2 DEF Init, Labels
<1>6. /\ alive \subseteq Handlers /\ listening \subseteq alive
      /\ issued \subseteq Nat /\ closed \subseteq Nat /\ overlapped \in BOOLEAN
      /\ inOrder \in BOOLEAN /\ born \in Seq(Handlers)
      /\ walk \in {"idle", "walking"} /\ i \in Nat
      /\ target \in Handlers \cup {NoHandler}
      /\ called \subseteq Handlers
      /\ arrived \in Seq(Handlers \cup {NoHandler}) /\ removals \in Nat
  BY EmptySeq DEF Init
<1> QED
  BY <1>3, <1>4, <1>5, <1>6 DEF TypeOK

\* Every step keeps the types.
LEMMA StepType == Inv /\ [Next]_vars => TypeOK'
<1> SUFFICES ASSUME Inv, [Next]_vars PROVE TypeOK'
  OBVIOUS
<1>0. TypeOK
  BY DEF Inv
<1> USE <1>0
<1>1. ASSUME NEW a \in Apps, NEW p \in Protocols \cup Unsupported, Connect(a, p)
      PROVE  TypeOK'
  <2>1. NewChannel(p) \in Channel
    BY DEF NewChannel, Channel
  <2>2. /\ pc' \in [Apps -> Labels] /\ ch' \in [Apps -> Channel]
        /\ overlapped' \in BOOLEAN
    BY <1>1, <2>1 DEF Connect, Goto, BeginCall, TypeOK, Labels
  <2> QED
    BY <1>1, <2>2 DEF Connect, TypeOK, tables, objects, delivery
<1>2. ASSUME NEW a \in Apps, NEW h \in Handlers, CreateHandler(a, h)
      PROVE  TypeOK'
  <2>1. /\ listeners' \in [Slots -> Handlers \cup {NoHandler}]
        /\ listeners_count' \in Int /\ listeners_count' <= MAX_LISTENERS
    <3>1. /\ RegisterListener(h)
          /\ listeners \in [Slots -> Handlers \cup {NoHandler}]
          /\ listeners_count \in Int /\ listeners_count <= MAX_LISTENERS
      BY <1>2 DEF CreateHandler, TypeOK
    <3> QED
      BY <3>1, ChannelsAssumption DEF RegisterListener
  <2>2. [ch[a] EXCEPT !.handler = h] \in Channel
    BY DEF TypeOK, Channel
  <2>3. pc' \in [Apps -> Labels] /\ ch' \in [Apps -> Channel]
    BY <1>2, <2>2 DEF CreateHandler, Goto, TypeOK, Labels
  <2>4. alive' \subseteq Handlers /\ listening' \subseteq alive'
    BY <1>2 DEF CreateHandler, TypeOK
  <2>5. inOrder' \in BOOLEAN /\ born' \in Seq(Handlers)
    BY <1>2, AppendProperties, EmptySeq DEF CreateHandler, TypeOK
  <2> QED
    BY <1>2, <2>1, <2>3, <2>4, <2>5 DEF CreateHandler, TypeOK, delivery
<1>3. ASSUME NEW a \in Apps, LoadCounter(a)
      PROVE  TypeOK'
  <2>1. [ch[a] EXCEPT !.id = channel_id_counter] \in Channel
    BY DEF TypeOK, Channel
  <2>2. pc' \in [Apps -> Labels] /\ ch' \in [Apps -> Channel]
    BY <1>3, <2>1 DEF LoadCounter, Goto, TypeOK, Labels
  <2> QED
    BY <1>3, <2>2 DEF LoadCounter, TypeOK, tables, objects, history, delivery
<1>4. ASSUME NEW a \in Apps, StoreCounter(a)
      PROVE  TypeOK'
  <2>1. channel_id_counter' \in Nat
    BY <1>4 DEF StoreCounter, TypeOK, Channel
  <2>2. pc' \in [Apps -> Labels]
    BY <1>4 DEF StoreCounter, Goto, TypeOK, Labels
  <2> QED
    BY <1>4, <2>1, <2>2 DEF StoreCounter, TypeOK, objects, history, delivery
<1>5. ASSUME NEW a \in Apps, ConnectHandler(a)
      PROVE  TypeOK'
  <2>1. [ch[a] EXCEPT !.id = channel_id_counter] \in Channel
    BY DEF TypeOK, Channel
  <2>2. pc' \in [Apps -> Labels] /\ ch' \in [Apps -> Channel]
    BY <1>5, <2>1 DEF ConnectHandler, Goto, TypeOK, Labels
  <2>3. ch[a].handler \in alive
    BY <1>5 DEF ConnectHandler, Inv, PendingAreOwned, Pending
  <2> QED
    BY <1>5, <2>2, <2>3 DEF ConnectHandler, TypeOK, tables, history, delivery
<1>6. ASSUME NEW a \in Apps,
             ConnectFails(a) \/ TooManyChannels(a) \/ UseHandler(a) \/ AlreadyDeleted(a)
      PROVE  TypeOK'
  <2>1. Return(a) /\ UNCHANGED <<tables, objects, history, delivery>>
    BY <1>6 DEF ConnectFails, TooManyChannels, UseHandler, AlreadyDeleted
  <2> QED
    BY <2>1, ReturnType DEF TypeOK, tables, objects, history, delivery
<1>7. ASSUME NEW a \in Apps, AddChannel(a)
      PROVE  TypeOK'
  <2>1. ch[a] \in Channel
    BY DEF TypeOK
  <2>2. channels' \in Seq(Channel) /\ Len(channels') <= MAX_CHANNELS
    BY <1>7, <2>1, Added, ChannelsAssumption DEF AddChannel
  <2>3. issued' \subseteq Nat
    BY <1>7, <2>1 DEF AddChannel, TypeOK, Channel
  <2> QED
    BY <1>7, <2>2, <2>3, ReturnType DEF AddChannel, TypeOK, objects, delivery
<1>8. ASSUME NEW a \in Apps, NEW id, FindChannel(a, id)
      PROVE  TypeOK'
  <2>1. channels[IndexOf(id)] \in Channel
    BY <1>8, Found, ElementOfSeq DEF FindChannel, TypeOK
  <2>2. /\ pc' \in [Apps -> Labels] /\ ch' \in [Apps -> Channel]
        /\ overlapped' \in BOOLEAN
    BY <1>8, <2>1 DEF FindChannel, Goto, BeginCall, TypeOK, Labels
  <2> QED
    BY <1>8, <2>2 DEF FindChannel, TypeOK, tables, objects, delivery
<1>9. ASSUME NEW a \in Apps, DisconnectHandler(a)
      PROVE  TypeOK'
  <2>1. pc' \in [Apps -> Labels]
    BY <1>9 DEF DisconnectHandler, Goto, TypeOK, Labels
  <2> QED
    BY <1>9, <2>1 DEF DisconnectHandler, TypeOK, tables, objects, history, delivery
<1>10. ASSUME NEW a \in Apps, DeleteChannel(a)
       PROVE  TypeOK'
  <2>1. channels[IndexOf(ch[a].id)] \in Channel
    BY <1>10, Found, ElementOfSeq DEF DeleteChannel, TypeOK
  <2>2. /\ pc' \in [Apps -> Labels] /\ ch' \in [Apps -> Channel]
        /\ pos' \in [Apps -> Nat]
    BY <1>10, <2>1 DEF DeleteChannel, Goto, TypeOK, Labels
  <2>3. /\ inOrder' \in BOOLEAN /\ born' \in Seq(Handlers)
        /\ removals' \in Nat
    BY <1>10, EmptySeq DEF DeleteChannel, TypeOK
  <2> QED
    BY <1>10, <2>2, <2>3 DEF DeleteChannel, TypeOK, tables, objects
<1>11. ASSUME NEW a \in Apps, ShiftListener(a)
       PROVE  TypeOK'
  <2>1. pos[a] + 1 \in Slots /\ pos[a] \in Nat
    BY <1>11, ChannelsAssumption DEF ShiftListener, TypeOK, Slots
  <2>2. listeners' \in [Slots -> Handlers \cup {NoHandler}]
    BY <1>11, <2>1 DEF ShiftListener, TypeOK
  <2>3. pos' \in [Apps -> Nat]
    BY <1>11, <2>1 DEF ShiftListener, TypeOK
  <2> QED
    BY <1>11, <2>2, <2>3 DEF ShiftListener, TypeOK, objects, history, delivery
<1>12. ASSUME NEW a \in Apps, EndDelete(a)
       PROVE  TypeOK'
  <2>1. channels' \in Seq(Channel) /\ Len(channels') <= MAX_CHANNELS
    <3>1. Len(channels) \in Nat /\ Len(channels) <= MAX_CHANNELS
      BY LenProperties DEF TypeOK
    <3> QED
      BY <1>12, <3>1, DeletedEntry, ChannelsAssumption
  <2>2. listeners_count' \in Int /\ listeners_count' <= MAX_LISTENERS
    BY <1>12, ChannelsAssumption DEF EndDelete, Deleted, TypeOK
  <2>3. /\ alive' \subseteq Handlers /\ listening' \subseteq alive'
        /\ closed' \subseteq Nat
    BY <1>12 DEF EndDelete, Deleted, TypeOK, Channel
  <2>4. Return(a)
    BY <1>12 DEF EndDelete, Deleted
  <2>5. born' \in Seq(Handlers)
    BY <1>12, EmptySeq, RestOf DEF EndDelete, Deleted, TypeOK
  <2> QED
    BY <1>12, <2>1, <2>2, <2>3, <2>4, <2>5, ReturnType
    DEF EndDelete, Deleted, TypeOK, delivery
<1>13. ASSUME MsgReceived
       PROVE  TypeOK'
  <2>1. CASE MsgArrives
    <3>1. arrived' \in Seq(Handlers \cup {NoHandler})
      BY <2>1, ArrivedType DEF MsgArrives, Arrives, TypeOK
    <3>2. /\ walk' \in {"idle", "walking"} /\ i' \in Nat /\ called' \subseteq Handlers
          /\ removals' \in Nat
      BY <2>1 DEF MsgArrives, Arrives
    <3> QED
      BY <2>1, <3>1, <3>2
      DEF MsgArrives, Arrives, TypeOK, tables, objects, history, calls
  <2>2. CASE NextListener
    <3>1. i \in Slots
      BY <2>2, ChannelsAssumption DEF NextListener, TypeOK, Slots
    <3>2. target' \in Handlers \cup {NoHandler}
      BY <2>2, <3>1 DEF NextListener, TypeOK
    <3> QED
      BY <2>2, <3>2 DEF NextListener, TypeOK, tables, objects, history, calls
  <2>3. CASE CallListener
    <3>1. /\ called' \subseteq Handlers /\ i' \in Nat
          /\ target' \in Handlers \cup {NoHandler}
      BY <2>3 DEF CallListener, TypeOK
    <3> QED
      BY <2>3, <3>1 DEF CallListener, TypeOK, tables, objects, history, calls
  <2>4. CASE MsgDone
    BY <2>4 DEF MsgDone, WalkEnds, TypeOK, tables, objects, history, calls
  <2> QED
    BY <1>13, <2>1, <2>2, <2>3, <2>4 DEF MsgReceived
<1>14. CASE UNCHANGED vars
  BY <1>14 DEF TypeOK, vars, tables, objects, history, calls, delivery
<1> QED
  BY <1>1, <1>2, <1>3, <1>4, <1>5, <1>6, <1>7, <1>8, <1>9, <1>10, <1>11, <1>12,
     <1>13, <1>14 DEF Next, AppStep

-----------------------------------------------------------------------------
(* Handlers have one owner.                                                *)

Owned == ChannelsHaveHandlers /\ PendingAreOwned /\ RemoverHoldsEntry

\* A step of thread a that leaves the table and the objects alone, except that
\* handlers may begin to listen.
LEMMA QuietStep ==
  ASSUME Inv, NEW a \in Apps,
         channels' = channels, alive' = alive, listening \subseteq listening',
         \A b \in Apps \ {a} : pc'[b] = pc[b] /\ ch'[b] = ch[b],
         pc'[a] \in {"load", "store", "connect", "add"} =>
           /\ Pending(a)
           /\ ch'[a].handler = ch[a].handler
           /\ pc'[a] = "add" => ch'[a].handler \in listening',
         pc'[a] = "remove" =>
           \/ pc[a] = "remove" /\ ch'[a] = ch[a]
           \/ /\ LocksFree
              /\ ch'[a].id \in ChannelIds
              /\ ch'[a] = channels[IndexOf(ch'[a].id)]
  PROVE  Owned'
<1>1. OpenHandlers' = OpenHandlers /\ ChannelIds' = ChannelIds
  BY DEF OpenHandlers, ChannelIds
<1>2. ChannelsHaveHandlers'
  BY <1>1 DEF Inv, ChannelsHaveHandlers
<1>3. \A b \in Apps : Pending(b)' => Pending(b) /\ ch'[b].handler = ch[b].handler
  BY DEF Pending
<1>4. PendingAreOwned'
  <2>1. \A b \in Apps : Pending(b)' => (ch[b].handler \in alive \ OpenHandlers)'
    BY <1>1, <1>3 DEF Inv, PendingAreOwned
  <2>2. \A b, c \in Apps :
           Pending(b)' /\ Pending(c)' /\ ch'[b].handler = ch'[c].handler => b = c
    BY <1>3 DEF Inv, PendingAreOwned
  <2>3. \A b \in Apps : pc'[b] = "add" => ch'[b].handler \in listening'
    BY DEF Inv, PendingAreOwned
  <2> QED
    BY <2>1, <2>2, <2>3 DEF PendingAreOwned
<1>5. RemoverHoldsEntry'
  <2>1. \A b, c \in Apps : pc'[b] = "remove" /\ pc'[c] = "remove" => b = c
    BY DEF Inv, RemoverHoldsEntry, LocksFree, Removing
  <2>2. ASSUME NEW b \in Apps, pc'[b] = "remove"
        PROVE  ch'[b].id \in ChannelIds /\ ch'[b] = channels[IndexOf(ch'[b].id)]
    BY <2>2 DEF Inv, RemoverHoldsEntry
  <2>3. \A b \in Apps : IndexOf(ch[b].id)' = IndexOf(ch'[b].id)
    BY DEF IndexOf
  <2> QED
    BY <1>1, <2>1, <2>2, <2>3 DEF RemoverHoldsEntry
<1> QED
  BY <1>2, <1>4, <1>5 DEF Owned

\* Handlers have one owner when there are none.
LEMMA InitOwned == Init => Owned
  BY DEF Init, Owned, ChannelsHaveHandlers, PendingAreOwned, RemoverHoldsEntry,
         OpenHandlers, Pending

(* The three steps that change the table or the set of objects.            *)

\* A new handler gets an owner: the thread that made it.
LEMMA CreateOwned ==
  ASSUME Inv, NEW a \in Apps, NEW h \in Handlers, CreateHandler(a, h)
  PROVE  Owned'
<1>1. /\ h \notin alive /\ alive' = alive \cup {h} /\ channels' = channels
      /\ listening' = listening \ {h} /\ LocksFree
  BY DEF CreateHandler
<1>2. /\ pc'[a] = "load" /\ ch'[a].handler = h
      /\ \A b \in Apps \ {a} : pc'[b] = pc[b] /\ ch'[b] = ch[b]
  BY DEF CreateHandler, Goto, Inv, TypeOK, Channel
<1>3. OpenHandlers' = OpenHandlers /\ OpenHandlers \subseteq listening
  BY <1>1 DEF OpenHandlers, Inv, ChannelsHaveHandlers
<1>4. listening' = listening /\ h \notin OpenHandlers
  BY <1>1, <1>3 DEF Inv, TypeOK
<1>5. ChannelsHaveHandlers'
  BY <1>1, <1>3, <1>4 DEF Inv, ChannelsHaveHandlers
<1>6. PendingAreOwned'
  <2>1. \A b \in Apps \ {a} : Pending(b)' =>
           Pending(b) /\ ch'[b].handler = ch[b].handler /\ ch[b].handler \in alive
    BY <1>2 DEF Pending, Inv, PendingAreOwned
  <2>2. \A b \in Apps : Pending(b)' => (ch[b].handler \in alive \ OpenHandlers)'
    BY <1>1, <1>2, <1>3, <1>4, <2>1 DEF Inv, PendingAreOwned
  <2>3. \A b, c \in Apps :
           Pending(b)' /\ Pending(c)' /\ ch'[b].handler = ch'[c].handler => b = c
    BY <1>1, <1>2, <2>1 DEF Inv, PendingAreOwned
  <2>4. \A b \in Apps : pc'[b] = "add" => ch'[b].handler \in listening'
    BY <1>2, <1>4 DEF Inv, PendingAreOwned
  <2> QED
    BY <2>2, <2>3, <2>4 DEF PendingAreOwned
<1>7. RemoverHoldsEntry'
  BY <1>1, <1>2 DEF LocksFree, Removing, RemoverHoldsEntry
<1> QED
  BY <1>5, <1>6, <1>7 DEF Owned

\* A call that returns leaves its thread outside.
LEMMA Returned ==
  ASSUME TypeOK, NEW a \in Apps, Return(a)
  PROVE  /\ pc'[a] = "idle"
         /\ \A b \in Apps \ {a} : pc'[b] = pc[b] /\ ch'[b] = ch[b]
  BY DEF Return, Goto, TypeOK

\* The handler of a new channel passes from its thread to the table.
LEMMA AddOwned ==
  ASSUME Inv, NEW a \in Apps, AddChannel(a)
  PROVE  Owned'
<1>0. TypeOK /\ ch[a] \in Channel
  BY DEF Inv, TypeOK
<1>1. /\ channels' \in Seq(Channel)
      /\ Len(channels') = Len(channels) + 1
      /\ \A j \in 1..Len(channels) : channels'[j] = channels[j]
      /\ channels'[Len(channels')] = ch[a]
      /\ Len(channels) \in Nat
  BY <1>0, Added DEF AddChannel
<1>2. /\ pc[a] = "add" /\ LocksFree /\ UNCHANGED <<alive, listening>>
      /\ pc'[a] = "idle"
      /\ \A b \in Apps \ {a} : pc'[b] = pc[b] /\ ch'[b] = ch[b]
  BY <1>0, Returned DEF AddChannel, objects
<1>3. OpenHandlers' = OpenHandlers \cup {ch[a].handler}
  BY <1>1 DEF OpenHandlers
<1>4. ch[a].handler \in listening \ OpenHandlers
  BY <1>2 DEF Inv, PendingAreOwned, Pending
<1>5. ChannelsHaveHandlers'
  <2>1. \A j \in 1..Len(channels) : channels[j].handler # ch[a].handler
    BY <1>4 DEF OpenHandlers
  <2>2. ASSUME NEW j \in 1..Len(channels'), NEW k \in 1..Len(channels'),
               channels'[j].handler = channels'[k].handler
        PROVE  j = k
    BY <1>1, <2>1, <2>2 DEF Inv, ChannelsHaveHandlers
  <2>3. OpenHandlers' \subseteq listening'
    BY <1>2, <1>3, <1>4 DEF Inv, ChannelsHaveHandlers
  <2> QED
    BY <2>2, <2>3 DEF ChannelsHaveHandlers
<1>6. PendingAreOwned'
  <2>1. \A b \in Apps : Pending(b)' =>
           b # a /\ Pending(b) /\ ch'[b].handler = ch[b].handler
    BY <1>2 DEF Pending
  <2>2. \A b \in Apps : Pending(b)' => ch[b].handler # ch[a].handler
    BY <1>2, <2>1 DEF Inv, PendingAreOwned, Pending
  <2>3. \A b \in Apps : Pending(b)' => (ch[b].handler \in alive \ OpenHandlers)'
    BY <1>2, <1>3, <2>1, <2>2 DEF Inv, PendingAreOwned
  <2>4. \A b, c \in Apps :
           Pending(b)' /\ Pending(c)' /\ ch'[b].handler = ch'[c].handler => b = c
    BY <2>1 DEF Inv, PendingAreOwned
  <2>5. \A b \in Apps : pc'[b] = "add" => ch'[b].handler \in listening'
    BY <1>2 DEF Inv, PendingAreOwned
  <2> QED
    BY <2>3, <2>4, <2>5 DEF PendingAreOwned
<1>7. RemoverHoldsEntry'
  BY <1>2 DEF LocksFree, Removing, RemoverHoldsEntry
<1> QED
  BY <1>5, <1>6, <1>7 DEF Owned

\* A handler is freed together with the only entry that has it.
LEMMA DeleteOwned ==
  ASSUME Inv, NEW a \in Apps, EndDelete(a)
  PROVE  Owned'
<1>0. TypeOK
  BY DEF Inv
<1>1. /\ pc[a] = "remove" /\ pc'[a] = "idle"
      /\ \A b \in Apps \ {a} : pc'[b] = pc[b] /\ ch'[b] = ch[b]
  BY <1>0, Returned DEF EndDelete, Deleted
<1>2. /\ OpenHandlers' \subseteq OpenHandlers \ {ch[a].handler}
      /\ \A j, k \in 1..Len(channels') :
           channels'[j].handler = channels'[k].handler => j = k
  BY DeletedEntry
<1>3. /\ alive' = alive \ {ch[a].handler}
      /\ listening' = listening \ {ch[a].handler}
  BY DEF EndDelete, Deleted
<1>4. ChannelsHaveHandlers'
  BY <1>2, <1>3 DEF Inv, ChannelsHaveHandlers
<1>5. ch[a].handler \in OpenHandlers
  <2>1. ch[a].id \in ChannelIds /\ ch[a] = channels[IndexOf(ch[a].id)]
    BY <1>1 DEF Inv, RemoverHoldsEntry
  <2> QED
    BY <1>0, <2>1, Found DEF OpenHandlers
<1>6. PendingAreOwned'
  <2>1. \A b \in Apps : Pending(b)' =>
           /\ Pending(b) /\ ch'[b].handler = ch[b].handler
           /\ ch[b].handler # ch[a].handler
    BY <1>1, <1>5 DEF Pending, Inv, PendingAreOwned
  <2>2. \A b \in Apps : Pending(b)' => (ch[b].handler \in alive \ OpenHandlers)'
    BY <1>2, <1>3, <2>1 DEF Inv, PendingAreOwned
  <2>3. \A b, c \in Apps :
           Pending(b)' /\ Pending(c)' /\ ch'[b].handler = ch'[c].handler => b = c
    BY <2>1 DEF Inv, PendingAreOwned
  <2>4. \A b \in Apps : pc'[b] = "add" => ch'[b].handler \in listening'
    BY <1>1, <1>3, <2>1 DEF Inv, PendingAreOwned, Pending
  <2> QED
    BY <2>2, <2>3, <2>4 DEF PendingAreOwned
<1>7. RemoverHoldsEntry'
  BY <1>1 DEF Inv, RemoverHoldsEntry
<1> QED
  BY <1>4, <1>6, <1>7 DEF Owned

\* Every step keeps the owners.
LEMMA StepOwned == Inv /\ [Next]_vars => Owned'
<1> SUFFICES ASSUME Inv, [Next]_vars PROVE Owned'
  OBVIOUS
<1>0. TypeOK /\ listening \subseteq alive
  BY DEF Inv, TypeOK
<1>1. ASSUME NEW a \in Apps, NEW p \in Protocols \cup Unsupported, Connect(a, p)
      PROVE  Owned'
  <2>1. /\ UNCHANGED <<channels, alive, listening>> /\ pc'[a] = "create"
        /\ \A b \in Apps \ {a} : pc'[b] = pc[b] /\ ch'[b] = ch[b]
    BY <1>0, <1>1 DEF Connect, Goto, TypeOK, tables, objects
  <2> QED
    BY <2>1, QuietStep
<1>2. ASSUME NEW a \in Apps, LoadCounter(a)
      PROVE  Owned'
  <2>1. /\ UNCHANGED <<channels, alive, listening>>
        /\ pc[a] = "load" /\ pc'[a] = "store" /\ ch'[a].handler = ch[a].handler
        /\ \A b \in Apps \ {a} : pc'[b] = pc[b] /\ ch'[b] = ch[b]
    BY <1>0, <1>2 DEF LoadCounter, Goto, TypeOK, Channel, tables, objects
  <2> QED
    BY <2>1, QuietStep DEF Pending
<1>3. ASSUME NEW a \in Apps, StoreCounter(a)
      PROVE  Owned'
  <2>1. /\ UNCHANGED <<channels, alive, listening, ch>>
        /\ pc[a] = "store" /\ pc'[a] = "connect"
        /\ \A b \in Apps \ {a} : pc'[b] = pc[b]
    BY <1>0, <1>3 DEF StoreCounter, Goto, TypeOK, objects
  <2> QED
    BY <2>1, QuietStep DEF Pending
<1>4. ASSUME NEW a \in Apps, ConnectHandler(a)
      PROVE  Owned'
  <2>1. /\ UNCHANGED <<channels, alive>>
        /\ listening' = listening \cup {ch[a].handler}
        /\ pc[a] = "connect" /\ pc'[a] = "add" /\ ch'[a].handler = ch[a].handler
        /\ \A b \in Apps \ {a} : pc'[b] = pc[b] /\ ch'[b] = ch[b]
    BY <1>0, <1>4 DEF ConnectHandler, Goto, TypeOK, Channel, tables
  <2> QED
    BY <2>1, QuietStep DEF Pending
<1>5. ASSUME NEW a \in Apps,
             ConnectFails(a) \/ TooManyChannels(a) \/ UseHandler(a) \/ AlreadyDeleted(a)
      PROVE  Owned'
  <2>1. Return(a) /\ UNCHANGED <<channels, alive, listening>>
    BY <1>5 DEF ConnectFails, TooManyChannels, UseHandler, AlreadyDeleted, tables, objects
  <2>2. /\ pc'[a] = "idle"
        /\ \A b \in Apps \ {a} : pc'[b] = pc[b] /\ ch'[b] = ch[b]
    BY <1>0, <2>1, Returned
  <2> QED
    BY <2>1, <2>2, QuietStep
<1>6. ASSUME NEW a \in Apps, NEW id, FindChannel(a, id)
      PROVE  Owned'
  <2>1. /\ UNCHANGED <<channels, alive, listening>> /\ pc'[a] = "found"
        /\ \A b \in Apps \ {a} : pc'[b] = pc[b] /\ ch'[b] = ch[b]
    BY <1>0, <1>6 DEF FindChannel, Goto, TypeOK, tables, objects
  <2> QED
    BY <2>1, QuietStep
<1>7. ASSUME NEW a \in Apps, DisconnectHandler(a)
      PROVE  Owned'
  <2>1. /\ UNCHANGED <<channels, alive, listening, ch>> /\ pc'[a] = "delete"
        /\ \A b \in Apps \ {a} : pc'[b] = pc[b]
    BY <1>0, <1>7 DEF DisconnectHandler, Goto, TypeOK, tables, objects
  <2> QED
    BY <2>1, QuietStep
<1>8. ASSUME NEW a \in Apps, DeleteChannel(a)
      PROVE  Owned'
  <2>1. /\ UNCHANGED <<channels, alive, listening>> /\ pc'[a] = "remove"
        /\ LocksFree /\ ch[a].id \in ChannelIds
        /\ ch'[a] = channels[IndexOf(ch[a].id)]
        /\ \A b \in Apps \ {a} : pc'[b] = pc[b] /\ ch'[b] = ch[b]
    BY <1>0, <1>8 DEF DeleteChannel, Goto, TypeOK, tables, objects
  <2>2. ch'[a].id = ch[a].id
    BY <1>0, <2>1, Found
  <2> QED
    BY <2>1, <2>2, QuietStep
<1>9. ASSUME NEW a \in Apps, ShiftListener(a)
      PROVE  Owned'
  <2>1. /\ UNCHANGED <<channels, alive, listening, pc, ch>> /\ pc[a] = "remove"
    BY <1>9 DEF ShiftListener, objects
  <2> QED
    BY <2>1, QuietStep
<1>10. CASE MsgReceived \/ UNCHANGED vars
  <2>1. UNCHANGED <<channels, alive, listening, pc, ch>>
    BY <1>10 DEF MsgReceived, MsgArrives, Arrives, NextListener, CallListener, MsgDone, WalkEnds,
                 vars, tables, objects, calls
  <2>2. OpenHandlers' = OpenHandlers /\ ChannelIds' = ChannelIds
    BY <2>1 DEF OpenHandlers, ChannelIds
  <2>3. ChannelsHaveHandlers' /\ PendingAreOwned'
    BY <2>1, <2>2 DEF Inv, ChannelsHaveHandlers, PendingAreOwned, Pending
  <2>4. \A b \in Apps : IndexOf(ch[b].id)' = IndexOf(ch[b].id)
    BY <2>1 DEF IndexOf
  <2>5. RemoverHoldsEntry'
    BY <2>1, <2>2, <2>4 DEF Inv, RemoverHoldsEntry
  <2> QED
    BY <2>3, <2>5 DEF Owned
<1> QED
  BY <1>1, <1>2, <1>3, <1>4, <1>5, <1>6, <1>7, <1>8, <1>9, <1>10, CreateOwned,
     AddOwned, DeleteOwned DEF Next, AppStep

\* The invariant holds in every reachable state.
THEOREM Invariance == Spec => []Inv
<1>1. Init => Inv
  BY InitType, InitOwned DEF Inv, Owned
<1>2. Inv /\ [Next]_vars => Inv'
  BY StepType, StepOwned DEF Inv, Owned
<1> QED
  BY <1>1, <1>2, PTL DEF Spec

\* No count, slot, place or owner leaves its range: tables of any size, any
\* threads, calls that fail at any point.
THEOREM TypeCorrect == Spec => []TypeOK
  BY Invariance, PTL DEF Inv

\* However the calls of however many threads interleave and fail, an open
\* channel has a handler of its own that exists and listens.
THEOREM OpenChannelsKeepTheirHandlers == Spec => []ChannelsHaveHandlers
  BY Invariance, PTL DEF Inv

-----------------------------------------------------------------------------
(* What an application may count on whose calls do not overlap.            *)

\* One thread at most is inside a call.
Alone == \A a, b \in Apps : pc[a] # "idle" /\ pc[b] # "idle" => a = b

\* The protocol that PassThruConnect found free is still free.
ProtocolStaysFree ==
  /\ OneChannelPerProtocol
  /\ \A a \in Apps :
       pc[a] = "create" \/ Pending(a) => ch[a].protocol \notin OpenProtocols

\* The counter is never behind the ids given out, and ahead of them from its
\* increment to the entry of the new channel.
CounterAhead ==
  /\ \A x \in issued : x <= channel_id_counter
  /\ \A a \in Apps :
       /\ pc[a] = "store" => ch[a].id = channel_id_counter
       /\ pc[a] \in {"connect", "add"} => \A x \in issued : x < channel_id_counter
       /\ pc[a] = "add" => ch[a].id = channel_id_counter

SerialInv ==
  ~overlapped => Alone /\ ProtocolStaysFree /\ CounterAhead

\* Nothing has overlapped, and nothing is open, when the DLL has been loaded.
LEMMA InitSerial == Init => SerialInv
  BY DEF Init, SerialInv, Alone, ProtocolStaysFree, OneChannelPerProtocol, Pending,
         CounterAhead

\* While calls do not overlap, a thread that takes a step is alone.
LEMMA OthersIdle ==
  ASSUME Inv, SerialInv, NEW a \in Apps, AppStep(a), ~overlapped'
  PROVE  /\ ~overlapped
         /\ \A b \in Apps \ {a} : pc[b] = "idle" /\ pc'[b] = "idle"
<1>0. TypeOK
  BY DEF Inv
<1>1. ASSUME NEW p, Connect(a, p) PROVE ~overlapped /\ \A b \in Apps \ {a} : pc[b] = "idle"
  BY <1>1 DEF Connect, BeginCall
<1>2. ASSUME NEW id, FindChannel(a, id)
      PROVE  ~overlapped /\ \A b \in Apps \ {a} : pc[b] = "idle"
  BY <1>2 DEF FindChannel, BeginCall
<1>3. ASSUME ~(\E p \in Protocols \cup Unsupported : Connect(a, p)),
             ~(\E id \in 1..(MaxIds + Cardinality(Apps)) : FindChannel(a, id))
      PROVE  ~overlapped /\ pc[a] # "idle"
  BY <1>3 DEF AppStep, CreateHandler, LoadCounter, StoreCounter, ConnectHandler,
       ConnectFails, AddChannel, TooManyChannels, UseHandler, DisconnectHandler,
       AlreadyDeleted, DeleteChannel, ShiftListener, EndDelete, Deleted, history
<1>4. ~overlapped /\ \A b \in Apps \ {a} : pc[b] = "idle"
  BY <1>1, <1>2, <1>3 DEF SerialInv, Alone
<1>5. \A b \in Apps \ {a} : pc'[b] = pc[b]
  BY <1>0 DEF AppStep, Connect, CreateHandler, LoadCounter, StoreCounter, ConnectHandler,
       ConnectFails, AddChannel, TooManyChannels, FindChannel, UseHandler,
       DisconnectHandler, AlreadyDeleted, DeleteChannel, ShiftListener, EndDelete, Deleted,
       Goto, Return, TypeOK, calls
<1> QED
  BY <1>4, <1>5

\* A thread that takes a step while calls do not overlap stays alone.
LEMMA StepAlone ==
  ASSUME Inv, SerialInv, NEW a \in Apps, AppStep(a), ~overlapped'
  PROVE  Alone'
  BY OthersIdle DEF Alone

\* The protocols in the table after a removal are among those before it.
LEMMA DeletedProtocols ==
  ASSUME Inv, NEW a \in Apps, EndDelete(a), OneChannelPerProtocol
  PROVE  /\ OneChannelPerProtocol'
         /\ OpenProtocols' \subseteq OpenProtocols
<1> DEFINE k == IndexOf(ch[a].id)
           m(j) == IF j < k THEN j ELSE j + 1
<1>1. /\ ch[a].id \in ChannelIds
      /\ channels' = Without(k)
  BY DEF Inv, RemoverHoldsEntry, EndDelete, Deleted
<1>2. k \in 1..Len(channels)
  BY <1>1, Found DEF Inv
<1> HIDE DEF k
<1>3. /\ Len(channels') = Len(channels) - 1
      /\ \A j \in 1..(Len(channels) - 1) :
           m(j) \in 1..Len(channels) /\ m(j) # k /\ channels'[j] = channels[m(j)]
  BY <1>1, <1>2, WithoutOne DEF Inv
<1>4. Len(channels) \in Nat
  BY LenProperties DEF Inv, TypeOK
<1>5. ASSUME NEW j \in 1..Len(channels'), NEW l \in 1..Len(channels'),
             channels'[j].protocol = channels'[l].protocol
      PROVE  j = l
  <2>1. m(j) = m(l)
    BY <1>3, <1>5 DEF OneChannelPerProtocol
  <2> QED
    BY <1>2, <1>3, <1>4, <2>1
<1> QED
  BY <1>3, <1>5 DEF OneChannelPerProtocol, OpenProtocols

\* No step of a lone thread opens a second channel of a protocol.
LEMMA StepProtocols ==
  ASSUME Inv, SerialInv, NEW a \in Apps, AppStep(a), ~overlapped'
  PROVE  ProtocolStaysFree'
<1>0. TypeOK
  BY DEF Inv
<1>1. ProtocolStaysFree /\ \A b \in Apps \ {a} : pc'[b] = "idle"
  BY OthersIdle DEF SerialInv
<1>2. SUFFICES /\ OneChannelPerProtocol'
               /\ pc'[a] \in {"create", "load", "store", "connect", "add"} =>
                    ch'[a].protocol \notin OpenProtocols'
  BY <1>1 DEF ProtocolStaysFree, Pending
<1>3. ASSUME channels' = channels
      PROVE  OneChannelPerProtocol' /\ OpenProtocols' = OpenProtocols
  BY <1>1, <1>3 DEF ProtocolStaysFree, OneChannelPerProtocol, OpenProtocols
<1>4. ASSUME NEW p \in Protocols \cup Unsupported, Connect(a, p)
      PROVE  channels' = channels /\ ch'[a].protocol \notin OpenProtocols
  BY <1>0, <1>4 DEF Connect, NewChannel, TypeOK, tables
<1>5. ASSUME \/ \E h \in Handlers : CreateHandler(a, h)
             \/ LoadCounter(a) \/ StoreCounter(a) \/ ConnectHandler(a)
      PROVE  channels' = channels /\ ch'[a].protocol \notin OpenProtocols
  <2>1. /\ channels' = channels /\ ch'[a].protocol = ch[a].protocol
        /\ pc[a] = "create" \/ Pending(a)
    BY <1>0, <1>5 DEF CreateHandler, LoadCounter, StoreCounter, ConnectHandler, TypeOK,
                      Channel, Pending, tables
  <2> QED
    BY <1>1, <2>1 DEF ProtocolStaysFree
<1>6. ASSUME ConnectFails(a) \/ TooManyChannels(a) \/ UseHandler(a) \/ AlreadyDeleted(a)
      PROVE  channels' = channels /\ pc'[a] = "idle"
  BY <1>0, <1>6, Returned DEF ConnectFails, TooManyChannels, UseHandler, AlreadyDeleted,
                              tables
<1>7. ASSUME AddChannel(a)
      PROVE  OneChannelPerProtocol' /\ pc'[a] = "idle"
  <2>1. /\ ch[a] \in Channel /\ pc'[a] = "idle"
        /\ ch[a].protocol \notin OpenProtocols
    BY <1>0, <1>1, <1>7, Returned DEF AddChannel, TypeOK, ProtocolStaysFree, Pending
  <2>2. /\ Len(channels') = Len(channels) + 1
        /\ \A j \in 1..Len(channels) : channels'[j] = channels[j]
        /\ channels'[Len(channels')] = ch[a]
        /\ Len(channels) \in Nat
    BY <1>0, <1>7, <2>1, Added DEF AddChannel
  <2>3. \A j \in 1..Len(channels) : channels[j].protocol # ch[a].protocol
    BY <2>1 DEF OpenProtocols
  <2>4. ASSUME NEW j \in 1..Len(channels'), NEW k \in 1..Len(channels'),
               channels'[j].protocol = channels'[k].protocol
        PROVE  j = k
    BY <1>1, <2>2, <2>3, <2>4 DEF ProtocolStaysFree, OneChannelPerProtocol
  <2> QED
    BY <2>1, <2>4 DEF OneChannelPerProtocol
<1>8. ASSUME \/ \E id \in 1..(MaxIds + Cardinality(Apps)) : FindChannel(a, id)
             \/ DisconnectHandler(a) \/ DeleteChannel(a) \/ ShiftListener(a)
      PROVE  channels' = channels /\ pc'[a] \in {"found", "delete", "remove"}
  BY <1>0, <1>8 DEF FindChannel, DisconnectHandler, DeleteChannel, ShiftListener, Goto,
                    TypeOK, tables
<1>9. ASSUME EndDelete(a)
      PROVE  OneChannelPerProtocol' /\ pc'[a] = "idle"
  BY <1>0, <1>1, <1>9, DeletedProtocols, Returned DEF EndDelete, Deleted, ProtocolStaysFree
<1> QED
  BY <1>3, <1>4, <1>5, <1>6, <1>7, <1>8, <1>9 DEF AppStep

\* No step of a lone thread gives out an id again.
LEMMA StepIds ==
  ASSUME Inv, SerialInv, NEW a \in Apps, AppStep(a), ~overlapped'
  PROVE  CounterAhead'
<1>0. TypeOK /\ channel_id_counter \in Nat /\ issued \subseteq Nat
  BY DEF Inv, TypeOK
<1>1. CounterAhead /\ \A b \in Apps \ {a} : pc'[b] = "idle"
  BY OthersIdle DEF SerialInv
<1>2. SUFFICES
        /\ \A x \in issued' : x <= channel_id_counter'
        /\ pc'[a] = "store" => ch'[a].id = channel_id_counter'
        /\ pc'[a] \in {"connect", "add"} => \A x \in issued' : x < channel_id_counter'
        /\ pc'[a] = "add" => ch'[a].id = channel_id_counter'
  BY <1>1 DEF CounterAhead
<1>3. ASSUME LoadCounter(a)
      PROVE  /\ UNCHANGED <<issued, channel_id_counter>> /\ pc'[a] = "store"
             /\ ch'[a].id = channel_id_counter
  BY <1>0, <1>3 DEF LoadCounter, Goto, TypeOK, Channel, tables, history
<1>4. ASSUME StoreCounter(a)
      PROVE  /\ UNCHANGED issued /\ pc'[a] = "connect"
             /\ channel_id_counter' = channel_id_counter + 1
  BY <1>0, <1>1, <1>4 DEF StoreCounter, Goto, TypeOK, CounterAhead, history
<1>5. ASSUME ConnectHandler(a)
      PROVE  /\ UNCHANGED <<issued, channel_id_counter>>
             /\ pc[a] = "connect" /\ pc'[a] = "add" /\ ch'[a].id = channel_id_counter
  BY <1>0, <1>5 DEF ConnectHandler, Goto, TypeOK, Channel, tables, history
<1>6. ASSUME AddChannel(a)
      PROVE  /\ UNCHANGED channel_id_counter /\ pc'[a] = "idle"
             /\ issued' = issued \cup {channel_id_counter}
  BY <1>0, <1>1, <1>6, Returned DEF AddChannel, CounterAhead
<1>7. ASSUME \/ \E p \in Protocols \cup Unsupported : Connect(a, p)
             \/ \E h \in Handlers : CreateHandler(a, h)
             \/ ConnectFails(a) \/ TooManyChannels(a) \/ UseHandler(a)
             \/ \E id \in 1..(MaxIds + Cardinality(Apps)) : FindChannel(a, id)
             \/ DisconnectHandler(a) \/ AlreadyDeleted(a) \/ DeleteChannel(a)
             \/ ShiftListener(a) \/ EndDelete(a)
      PROVE  /\ UNCHANGED <<issued, channel_id_counter>>
             /\ pc'[a] \notin {"store", "connect", "add"}
  <2>1. UNCHANGED <<issued, channel_id_counter>>
    BY <1>7 DEF Connect, CreateHandler, ConnectFails, TooManyChannels, UseHandler,
                FindChannel, DisconnectHandler, AlreadyDeleted, DeleteChannel,
                ShiftListener, EndDelete, Deleted, tables, history
  <2>2. pc'[a] \notin {"store", "connect", "add"}
    BY <1>0, <1>7 DEF Connect, CreateHandler, ConnectFails, TooManyChannels, UseHandler,
                FindChannel, DisconnectHandler, AlreadyDeleted, DeleteChannel,
                ShiftListener, EndDelete, Deleted, Goto, Return, TypeOK
  <2> QED
    BY <2>1, <2>2
<1>8. \A x \in issued : x \in Nat /\ x <= channel_id_counter
  BY <1>0, <1>1 DEF CounterAhead
<1>9. CASE LoadCounter(a)
  <2>1. /\ issued' = issued /\ channel_id_counter' = channel_id_counter
        /\ pc'[a] = "store" /\ ch'[a].id = channel_id_counter
    BY <1>3, <1>9
  <2>2. \A x \in issued' : x <= channel_id_counter'
    BY <1>8, <2>1
  <2>3. ch'[a].id = channel_id_counter' /\ pc'[a] \notin {"connect", "add"}
    BY <2>1
  <2> QED
    BY <2>2, <2>3
<1>10. CASE StoreCounter(a)
  <2>1. /\ issued' = issued /\ channel_id_counter' = channel_id_counter + 1
        /\ pc'[a] = "connect"
    BY <1>4, <1>10
  <2>2. \A x \in issued' : x <= channel_id_counter' /\ x < channel_id_counter'
    BY <1>0, <1>8, <2>1
  <2> QED
    BY <2>1, <2>2
<1>11. CASE ConnectHandler(a)
  <2>1. /\ issued' = issued /\ channel_id_counter' = channel_id_counter
        /\ pc[a] = "connect" /\ pc'[a] = "add" /\ ch'[a].id = channel_id_counter
    BY <1>5, <1>11
  <2>2. \A x \in issued' : x <= channel_id_counter'
    BY <1>8, <2>1
  <2>3. \A x \in issued' : x < channel_id_counter'
    BY <1>1, <2>1 DEF CounterAhead
  <2>4. ch'[a].id = channel_id_counter' /\ pc'[a] # "store"
    BY <2>1
  <2> QED
    BY <2>2, <2>3, <2>4
<1>12. CASE AddChannel(a)
  <2>1. /\ issued' = issued \cup {channel_id_counter}
        /\ channel_id_counter' = channel_id_counter /\ pc'[a] = "idle"
    BY <1>6, <1>12
  <2>2. \A x \in issued' : x <= channel_id_counter'
    BY <1>0, <1>8, <2>1
  <2> QED
    BY <2>1, <2>2
<1> QED
  BY <1>7, <1>8, <1>9, <1>10, <1>11, <1>12 DEF AppStep

\* Every step keeps what calls that do not overlap may count on.
LEMMA StepSerial == Inv /\ SerialInv /\ [Next]_vars => SerialInv'
<1> SUFFICES ASSUME Inv, SerialInv, [Next]_vars, ~overlapped'
             PROVE  (Alone /\ ProtocolStaysFree /\ CounterAhead)'
  BY DEF SerialInv
<1>1. CASE \E a \in Apps : AppStep(a)
  BY <1>1, StepAlone, StepProtocols, StepIds
<1>2. CASE MsgReceived \/ UNCHANGED vars
  <2>1. UNCHANGED <<channels, channel_id_counter, alive, issued, overlapped, pc, ch>>
    BY <1>2 DEF MsgReceived, MsgArrives, Arrives, NextListener, CallListener, MsgDone, WalkEnds,
                vars, tables, objects, calls, history
  <2>2. OpenHandlers' = OpenHandlers /\ OpenProtocols' = OpenProtocols
    BY <2>1 DEF OpenHandlers, OpenProtocols
  <2> QED
    BY <2>1, <2>2 DEF SerialInv, Alone, ProtocolStaysFree, OneChannelPerProtocol,
                      Pending, CounterAhead
<1> QED
  BY <1>1, <1>2 DEF Next

\* The invariant of calls that do not overlap holds in every reachable state.
THEOREM SerialInvariance == Spec => []SerialInv
<1>1. Init => SerialInv
  BY InitSerial
<1> QED
  BY <1>1, StepSerial, Invariance, PTL DEF Spec

\* As long as calls have not overlapped, no protocol has two channels.
THEOREM OneChannelEach == Spec => []SerialOneChannelPerProtocol
<1>1. SerialInv => SerialOneChannelPerProtocol
  BY DEF SerialInv, ProtocolStaysFree, SerialOneChannelPerProtocol, Serial
<1> QED
  BY <1>1, SerialInvariance, PTL

\* As long as calls have not overlapped, a new channel's id is new.
THEOREM IdsNeverReturn == Spec => []SerialIdsAreUnique
<1>1. Inv /\ SerialInv => SerialIdsAreUnique
  <2> SUFFICES ASSUME Inv, SerialInv, ~overlapped, NEW a \in Apps, pc[a] = "add"
               PROVE  ch[a].id \notin issued
    BY DEF SerialIdsAreUnique, Serial
  <2>1. /\ ch[a].id = channel_id_counter
        /\ \A x \in issued : x < channel_id_counter
    BY DEF SerialInv, CounterAhead
  <2>2. channel_id_counter \in Nat
    BY DEF Inv, TypeOK
  <2> QED
    BY <2>1, <2>2
<1> QED
  BY <1>1, Invariance, SerialInvariance, PTL

-----------------------------------------------------------------------------
(* Entries for all channels.  No more protocols can connect than there are *)
(* listener slots (6 and 8 in the code).                                   *)

EnoughSlots == IsFiniteSet(Protocols) /\ Cardinality(Protocols) <= MAX_LISTENERS

\* Only protocols that connect get into the table.
OnlyConnectable ==
  /\ \A k \in 1..Len(channels) : channels[k].protocol \in Protocols
  /\ \A a \in Apps : pc[a] = "add" => ch[a].protocol \in Protocols

\* There is an entry to spare for a channel on its way into the table.
EntryToSpare ==
  \A a \in Apps :
    Pending(a) /\ ch[a].protocol \in Protocols => listeners_count >= Len(channels) + 1

CoverInv ==
  /\ OnlyConnectable
  /\ ~overlapped => listeners_count >= Len(channels) /\ EntryToSpare

\* While a protocol is free, the table has less than MAX_LISTENERS channels:
\* two of more would have the same protocol.
LEMMA RoomForOne ==
  ASSUME EnoughSlots, TypeOK, OnlyConnectable, OneChannelPerProtocol,
         NEW p \in Protocols, p \notin OpenProtocols
  PROVE  Len(channels) + 1 <= MAX_LISTENERS
<1> DEFINE S == 1..Len(channels)
           T == Protocols \ {p}
           f == [k \in S |-> channels[k].protocol]
<1>1. Len(channels) \in Nat
  BY LenProperties DEF TypeOK
<1>2. IsFiniteSet(S) /\ Cardinality(S) = Len(channels)
  <2>1. 1 \in Int /\ Len(channels) \in Int
    BY <1>1
  <2>2. IsFiniteSet(S) /\ Cardinality(S) = IF 1 > Len(channels) THEN 0 ELSE Len(channels) - 1 + 1
    BY <2>1, FS_Interval
  <2> QED BY <1>1, <2>2
<1>3. /\ IsFiniteSet(T) /\ Cardinality(T) = Cardinality(Protocols) - 1
      /\ Cardinality(Protocols) \in Nat
  BY FS_RemoveElement, FS_CardinalityType DEF EnoughSlots
<1>4. f \in [S -> T]
  BY DEF OnlyConnectable, OpenProtocols
<1>5. ~(\E x, y \in S : x # y /\ f[x] = f[y])
  BY DEF OneChannelPerProtocol
<1> HIDE DEF S, T, f
<1>6. ~(Cardinality(T) < Cardinality(S))
  BY <1>2, <1>3, <1>4, <1>5, FS_PigeonHole
<1> QED
  BY <1>1, <1>2, <1>3, <1>6, ChannelsAssumption DEF EnoughSlots

\* There are no channels to match when the DLL has been loaded.
LEMMA InitCover == Init => CoverInv
  BY DEF Init, CoverInv, OnlyConnectable, EntryToSpare, Pending

\* What the table holds after a removal it held before.
LEMMA DeletedConnectable ==
  ASSUME Inv, NEW a \in Apps, EndDelete(a), OnlyConnectable
  PROVE  \A j \in 1..Len(channels') : channels'[j].protocol \in Protocols
<1> DEFINE k == IndexOf(ch[a].id)
<1>1. ch[a].id \in ChannelIds /\ channels' = Without(k)
  BY DEF Inv, RemoverHoldsEntry, EndDelete, Deleted
<1>2. k \in 1..Len(channels)
  BY <1>1, Found DEF Inv
<1> HIDE DEF k
<1> QED
  BY ZenonT(40), <1>1, <1>2, WithoutOne DEF Inv, OnlyConnectable

\* Every step keeps unconnectable protocols out of the table.
LEMMA StepConnectable == Inv /\ OnlyConnectable /\ [Next]_vars => OnlyConnectable'
<1> SUFFICES ASSUME Inv, OnlyConnectable, [Next]_vars PROVE OnlyConnectable'
  OBVIOUS
<1>0. TypeOK
  BY DEF Inv
<1>1. ASSUME NEW a \in Apps, AddChannel(a) PROVE OnlyConnectable'
  <2>1. ch[a] \in Channel /\ ch[a].protocol \in Protocols
    BY <1>0, <1>1 DEF AddChannel, TypeOK, OnlyConnectable
  <2>2. /\ Len(channels') = Len(channels) + 1
        /\ \A j \in 1..Len(channels) : channels'[j] = channels[j]
        /\ channels'[Len(channels')] = ch[a]
        /\ Len(channels) \in Nat
    BY <1>0, <1>1, <2>1, Added DEF AddChannel
  <2>3. /\ pc'[a] = "idle"
        /\ \A b \in Apps \ {a} : pc'[b] = pc[b] /\ ch'[b] = ch[b]
    BY <1>0, <1>1, Returned DEF AddChannel
  <2> QED
    BY <2>1, <2>2, <2>3 DEF OnlyConnectable
<1>2. ASSUME NEW a \in Apps, EndDelete(a) PROVE OnlyConnectable'
  <2>1. /\ pc'[a] = "idle"
        /\ \A b \in Apps \ {a} : pc'[b] = pc[b] /\ ch'[b] = ch[b]
    BY <1>0, <1>2, Returned DEF EndDelete, Deleted
  <2> QED
    BY <1>2, <2>1, DeletedConnectable DEF OnlyConnectable
<1>3. ASSUME NEW a \in Apps, AppStep(a), ~AddChannel(a), ~EndDelete(a)
      PROVE  OnlyConnectable'
  <2>1. channels' = channels
    BY <1>3 DEF AppStep, Connect, CreateHandler, LoadCounter, StoreCounter, ConnectHandler,
       ConnectFails, TooManyChannels, FindChannel, UseHandler, DisconnectHandler,
       AlreadyDeleted, DeleteChannel, ShiftListener, tables
  <2>2. \A b \in Apps \ {a} : pc'[b] = pc[b] /\ ch'[b] = ch[b]
    BY <1>0, <1>3 DEF AppStep, Connect, CreateHandler, LoadCounter, StoreCounter,
       ConnectHandler, ConnectFails, TooManyChannels, FindChannel, UseHandler,
       DisconnectHandler, AlreadyDeleted, DeleteChannel, ShiftListener, Goto, Return,
       TypeOK
  <2>3. ASSUME ConnectHandler(a) PROVE ch'[a].protocol \in Protocols
    BY <1>0, <2>3 DEF ConnectHandler, TypeOK, Channel
  <2>4. ASSUME ~ConnectHandler(a) PROVE pc'[a] # "add"
    BY <1>0, <1>3, <2>4 DEF AppStep, Connect, CreateHandler, LoadCounter, StoreCounter,
       ConnectFails, TooManyChannels, FindChannel, UseHandler, DisconnectHandler,
       AlreadyDeleted, DeleteChannel, ShiftListener, Goto, Return, TypeOK
  <2> QED
    BY <2>1, <2>2, <2>3, <2>4 DEF OnlyConnectable
<1>4. ASSUME MsgReceived \/ UNCHANGED vars PROVE OnlyConnectable'
  BY <1>4 DEF MsgReceived, MsgArrives, Arrives, NextListener, CallListener, MsgDone, WalkEnds,
              vars, tables, calls, OnlyConnectable
<1> QED
  BY <1>1, <1>2, <1>3, <1>4 DEF Next

\* Every step of a thread whose calls do not overlap with others leaves an
\* entry for every channel.
LEMMA StepCover ==
  ASSUME EnoughSlots, Inv, SerialInv, CoverInv, NEW a \in Apps, AppStep(a), ~overlapped'
  PROVE  listeners_count' >= Len(channels)' /\ EntryToSpare'
<1>0. /\ TypeOK /\ Len(channels) \in Nat /\ listeners_count \in Int
      /\ MAX_LISTENERS \in Nat
  BY LenProperties, ChannelsAssumption DEF Inv, TypeOK
<1>1. /\ listeners_count >= Len(channels) /\ EntryToSpare /\ OnlyConnectable
      /\ ProtocolStaysFree /\ \A b \in Apps \ {a} : pc'[b] = "idle"
  BY OthersIdle DEF CoverInv, SerialInv
<1>2. ASSUME NEW h \in Handlers, CreateHandler(a, h)
      PROVE  listeners_count' >= Len(channels)' /\ EntryToSpare'
  <2>1. /\ channels' = channels /\ pc[a] = "create" /\ RegisterListener(h)
        /\ ch'[a].protocol = ch[a].protocol
    BY <1>0, <1>2 DEF CreateHandler, TypeOK, Channel
  <2>2. listeners_count' >= Len(channels)
    BY <1>0, <1>1, <2>1 DEF RegisterListener
  <2>3. ASSUME ch[a].protocol \in Protocols
        PROVE  listeners_count' >= Len(channels) + 1
    <3>1. ch[a].protocol \notin OpenProtocols
      BY <1>1, <2>1 DEF ProtocolStaysFree
    <3>2. Len(channels) + 1 <= MAX_LISTENERS
      BY <1>0, <1>1, <2>3, <3>1, RoomForOne DEF ProtocolStaysFree
    <3> QED
      BY <1>0, <1>1, <2>1, <3>2 DEF RegisterListener
  <2>4. EntryToSpare'
    BY <1>1, <2>1, <2>3 DEF EntryToSpare, Pending
  <2> QED
    BY <2>1, <2>2, <2>4
<1>3. ASSUME AddChannel(a)
      PROVE  listeners_count' >= Len(channels)' /\ EntryToSpare'
  <2>1. /\ ch[a] \in Channel /\ pc'[a] = "idle" /\ pc[a] = "add"
        /\ listeners_count' = listeners_count
    BY <1>0, <1>3, Returned DEF AddChannel, TypeOK
  <2>2. Len(channels') = Len(channels) + 1
    BY <1>0, <1>3, <2>1, Added DEF AddChannel
  <2>3. listeners_count >= Len(channels) + 1
    BY <1>1, <2>1 DEF EntryToSpare, OnlyConnectable, Pending
  <2>4. EntryToSpare'
    BY <1>1, <2>1 DEF EntryToSpare, Pending
  <2> QED
    BY <2>1, <2>2, <2>3, <2>4
<1>4. ASSUME EndDelete(a)
      PROVE  listeners_count' >= Len(channels)' /\ EntryToSpare'
  <2>1. pc'[a] = "idle" /\ listeners_count' = listeners_count - 1
    BY <1>0, <1>4, Returned DEF EndDelete, Deleted
  <2>2. Len(channels') = Len(channels) - 1
    BY <1>4, DeletedEntry
  <2>3. EntryToSpare'
    BY <1>1, <2>1 DEF EntryToSpare, Pending
  <2> QED
    BY <1>0, <1>1, <2>1, <2>2, <2>3
<1>5. ASSUME ~(\E h \in Handlers : CreateHandler(a, h)), ~AddChannel(a), ~EndDelete(a)
      PROVE  listeners_count' >= Len(channels)' /\ EntryToSpare'
  <2>1. UNCHANGED <<channels, listeners_count>>
    BY <1>5 DEF AppStep, Connect, LoadCounter, StoreCounter, ConnectHandler, ConnectFails,
       TooManyChannels, FindChannel, UseHandler, DisconnectHandler, AlreadyDeleted,
       DeleteChannel, ShiftListener, tables
  <2>2. ASSUME LoadCounter(a) \/ StoreCounter(a) \/ ConnectHandler(a)
        PROVE  Pending(a) /\ ch'[a].protocol = ch[a].protocol
    BY <1>0, <2>2 DEF LoadCounter, StoreCounter, ConnectHandler, TypeOK, Channel, Pending
  <2>3. ASSUME ~LoadCounter(a), ~StoreCounter(a), ~ConnectHandler(a)
        PROVE  Pending(a)' => Pending(a) /\ ch'[a] = ch[a]
    BY <1>0, <1>5, <2>3 DEF AppStep, Connect, ConnectFails, TooManyChannels, FindChannel,
       UseHandler, DisconnectHandler, AlreadyDeleted, DeleteChannel, ShiftListener, Goto,
       Return, TypeOK, Pending
  <2>4. EntryToSpare'
    BY <1>1, <2>1, <2>2, <2>3 DEF EntryToSpare, Pending
  <2> QED
    BY <1>1, <2>1, <2>4
<1> QED
  BY <1>2, <1>3, <1>4, <1>5

\* As long as calls have not overlapped, every open channel is matched by an
\* entry of the listener table, although failed connects leave entries behind
\* and a full table registers nobody.
THEOREM EntriesForAll ==
  ASSUME EnoughSlots
  PROVE  Spec => []SerialEntriesCoverChannels
<1>1. Init => CoverInv
  BY InitCover
<1>2. Inv /\ SerialInv /\ CoverInv /\ [Next]_vars => CoverInv'
  <2> SUFFICES ASSUME Inv, SerialInv, CoverInv, [Next]_vars, ~overlapped'
               PROVE  listeners_count' >= Len(channels)' /\ EntryToSpare'
    BY StepConnectable DEF CoverInv
  <2>1. CASE \E a \in Apps : AppStep(a)
    BY <2>1, StepCover
  <2>2. CASE MsgReceived \/ UNCHANGED vars
    <3>1. UNCHANGED <<channels, listeners_count, overlapped, pc, ch>>
      BY <2>2 DEF MsgReceived, MsgArrives, Arrives, NextListener, CallListener, MsgDone, WalkEnds,
                  vars, tables, calls, history
    <3> QED
      BY <3>1 DEF CoverInv, EntryToSpare, Pending
  <2> QED
    BY <2>1, <2>2 DEF Next
<1>3. CoverInv => SerialEntriesCoverChannels
  BY DEF CoverInv, SerialEntriesCoverChannels, Serial
<1> QED
  BY <1>1, <1>2, <1>3, Invariance, SerialInvariance, PTL DEF Spec

-----------------------------------------------------------------------------
(* Calls and the disconnects of other channels.                            *)

Opened == {channels[k] : k \in 1..Len(channels)}

\* Until a channel of its id is deleted, what a call found is in the table.
CallInv ==
  \A a \in Apps :
    pc[a] \in {"found", "delete"} /\ ch[a].id \notin closed => ch[a] \in Opened

\* A removal takes no channel out of the table but those of the id it closes.
LEMMA DeletedOne ==
  ASSUME Inv, NEW a \in Apps, EndDelete(a)
  PROVE  \A c \in Opened : c.id # ch[a].id => c \in Opened'
<1> DEFINE k == IndexOf(ch[a].id)
<1>1. /\ ch[a].id \in ChannelIds
      /\ ch[a] = channels[k]
      /\ channels' = Without(k)
  BY DEF Inv, RemoverHoldsEntry, EndDelete, Deleted
<1>2. k \in 1..Len(channels)
  BY <1>1, Found DEF Inv
<1> HIDE DEF k
<1>3. /\ Len(channels') = Len(channels) - 1
      /\ \A j \in 1..(Len(channels) - 1) :
           channels'[j] = channels[IF j < k THEN j ELSE j + 1]
  BY <1>1, <1>2, WithoutOne DEF Inv
<1>4. Len(channels) \in Nat
  BY LenProperties DEF Inv, TypeOK
<1> SUFFICES ASSUME NEW m \in 1..Len(channels), channels[m].id # ch[a].id
             PROVE  \E j \in 1..Len(channels') : channels'[j] = channels[m]
  BY DEF Opened
<1>5. m # k
  BY <1>1
<1>6. CASE m < k
  <2>1. m \in 1..(Len(channels) - 1)
    BY <1>2, <1>4, <1>6
  <2> QED
    BY <1>3, <1>6, <2>1
<1>7. CASE m > k
  <2>1. m - 1 \in 1..(Len(channels) - 1) /\ ~(m - 1 < k) /\ m - 1 + 1 = m
    BY <1>2, <1>4, <1>7
  <2> QED
    BY <1>3, <2>1
<1> QED
  BY <1>2, <1>4, <1>5, <1>6, <1>7

\* Every step keeps what calls have found in the table.
LEMMA StepCalls == Inv /\ CallInv /\ [Next]_vars => CallInv'
<1> SUFFICES ASSUME Inv, CallInv, [Next]_vars PROVE CallInv'
  OBVIOUS
<1>0. TypeOK
  BY DEF Inv
<1>1. ASSUME NEW a \in Apps, NEW id, FindChannel(a, id) PROVE CallInv'
  <2>1. /\ UNCHANGED <<channels, closed>> /\ id \in ChannelIds
        /\ ch'[a] = channels[IndexOf(id)]
        /\ \A b \in Apps \ {a} : pc'[b] = pc[b] /\ ch'[b] = ch[b]
    BY <1>0, <1>1 DEF FindChannel, Goto, TypeOK, tables
  <2>2. ch'[a] \in Opened /\ Opened' = Opened
    BY <1>0, <2>1, Found DEF Opened
  <2> QED
    BY <2>1, <2>2 DEF CallInv
<1>2. ASSUME NEW a \in Apps, DisconnectHandler(a) PROVE CallInv'
  <2>1. /\ UNCHANGED <<channels, closed, ch>> /\ pc[a] = "found"
        /\ \A b \in Apps \ {a} : pc'[b] = pc[b]
    BY <1>0, <1>2 DEF DisconnectHandler, Goto, TypeOK, tables, history
  <2>2. Opened' = Opened
    BY <2>1 DEF Opened
  <2> QED
    BY <2>1, <2>2 DEF CallInv
<1>3. ASSUME NEW a \in Apps, AddChannel(a) PROVE CallInv'
  <2>1. /\ pc'[a] = "idle" /\ UNCHANGED closed /\ ch[a] \in Channel
        /\ \A b \in Apps \ {a} : pc'[b] = pc[b] /\ ch'[b] = ch[b]
    BY <1>0, <1>3, Returned DEF AddChannel, TypeOK
  <2>2. /\ Len(channels') = Len(channels) + 1 /\ Len(channels) \in Nat
        /\ \A j \in 1..Len(channels) : channels'[j] = channels[j]
    BY <1>0, <1>3, <2>1, Added DEF AddChannel
  <2>3. Opened \subseteq Opened'
    BY <2>2 DEF Opened
  <2> QED
    BY <2>1, <2>3 DEF CallInv
<1>4. ASSUME NEW a \in Apps, EndDelete(a) PROVE CallInv'
  <2>1. /\ pc'[a] = "idle" /\ closed' = closed \cup {ch[a].id}
        /\ \A b \in Apps \ {a} : pc'[b] = pc[b] /\ ch'[b] = ch[b]
    BY <1>0, <1>4, Returned DEF EndDelete, Deleted
  <2> QED
    BY <1>4, <2>1, DeletedOne DEF CallInv
<1>5. ASSUME NEW a \in Apps, AppStep(a), ~DisconnectHandler(a), ~AddChannel(a),
             ~EndDelete(a),
             ~\E id \in 1..(MaxIds + Cardinality(Apps)) : FindChannel(a, id)
      PROVE  CallInv'
  <2>1. UNCHANGED <<channels, closed>>
    BY <1>5 DEF AppStep, Connect, CreateHandler, LoadCounter, StoreCounter,
       ConnectHandler, ConnectFails, TooManyChannels, UseHandler, AlreadyDeleted,
       DeleteChannel, ShiftListener, tables, history
  <2>2. /\ pc'[a] \notin {"found", "delete"}
        /\ \A b \in Apps \ {a} : pc'[b] = pc[b] /\ ch'[b] = ch[b]
    BY <1>0, <1>5 DEF AppStep, Connect, CreateHandler, LoadCounter, StoreCounter,
       ConnectHandler, ConnectFails, TooManyChannels, UseHandler, AlreadyDeleted,
       DeleteChannel, ShiftListener, Goto, Return, TypeOK
  <2>3. Opened' = Opened
    BY <2>1 DEF Opened
  <2> QED
    BY <2>1, <2>2, <2>3 DEF CallInv
<1>6. ASSUME MsgReceived \/ UNCHANGED vars PROVE CallInv'
  BY <1>6 DEF MsgReceived, MsgArrives, Arrives, NextListener, CallListener, MsgDone,
              WalkEnds, vars, tables, history, calls, CallInv, Opened
<1> QED
  BY <1>1, <1>2, <1>3, <1>4, <1>5, <1>6 DEF Next

\* However many threads there are, and however they interleave and fail: until
\* a channel of the id it was given is deleted, a call works on the handler of
\* an open channel.
THEOREM CallsFindTheirHandlers == Spec => []CallsKeepTheirHandlers
<1>1. Init => CallInv
  BY DEF Init, CallInv
<1>2. Inv /\ CallInv => CallsKeepTheirHandlers
  <2> SUFFICES ASSUME Inv, CallInv, NEW a \in Apps, pc[a] \in {"found", "delete"},
                      ch[a].id \notin closed
               PROVE  ch[a].handler \in OpenHandlers \cap listening
    BY DEF CallsKeepTheirHandlers
  <2>1. ch[a].handler \in OpenHandlers
    BY DEF CallInv, Opened, OpenHandlers
  <2> QED
    BY <2>1 DEF Inv, ChannelsHaveHandlers
<1> QED
  BY <1>1, <1>2, StepCalls, Invariance, PTL DEF Spec

-----------------------------------------------------------------------------
(* Closing the oldest channel first.                                       *)

\* The handlers that exist, oldest first, and an entry for each.
BornAreAlive ==
  /\ listeners_count = Len(born)
  /\ \A j, k \in 1..Len(born) : born[j] = born[k] => j = k
  /\ \A h : h \in alive <=> \E k \in 1..Len(born) : h = born[k]

\* Their entries are in the order they were made in.
TableInOrder == \A k \in 1..Len(born) : listeners[k - 1] = born[k]

\* Thread a is removing the oldest, and the entries below its place have moved.
RemovalInOrder(a) ==
  /\ 1 \in 1..Len(born) /\ ch[a].handler = born[1]
  /\ pos[a] <= Len(born) - 1
  /\ \A k \in 1..Len(born) :
       IF k - 1 < pos[a] THEN listeners[k - 1] = born[k + 1]
                         ELSE listeners[k - 1] = born[k]

OrderInv ==
  inOrder =>
    /\ BornAreAlive
    /\ LocksFree => TableInOrder
    /\ \A a \in Removing : RemovalInOrder(a)

\* A new handler is the youngest, and gets the slot after the others.
LEMMA CreateInOrder ==
  ASSUME Inv, OrderInv, NEW a \in Apps, NEW h \in Handlers, CreateHandler(a, h)
  PROVE  OrderInv'
<1> SUFFICES ASSUME inOrder' PROVE (BornAreAlive /\ TableInOrder /\ Removing = {})'
  BY DEF OrderInv
<1>0. TypeOK
  BY DEF Inv
<1>1. /\ inOrder /\ LocksFree /\ h \notin alive /\ alive' = alive \cup {h}
      /\ Len(born) < MAX_LISTENERS /\ born' = Append(born, h) /\ RegisterListener(h)
  BY DEF CreateHandler
<1>2. BornAreAlive /\ TableInOrder
  BY <1>1 DEF OrderInv
<1>3. born \in Seq(Handlers) /\ Len(born) \in Nat
  BY <1>0, LenProperties DEF TypeOK
<1>4. /\ Len(born') = Len(born) + 1
      /\ \A k \in 1..Len(born) : born'[k] = born[k]
      /\ born'[Len(born) + 1] = h
  BY <1>1, <1>3, AppendProperties
<1>5. /\ listeners' = [listeners EXCEPT ![Len(born)] = h]
      /\ listeners_count' = Len(born) + 1
  BY <1>1, <1>2 DEF RegisterListener, BornAreAlive
<1>6. Len(born) \in Slots /\ listeners \in [Slots -> Handlers \cup {NoHandler}]
  BY <1>0, <1>1, <1>3, ChannelsAssumption DEF Slots, TypeOK
<1>7. \A k \in 1..Len(born) : born[k] \in alive /\ k - 1 # Len(born) /\ k - 1 \in Slots
  <2>1. \A k \in 1..Len(born) : born[k] \in alive
    BY <1>2 DEF BornAreAlive
  <2>2. \A k \in 1..Len(born) : k - 1 # Len(born) /\ k - 1 \in Slots
    BY <1>1, <1>3, ChannelsAssumption DEF Slots
  <2> QED
    BY <2>1, <2>2
<1>8. TableInOrder'
  <2>1. listeners'[Len(born) + 1 - 1] = h
    BY <1>3, <1>5, <1>6
  <2>2. \A k \in 1..Len(born) : listeners'[k - 1] = born[k]
    BY <1>2, <1>5, <1>6, <1>7 DEF TableInOrder
  <2> QED
    BY <1>3, <1>4, <2>1, <2>2 DEF TableInOrder
<1>9. BornAreAlive'
  <2>1. \A j, k \in 1..Len(born') : born'[j] = born'[k] => j = k
    BY <1>1, <1>2, <1>3, <1>4, <1>7 DEF BornAreAlive
  <2>2. \A x : x \in alive' <=> \E k \in 1..Len(born') : x = born'[k]
    BY <1>1, <1>2, <1>3, <1>4 DEF BornAreAlive
  <2> QED
    BY <1>4, <1>5, <2>1, <2>2 DEF BornAreAlive
<1>10. Removing' = {}
  BY <1>0, <1>1 DEF CreateHandler, Goto, TypeOK, LocksFree, Removing
<1> QED
  BY <1>8, <1>9, <1>10

\* A removal begins at slot 0, whose entry is that of the oldest.
LEMMA DeleteInOrder ==
  ASSUME Inv, OrderInv, NEW a \in Apps, DeleteChannel(a)
  PROVE  OrderInv'
<1> SUFFICES ASSUME inOrder'
             PROVE  (BornAreAlive /\ RemovalInOrder(a) /\ Removing = {a})'
  BY DEF OrderInv, LocksFree
<1>0. TypeOK
  BY DEF Inv
<1>1. /\ inOrder /\ LocksFree /\ born' = born /\ ch'[a].handler = born[1]
      /\ ch'[a] = channels[IndexOf(ch[a].id)] /\ ch[a].id \in ChannelIds
      /\ pos'[a] = 0 /\ UNCHANGED <<listeners, listeners_count, alive>>
  BY <1>0 DEF DeleteChannel, TypeOK, tables, objects
<1>2. BornAreAlive /\ TableInOrder
  BY <1>1 DEF OrderInv
<1>3. Len(born) \in Nat
  BY <1>0, LenProperties DEF TypeOK
<1>4. 1 \in 1..Len(born)
  <2>1. ch'[a].handler \in alive
    BY <1>0, <1>1, Found DEF Inv, TypeOK, ChannelsHaveHandlers, OpenHandlers
  <2>2. PICK k \in 1..Len(born) : ch'[a].handler = born[k]
    BY <1>2, <2>1 DEF BornAreAlive
  <2> QED
    BY <1>3, <2>2
<1>5. BornAreAlive'
  BY <1>1, <1>2 DEF BornAreAlive
<1>6. RemovalInOrder(a)'
  BY <1>1, <1>2, <1>3, <1>4 DEF RemovalInOrder, TableInOrder
<1>7. Removing' = {a}
  BY <1>0, <1>1 DEF DeleteChannel, Goto, TypeOK, LocksFree, Removing
<1> QED
  BY <1>5, <1>6, <1>7

\* A turn of its loop moves the next entry.
LEMMA ShiftInOrder ==
  ASSUME Inv, OrderInv, NEW a \in Apps, ShiftListener(a)
  PROVE  OrderInv'
<1> SUFFICES ASSUME inOrder
             PROVE  (BornAreAlive /\ RemovalInOrder(a) /\ Removing = {a})'
  BY DEF OrderInv, LocksFree, ShiftListener, history
<1>0. TypeOK
  BY DEF Inv
<1>1. /\ a \in Removing /\ Removing = {a} /\ Removing' = Removing
      /\ UNCHANGED <<listeners_count, alive, born, ch>>
  BY DEF ShiftListener, Removing, Inv, RemoverHoldsEntry, objects, history
<1>2. BornAreAlive /\ RemovalInOrder(a)
  BY <1>1 DEF OrderInv
<1> DEFINE n == Len(born)
           p == pos[a]
<1>3. n \in Nat /\ p \in Nat
  BY <1>0, LenProperties DEF TypeOK
<1>4. /\ p < n - 1 /\ pos'[a] = p + 1
      /\ listeners' = [listeners EXCEPT ![p] = listeners[p + 1]]
  BY <1>0, <1>2 DEF ShiftListener, TypeOK, BornAreAlive
<1>5. n <= MAX_LISTENERS /\ listeners \in [Slots -> Handlers \cup {NoHandler}]
  BY <1>0, <1>2 DEF TypeOK, BornAreAlive
<1>6. \A k \in 1..n : k - 1 \in Slots
  BY <1>3, <1>5, ChannelsAssumption DEF Slots
<1>7. \A k \in 1..n : IF k - 1 < p THEN listeners[k - 1] = born[k + 1]
                                  ELSE listeners[k - 1] = born[k]
  BY <1>2 DEF RemovalInOrder
<1> HIDE DEF n, p
<1>8. \A k \in 1..n : IF k - 1 < p + 1 THEN listeners'[k - 1] = born[k + 1]
                                      ELSE listeners'[k - 1] = born[k]
  <2> SUFFICES ASSUME NEW k \in 1..n
               PROVE  IF k - 1 < p + 1 THEN listeners'[k - 1] = born[k + 1]
                                       ELSE listeners'[k - 1] = born[k]
    OBVIOUS
  <2>1. CASE k - 1 = p
    <3>1. k + 1 \in 1..n /\ ~(k + 1 - 1 < p) /\ k + 1 - 1 = p + 1 /\ k - 1 < p + 1
      BY <1>3, <1>4, <2>1
    <3>2. listeners[p + 1] = born[k + 1]
      BY <1>7, <3>1
    <3>3. listeners'[k - 1] = listeners[p + 1]
      BY <1>4, <1>5, <1>6, <2>1
    <3> QED
      BY <3>1, <3>2, <3>3
  <2>2. CASE k - 1 # p
    <3>1. listeners'[k - 1] = listeners[k - 1]
      BY <1>4, <1>5, <1>6, <2>2
    <3>2. k - 1 < p + 1 <=> k - 1 < p
      BY <1>3, <2>2
    <3> QED
      BY <1>7, <3>1, <3>2
  <2> QED
    BY <2>1, <2>2
<1>9. RemovalInOrder(a)'
  <2>1. 1 \in 1..n /\ ch[a].handler = born[1]
    BY <1>2 DEF RemovalInOrder, n
  <2>2. p + 1 <= n - 1
    BY <1>3, <1>4
  <2>3. Len(born') = n /\ born' = born /\ ch' = ch /\ pos'[a] = p + 1
    BY <1>1, <1>4 DEF n
  <2> QED
    BY <1>8, <2>1, <2>2, <2>3 DEF RemovalInOrder
<1>10. BornAreAlive'
  BY <1>1, <1>2 DEF BornAreAlive
<1> QED
  BY <1>1, <1>9, <1>10

\* Its end leaves the entries of the others, in their order.
LEMMA EndInOrder ==
  ASSUME Inv, OrderInv, NEW a \in Apps, EndDelete(a)
  PROVE  OrderInv'
<1> SUFFICES ASSUME inOrder PROVE (BornAreAlive /\ TableInOrder /\ Removing = {})'
  BY DEF OrderInv, EndDelete, Deleted
<1>0. TypeOK
  BY DEF Inv
<1>1. a \in Removing /\ Removing = {a}
  BY DEF EndDelete, Deleted, Removing, Inv, RemoverHoldsEntry
<1>2. BornAreAlive /\ RemovalInOrder(a)
  BY <1>1 DEF OrderInv
<1>3. born \in Seq(Handlers) /\ Len(born) \in Nat /\ pos[a] \in Nat
  BY <1>0, LenProperties DEF TypeOK
<1>4. /\ 1 \in 1..Len(born) /\ pos[a] = Len(born) - 1
      /\ alive' = alive \ {born[1]}
      /\ listeners_count' = Len(born) - 1 /\ listeners' = listeners
      /\ born' = SubSeq(born, 2, Len(born))
  BY <1>2, <1>3 DEF EndDelete, Deleted, RemovalInOrder, BornAreAlive
<1>5. /\ Len(born') = Len(born) - 1
      /\ \A k \in 1..(Len(born) - 1) : born'[k] = born[k + 1]
  BY <1>3, <1>4, RestOf
<1>6. TableInOrder'
  <2> SUFFICES ASSUME NEW k \in 1..(Len(born) - 1)
               PROVE  listeners[k - 1] = born[k + 1]
    BY <1>4, <1>5 DEF TableInOrder
  <2>1. k \in 1..Len(born) /\ k - 1 < pos[a]
    BY <1>3, <1>4
  <2> QED
    BY <1>2, <2>1 DEF RemovalInOrder
<1>7. BornAreAlive'
  <2>1. \A j, k \in 1..Len(born') : born'[j] = born'[k] => j = k
    BY <1>2, <1>3, <1>5 DEF BornAreAlive
  <2>2. ASSUME NEW x
        PROVE  x \in alive' <=> \E k \in 1..Len(born') : x = born'[k]
    <3>1. ASSUME x \in alive' PROVE \E k \in 1..Len(born') : x = born'[k]
      <4>1. PICK k \in 1..Len(born) : x = born[k]
        BY <1>2, <1>4, <3>1 DEF BornAreAlive
      <4>2. k # 1
        BY <1>4, <3>1, <4>1
      <4>3. k - 1 \in 1..(Len(born) - 1) /\ k - 1 + 1 = k
        BY <1>3, <4>2
      <4> QED
        BY <1>5, <4>1, <4>3
    <3>2. ASSUME NEW k \in 1..Len(born'), x = born'[k] PROVE x \in alive'
      <4>1. k + 1 \in 1..Len(born) /\ k + 1 # 1 /\ x = born[k + 1]
        BY <1>3, <1>5, <3>2
      <4>2. x \in alive /\ x # born[1]
        BY <1>2, <1>4, <4>1 DEF BornAreAlive
      <4> QED
        BY <1>4, <4>2
    <3> QED
      BY <3>1, <3>2
  <2> QED
    BY <1>4, <1>5, <2>1, <2>2 DEF BornAreAlive
<1>8. Removing' = {}
  BY <1>0, <1>1 DEF EndDelete, Deleted, Return, Goto, TypeOK, Removing
<1> QED
  BY <1>6, <1>7, <1>8

\* Every other step leaves all this alone.
LEMMA StepInOrder == Inv /\ OrderInv /\ [Next]_vars => OrderInv'
<1> SUFFICES ASSUME Inv, OrderInv, [Next]_vars PROVE OrderInv'
  OBVIOUS
<1>0. TypeOK
  BY DEF Inv
<1>1. ASSUME UNCHANGED <<inOrder, born, alive, listeners, listeners_count>>,
             Removing' = Removing,
             \A b \in Removing : pos'[b] = pos[b] /\ ch'[b] = ch[b]
      PROVE  OrderInv'
  BY <1>1 DEF OrderInv, BornAreAlive, TableInOrder, RemovalInOrder, LocksFree
<1>2. ASSUME NEW a \in Apps, AppStep(a), ~(\E h \in Handlers : CreateHandler(a, h)),
             ~DeleteChannel(a), ~ShiftListener(a), ~EndDelete(a)
      PROVE  OrderInv'
  <2>1. UNCHANGED <<inOrder, born, alive, listeners, listeners_count>>
    BY <1>2 DEF AppStep, Connect, LoadCounter, StoreCounter, ConnectHandler, ConnectFails,
       AddChannel, TooManyChannels, FindChannel, UseHandler, DisconnectHandler,
       AlreadyDeleted, tables, objects, history
  <2>2. /\ pc[a] # "remove" /\ pc'[a] # "remove"
        /\ \A b \in Apps \ {a} : pc'[b] = pc[b] /\ ch'[b] = ch[b] /\ pos'[b] = pos[b]
    BY <1>0, <1>2 DEF AppStep, Connect, LoadCounter, StoreCounter, ConnectHandler,
       ConnectFails, AddChannel, TooManyChannels, FindChannel, UseHandler,
       DisconnectHandler, AlreadyDeleted, Goto, Return, TypeOK
  <2>3. Removing' = Removing /\ a \notin Removing
    BY <2>2 DEF Removing
  <2>4. \A b \in Removing : pos'[b] = pos[b] /\ ch'[b] = ch[b]
    BY <2>2, <2>3 DEF Removing
  <2> QED
    BY <1>1, <2>1, <2>3, <2>4
<1>3. ASSUME MsgReceived \/ UNCHANGED vars PROVE OrderInv'
  <2>1. UNCHANGED <<inOrder, born, alive, listeners, listeners_count, pc, ch, pos>>
    BY <1>3 DEF MsgReceived, MsgArrives, Arrives, NextListener, CallListener, MsgDone,
       WalkEnds, vars, tables, objects, history, calls
  <2> QED
    BY <1>1, <2>1 DEF Removing
<1> QED
  BY <1>2, <1>3, CreateInOrder, DeleteInOrder, ShiftInOrder, EndInOrder
  DEF Next, AppStep

\* For any number of threads and slots, whatever fails and however calls
\* overlap: as long as the oldest channel is closed first, and the table has
\* room for every handler, no open channel loses its entry and no entry is left
\* to a handler that is gone, at any step of a removal.
THEOREM OrderedClosesAreSafe == Spec => []OrderedClosesKeepListeners
<1>1. Init => OrderInv
  BY EmptySeq DEF Init, OrderInv, BornAreAlive, TableInOrder, Removing
<1>2. Inv /\ OrderInv => OrderedClosesKeepListeners
  <2> SUFFICES ASSUME Inv, OrderInv, inOrder
               PROVE  /\ OpenHandlers \ {ch[a].handler : a \in Removing} \subseteq Registered
                      /\ Registered \subseteq alive
    BY DEF OrderedClosesKeepListeners
  <2>0. BornAreAlive /\ OpenHandlers \subseteq alive /\ Len(born) \in Nat
    BY LenProperties DEF OrderInv, Inv, TypeOK, ChannelsHaveHandlers
  <2>1. \A k \in 1..Len(born) : k - 1 \in Slots /\ k - 1 < listeners_count
    BY <2>0, ChannelsAssumption DEF Slots, BornAreAlive, Inv, TypeOK
  <2>2. ASSUME NEW s \in Slots, s < listeners_count
        PROVE  \E k \in 1..Len(born) : s = k - 1
    <3>1. s \in Nat /\ s < Len(born)
      BY <2>0, <2>2, ChannelsAssumption DEF Slots, BornAreAlive
    <3>2. \E k \in 1..Len(born) : k = s + 1
      BY <2>0, <3>1
    <3>3. PICK k \in 1..Len(born) : k = s + 1
      BY <3>2
    <3>4. s = k - 1
      BY <3>1, <3>3
    <3> QED
      BY <3>4
  <2>3. CASE LocksFree
    <3>1. TableInOrder
      BY <2>3 DEF OrderInv
    <3>2. \A k \in 1..Len(born) : born[k] \in Registered
      BY <2>1, <3>1 DEF TableInOrder, Registered
    <3>3. ASSUME NEW s \in Slots, s < listeners_count PROVE listeners[s] \in alive
      <4>1. PICK k \in 1..Len(born) : s = k - 1
        BY <2>2, <3>3
      <4>2. listeners[s] = born[k]
        BY <3>1, <4>1 DEF TableInOrder
      <4> QED
        BY <2>0, <4>2 DEF BornAreAlive
    <3> QED
      BY <2>0, <3>2, <3>3 DEF BornAreAlive, Registered
  <2>4. CASE ~LocksFree
    <3>1. PICK a \in Removing : RemovalInOrder(a)
      BY <2>4 DEF OrderInv, LocksFree
    <3>2. pos[a] \in Nat /\ pos[a] <= Len(born) - 1
      BY <3>1 DEF Removing, Inv, TypeOK, RemovalInOrder
    <3>3. ASSUME NEW k \in 1..Len(born), k # 1 PROVE born[k] \in Registered
      <4>1. k - 1 \in 1..Len(born) /\ k - 1 + 1 = k
        BY <2>0, <3>3
      <4>2. CASE k - 1 < pos[a]
        <5>1. k - 1 - 1 < pos[a]
          BY <3>2, <4>2
        <5>2. listeners[k - 1 - 1] = born[k]
          BY <3>1, <4>1, <5>1 DEF RemovalInOrder
        <5> QED
          BY <2>1, <4>1, <5>2 DEF Registered
      <4>3. CASE ~(k - 1 < pos[a])
        BY <2>1, <3>1, <4>3 DEF RemovalInOrder, Registered
      <4> QED
        BY <4>2, <4>3
    <3>4. ASSUME NEW s \in Slots, s < listeners_count PROVE listeners[s] \in alive
      <4>1. PICK k \in 1..Len(born) : s = k - 1
        BY <2>2, <3>4
      <4>2. CASE s < pos[a]
        <5>1. listeners[s] = born[k + 1]
          BY <3>1, <4>1, <4>2 DEF RemovalInOrder
        <5>2. k + 1 \in 1..Len(born)
          BY <2>0, <3>2, <4>1, <4>2
        <5> QED
          BY <2>0, <5>1, <5>2 DEF BornAreAlive
      <4>3. CASE ~(s < pos[a])
        <5>1. listeners[s] = born[k]
          BY <3>1, <4>1, <4>3 DEF RemovalInOrder
        <5> QED
          BY <2>0, <5>1 DEF BornAreAlive
      <4> QED
        BY <4>2, <4>3
    <3>5. ch[a].handler = born[1]
      BY <3>1 DEF RemovalInOrder
    <3>6. \A h \in OpenHandlers \ {born[1]} : h \in Registered
      BY <2>0, <3>3 DEF BornAreAlive
    <3> QED
      BY <3>4, <3>5, <3>6 DEF Registered
  <2> QED
    BY <2>3, <2>4
<1> QED
  BY <1>1, <1>2, StepInOrder, Invariance, PTL DEF Spec

-----------------------------------------------------------------------------
(* The walk under removals.                                                *)

\* x is one of the n + 1 entries from slot k on of the table q, if it had so
\* many.
Within(q, x, k, n) == k + n < Len(q) => \E s \in 0..n : x = q[k + s + 1]

\* One of them is in C.
Heard(q, C, k, n) == k + n < Len(q) => \E s \in 0..n : q[k + s + 1] \in C

\* Removals that have taken their entry, and those that have moved slot k.
Finished == IF LocksFree THEN removals ELSE removals - 1
ShiftedBy(k) == IF \E a \in Removing : k >= pos[a] THEN removals - 1 ELSE removals

\* What the slots hold, what is called and what has been called comes from
\* the table at arrival, from as many slots further down as there were removals.
WalkInv ==
  /\ walk = "idle" => target = NoHandler
  /\ walk = "walking" =>
       /\ ~LocksFree => removals >= 1
       /\ listeners_count >= Len(arrived) - Finished \/ Len(arrived) <= Finished
       /\ \A k \in Slots : Within(arrived, listeners[k], k, ShiftedBy(k))
       /\ \A k \in Nat : k < i => Heard(arrived, called, k, removals)
       /\ target # NoHandler => Within(arrived, target, i, removals)

\* More neighbours, and those of the next slot, include these.
LEMMA Wider ==
  ASSUME NEW q, NEW x, NEW C, NEW k \in Nat, NEW n \in Nat, Len(q) \in Nat
  PROVE  /\ Within(q, x, k, n) => Within(q, x, k, n + 1)
         /\ Heard(q, C, k, n) => Heard(q, C, k, n + 1)
         /\ Within(q, x, k + 1, n) => Within(q, x, k, n + 1)
<1>0. (k + (n + 1) < Len(q) => k + n < Len(q)) /\ 0..n \subseteq 0..(n + 1)
  OBVIOUS
<1>1. ASSUME Within(q, x, k, n) PROVE Within(q, x, k, n + 1)
  <2> SUFFICES ASSUME k + (n + 1) < Len(q)
               PROVE  \E t \in 0..(n + 1) : x = q[k + t + 1]
    BY DEF Within
  <2>1. PICK s \in 0..n : x = q[k + s + 1]
    BY <1>0, <1>1 DEF Within
  <2> QED
    BY <1>0, <2>1
<1>2. ASSUME Heard(q, C, k, n) PROVE Heard(q, C, k, n + 1)
  <2> SUFFICES ASSUME k + (n + 1) < Len(q)
               PROVE  \E t \in 0..(n + 1) : q[k + t + 1] \in C
    BY DEF Heard
  <2>1. PICK s \in 0..n : q[k + s + 1] \in C
    BY <1>0, <1>2 DEF Heard
  <2> QED
    BY <1>0, <2>1
<1>3. ASSUME Within(q, x, k + 1, n) PROVE Within(q, x, k, n + 1)
  <2> SUFFICES ASSUME k + (n + 1) < Len(q)
               PROVE  \E t \in 0..(n + 1) : x = q[k + t + 1]
    BY DEF Within
  <2>1. PICK s \in 0..n : x = q[k + 1 + s + 1]
    BY <1>3 DEF Within
  <2>2. s + 1 \in 0..(n + 1) /\ k + (s + 1) + 1 = k + 1 + s + 1
    OBVIOUS
  <2> QED
    BY <2>1, <2>2
<1> QED
  BY <1>1, <1>2, <1>3

\* What the numbers are.
LEMMA WalkTypes ==
  ASSUME Inv
  PROVE  /\ Len(arrived) \in Nat /\ removals \in Nat /\ i \in Nat
         /\ listeners_count \in Int
         /\ listeners \in [Slots -> Handlers \cup {NoHandler}]
         /\ Slots \subseteq Nat
  BY LenProperties, ChannelsAssumption DEF Inv, TypeOK, Slots

\* A new entry is beyond those of the table at arrival.
LEMMA CreateWalk ==
  ASSUME Inv, WalkInv, NEW a \in Apps, NEW h \in Handlers, CreateHandler(a, h)
  PROVE  WalkInv'
<1>1. /\ LocksFree /\ RegisterListener(h)
      /\ UNCHANGED <<pos, walk, i, target, called, arrived, removals>>
  BY DEF CreateHandler, delivery
<1>2. Removing = {} /\ Removing' = {}
  BY <1>1 DEF CreateHandler, Goto, Inv, TypeOK, LocksFree, Removing
<1>3. /\ LocksFree' /\ Finished = removals /\ Finished' = removals
      /\ \A k : ShiftedBy(k) = removals /\ ShiftedBy(k)' = removals
  BY <1>1, <1>2 DEF LocksFree, Finished, ShiftedBy
<1> SUFFICES ASSUME walk = "walking"
             PROVE  /\ listeners_count' >= Len(arrived) - removals \/ Len(arrived) <= removals
                    /\ \A k \in Slots : Within(arrived, listeners'[k], k, removals)
  BY <1>1, <1>3 DEF WalkInv
<1>4. /\ listeners_count >= Len(arrived) - removals \/ Len(arrived) <= removals
      /\ \A k \in Slots : Within(arrived, listeners[k], k, removals)
  BY <1>3 DEF WalkInv
<1>5. /\ listeners_count' >= listeners_count
      /\ \A k \in Slots : k # listeners_count => listeners'[k] = listeners[k]
  BY <1>1, WalkTypes DEF RegisterListener
<1>6. listeners_count' >= Len(arrived) - removals \/ Len(arrived) <= removals
  <2>1. listeners_count' \in Int
    BY <1>1, WalkTypes DEF RegisterListener
  <2> QED
    BY <1>4, <1>5, <2>1, WalkTypes
<1>7. ASSUME NEW k \in Slots PROVE Within(arrived, listeners'[k], k, removals)
  <2>1. CASE k = listeners_count
    BY <1>4, <2>1, WalkTypes DEF Within
  <2>2. CASE k # listeners_count
    BY <1>4, <1>5, <2>2
  <2> QED
    BY <2>1, <2>2
<1> QED
  BY <1>6, <1>7

\* A removal that begins has moved nothing yet.
LEMMA DeleteWalk ==
  ASSUME Inv, WalkInv, NEW a \in Apps, DeleteChannel(a)
  PROVE  WalkInv'
<1>1. /\ LocksFree /\ pos' = [pos EXCEPT ![a] = 0]
      /\ UNCHANGED <<listeners, listeners_count, walk, i, target, called, arrived>>
      /\ removals' = IF walk = "walking" THEN removals + 1 ELSE removals
  BY DEF DeleteChannel, tables
<1> SUFFICES ASSUME walk = "walking" PROVE WalkInv'
  BY <1>1 DEF WalkInv
<1>2. Removing = {} /\ Removing' = {a} /\ pos'[a] = 0
  BY <1>1 DEF DeleteChannel, Goto, Inv, TypeOK, LocksFree, Removing
<1>3. /\ removals' = removals + 1 /\ removals \in Nat
      /\ Finished = removals /\ Finished' = removals /\ ~LocksFree'
      /\ \A k \in Slots : ShiftedBy(k) = removals /\ ShiftedBy(k)' = removals
  <2>1. removals' = removals + 1 /\ removals \in Nat /\ Slots \subseteq Nat
    BY <1>1, WalkTypes
  <2>2. Finished = removals /\ Finished' = removals /\ ~LocksFree'
    BY <1>2, <2>1 DEF LocksFree, Finished
  <2>3. \A k \in Slots : ShiftedBy(k) = removals /\ ShiftedBy(k)' = removals
    BY <1>2, <2>1 DEF ShiftedBy
  <2> QED
    BY <2>1, <2>2, <2>3
<1>4. \A k \in Nat : k < i => Heard(arrived, called, k, removals + 1)
  BY <1>3, Wider, WalkTypes DEF WalkInv
<1>5. target # NoHandler => Within(arrived, target, i, removals + 1)
  BY <1>3, Wider, WalkTypes DEF WalkInv
<1>6. removals' >= 1
  BY <1>3
<1> QED
  BY <1>1, <1>3, <1>4, <1>5, <1>6 DEF WalkInv

\* A slot that is moved gets the neighbour of its old entry.
LEMMA ShiftWalk ==
  ASSUME Inv, WalkInv, NEW a \in Apps, ShiftListener(a)
  PROVE  WalkInv'
<1> DEFINE p == pos[a]
<1>1. /\ UNCHANGED <<pc, listeners_count, walk, i, target, called, arrived, removals>>
      /\ listeners' = [listeners EXCEPT ![p] = listeners[p + 1]]
      /\ pos' = [pos EXCEPT ![a] = @ + 1] /\ p < listeners_count - 1
      /\ Removing = {a} /\ Removing' = {a} /\ p \in Nat /\ pos'[a] = p + 1
  BY DEF ShiftListener, delivery, Removing, Inv, TypeOK, RemoverHoldsEntry
<1> SUFFICES ASSUME walk = "walking" PROVE WalkInv'
  BY <1>1 DEF WalkInv
<1>2. p \in Slots /\ p + 1 \in Slots
  BY <1>1, ChannelsAssumption DEF Slots, Inv, TypeOK
<1> HIDE DEF p
<1>3. LocksFree' = LocksFree /\ Finished' = Finished /\ ~LocksFree
  BY <1>1 DEF LocksFree, Finished
<1>4. removals >= 1 /\ removals \in Nat
  BY <1>3, WalkTypes DEF WalkInv
<1>5. ASSUME NEW k \in Slots PROVE Within(arrived, listeners'[k], k, ShiftedBy(k)')
  <2>0. k \in Nat
    BY WalkTypes
  <2>1. CASE k = p
    <3>1. ShiftedBy(k)' = removals
      BY <1>1, <2>1 DEF ShiftedBy
    <3>2. ShiftedBy(p + 1) = removals - 1
      BY <1>1 DEF ShiftedBy, p
    <3>3. listeners'[k] = listeners[p + 1]
      BY <1>1, <1>2, <2>1, WalkTypes
    <3>4. Within(arrived, listeners[p + 1], p + 1, removals - 1)
      BY <1>2, <3>2 DEF WalkInv
    <3>5. removals - 1 \in Nat /\ removals - 1 + 1 = removals
      BY <1>4
    <3>6. Within(arrived, listeners[p + 1], p, removals)
      BY <1>1, <3>4, <3>5, Wider, WalkTypes
    <3> QED
      BY <2>1, <3>1, <3>3, <3>6
  <2>2. CASE k # p
    <3>1. ShiftedBy(k)' = ShiftedBy(k)
      BY <1>1, <2>0, <2>2 DEF ShiftedBy, p
    <3>2. listeners'[k] = listeners[k]
      BY <1>1, <1>2, <2>2, WalkTypes
    <3> QED
      BY <3>1, <3>2 DEF WalkInv
  <2> QED
    BY <2>1, <2>2
<1> QED
  BY <1>1, <1>3, <1>5 DEF WalkInv

\* The end of a removal: every slot that is left has been moved, or is one of
\* the last.
LEMMA EndWalk ==
  ASSUME Inv, WalkInv, NEW a \in Apps, EndDelete(a)
  PROVE  WalkInv'
<1>1. /\ UNCHANGED <<listeners, walk, i, target, called, arrived, removals>>
      /\ listeners_count' = listeners_count - 1
      /\ Removing = {a} /\ Removing' = {}
  BY DEF EndDelete, Deleted, Return, Goto, delivery, Removing, Inv, TypeOK,
         RemoverHoldsEntry
<1> SUFFICES ASSUME walk = "walking" PROVE WalkInv'
  BY <1>1 DEF WalkInv
<1>2. ~LocksFree /\ LocksFree' /\ Finished = removals - 1 /\ Finished' = removals
  BY <1>1 DEF LocksFree, Finished
<1>3. removals >= 1 /\ removals \in Nat
  BY <1>2, WalkTypes DEF WalkInv
<1>4. listeners_count' >= Len(arrived) - Finished' \/ Len(arrived) <= Finished'
  BY <1>1, <1>2, <1>3, WalkTypes DEF WalkInv
<1>5. ASSUME NEW k \in Slots PROVE Within(arrived, listeners[k], k, ShiftedBy(k)')
  <2>0. k \in Nat /\ ShiftedBy(k)' = removals
    BY <1>1, WalkTypes DEF ShiftedBy
  <2>1. CASE ShiftedBy(k) = removals
    BY <2>0, <2>1 DEF WalkInv
  <2>2. CASE ShiftedBy(k) = removals - 1
    <3>1. removals - 1 \in Nat /\ removals - 1 + 1 = removals
      BY <1>3
    <3>2. Within(arrived, listeners[k], k, removals - 1)
      BY <2>2 DEF WalkInv
    <3> QED
      BY <2>0, <3>1, <3>2, Wider, WalkTypes
  <2> QED
    BY <2>1, <2>2 DEF ShiftedBy
<1> QED
  BY <1>1, <1>2, <1>4, <1>5 DEF WalkInv

\* A message arrives: the table is what it is, an entry moved by a removal
\* under way included.
LEMMA ArriveWalk == Inv /\ WalkInv /\ MsgArrives => WalkInv'
<1> SUFFICES ASSUME Inv, WalkInv, MsgArrives PROVE WalkInv'
  OBVIOUS
<1>1. /\ UNCHANGED <<pc, pos, listeners, listeners_count, target>> /\ walk = "idle"
      /\ walk' = "walking" /\ i' = 0
      /\ arrived' = [k \in 1..listeners_count |-> listeners[k - 1]]
      /\ removals' = IF LocksFree THEN 0 ELSE 1
  BY DEF MsgArrives, Arrives, tables, calls
<1>2. target' = NoHandler
  BY <1>1 DEF WalkInv
<1>3. LocksFree' = LocksFree /\ Removing' = Removing /\ Finished' = 0
  BY <1>1 DEF LocksFree, Removing, Finished
<1>4. /\ Len(arrived') = IF listeners_count < 0 THEN 0 ELSE listeners_count
      /\ \A k \in 1..Len(arrived') : arrived'[k] = listeners[k - 1]
  BY <1>1, ArrivedType DEF Inv
<1>5. listeners_count' >= Len(arrived') - Finished' \/ Len(arrived') <= Finished'
  <2>1. listeners_count \in Int
    BY WalkTypes
  <2>2. CASE listeners_count < 0
    BY <1>3, <1>4, <2>2
  <2>3. CASE ~(listeners_count < 0)
    <3>1. Len(arrived') = listeners_count /\ Finished' = 0
      BY <1>3, <1>4, <2>3
    <3>2. listeners_count >= listeners_count - 0
      BY <2>1
    <3>3. listeners_count' >= Len(arrived') - Finished'
      BY <1>1, <3>1, <3>2, Zenon
    <3> QED
      BY <3>3
  <2> QED
    BY <2>2, <2>3
<1>6. ASSUME NEW k \in Slots PROVE Within(arrived', listeners'[k], k, ShiftedBy(k)')
  <2>1. ShiftedBy(k)' \in Nat
    BY <1>1, <1>3 DEF ShiftedBy, LocksFree
  <2>2. ASSUME k < Len(arrived') PROVE listeners'[k] = arrived'[k + 0 + 1]
    <3>1. k \in Nat /\ Len(arrived') \in Nat
      BY <1>4, WalkTypes
    <3>2. PICK m \in 1..Len(arrived') : m = k + 1
      BY <2>2, <3>1
    <3>3. m - 1 = k /\ k + 0 + 1 = m
      BY <3>1, <3>2
    <3> QED
      BY <1>1, <1>4, <3>2, <3>3
  <2>3. Len(arrived') \in Nat /\ k \in Nat
    BY <1>4, WalkTypes
  <2>4. k + ShiftedBy(k)' < Len(arrived') => k < Len(arrived')
    BY <2>1, <2>3
  <2>5. 0 \in 0..ShiftedBy(k)'
    BY <2>1
  <2> QED
    BY <2>2, <2>4, <2>5 DEF Within
<1>7. ~LocksFree' => removals' >= 1
  BY <1>1, <1>3
<1>8. \A k \in Nat : ~(k < i')
  BY <1>1
<1> QED
  BY <1>1, <1>2, <1>5, <1>6, <1>7, <1>8 DEF WalkInv

\* The walk takes the entry of its slot.
LEMMA TakeWalk == Inv /\ WalkInv /\ NextListener => WalkInv'
<1> SUFFICES ASSUME Inv, WalkInv, NextListener PROVE WalkInv'
  OBVIOUS
<1>1. /\ UNCHANGED <<pc, pos, listeners, listeners_count>>
      /\ UNCHANGED <<walk, i, called, arrived, removals>>
      /\ walk = "walking" /\ target' = listeners[i] /\ i < listeners_count
  BY DEF NextListener, tables, calls
<1>2. /\ LocksFree' = LocksFree /\ Finished' = Finished
      /\ \A k : ShiftedBy(k)' = ShiftedBy(k)
  BY <1>1 DEF LocksFree, Removing, Finished, ShiftedBy
<1>3. i \in Slots
  BY <1>1, ChannelsAssumption DEF Inv, TypeOK, Slots
<1>4. Within(arrived, listeners[i], i, removals)
  <2>1. CASE ShiftedBy(i) = removals
    BY <1>1, <1>3, <2>1 DEF WalkInv
  <2>2. CASE ShiftedBy(i) = removals - 1 /\ ~LocksFree
    <3>1. removals - 1 \in Nat /\ removals - 1 + 1 = removals
      BY <1>1, <2>2, WalkTypes DEF WalkInv
    <3>2. Within(arrived, listeners[i], i, removals - 1)
      BY <1>1, <1>3, <2>2 DEF WalkInv
    <3> QED
      BY <3>1, <3>2, Wider, WalkTypes
  <2> QED
    BY <2>1, <2>2 DEF ShiftedBy, LocksFree
<1> QED
  BY <1>1, <1>2, <1>4 DEF WalkInv

\* It calls the entry, and goes on.
LEMMA CallWalk == Inv /\ WalkInv /\ CallListener => WalkInv'
<1> SUFFICES ASSUME Inv, WalkInv, CallListener PROVE WalkInv'
  OBVIOUS
<1>1. /\ UNCHANGED <<pc, pos, listeners, listeners_count, walk, arrived, removals>>
      /\ walk = "walking" /\ target # NoHandler
      /\ called' = called \cup {target} /\ target' = NoHandler /\ i' = i + 1
  BY DEF CallListener, tables, calls
<1>2. /\ LocksFree' = LocksFree /\ Finished' = Finished
      /\ \A k : ShiftedBy(k)' = ShiftedBy(k)
  BY <1>1 DEF LocksFree, Removing, Finished, ShiftedBy
<1>3. ASSUME NEW k \in Nat, k < i + 1
      PROVE  Heard(arrived, called \cup {target}, k, removals)
  <2>1. CASE k < i
    <3>1. Heard(arrived, called, k, removals)
      BY <1>1, <2>1 DEF WalkInv
    <3> QED
      BY <3>1 DEF Heard
  <2>2. CASE k = i
    <3>1. Within(arrived, target, k, removals)
      BY <1>1, <2>2 DEF WalkInv
    <3> QED
      BY <3>1 DEF Within, Heard
  <2> QED
    BY <1>3, <2>1, <2>2, WalkTypes
<1> QED
  BY <1>1, <1>2, <1>3 DEF WalkInv

\* Every other step leaves the walk and its table alone.
LEMMA StepWalk == Inv /\ WalkInv /\ [Next]_vars => WalkInv'
<1> SUFFICES ASSUME Inv, WalkInv, [Next]_vars PROVE WalkInv'
  OBVIOUS
<1>0. TypeOK
  BY DEF Inv
<1>1. ASSUME UNCHANGED <<listeners, listeners_count>>, Removing' = Removing,
             UNCHANGED <<walk, i, target, called, arrived, removals>>,
             \A b \in Removing : pos'[b] = pos[b]
      PROVE  WalkInv'
  <2>1. /\ LocksFree' = LocksFree /\ Finished' = Finished
        /\ \A k : ShiftedBy(k)' = ShiftedBy(k)
    BY <1>1 DEF LocksFree, Finished, ShiftedBy
  <2> QED
    BY <1>1, <2>1 DEF WalkInv
<1>2. ASSUME NEW a \in Apps, AppStep(a), ~(\E h \in Handlers : CreateHandler(a, h)),
             ~DeleteChannel(a), ~ShiftListener(a), ~EndDelete(a)
      PROVE  WalkInv'
  <2>1. /\ UNCHANGED <<listeners, listeners_count>>
        /\ UNCHANGED <<walk, i, target, called, arrived, removals>>
    BY <1>2 DEF AppStep, Connect, LoadCounter, StoreCounter, ConnectHandler, ConnectFails,
       AddChannel, TooManyChannels, FindChannel, UseHandler, DisconnectHandler,
       AlreadyDeleted, tables, delivery
  <2>2. /\ pc[a] # "remove" /\ pc'[a] # "remove"
        /\ \A b \in Apps \ {a} : pc'[b] = pc[b] /\ pos'[b] = pos[b]
    BY <1>0, <1>2 DEF AppStep, Connect, LoadCounter, StoreCounter, ConnectHandler,
       ConnectFails, AddChannel, TooManyChannels, FindChannel, UseHandler,
       DisconnectHandler, AlreadyDeleted, Goto, Return, TypeOK
  <2>3. Removing' = Removing /\ a \notin Removing
    BY <2>2 DEF Removing
  <2>4. \A b \in Removing : pos'[b] = pos[b]
    BY <2>2, <2>3 DEF Removing
  <2> QED
    BY <1>1, <2>1, <2>3, <2>4
<1>3. ASSUME MsgDone PROVE WalkInv'
  BY <1>3 DEF MsgDone, WalkEnds, WalkInv
<1>4. ASSUME UNCHANGED vars PROVE WalkInv'
  BY <1>1, <1>4 DEF vars, tables, calls, delivery, Removing
<1> QED
  BY <1>2, <1>3, <1>4, CreateWalk, DeleteWalk, ShiftWalk, EndWalk, ArriveWalk, TakeWalk,
     CallWalk
  DEF Next, AppStep, MsgReceived

\* For tables of any size, and any number of removals and registrations while a
\* message is handed out: n removals make the walk miss n neighbours in a row
\* at most.
THEOREM NoNeighboursAllMissed == Spec => []NeighboursNotAllMissed
<1>1. Init => WalkInv
  BY DEF Init, WalkInv
<1>2. Inv /\ WalkInv => NeighboursNotAllMissed
  <2> SUFFICES ASSUME Inv, WalkInv, WalkEnds, NEW k \in 1..(Len(arrived) - removals)
               PROVE  \E j \in k..(k + removals) : arrived[j] \in called
    BY DEF NeighboursNotAllMissed
  <2>1. walk = "walking" /\ i >= listeners_count
    BY DEF WalkEnds
  <2>2. k \in Nat /\ k - 1 \in Nat /\ k - 1 + removals < Len(arrived)
    BY WalkTypes
  <2>3. Finished <= removals /\ Finished \in Int
    BY WalkTypes DEF Finished
  <2>4. k - 1 < i
    <3>1. listeners_count >= Len(arrived) - Finished \/ Len(arrived) <= Finished
      BY <2>1 DEF WalkInv
    <3> QED
      BY <2>1, <2>2, <2>3, <3>1, WalkTypes
  <2>5. Heard(arrived, called, k - 1, removals)
    BY <2>1, <2>2, <2>4 DEF WalkInv
  <2>6. PICK s \in 0..removals : arrived[k - 1 + s + 1] \in called
    BY <2>2, <2>5 DEF Heard
  <2>7. k + s \in k..(k + removals) /\ k - 1 + s + 1 = k + s
    BY <2>2, WalkTypes
  <2> QED
    BY <2>6, <2>7
<1> QED
  BY <1>1, <1>2, StepWalk, Invariance, PTL DEF Spec
=============================================================================
