--------------------------- MODULE Iso15765Proofs ---------------------------
(***************************************************************************)
(* The array of flow control filters stays in step with the filters the    *)
(* application has started, no two of these answer for the same sender,    *)
(* and a message put together from several frames has the length that the  *)
(* code expected from its first frame, for every number of slots, requests *)
(* and frames.                                                             *)
(*                                                                         *)
(* FilterInv says what the array holds while StopMsgFilter shifts it: the  *)
(* slot it is at is a hole, and the others hold the filters that are left. *)
(* SessionInv says why the duplicates DeleteSession leaves behind do no    *)
(* harm to the lengths: of several entries for one message the search      *)
(* finds the first, and the first is the one that has been counted.        *)
(***************************************************************************)
EXTENDS Iso15765, FiniteSetTheorems, TLAPS

Filter == [pattern : [1..5 -> Bytes], mask : SUBSET (1..5), fc : [1..5 -> Bytes],
           ext : BOOLEAN, len : {4, 5, 12}, id : Nat]

SessionType == [msg : Nat, payloadLen : Nat, expected_length : Nat]

\* Every variable has its type.
FilterTypes ==
  /\ filtersnum \in Nat /\ filtersnum <= MAX_FLOW_FILTERS
  /\ filters \in [Slots -> Filter \cup {Unset}]
  /\ runningFilterId \in Nat
  /\ apc \in {"idle", "publish", "shift"} /\ slot \in Nat
  /\ started \subseteq Filter

SessionTypes ==
  /\ sessions \in Seq(SessionType)
  /\ heap \in Seq(Seq(Bytes))
  /\ firsts \in Seq(Frames) /\ Len(firsts) = Len(heap)
  /\ cpc \in {"idle", "answer"}
  /\ cpc = "answer" =>
       frame \in Frames /\ Len(frame) >= 5 /\ filteridx \in {0, 1}
  /\ assembled \in Seq(Nat)

\* The slots that hold a filter the application has started.
Held == {k \in 0..(filtersnum - 1) : apc = "shift" => k # slot}

\* The new filter, which Publish will make one of those started.
Fresh(g) ==
  \A f \in started :
    /\ f.id < g.id /\ f.ext = g.ext
    /\ \A field \in {"pattern", "fc"} :
         ~Matches(g.pattern, f, field) /\ ~Matches(g.fc, f, field)

FilterInv ==
  /\ FilterTypes
  /\ started = {filters[k] : k \in Held}
  /\ \A j, k \in Held : j < k => filters[j].id < filters[k].id
  /\ \A f \in started : f.id < runningFilterId
  /\ apc = "shift" => slot < filtersnum
  /\ apc = "publish" =>
       /\ filtersnum \in Slots
       /\ filters[filtersnum] \in Filter
       /\ filters[filtersnum].id < runningFilterId
       /\ Fresh(filters[filtersnum])
  /\ FiltersApart

GivenAway == {assembled[k] : k \in DOMAIN assembled}

\* No entry before this one is for the same message.
FirstEntry(k) == \A j \in 1..(k - 1) : sessions[j].msg # sessions[k].msg

\* What a session has counted is what its message holds.
Counted(s) ==
  /\ Len(heap[s.msg]) = s.payloadLen
  /\ s.expected_length = Expected(firsts[s.msg])
  /\ \/ s.payloadLen = Len(firsts[s.msg]) - 2
     \/ /\ Len(firsts[s.msg]) - 2 <= s.payloadLen
        /\ s.payloadLen <= s.expected_length

SessionInv ==
  /\ SessionTypes
  /\ \A k \in DOMAIN sessions : sessions[k].msg \in 0..Len(heap)
  /\ GivenAway \subseteq 1..Len(heap)
  /\ \A k \in DOMAIN sessions :
       FirstEntry(k) /\ sessions[k].msg \notin GivenAway \cup {NULL} =>
         Counted(sessions[k])
  /\ AssembledToExpectedLength

-----------------------------------------------------------------------------
(* The filters.                                                            *)

\* A filter that neither address of the request is known to is told apart
\* from all of those in the array.
LEMMA UniqueIsFresh ==
  ASSUME IsoAssumption, FilterInv, apc = "idle", NEW q \in Requests, Unique(q)
  PROVE  Fresh(NewFilter(q, runningFilterId))
<1> DEFINE g == NewFilter(q, runningFilterId)
<1>1. ASSUME NEW k \in 0..(filtersnum - 1), NEW field \in {"pattern", "fc"}
      PROVE  /\ filters[k].ext = q.ext
             /\ ~Matches(q.pattern, filters[k], field)
             /\ ~Matches(q.fc, filters[k], field)
  <2>1. ~DoesMatchFilter(q.pattern, q.patternExt, field)
        /\ ~DoesMatchFilter(q.fc, q.ext, field)
    BY DEF Unique
  <2>2. QED
    BY <2>1 DEF DoesMatchFilter, GetMatchingFilter
<1>2. g.id = runningFilterId /\ g.ext = q.ext /\ g.pattern = q.pattern /\ g.fc = q.fc
  BY DEF NewFilter
<1> HIDE DEF g
<1>3. ASSUME NEW f \in started
      PROVE  /\ f.id < g.id /\ f.ext = g.ext
             /\ \A field \in {"pattern", "fc"} :
                  ~Matches(g.pattern, f, field) /\ ~Matches(g.fc, f, field)
  <2>1. PICK k \in 0..(filtersnum - 1) : f = filters[k]
    BY DEF FilterInv, Held
  <2>2. f.id < g.id
    BY <1>2 DEF FilterInv
  <2>3. f.ext = g.ext
    BY <1>1, <1>2, <2>1
  <2>4. QED
    BY <1>1, <1>2, <2>1, <2>2, <2>3
<1>4. QED
  BY <1>3 DEF Fresh, g

LEMMA FilterInit == ASSUME IsoAssumption, Init PROVE FilterInv
<1>1. FilterTypes
  BY DEF IsoAssumption, Init, FilterTypes
<1>2. Held = {}
  BY DEF Init, Held
<1>3. started = {} /\ apc = "idle"
  BY DEF Init
<1>4. QED
  BY <1>1, <1>2, <1>3 DEF FilterInv, FiltersApart

\* What leaves the variables of the application alone keeps FilterInv.
LEMMA FilterFrame == ASSUME FilterInv, UNCHANGED app PROVE FilterInv'
BY DEF FilterInv, FilterTypes, Held, Fresh, FiltersApart, Matches, Masked, app

\* StartMsgFilter writes behind the slots in use, or nowhere.
LEMMA FilterStart ==
  ASSUME IsoAssumption, FilterInv, NEW q \in Requests, StartMsgFilter(q)
  PROVE  FilterInv'
<1> DEFINE g == NewFilter(q, runningFilterId)
<1>1. apc = "idle" /\ Unique(q) /\ UNCHANGED <<filtersnum, slot, started>>
  BY DEF StartMsgFilter
<1>2. CASE filtersnum \in Slots
  <2>1. /\ filters' = [filters EXCEPT ![filtersnum] = g]
        /\ runningFilterId' = runningFilterId + 1 /\ apc' = "publish"
    BY <1>2 DEF StartMsgFilter
  <2>2. g \in Filter /\ g.id = runningFilterId
    BY DEF IsoAssumption, FilterInv, FilterTypes, NewFilter, Filter
  <2>3. Fresh(g)
    BY <1>1, UniqueIsFresh
  <2> HIDE DEF g
  <2>4. FilterTypes'
    <3>1. filters' \in [Slots -> Filter \cup {Unset}]
      BY <1>2, <2>1, <2>2 DEF FilterInv, FilterTypes
    <3>2. QED
      BY <1>1, <2>1, <3>1 DEF FilterInv, FilterTypes
  <2>5. filters'[filtersnum] = g
    BY <1>2, <2>1 DEF FilterInv, FilterTypes
  <2>6. Held' = Held /\ \A k \in Held : filters'[k] = filters[k]
    BY <1>1, <2>1 DEF Held, FilterInv, FilterTypes, Slots
  <2>7. Fresh(filters[filtersnum])'
    BY <1>1, <2>3, <2>5 DEF Fresh, Matches, Masked
  <2>8. \A f \in started : f.id < runningFilterId'
    <3>1. \A f \in started : f.id \in Nat /\ f.id < runningFilterId
      BY DEF FilterInv, FilterTypes, Filter
    <3>2. runningFilterId \in Nat /\ runningFilterId' = runningFilterId + 1
      BY <2>1 DEF FilterInv, FilterTypes
    <3>3. QED
      BY <3>1, <3>2
  <2>9. FiltersApart'
    BY <1>1 DEF FilterInv, FiltersApart, Matches, Masked
  <2>10. filters'[filtersnum].id < runningFilterId'
    BY <2>1, <2>2, <2>5 DEF FilterInv, FilterTypes
  <2>11. started' = {filters'[k] : k \in Held'}
    BY <1>1, <2>6 DEF FilterInv
  <2>12. \A j, k \in Held' : j < k => filters'[j].id < filters'[k].id
    BY <2>6 DEF FilterInv
  <2>13. QED
    BY <1>1, <1>2, <2>1, <2>2, <2>4, <2>5, <2>7, <2>8, <2>9, <2>10, <2>11, <2>12
       DEF FilterInv
<1>3. CASE filtersnum \notin Slots
  BY <1>1, <1>3, FilterFrame DEF StartMsgFilter, app
<1>4. QED
  BY <1>2, <1>3

\* The new filter is the last one of the array.
LEMMA FilterPublish ==
  ASSUME IsoAssumption, FilterInv, Publish
  PROVE  FilterInv'
<1> DEFINE g == filters[filtersnum]
<1>1. /\ apc = "publish" /\ apc' = "idle"
      /\ filtersnum' = filtersnum + 1 /\ started' = started \cup {g}
      /\ UNCHANGED <<filters, runningFilterId, slot>>
  BY DEF Publish
<1>2. /\ filtersnum \in 0..(MAX_FLOW_FILTERS - 1)
      /\ g \in Filter /\ g.id < runningFilterId /\ Fresh(g)
  BY <1>1 DEF FilterInv, Slots
<1>3. FilterTypes'
  <2>1. filtersnum' \in Nat /\ filtersnum' <= MAX_FLOW_FILTERS
    BY <1>1, <1>2 DEF IsoAssumption, FilterInv, FilterTypes
  <2>2. QED
    BY <1>1, <1>2, <2>1 DEF FilterInv, FilterTypes
<1>4. Held' = Held \cup {filtersnum}
  BY <1>1, <1>2 DEF Held, FilterInv, FilterTypes
<1>5. started' = {filters'[k] : k \in Held'}
  BY <1>1, <1>4 DEF FilterInv
<1>6. \A j, k \in Held' : j < k => filters'[j].id < filters'[k].id
  <2>1. \A k \in Held : filters[k].id < g.id /\ k < filtersnum
    BY <1>2 DEF FilterInv, FilterTypes, Fresh, Held
  <2>2. \A k \in Held : ~ (filtersnum < k)
    BY <1>2 DEF Held
  <2>3. QED
    BY <1>1, <1>2, <1>4, <2>1, <2>2 DEF FilterInv
<1>7. \A f \in started' : f.id < runningFilterId'
  BY <1>1, <1>2 DEF FilterInv
<1>8. FiltersApart'
  <2>1. ASSUME NEW f \in started', NEW h \in started', f.id < h.id
        PROVE  /\ f.ext = h.ext
               /\ \A field \in {"pattern", "fc"} :
                    ~Matches(h.pattern, f, field) /\ ~Matches(h.fc, f, field)
    <3>1. CASE f \in started /\ h \in started
      BY <2>1, <3>1 DEF FilterInv, FiltersApart
    <3>2. CASE h = g /\ f \in started
      BY <1>2, <3>2 DEF Fresh
    <3>3. CASE f = g
      <4>1. g.id \in Nat /\ \A e \in started : e.id \in Nat
        BY <1>2 DEF FilterInv, FilterTypes, Filter
      <4>2. \A e \in started : e.id < g.id
        BY <1>2 DEF Fresh
      <4>3. QED
        BY <1>1, <2>1, <3>3, <4>1, <4>2
    <3>4. QED
      BY <1>1, <3>1, <3>2, <3>3
  <2>2. QED
    BY <2>1 DEF FiltersApart, Matches, Masked
<1>9. QED
  BY <1>1, <1>3, <1>5, <1>6, <1>7, <1>8 DEF FilterInv

\* The id of the filter that is stopped is that of its slot alone.
LEMMA FilterStop ==
  ASSUME IsoAssumption, FilterInv, NEW s \in Slots, StopMsgFilter(s)
  PROVE  FilterInv'
<1>1. /\ apc = "idle" /\ apc' = "shift" /\ slot' = s
      /\ s \in 0..(filtersnum - 1)
      /\ started' = {f \in started : f.id # filters[s].id}
      /\ UNCHANGED <<filters, filtersnum, runningFilterId>>
  BY DEF StopMsgFilter, Slots, IsoAssumption, FilterInv, FilterTypes
<1>2. Held = 0..(filtersnum - 1) /\ Held' = Held \ {s}
  BY <1>1 DEF Held
<1>3. \A k \in Held : filters[k].id = filters[s].id <=> k = s
  <2>1. \A k \in Held : filters[k] \in started
    BY DEF FilterInv
  <2>2. \A k \in Held : filters[k].id \in Nat
    BY <2>1 DEF FilterInv, FilterTypes, Filter
  <2>3. QED
    BY SMTT(30), <1>1, <1>2, <2>2 DEF FilterInv, FilterTypes
<1>4. started' = {filters'[k] : k \in Held'}
  BY <1>1, <1>2, <1>3 DEF FilterInv
<1>5. FilterTypes'
  BY <1>1 DEF FilterInv, FilterTypes, Slots, IsoAssumption
<1>6. FiltersApart'
  <2>1. started' \subseteq started
    BY <1>1
  <2>2. QED
    BY <2>1 DEF FilterInv, FiltersApart, Matches, Masked
<1>7. slot' < filtersnum'
  BY <1>1 DEF FilterInv, FilterTypes
<1>8. QED
  BY <1>1, <1>2, <1>4, <1>5, <1>6, <1>7 DEF FilterInv

\* The hole moves on by one.
LEMMA FilterShift == ASSUME IsoAssumption, FilterInv, Shift PROVE FilterInv'
<1>1. /\ apc = "shift" /\ slot < filtersnum - 1 /\ slot' = slot + 1
      /\ filters' = [filters EXCEPT ![slot] = filters[slot + 1]]
      /\ UNCHANGED <<filtersnum, runningFilterId, apc, started>>
  BY DEF Shift, LastSlot
<1>2. slot \in Nat /\ filtersnum \in Nat /\ filtersnum <= MAX_FLOW_FILTERS
  BY DEF FilterInv, FilterTypes
<1>3. slot \in Slots /\ slot + 1 \in Slots
  BY <1>1, <1>2 DEF Slots, IsoAssumption
<1>4. Held = 0..(filtersnum - 1) \ {slot} /\ Held' = 0..(filtersnum - 1) \ {slot + 1}
  BY <1>1 DEF Held
<1>5. slot \in Held' /\ slot + 1 \in Held /\ slot \notin Held
  BY <1>1, <1>2, <1>4
<1>6. filters'[slot] = filters[slot + 1]
  BY <1>1, <1>3 DEF FilterInv, FilterTypes
<1>7. \A k \in Held' \ {slot} : k \in Held /\ filters'[k] = filters[k]
  BY <1>1, <1>4
<1>8. \A k \in Held \ {slot + 1} : k \in Held' \ {slot}
  BY <1>4
<1>9. started' = {filters'[k] : k \in Held'}
  BY <1>1, <1>5, <1>6, <1>7, <1>8 DEF FilterInv
<1>10. \A j, k \in Held' : j < k => filters'[j].id < filters'[k].id
  <2>1. ASSUME NEW j \in Held', NEW k \in Held', j < k
        PROVE  filters'[j].id < filters'[k].id
    <3>1. CASE j # slot /\ k # slot
      BY <1>7, <2>1, <3>1 DEF FilterInv
    <3>2. CASE j = slot
      <4>1. k \in Held /\ filters'[k] = filters[k] /\ slot + 1 < k
        BY <1>2, <1>4, <1>7, <2>1, <3>2
      <4>2. QED
        BY <1>5, <1>6, <3>2, <4>1 DEF FilterInv
    <3>3. CASE k = slot
      <4>1. j \in Held /\ filters'[j] = filters[j] /\ j < slot + 1
        BY <1>2, <1>4, <1>7, <2>1, <3>3
      <4>2. QED
        BY <1>5, <1>6, <3>3, <4>1 DEF FilterInv
    <3>4. QED
      BY <3>1, <3>2, <3>3
  <2>2. QED
    BY <2>1
<1>11. FilterTypes'
  <2>1. filters' \in [Slots -> Filter \cup {Unset}]
    BY <1>1, <1>3 DEF FilterInv, FilterTypes
  <2>2. QED
    BY <1>1, <1>2, <2>1 DEF FilterInv, FilterTypes
<1>12. FiltersApart'
  BY <1>1 DEF FilterInv, FiltersApart, Matches, Masked
<1>13. slot' < filtersnum'
  BY <1>1, <1>2
<1>14. QED
  BY <1>1, <1>9, <1>10, <1>11, <1>12, <1>13 DEF FilterInv

\* The hole has reached the end, which is cut off.
LEMMA FilterCountDown == ASSUME IsoAssumption, FilterInv, CountDown PROVE FilterInv'
<1>1. /\ apc = "shift" /\ slot >= filtersnum - 1 /\ slot < filtersnum
      /\ apc' = "idle" /\ slot' = 0 /\ filtersnum' = filtersnum - 1
      /\ UNCHANGED <<filters, runningFilterId, started>>
  BY DEF CountDown, LastSlot, FilterInv
<1>2. slot \in Nat /\ filtersnum \in Nat /\ filtersnum <= MAX_FLOW_FILTERS
  BY DEF FilterInv, FilterTypes
<1>3. slot = filtersnum - 1
  BY <1>1, <1>2
<1>4. Held' = Held
  BY <1>1, <1>2, <1>3 DEF Held
<1>5. FilterTypes'
  BY <1>1, <1>2 DEF FilterInv, FilterTypes, IsoAssumption
<1>6. FiltersApart'
  BY <1>1 DEF FilterInv, FiltersApart, Matches, Masked
<1>7. QED
  BY <1>1, <1>4, <1>5, <1>6 DEF FilterInv

LEMMA FilterDelete == ASSUME IsoAssumption, FilterInv, DeleteFilters PROVE FilterInv'
<1>1. /\ apc = "idle" /\ filtersnum' = 0 /\ started' = {}
      /\ UNCHANGED <<filters, runningFilterId, apc, slot>>
  BY DEF DeleteFilters
<1>2. Held' = {}
  BY <1>1 DEF Held
<1>3. FilterTypes'
  BY <1>1 DEF FilterInv, FilterTypes, IsoAssumption
<1>4. QED
  BY <1>1, <1>2, <1>3 DEF FilterInv, FiltersApart

\* No step of either thread breaks FilterInv.
LEMMA FilterNext ==
  ASSUME IsoAssumption, FilterInv, [Next]_vars
  PROVE  FilterInv'
<1>1. ASSUME NEW q \in Requests, StartMsgFilter(q) PROVE FilterInv'
  BY <1>1, FilterStart
<1>2. ASSUME NEW s \in Slots, StopMsgFilter(s) PROVE FilterInv'
  BY <1>2, FilterStop
<1>3. ASSUME \/ \E m \in Messages : WriteMsg(m)
             \/ \E d \in Frames : FirstFrame(d) \/ ConsecutiveFrame(d) \/ OtherFrame(d)
             \/ FlowControlSent \/ FlowControlRefused \/ FlowControlFromGarbage
             \/ UNCHANGED vars
      PROVE  FilterInv'
  <2>1. UNCHANGED app
    BY <1>3 DEF WriteMsg, FirstFrame, ConsecutiveFrame, OtherFrame, FlowControlSent,
                FlowControlRefused, FlowControlFromGarbage, vars, app
  <2>2. QED
    BY <2>1, FilterFrame
<1>4. QED
  BY <1>1, <1>2, <1>3, FilterPublish, FilterShift, FilterCountDown, FilterDelete
     DEF Next

\* FilterInv holds in every state.
THEOREM FiltersInStep == Spec => []FilterInv
<1>1. Init => FilterInv
  BY FilterInit, IsoAssumption
<1>2. FilterInv /\ [Next]_vars => FilterInv'
  BY FilterNext, IsoAssumption
<1>3. QED
  BY <1>1, <1>2, PTL DEF Spec

\* Between two calls of the application the array is exactly the filters that
\* were started and not stopped, in that order, for any number of slots.
THEOREM ArrayIsWhatWasStarted == Spec => []FiltersAreThoseStarted
<1>1. FilterInv => FiltersAreThoseStarted
  <2>1. apc = "idle" => Held = 0..(filtersnum - 1)
    BY DEF Held
  <2>2. QED
    BY <2>1 DEF FilterInv, FiltersAreThoseStarted
<1>2. QED
  BY <1>1, FiltersInStep, PTL

\* The checks of StartMsgFilter keep all filters apart for good.
THEOREM SendersAreApart == Spec => []FiltersApart
<1>1. FilterInv => FiltersApart
  BY DEF FilterInv
<1>2. QED
  BY <1>1, FiltersInStep, PTL

-----------------------------------------------------------------------------
(* The sessions.                                                           *)

\* Every set of natural numbers that is not empty has a least element.
LEMMA MinOfNaturals ==
  ASSUME NEW S, S \subseteq Nat, S # {}
  PROVE  Min(S) \in S /\ \A y \in S : Min(S) <= y
<1> DEFINE R == StrictSubsetOrdering(Nat)
           T == {0..x : x \in S}
<1>1. IsWellFoundedOn(R, FiniteSubsetsOf(Nat))
  BY FS_StrictSubsetOrderingWellFounded
<1>2. T \subseteq FiniteSubsetsOf(Nat)
  <2>1. ASSUME NEW x \in S PROVE 0..x \in FiniteSubsetsOf(Nat)
    <3>1. IsFiniteSet(0..x)
      BY FS_Interval
    <3>2. QED
      BY <3>1 DEF FiniteSubsetsOf
  <2>2. QED
    BY <2>1
<1>3. T # {}
  OBVIOUS
<1> HIDE DEF R, T
<1>4. PICK t \in T : \A u \in T : ~ (<<u, t>> \in R)
  BY <1>1, <1>2, <1>3, WFMin
<1>5. PICK x \in S : t = 0..x
  BY DEF T
<1>6. ASSUME NEW y \in S PROVE x <= y
  <2> SUFFICES ASSUME y < x PROVE FALSE
    BY <1>5
  <2>1. 0..y \in T
    BY DEF T
  <2>2. 0..y \subseteq 0..x
    OBVIOUS
  <2>3. x \in 0..x /\ x \notin 0..y
    OBVIOUS
  <2>4. <<0..y, 0..x>> \in R
    BY <2>2, <2>3 DEF R, StrictSubsetOrdering
  <2>5. QED
    BY <1>4, <1>5, <2>1, <2>4
<1>7. QED
  BY <1>6 DEF Min

LEMMA MinOfTwo ==
  ASSUME NEW a \in Int, NEW b \in Int
  PROVE  /\ Min({a, b}) = IF a <= b THEN a ELSE b
         /\ Max({a, b}) = IF a <= b THEN b ELSE a
BY DEF Min, Max

\* The bytes a frame contributes.
LEMMA LengthOfPrefix ==
  ASSUME NEW S, NEW d \in Seq(S), NEW n \in Int, n <= Len(d)
  PROVE  /\ SubSeq(d, 1, n) \in Seq(S)
         /\ Len(SubSeq(d, 1, n)) = IF n > 0 THEN n ELSE 0
OBVIOUS

LEMMA LengthOfBoth ==
  ASSUME NEW S, NEW a \in Seq(S), NEW b \in Seq(S)
  PROVE  a \o b \in Seq(S) /\ Len(a \o b) = Len(a) + Len(b)
OBVIOUS

\* DeleteSession copies the last entry down and leaves it where it was.
LEMMA DeletedEntries ==
  ASSUME NEW S, NEW ss \in Seq(S), NEW n \in 1..Len(ss)
  PROVE  /\ Deleted(ss, n) \in Seq(S) /\ Len(Deleted(ss, n)) = Len(ss)
         /\ \A j \in 1..Len(ss) :
              Deleted(ss, n)[j] = IF j >= n /\ j < Len(ss) THEN ss[j + 1] ELSE ss[j]
<1>1. DOMAIN ss = 1..Len(ss)
  OBVIOUS
<1>2. \A j \in 1..Len(ss) : (IF j >= n /\ j < Len(ss) THEN ss[j + 1] ELSE ss[j]) \in S
  OBVIOUS
<1>3. QED
  BY <1>1, <1>2 DEF Deleted

LEMMA SessionInit == ASSUME Init PROVE SessionInv
BY DEF Init, SessionInv, SessionTypes, GivenAway, AssembledToExpectedLength

\* What leaves the sessions alone keeps SessionInv.
LEMMA SessionFrame ==
  ASSUME SessionInv, UNCHANGED <<sessions, heap, firsts, assembled>>, SessionTypes'
  PROVE  SessionInv'
BY DEF SessionInv, GivenAway, FirstEntry, Counted, AssembledToExpectedLength

\* A frame that is not a single one has a PCI byte.
LEMMA LongEnough ==
  ASSUME IsoAssumption, NEW d \in Frames, PCI(d) # 0
  PROVE  Len(d) \in Nat /\ Len(d) >= 5
BY DEF IsoAssumption, PCI

LEMMA SessionFirstFrame ==
  ASSUME IsoAssumption, SessionInv, NEW d \in Frames, FirstFrame(d)
  PROVE  SessionInv'
<1>1. /\ filteridx' = GetMatchingFilter(d, FALSE, "pattern")
      /\ PCI(d) = 1
      /\ \/ filteridx' = -1 /\ UNCHANGED <<cpc, frame>>
         \/ filteridx' # -1 /\ cpc' = "answer" /\ frame' = d
      /\ cpc = "idle" /\ UNCHANGED <<sessions, heap, firsts, assembled>>
  BY DEF FirstFrame, Receive
<1>2. filteridx' \in {-1, 0, 1}
  BY <1>1 DEF GetMatchingFilter
<1>3. Len(d) >= 5
  BY <1>1, LongEnough
<1>4. SessionTypes'
  BY <1>1, <1>2, <1>3 DEF SessionInv, SessionTypes
<1>5. QED
  BY <1>1, <1>4, SessionFrame

\* What is read of a first frame, and the length its first two bytes give.
LEMMA BytesOfFrame ==
  ASSUME NEW S, NEW d \in Seq(S), Len(d) >= 5
  PROVE  /\ d[1] \in S /\ d[2] \in S /\ Len(d) - 2 \in Nat
         /\ SubSeq(d, 3, Len(d)) \in Seq(S)
         /\ Len(SubSeq(d, 3, Len(d))) = Len(d) - 2
<1>1. d[1] \in S /\ d[2] \in S /\ Len(d) - 2 \in Nat
  OBVIOUS
<1>2. ASSUME NEW n \in Nat, n = Len(d), n >= 5
      PROVE  SubSeq(d, 3, n) \in Seq(S) /\ Len(SubSeq(d, 3, n)) = n - 2
  BY <1>2
<1>3. Len(d) \in Nat
  OBVIOUS
<1>4. SubSeq(d, 3, Len(d)) \in Seq(S) /\ Len(SubSeq(d, 3, Len(d))) = Len(d) - 2
  BY <1>2, <1>3
<1>5. QED
  BY <1>1, <1>4

LEMMA ByteIsNatural == \A x \in Bytes : x \in Nat
BY DEF Bytes

LEMMA LowNibble == ASSUME NEW x \in Nat PROVE x % 16 \in Nat
OBVIOUS

LEMMA TwelveBits == ASSUME NEW x \in Nat, NEW y \in Nat PROVE x * 256 + y \in Nat
OBVIOUS

LEMMA NewSession ==
  ASSUME IsoAssumption, NEW n \in Nat, n = Len(heap), NEW d \in Frames, Len(d) >= 5
  PROVE  /\ Session(d) \in SessionType
         /\ Session(d).msg = n + 1
         /\ Session(d).payloadLen = Len(d) - 2
         /\ Session(d).expected_length = Expected(d)
         /\ SubSeq(d, 3, Len(d)) \in Seq(Bytes)
         /\ Len(SubSeq(d, 3, Len(d))) = Len(d) - 2
<1>1. d \in Seq(Bytes) /\ Len(d) >= 5
  BY DEF IsoAssumption
<1>2. /\ d[1] \in Bytes /\ d[2] \in Bytes /\ Len(d) - 2 \in Nat
      /\ SubSeq(d, 3, Len(d)) \in Seq(Bytes)
      /\ Len(SubSeq(d, 3, Len(d))) = Len(d) - 2
  BY <1>1, BytesOfFrame
<1>3. d[1] \in Nat /\ d[2] \in Nat
  BY <1>2, ByteIsNatural
<1>4. Expected(d) \in Nat
  BY <1>3, LowNibble, TwelveBits DEF Expected
<1>5. QED
  BY <1>2, <1>4 DEF Session, SessionType

LEMMA SessionAnswer ==
  ASSUME IsoAssumption, SessionInv, FlowControlSent
  PROVE  SessionInv'
<1>1. /\ cpc = "answer" /\ frame \in Frames /\ Len(frame) >= 5
      /\ cpc' = "idle" /\ UNCHANGED assembled
  BY DEF FlowControlSent, Return, SessionInv, SessionTypes
<1>2. CASE UNCHANGED <<sessions, heap, firsts>>
  <2>1. SessionTypes'
    BY <1>1, <1>2 DEF SessionInv, SessionTypes
  <2>2. QED
    BY <1>1, <1>2, <2>1, SessionFrame
<1>3. CASE /\ sessions' = Append(sessions, Session(frame))
           /\ heap' = Append(heap, SubSeq(frame, 3, Len(frame)))
           /\ firsts' = Append(firsts, frame)
  <2> DEFINE s == Session(frame)
             bytes == SubSeq(frame, 3, Len(frame))
             n == Len(sessions)
             h == Len(heap)
  <2>1. /\ s \in SessionType /\ s.msg = h + 1 /\ s.payloadLen = Len(frame) - 2
        /\ s.expected_length = Expected(frame)
        /\ bytes \in Seq(Bytes) /\ Len(bytes) = Len(frame) - 2
    BY <1>1, NewSession DEF SessionInv, SessionTypes
  <2>2. sessions \in Seq(SessionType) /\ heap \in Seq(Seq(Bytes))
    BY DEF SessionInv, SessionTypes
  <2>3. n \in Nat /\ h \in Nat
    BY <2>2
  <2> HIDE DEF s, bytes
  <2>4. /\ sessions' \in Seq(SessionType) /\ Len(sessions') = n + 1
        /\ sessions'[n + 1] = s /\ \A k \in 1..n : sessions'[k] = sessions[k]
    BY <1>3, <2>1, <2>2 DEF s
  <2>5. /\ heap' \in Seq(Seq(Bytes)) /\ Len(heap') = h + 1
        /\ heap'[h + 1] = bytes /\ \A k \in 1..h : heap'[k] = heap[k]
    BY <1>3, <2>1, <2>2 DEF bytes
  <2>6. /\ firsts' \in Seq(Frames) /\ Len(firsts') = h + 1
         /\ firsts'[h + 1] = frame /\ \A k \in 1..h : firsts'[k] = firsts[k]
    BY <1>1, <1>3 DEF SessionInv, SessionTypes
  <2>7. DOMAIN sessions = 1..n /\ DOMAIN sessions' = 1..(n + 1)
    BY <2>2, <2>4
  <2>8. SessionTypes'
    BY <1>1, <2>4, <2>5, <2>6 DEF SessionInv, SessionTypes
  <2>9. GivenAway' = GivenAway
    BY <1>1 DEF GivenAway
  <2>10. \A k \in 1..n : sessions[k].msg \in 0..h
    BY <2>7 DEF SessionInv
  <2>11. \A k \in DOMAIN sessions' : sessions'[k].msg \in 0..(h + 1)
    <3>1. \A k \in 1..n : sessions'[k].msg \in 0..(h + 1)
      BY <2>3, <2>4, <2>10
    <3>2. QED
      BY <2>1, <2>3, <2>4, <2>7, <3>1
  <2>12. ASSUME NEW k \in DOMAIN sessions',
                FirstEntry(k)', (sessions[k].msg \notin GivenAway \cup {NULL})'
         PROVE  Counted(sessions[k])'
    <3>1. CASE k = n + 1
      <4>1. sessions'[k] = s /\ heap'[s.msg] = bytes
        BY <2>1, <2>4, <2>5, <3>1
      <4>2. /\ s.expected_length = Expected(firsts'[s.msg])
            /\ s.payloadLen = Len(firsts'[s.msg]) - 2
        BY <2>1, <2>6
      <4>3. Len(heap'[s.msg]) = s.payloadLen
        BY <2>1, <4>1
      <4>4. QED
        BY <4>1, <4>2, <4>3 DEF Counted
    <3>2. CASE k \in 1..n
      <4>1. sessions'[k] = sessions[k]
        BY <2>4, <3>2
      <4>2. FirstEntry(k)
        <5>1. \A j \in 1..(k - 1) : sessions'[j] = sessions[j]
          BY <2>3, <2>4, <3>2
        <5>2. QED
          BY <2>12, <4>1, <5>1 DEF FirstEntry
      <4>3. sessions[k].msg \notin GivenAway \cup {NULL}
        BY <2>9, <2>12, <4>1
      <4>4. Counted(sessions[k])
        BY <2>7, <3>2, <4>2, <4>3 DEF SessionInv
      <4>5. sessions[k].msg \in 1..h
        BY <2>3, <2>10, <3>2, <4>3 DEF NULL
      <4>6. /\ heap'[sessions[k].msg] = heap[sessions[k].msg]
            /\ firsts'[sessions[k].msg] = firsts[sessions[k].msg]
        BY <2>5, <2>6, <4>5
      <4>7. QED
        BY <4>1, <4>4, <4>6 DEF Counted
    <3>3. QED
      BY <2>3, <2>7, <3>1, <3>2
  <2>13. AssembledToExpectedLength'
    <3>1. \A k \in DOMAIN assembled :
            /\ heap'[assembled[k]] = heap[assembled[k]]
            /\ firsts'[assembled[k]] = firsts[assembled[k]]
      BY <2>5, <2>6 DEF SessionInv, GivenAway
    <3>2. QED
      BY <1>1, <3>1 DEF SessionInv, AssembledToExpectedLength
  <2>14. GivenAway' \subseteq 1..Len(heap')
    BY <2>3, <2>5, <2>9 DEF SessionInv
  <2>15. QED
    BY <2>5, <2>8, <2>11, <2>12, <2>13, <2>14 DEF SessionInv
<1>4. QED
  BY <1>2, <1>3 DEF FlowControlSent, StartSession

\* Of the entries for one message the search finds the first.
LEMMA FoundFirst ==
  ASSUME SessionInv, NEW d \in Frames, SessionsFor(d) # {}
  PROVE  Min(SessionsFor(d)) \in DOMAIN sessions /\ FirstEntry(Min(SessionsFor(d)))
<1> DEFINE found == SessionsFor(d)
           n == Min(found)
<1>1. sessions \in Seq(SessionType) /\ DOMAIN sessions = 1..Len(sessions)
  BY DEF SessionInv, SessionTypes
<1>2. found \subseteq Nat /\ found \subseteq DOMAIN sessions
  BY <1>1 DEF SessionsFor
<1>3. n \in found /\ \A y \in found : n <= y
  BY <1>2, MinOfNaturals
<1>4. ASSUME NEW j \in 1..(n - 1), sessions[j].msg = sessions[n].msg PROVE FALSE
  <2>1. j \in DOMAIN sessions /\ j < n
    BY <1>1, <1>2, <1>3
  <2>2. j \in found
    BY <1>3, <1>4, <2>1 DEF SessionsFor
  <2>3. QED
    BY <1>2, <1>3, <2>1, <2>2
<1>5. QED
  BY <1>2, <1>3, <1>4 DEF FirstEntry

\* What one consecutive frame adds to the message of its session.
LEMMA Growth ==
  ASSUME IsoAssumption, SessionInv, NEW d \in Frames,
         NEW n \in DOMAIN sessions, FirstEntry(n),
         sessions[n].msg \notin GivenAway \cup {NULL},
         Assemble(d, n)
  PROVE  LET s == sessions[n]
         IN  /\ heap' \in Seq(Seq(Bytes)) /\ Len(heap') = Len(heap)
             /\ s.msg \in 1..Len(heap)
             /\ \A m \in 1..Len(heap) : m # s.msg => heap'[m] = heap[m]
             /\ Len(heap'[s.msg]) = s.payloadLen + Max({Copies(d, s), 0})
             /\ Len(heap'[s.msg]) \in Nat
<1> DEFINE s == sessions[n]
           b == heap[s.msg]
           e == SubSeq(d, 1, Copies(d, s))
           c == Copies(d, s)
<1>1. s \in SessionType /\ s.msg \in 1..Len(heap) /\ heap \in Seq(Seq(Bytes))
  BY DEF SessionInv, SessionTypes, NULL
<1>2. s.payloadLen \in Nat /\ s.expected_length \in Nat
  BY <1>1 DEF SessionType
<1>3. Len(b) = s.payloadLen /\ b \in Seq(Bytes)
  BY <1>1 DEF SessionInv, Counted
<1>4. d \in Seq(Bytes) /\ Len(d) \in Nat
  BY DEF IsoAssumption
<1>5. c \in Int /\ c <= Len(d)
  <2> DEFINE x == Len(d) - 5
             y == s.expected_length - s.payloadLen
  <2>1. x \in Int /\ y \in Int /\ x <= Len(d)
    BY <1>2, <1>4
  <2>2. c = Min({x, y})
    BY DEF Copies, RemainingBytes
  <2> HIDE DEF x, y, s, c
  <2>3. Min({x, y}) = IF x <= y THEN x ELSE y
    BY <2>1, MinOfTwo
  <2>4. QED
    BY <1>4, <2>1, <2>2, <2>3
<1>6. heap' = [heap EXCEPT ![s.msg] = b \o e]
  BY DEF Assemble
<1> HIDE DEF s, b, c
<1>7. e \in Seq(Bytes) /\ Len(e) = IF c > 0 THEN c ELSE 0
  BY <1>4, <1>5, LengthOfPrefix DEF c
<1>8. Max({c, 0}) = IF c > 0 THEN c ELSE 0
  <2>1. 0 \in Int
    OBVIOUS
  <2>2. Max({c, 0}) = IF c <= 0 THEN 0 ELSE c
    BY <1>5, <2>1, MinOfTwo, Zenon
  <2>3. QED
    BY <1>5, <2>2
<1> HIDE DEF e
<1>9. b \o e \in Seq(Bytes) /\ Len(b \o e) = s.payloadLen + Max({c, 0})
  <2>1. b \o e \in Seq(Bytes) /\ Len(b \o e) = Len(b) + Len(e)
    BY <1>3, <1>7, LengthOfBoth, Zenon
  <2>2. QED
    BY <1>3, <1>7, <1>8, <2>1
<1>10. /\ heap' \in Seq(Seq(Bytes)) /\ Len(heap') = Len(heap)
       /\ \A m \in 1..Len(heap) : m # s.msg => heap'[m] = heap[m]
       /\ heap'[s.msg] = b \o e
  BY <1>1, <1>6, <1>9
<1>11. QED
  BY <1>1, <1>9, <1>10 DEF s, c

\* A frame that does not end its message.
LEMMA SessionGrows ==
  ASSUME IsoAssumption, SessionInv, NEW d \in Frames,
         NEW n \in DOMAIN sessions, FirstEntry(n),
         sessions[n].msg \notin GivenAway \cup {NULL},
         Assemble(d, n), ~ (RemainingBytes(sessions[n]) <= Len(d) - 5),
         Len(d) \in Nat, Len(d) >= 5, cpc = "idle", UNCHANGED <<cpc, firsts>>
  PROVE  SessionInv'
<1> DEFINE s == sessions[n]
           c == Copies(d, s)
           p == s.payloadLen + Max({c, 0})
           grown == [s EXCEPT !.payloadLen = p]
<1>1. /\ heap' \in Seq(Seq(Bytes)) /\ Len(heap') = Len(heap)
      /\ s.msg \in 1..Len(heap)
      /\ \A m \in 1..Len(heap) : m # s.msg => heap'[m] = heap[m]
      /\ Len(heap'[s.msg]) = p /\ p \in Nat
  BY Growth
<1>2. sessions' = [sessions EXCEPT ![n] = grown] /\ UNCHANGED assembled
  BY DEF Assemble
<1>3. sessions \in Seq(SessionType) /\ DOMAIN sessions = 1..Len(sessions)
  BY DEF SessionInv, SessionTypes
<1>4. s \in SessionType
  BY <1>3
<1>5. p <= s.expected_length /\ s.payloadLen <= p
  <2> DEFINE x == Len(d) - 5
             y == s.expected_length - s.payloadLen
  <2>1. x \in Int /\ x >= 0 /\ y \in Int /\ ~ (y <= x)
    <3>1. Len(d) \in Nat /\ Len(d) >= 5
      OBVIOUS
    <3>2. y = RemainingBytes(s)
      BY DEF RemainingBytes
    <3>3. s.payloadLen \in Nat /\ s.expected_length \in Nat
      BY <1>4 DEF SessionType
    <3>4. QED
      BY <3>1, <3>2, <3>3
  <2>2. c = Min({x, y})
    BY DEF Copies, RemainingBytes
  <2>3. s.payloadLen \in Nat /\ s.expected_length \in Nat
    BY <1>4 DEF SessionType
  <2>4. y = s.expected_length - s.payloadLen
    OBVIOUS
  <2> HIDE DEF x, y, s, c
  <2>5. Min({x, y}) = IF x <= y THEN x ELSE y
    BY <2>1, MinOfTwo, Zenon
  <2>6. c = x /\ c >= 0
    BY <2>1, <2>2, <2>5
  <2>7. Max({c, 0}) = IF c <= 0 THEN 0 ELSE c
    <3>1. c \in Int /\ 0 \in Int
      BY <2>1, <2>6
    <3>2. QED
      BY <3>1, MinOfTwo, Zenon
  <2>8. QED
    BY <2>1, <2>3, <2>4, <2>6, <2>7
<1>6. grown \in SessionType /\ grown.msg = s.msg /\ grown.payloadLen = p
      /\ grown.expected_length = s.expected_length
  BY <1>1, <1>4 DEF SessionType
<1> HIDE DEF s, c, p, grown
<1>7. /\ sessions' \in Seq(SessionType) /\ DOMAIN sessions' = DOMAIN sessions
      /\ sessions'[n] = grown
      /\ \A k \in DOMAIN sessions : k # n => sessions'[k] = sessions[k]
  BY <1>2, <1>3, <1>6
<1>8. \A k \in DOMAIN sessions : sessions'[k].msg = sessions[k].msg
  BY <1>6, <1>7 DEF s
<1>9. GivenAway' = GivenAway
  BY <1>2 DEF GivenAway
<1>10. SessionTypes'
  BY <1>1, <1>2, <1>7 DEF SessionInv, SessionTypes
<1>11. ASSUME NEW k \in DOMAIN sessions', FirstEntry(k)',
              (sessions[k].msg \notin GivenAway \cup {NULL})'
       PROVE  Counted(sessions[k])'
  <2>1. CASE k = n
    <3>1. Counted(s)
      BY DEF s, SessionInv
    <3>2. /\ s.expected_length = Expected(firsts[s.msg])
          /\ Len(firsts[s.msg]) - 2 <= s.payloadLen
      BY <1>4, <3>1 DEF Counted, SessionType
    <3>3. Len(firsts[s.msg]) - 2 \in Int /\ s.payloadLen \in Int
      BY <1>1, <1>4 DEF SessionType, SessionInv, SessionTypes, IsoAssumption
    <3>4. Len(firsts[s.msg]) - 2 <= p
      BY <1>1, <1>5, <3>2, <3>3
    <3>5. QED
      BY <1>1, <1>5, <1>6, <1>7, <2>1, <3>2, <3>4 DEF Counted
  <2>2. CASE k # n
    <3>1. k \in DOMAIN sessions /\ sessions'[k] = sessions[k]
      BY <1>7, <2>2
    <3>2. \A j \in 1..(k - 1) : j \in DOMAIN sessions
      BY <1>3, <3>1
    <3>3. FirstEntry(k)
      BY <1>8, <1>11, <3>1, <3>2 DEF FirstEntry
    <3>4. sessions[k].msg \notin GivenAway \cup {NULL}
      BY <1>9, <1>11, <3>1
    <3>5. Counted(sessions[k])
      BY <3>1, <3>3, <3>4 DEF SessionInv
    <3>6. sessions[k].msg \in 1..Len(heap)
      BY <3>1, <3>4 DEF SessionInv, SessionTypes, NULL
    <3>7. sessions[k].msg # s.msg
      <4>1. CASE k < n
        <5>1. k \in 1..(n - 1)
          BY <1>3, <3>1, <4>1
        <5>2. QED
          BY <5>1 DEF FirstEntry, s
      <4>2. CASE n < k
        <5>1. n \in 1..(k - 1)
          BY <1>3, <3>1, <4>2
        <5>2. QED
          BY <3>3, <5>1 DEF FirstEntry, s
      <4>3. QED
        BY <1>3, <2>2, <3>1, <4>1, <4>2
    <3>8. heap'[sessions[k].msg] = heap[sessions[k].msg]
      BY <1>1, <3>6, <3>7
    <3>9. QED
      BY <3>1, <3>5, <3>8 DEF Counted
  <2>3. QED
    BY <2>1, <2>2
<1>12. \A m \in GivenAway : heap'[m] = heap[m]
  BY <1>1 DEF SessionInv, s
<1>13. AssembledToExpectedLength'
  <2>1. \A k \in DOMAIN assembled : assembled[k] \in GivenAway
    BY DEF GivenAway
  <2>2. QED
    BY <1>2, <1>12, <2>1 DEF SessionInv, AssembledToExpectedLength
<1>14. \A k \in DOMAIN sessions' : sessions'[k].msg \in 0..Len(heap')
  BY <1>1, <1>7, <1>8 DEF SessionInv
<1>15. GivenAway' \subseteq 1..Len(heap')
  BY <1>1, <1>9 DEF SessionInv
<1>16. QED
  BY <1>10, <1>11, <1>13, <1>14, <1>15 DEF SessionInv

\* The frame that ends its message: the entry is overwritten by the one behind
\* it, and the last one stays where it was.
LEMMA SessionEnds ==
  ASSUME IsoAssumption, SessionInv, NEW d \in Frames,
         NEW n \in DOMAIN sessions, FirstEntry(n),
         sessions[n].msg \notin GivenAway \cup {NULL},
         Assemble(d, n), RemainingBytes(sessions[n]) <= Len(d) - 5,
         Len(d) \in Nat, Len(d) >= 5, cpc = "idle", UNCHANGED <<cpc, firsts>>
  PROVE  SessionInv'
<1> DEFINE s == sessions[n]
           c == Copies(d, s)
           p == s.payloadLen + Max({c, 0})
           last == [[s EXCEPT !.payloadLen = p] EXCEPT !.msg = NULL]
           ss == [sessions EXCEPT ![n] = last]
           a == s.msg
           L == Len(sessions)
<1>1. /\ heap' \in Seq(Seq(Bytes)) /\ Len(heap') = Len(heap)
      /\ s.msg \in 1..Len(heap)
      /\ \A m \in 1..Len(heap) : m # s.msg => heap'[m] = heap[m]
      /\ Len(heap'[s.msg]) = p /\ p \in Nat
  BY Growth
<1>2. sessions' = Deleted(ss, n) /\ assembled' = Append(assembled, a)
  BY DEF Assemble
<1>3. /\ sessions \in Seq(SessionType) /\ DOMAIN sessions = 1..L /\ L \in Nat
      /\ assembled \in Seq(Nat)
  BY DEF SessionInv, SessionTypes
<1>4. s \in SessionType /\ s.payloadLen \in Nat /\ s.expected_length \in Nat
  <2>1. s \in SessionType
    BY <1>3
  <2>2. QED
    BY <2>1 DEF SessionType
<1>5. \/ p = s.expected_length /\ s.payloadLen <= p
      \/ p > s.expected_length /\ p = s.payloadLen
  <2> DEFINE x == Len(d) - 5
             y == s.expected_length - s.payloadLen
  <2>1. x \in Int /\ y \in Int /\ y <= x
    <3>1. d \in Seq(Bytes)
      BY DEF IsoAssumption
    <3>2. Len(d) \in Nat
      BY <3>1
    <3>3. y = RemainingBytes(s)
      BY DEF RemainingBytes
    <3>4. QED
      BY <1>4, <3>2, <3>3
  <2>2. c = Min({x, y})
    BY DEF Copies, RemainingBytes
  <2>3. y = s.expected_length - s.payloadLen
    OBVIOUS
  <2> HIDE DEF x, y, s, c
  <2>4. Min({x, y}) = IF x <= y THEN x ELSE y
    BY <2>1, MinOfTwo, Zenon
  <2>5. c = y
    BY <2>1, <2>2, <2>4
  <2>6. Max({c, 0}) = IF c <= 0 THEN 0 ELSE c
    <3>1. c \in Int /\ 0 \in Int
      BY <2>1, <2>5
    <3>2. QED
      BY <3>1, MinOfTwo, Zenon
  <2>7. QED
    BY <1>4, <2>1, <2>3, <2>5, <2>6 DEF s
<1>6. last \in SessionType /\ last.msg = NULL
  BY <1>1, <1>4 DEF SessionType, NULL
<1>7. Counted(s)
  BY DEF SessionInv
<1>8. a \in Nat /\ a = s.msg
  BY <1>4 DEF SessionType
<1>9. s.msg \notin GivenAway
  OBVIOUS
<1>10. \A j \in 1..(n - 1) : sessions[j].msg # s.msg
  BY DEF FirstEntry
<1> HIDE DEF s, c, p, last, a
<1>11. /\ ss \in Seq(SessionType) /\ Len(ss) = L
       /\ ss[n] = last /\ \A k \in 1..L : k # n => ss[k] = sessions[k]
  BY <1>3, <1>6
<1> HIDE DEF ss
<1>12. n \in 1..L /\ n \in Nat
  BY <1>3
<1>13. /\ sessions' \in Seq(SessionType) /\ Len(sessions') = L
       /\ \A j \in 1..L :
            sessions'[j] = IF j >= n /\ j < L THEN ss[j + 1] ELSE ss[j]
  BY <1>2, <1>11, <1>12, DeletedEntries
<1> HIDE DEF L
<1>14. DOMAIN sessions' = 1..L
  BY <1>13
<1>15. /\ \A k \in 1..L : k < n => sessions'[k] = sessions[k]
       /\ \A k \in 1..L : k >= n /\ k < L => sessions'[k] = sessions[k + 1]
       /\ n < L => sessions'[L] = sessions[L]
       /\ n = L => sessions'[L].msg = NULL
  <2>1. ASSUME NEW k \in 1..L, k < n PROVE sessions'[k] = sessions[k]
    <3>1. ~ (k >= n) /\ k # n
      BY <1>3, <1>12, <2>1
    <3>2. QED
      BY <1>11, <1>13, <3>1
  <2>2. ASSUME NEW k \in 1..L, k >= n, k < L PROVE sessions'[k] = sessions[k + 1]
    <3>1. k + 1 \in 1..L /\ k + 1 # n
      BY <1>3, <1>12, <2>2
    <3>2. QED
      BY <1>11, <1>13, <2>2, <3>1
  <2>3. L \in 1..L /\ ~ (L < L)
    BY <1>3, <1>12
  <2>4. sessions'[L] = ss[L]
    BY <1>13, <2>3
  <2>5. n < L => L # n
    BY <1>3, <1>12
  <2>6. QED
    BY <1>6, <1>11, <2>1, <2>2, <2>3, <2>4, <2>5
<1>16. /\ assembled' \in Seq(Nat)
       /\ DOMAIN assembled' = DOMAIN assembled \cup {Len(assembled) + 1}
       /\ assembled'[Len(assembled) + 1] = a
       /\ \A k \in DOMAIN assembled : assembled'[k] = assembled[k]
  BY SMTT(30), <1>2, <1>3, <1>8
<1>17. GivenAway' = GivenAway \cup {s.msg}
  BY <1>8, <1>16 DEF GivenAway
<1>18. SessionTypes'
  BY <1>1, <1>13, <1>16 DEF SessionInv, SessionTypes
<1>19. \A k \in 1..L : sessions[k].msg \in 0..Len(heap)
  BY <1>3 DEF SessionInv
<1>20. \A k \in DOMAIN sessions' : sessions'[k].msg \in 0..Len(heap')
  <2>1. ASSUME NEW k \in 1..L PROVE sessions'[k].msg \in 0..Len(heap)
    <3>1. CASE k < n
      BY <1>15, <1>19, <3>1
    <3>2. CASE k >= n /\ k < L
      <4>1. k + 1 \in 1..L
        BY <1>3, <3>2
      <4>2. QED
        BY <1>15, <1>19, <3>2, <4>1
    <3>3. CASE k = L /\ n < L
      BY <1>15, <1>19, <3>3
    <3>4. CASE k = L /\ n = L
      <4>1. sessions'[k].msg = 0 /\ Len(heap) \in Nat
        BY <1>1, <1>15, <3>4 DEF NULL, SessionInv, SessionTypes
      <4>2. QED
        BY <4>1
    <3>5. QED
      BY <1>3, <1>12, <3>1, <3>2, <3>3, <3>4
  <2>2. QED
    BY <1>1, <1>14, <2>1
<1>21. ASSUME NEW k \in DOMAIN sessions', FirstEntry(k)',
              (sessions[k].msg \notin GivenAway \cup {NULL})'
       PROVE  Counted(sessions[k])'
  <2>1. k \in 1..L
    BY <1>14
  <2>2. sessions'[k].msg # NULL /\ sessions'[k].msg \notin GivenAway /\ sessions'[k].msg # s.msg
    BY <1>17, <1>21
  <2>3. \A j \in 1..(k - 1) : sessions'[j].msg # sessions'[k].msg
    BY <1>21 DEF FirstEntry
  <2>4. PICK o \in 1..L : sessions'[k] = sessions[o] /\ FirstEntry(o)
    <3>1. CASE k < n
      <4>1. \A j \in 1..(k - 1) : sessions'[j] = sessions[j]
        <5>1. \A j \in 1..(k - 1) : j \in 1..L /\ j < n
          BY <1>3, <1>12, <2>1, <3>1
        <5>2. QED
          BY <1>15, <5>1
      <4>2. sessions'[k] = sessions[k]
        BY <1>15, <2>1, <3>1
      <4>3. QED
        BY <2>1, <2>3, <4>1, <4>2 DEF FirstEntry
    <3>2. CASE k >= n /\ k < L
      <4>1. k + 1 \in 1..L /\ sessions'[k] = sessions[k + 1]
        BY <1>3, <1>15, <2>1, <3>2
      <4>2. ASSUME NEW j \in 1..k, sessions[j].msg = sessions[k + 1].msg PROVE FALSE
        <5>1. CASE j < n
          <6>1. j \in 1..(k - 1) /\ j \in 1..L
            BY <1>3, <1>12, <2>1, <3>2, <5>1
          <6>2. QED
            BY <1>15, <2>3, <4>1, <4>2, <5>1, <6>1
        <5>2. CASE j = n
          BY <2>2, <4>1, <4>2, <5>2 DEF s
        <5>3. CASE j > n
          <6>1. j - 1 \in 1..(k - 1) /\ j - 1 \in 1..L /\ j - 1 >= n /\ j - 1 < L /\ (j - 1) + 1 = j
            BY <1>3, <1>12, <2>1, <3>2, <5>3
          <6>2. sessions'[j - 1] = sessions[j]
            BY <1>15, <6>1
          <6>3. QED
            BY <2>3, <4>1, <4>2, <6>1, <6>2
        <5>4. QED
          BY <1>12, <5>1, <5>2, <5>3
      <4>3. (k + 1) - 1 = k
        BY <2>1
      <4>4. FirstEntry(k + 1)
        BY <4>2, <4>3 DEF FirstEntry
      <4>5. QED
        BY <4>1, <4>4
    <3>3. CASE k = L /\ n < L
      <4>1. L - 1 \in 1..(k - 1) /\ L - 1 \in 1..L /\ L - 1 >= n /\ L - 1 < L /\ (L - 1) + 1 = L
        BY <1>3, <1>12, <2>1, <3>3
      <4>2. sessions'[L - 1] = sessions'[L]
        BY <1>15, <3>3, <4>1
      <4>3. QED
        BY <2>3, <3>3, <4>1, <4>2
    <3>4. CASE k = L /\ n = L
      BY <1>15, <2>2, <3>4
    <3>5. QED
      BY <1>3, <1>12, <2>1, <3>1, <3>2, <3>3, <3>4
  <2>5. sessions[o].msg \notin GivenAway \cup {NULL}
    BY <2>2, <2>4
  <2>6. Counted(sessions[o])
    BY <1>3, <2>4, <2>5 DEF SessionInv
  <2>7. sessions[o].msg \in 1..Len(heap)
    <3>1. Len(heap) \in Nat
      BY DEF SessionInv, SessionTypes
    <3>2. QED
      BY <1>19, <2>5, <3>1 DEF NULL
  <2>8. heap'[sessions[o].msg] = heap[sessions[o].msg]
    BY <1>1, <2>2, <2>4, <2>7
  <2>9. QED
    BY <2>4, <2>6, <2>8 DEF Counted
<1>22. \A m \in GivenAway : heap'[m] = heap[m]
  BY <1>1, <1>9 DEF SessionInv
<1>23. AssembledToExpectedLength'
  <2>1. \A k \in DOMAIN assembled : assembled[k] \in GivenAway
    BY DEF GivenAway
  <2>2. \A k \in DOMAIN assembled :
          /\ assembled'[k] = assembled[k]
          /\ heap'[assembled[k]] = heap[assembled[k]]
          /\ firsts'[assembled[k]] = firsts[assembled[k]]
    BY <1>16, <1>22, <2>1
  <2>3. ASSUME NEW k \in DOMAIN assembled
        PROVE  Len(heap'[assembled'[k]]) =
                 Max({Expected(firsts'[assembled'[k]]), Len(firsts'[assembled'[k]]) - 2})
    BY <2>2, <2>3 DEF SessionInv, AssembledToExpectedLength
  <2> DEFINE m == Len(firsts[s.msg]) - 2
             e == Expected(firsts[s.msg])
  <2>4. m \in Int /\ e \in Int /\ e = s.expected_length
    BY <1>1, <1>4, <1>7 DEF Counted, SessionInv, SessionTypes, IsoAssumption
  <2>5. s.payloadLen = m \/ (m <= s.payloadLen /\ s.payloadLen <= e)
    BY <1>7, <2>4 DEF Counted
  <2> HIDE DEF m, e
  <2>6. Max({e, m}) = IF e <= m THEN m ELSE e
    BY <2>4, MinOfTwo
  <2>7. p = Max({e, m})
    BY <1>1, <1>4, <1>5, <2>4, <2>5, <2>6
  <2>8. Len(heap'[a]) = Max({Expected(firsts'[a]), Len(firsts'[a]) - 2})
    BY <1>1, <1>8, <2>7 DEF m, e
  <2>9. QED
    BY <1>16, <2>3, <2>8 DEF AssembledToExpectedLength
<1>24. GivenAway' \subseteq 1..Len(heap')
  BY <1>1, <1>17 DEF SessionInv
<1>25. QED
  BY <1>18, <1>20, <1>21, <1>23, <1>24 DEF SessionInv

LEMMA SessionConsecutive ==
  ASSUME IsoAssumption, SessionInv, NEW d \in Frames, ConsecutiveFrame(d)
  PROVE  SessionInv'
<1> DEFINE n == Min(SessionsFor(d))
<1>1. cpc = "idle" /\ PCI(d) = 2 /\ UNCHANGED <<firsts, cpc, frame, filteridx>>
  BY DEF ConsecutiveFrame, Receive
<1>2. CASE UNCHANGED <<sessions, heap, firsts, assembled>>
  <2>1. SessionTypes'
    BY <1>1, <1>2 DEF SessionInv, SessionTypes
  <2>2. QED
    BY <1>2, <2>1, SessionFrame
<1>3. CASE /\ SessionsFor(d) # {}
           /\ sessions[n].msg # NULL
           /\ ~ \E k \in DOMAIN assembled : assembled[k] = sessions[n].msg
           /\ Assemble(d, n)
  <2>1. n \in DOMAIN sessions /\ FirstEntry(n)
    BY <1>3, FoundFirst
  <2>2. sessions[n].msg \notin GivenAway \cup {NULL}
    BY <1>3 DEF GivenAway
  <2>3. Assemble(d, n)
    BY <1>3
  <2> HIDE DEF n
  <2>4. QED
    BY <1>1, <2>1, <2>2, <2>3, SessionGrows, SessionEnds, LongEnough
<1>4. QED
  BY <1>2, <1>3 DEF ConsecutiveFrame

\* No step of either thread breaks SessionInv.
LEMMA SessionNext ==
  ASSUME IsoAssumption, SessionInv, [Next]_vars
  PROVE  SessionInv'
<1>1. ASSUME NEW d \in Frames, FirstFrame(d) PROVE SessionInv'
  BY <1>1, SessionFirstFrame, IsoAssumption
<1>2. ASSUME NEW d \in Frames, ConsecutiveFrame(d) PROVE SessionInv'
  BY <1>2, SessionConsecutive
<1>3. ASSUME FlowControlRefused PROVE SessionInv'
  <2>1. SessionTypes' /\ UNCHANGED <<sessions, heap, firsts, assembled>>
    BY <1>3 DEF FlowControlRefused, Return, SessionInv, SessionTypes
  <2>2. QED
    BY <2>1, SessionFrame
<1>4. ASSUME UNCHANGED <<sessions, heap, firsts, cpc, frame, filteridx, assembled>>
      PROVE  SessionInv'
  <2>1. SessionTypes'
    BY <1>4 DEF SessionInv, SessionTypes
  <2>2. QED
    BY <1>4, <2>1, SessionFrame
<1>5. ASSUME \/ \E q \in Requests : StartMsgFilter(q)
             \/ Publish
             \/ \E s \in Slots : StopMsgFilter(s)
             \/ Shift \/ CountDown \/ DeleteFilters
             \/ \E m \in Messages : WriteMsg(m)
             \/ \E d \in Frames : OtherFrame(d)
             \/ FlowControlFromGarbage
             \/ UNCHANGED vars
      PROVE  UNCHANGED <<sessions, heap, firsts, cpc, frame, filteridx, assembled>>
  BY <1>5 DEF StartMsgFilter, Publish, StopMsgFilter, Shift, CountDown, DeleteFilters,
              WriteMsg, OtherFrame, FlowControlFromGarbage, vars, comm
<1>6. QED
  BY <1>1, <1>2, <1>3, <1>4, <1>5, SessionAnswer DEF Next

\* SessionInv holds in every state.
THEOREM SessionsCount == Spec => []SessionInv
<1>1. Init => SessionInv
  BY SessionInit
<1>2. SessionInv /\ [Next]_vars => SessionInv'
  BY SessionNext, IsoAssumption
<1>3. QED
  BY <1>1, <1>2, PTL DEF Spec

\* Whatever frames arrive in whatever order, and however often DeleteSession has
\* left a duplicate entry behind, a message is given to the receive buffer at
\* the length the code expected from that message's own first frame.
THEOREM AssembledToLength == Spec => []AssembledToExpectedLength
<1>1. SessionInv => AssembledToExpectedLength
  BY DEF SessionInv
<1>2. QED
  BY <1>1, SessionsCount, PTL
=============================================================================
