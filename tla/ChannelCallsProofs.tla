------------------------- MODULE ChannelCallsProofs -------------------------
(***************************************************************************)
(* Proofs about ChannelCalls: for any number of channels and threads and   *)
(* any messages, write_lock keeps one write at a time on the port, the     *)
(* adapter is open at the channel's rate whenever all PassThruConnects     *)
(* have returned and no write failed, and PassThruWriteMsgs reports what   *)
(* was written.                                                            *)
(***************************************************************************)
EXTENDS ChannelCalls, TLAPS

\* What a PassThruConnect still has to send.
Parts == {<<"C", "S4", "O">>, <<"S4", "O">>, <<"O">>}

\* The types the proofs need.
TypeOK ==
  /\ opened \subseteq Channels
  /\ pc \in [Threads -> {"idle", "next", "sending", "written"}]
  /\ todo \in [Threads -> Seq(Messages) \cup Parts]
  /\ write_lock \in Threads \cup {NoThread}
  /\ overlap \in {"none", "pending", "whole", "cut", "refused"}
  /\ adapter \in [open : BOOLEAN, rate : {"S4", "S6"}, half : BOOLEAN]
  /\ disturbed \in BOOLEAN

\* The thread that sends holds write_lock; a PassThruConnect is under way as
\* long as there is something of it to send; messages go to open channels.
ThreadOK(t) ==
  /\ pc[t] = "sending" <=> write_lock = t
  /\ pc[t] = "idle" => todo[t] = <<>>
  /\ pc[t] \in {"sending", "written"} => todo[t] # <<>>
  /\ todo[t] \in Parts => t[2] = "app" /\ t[1] \notin opened /\ Kind[t[1]] # "ISO9141"
  /\ todo[t] \notin Parts \cup {<<>>} /\ t[2] = "app" => t[1] \in opened

ThreadInv == \A t \in Threads : ThreadOK(t)

\* The port works on the line of the holder of write_lock, or on none.
PortInv ==
  /\ overlap = "pending" =>
       write_lock # NoThread /\ port = <<<<write_lock, Head(todo[write_lock])>>>>
  /\ overlap # "pending" => port = <<>>

LockInv == ThreadInv /\ PortInv

\* The first line of thread t has left the port.
Taken(t) == pc[t] = "written" \/ (pc[t] = "sending" /\ overlap # "pending")

\* How far PassThruConnect of thread t is with the adapter.
OpenTaken(t) ==
  /\ t[2] = "app" /\ Kind[t[1]] # "ISO9141"
  /\ \/ t[1] \in opened
     \/ pc[t] = "next" /\ todo[t] = <<>>
     \/ todo[t] = <<"O">> /\ Taken(t)

RateTaken(t) ==
  OpenTaken(t) \/ todo[t] = <<"O">> \/ (todo[t] = <<"S4", "O">> /\ Taken(t))

CloseTaken(t) ==
  RateTaken(t) \/ todo[t] = <<"S4", "O">> \/ (todo[t] = <<"C", "S4", "O">> /\ Taken(t))

OpenToCome(t) == todo[t] \in Parts /\ ~(todo[t] = <<"O">> /\ Taken(t))

\* Every close of the adapter is followed by an open; and the first rate it
\* is given finds it closed.
AdapterInv ==
  ~disturbed =>
    /\ ~adapter.half
    /\ (\E t \in Threads : OpenTaken(t)) => adapter.open \/ \E t \in Threads : OpenToCome(t)
    /\ \/ adapter.rate = "S4"
       \/ /\ \A t \in Threads : ~RateTaken(t)
          /\ (\E t \in Threads : CloseTaken(t)) => ~adapter.open

-----------------------------------------------------------------------------
\* What a thread has to send tells whether it is in PassThruConnect.
LEMMA Todos ==
  /\ <<>> \in Seq(Messages) /\ <<>> \notin Parts
  /\ Head(<<"C", "S4", "O">>) = "C" /\ Tail(<<"C", "S4", "O">>) = <<"S4", "O">>
  /\ Head(<<"S4", "O">>) = "S4" /\ Tail(<<"S4", "O">>) = <<"O">>
  /\ Head(<<"O">>) = "O" /\ Tail(<<"O">>) = <<>>
  /\ \A s \in Seq(Messages) :
       /\ s \notin Parts
       /\ s # <<>> => Head(s) \in Messages \ Commands /\ Tail(s) \in Seq(Messages)
<1>1. /\ <<>> \in Seq(Messages) /\ <<>> \notin Parts
      /\ Head(<<"C", "S4", "O">>) = "C" /\ Tail(<<"C", "S4", "O">>) = <<"S4", "O">>
      /\ Head(<<"S4", "O">>) = "S4" /\ Tail(<<"S4", "O">>) = <<"O">>
      /\ Head(<<"O">>) = "O" /\ Tail(<<"O">>) = <<>>
  BY DEF Parts
<1>2. ASSUME NEW s \in Seq(Messages), s # <<>>
      PROVE  Head(s) \in Messages \ Commands /\ Tail(s) \in Seq(Messages)
  BY <1>2, CallsAssumption
<1>3. ASSUME NEW s \in Seq(Messages) PROVE s \notin Parts
  BY <1>1, <1>2 DEF Parts, Commands
<1> QED
  BY <1>1, <1>2, <1>3

\* The stages of a PassThruConnect are told apart by what is left of it.
LEMMA PartsDiffer ==
  /\ <<"C", "S4", "O">> # <<"S4", "O">> /\ <<"C", "S4", "O">> # <<"O">>
  /\ <<"S4", "O">> # <<"O">> /\ \A p \in Parts : p # <<>>
  BY DEF Parts

\* A free write_lock is not mistaken for one that a thread holds.
LEMMA NoThreadIsNone == NoThread \notin Threads
  BY DEF NoThread, Threads

\* Each channel has its application thread, and each such thread its channel.
LEMMA AppIsThread == \A c \in Channels :
  App(c) \in Threads /\ App(c)[1] = c /\ App(c)[2] = "app" /\ <<c, "timer">> \in Threads
  BY DEF App, Threads

\* The application thread of a channel is determined by it.
LEMMA AppOfThread == \A t \in Threads : t[2] = "app" => t = App(t[1])
  BY DEF App, Threads

\* Every step keeps the types.
LEMMA TypeStep == TypeOK /\ LockInv /\ [Next]_vars => TypeOK'
<1> SUFFICES ASSUME TypeOK, LockInv, [Next]_vars PROVE TypeOK'
  OBVIOUS
<1> USE DEF TypeOK
<1>1. CASE DeviceOpened \/ PassThruOpenFails \/ GetLastError
  BY <1>1 DEF DeviceOpened, PassThruOpenFails, GetLastError, line
<1>2. ASSUME NEW c \in Channels, Connect(c) PROVE TypeOK'
  <2>1. (IF Kind[c] = "ISO9141" THEN <<>> ELSE SetDatarate) \in Seq(Messages) \cup Parts
    BY DEF SetDatarate, Parts
  <2> QED
    BY <1>2, <2>1, AppIsThread DEF Connect, Begin, line
<1>3. ASSUME NEW c \in Channels, Disconnect(c) PROVE TypeOK'
  BY <1>3 DEF Disconnect, line
<1>4. ASSUME NEW c \in Channels, NEW batch \in Batches, WriteMsgs(c, batch) PROVE TypeOK'
  <2>1. batch \in Seq(Messages)
    BY CallsAssumption
  <2>2. /\ UNCHANGED <<opened, line>>
        /\ \/ Begin(App(c), batch)
           \/ UNCHANGED <<pc, todo>>
    BY <1>4 DEF WriteMsgs
  <2> QED
    BY <2>1, <2>2, AppIsThread DEF Begin, line
<1>5. ASSUME NEW c \in Channels, NEW m \in Messages, SendPeriodicMsg(c, m) PROVE TypeOK'
  <2>1. <<m>> \in Seq(Messages)
    OBVIOUS
  <2> QED
    BY <1>5, <2>1, AppIsThread DEF SendPeriodicMsg, Begin, line
<1>6. ASSUME NEW c \in Channels,
             \/ \E list \in ParamLists : SetConfig(c, list) \/ GetConfig(c, list)
             \/ \E code \in {"NOERROR", "ERROR_NOT_SUPPORTED"} : Ioctl(c, code)
      PROVE  TypeOK'
  BY <1>6 DEF SetConfig, GetConfig, Config, Ioctl, line
<1>7. ASSUME NEW t \in Threads, RefuseMsg(t) PROVE TypeOK'
  BY <1>7, Todos DEF RefuseMsg, Fail, Idle, line
<1>8. ASSUME NEW t \in Threads, WriteNothing(t) PROVE TypeOK'
  BY <1>8 DEF WriteNothing, line
<1>9. ASSUME NEW t \in Threads, Send(t) PROVE TypeOK'
  BY <1>9 DEF Send
<1>10. ASSUME NEW t \in Threads, Sent(t) PROVE TypeOK'
  BY ZenonT(40), <1>10, Todos DEF Sent, Fail, Idle
<1>11. ASSUME NEW t \in Threads, Written(t) PROVE TypeOK'
  <2>1. todo[t] # <<>> => Tail(todo[t]) \in Seq(Messages) \cup Parts
    BY Todos DEF Parts
  <2> QED
    BY <1>11, <2>1 DEF Written, At, line
<1>12. ASSUME NEW t \in Threads, Finish(t) PROVE TypeOK'
  BY <1>12, Todos DEF Finish, Idle, line, Threads
<1>13. ASSUME NEW outcome \in {"whole", "cut", "refused"}, PortFinishes(outcome) PROVE TypeOK'
  BY ZenonT(40), <1>13 DEF PortFinishes, Obey
<1>14. CASE UNCHANGED vars
  BY <1>14 DEF vars, line
<1> QED
  BY <1>1, <1>2, <1>3, <1>4, <1>5, <1>6, <1>7, <1>8, <1>9, <1>10, <1>11, <1>12, <1>13,
     <1>14 DEF Next

\* Every step keeps the port with the holder of write_lock.
LEMMA LockStep == TypeOK /\ LockInv /\ [Next]_vars => LockInv'
<1> SUFFICES ASSUME TypeOK, LockInv, [Next]_vars PROVE LockInv'
  OBVIOUS
<1> USE DEF TypeOK, LockInv, PortInv
<1>1. ASSUME NEW u \in Threads, pc'[u] = pc[u], todo'[u] = todo[u],
             u[2] = "app" => (u[1] \in opened' <=> u[1] \in opened),
             write_lock' = u <=> write_lock = u
      PROVE  ThreadOK(u)'
  BY <1>1 DEF ThreadInv, ThreadOK
<1>2. ASSUME NEW t \in Threads, pc[t] # "sending", UNCHANGED line, ThreadOK(t)',
             \A u \in Threads : u # t =>
               /\ pc'[u] = pc[u] /\ todo'[u] = todo[u]
               /\ u[2] = "app" => (u[1] \in opened' <=> u[1] \in opened)
      PROVE  LockInv'
  <2>1. ThreadInv'
    BY <1>1, <1>2 DEF ThreadInv, line
  <2>2. write_lock # t
    BY <1>2 DEF ThreadInv, ThreadOK
  <2>3. PortInv'
    BY <1>2, <2>2 DEF line
  <2> QED
    BY <2>1, <2>3
<1>3. CASE \/ DeviceOpened \/ PassThruOpenFails \/ GetLastError \/ UNCHANGED vars
           \/ \E c \in Channels :
                \/ \E list \in ParamLists : SetConfig(c, list) \/ GetConfig(c, list)
                \/ \E code \in {"NOERROR", "ERROR_NOT_SUPPORTED"} : Ioctl(c, code)
  <2>1. UNCHANGED <<opened, pc, todo, line>>
    BY <1>3 DEF DeviceOpened, PassThruOpenFails, GetLastError, vars,
       SetConfig, GetConfig, Config, Ioctl
  <2>2. ThreadInv'
    BY <1>1, <2>1 DEF ThreadInv, line
  <2> QED
    BY <2>1, <2>2 DEF line
<1>4. ASSUME NEW c \in Channels, Connect(c) PROVE LockInv'
  <2> DEFINE t == App(c)
  <2>1. t \in Threads /\ t[1] = c /\ t[2] = "app"
    BY AppIsThread
  <2>2. /\ UNCHANGED <<opened, line>> /\ pc[t] = "idle" /\ c \notin opened
        /\ Begin(t, IF Kind[c] = "ISO9141" THEN <<>> ELSE SetDatarate)
    BY <1>4 DEF Connect, Called
  <2>3. pc'[t] = "next" /\ todo'[t] \in Parts \cup {<<>>}
    BY <2>1, <2>2 DEF Begin, SetDatarate, Parts
  <2>4. todo'[t] \in Parts => Kind[c] # "ISO9141"
    BY <2>1, <2>2, Todos DEF Begin
  <2>5. ThreadOK(t)'
    BY <2>1, <2>2, <2>3, <2>4 DEF ThreadInv, ThreadOK, line
  <2> HIDE DEF t
  <2> QED
    BY <1>2, <2>1, <2>2, <2>5 DEF Begin
<1>5. ASSUME NEW c \in Channels, Disconnect(c) PROVE LockInv'
  <2> DEFINE t == App(c)
  <2>1. t \in Threads /\ t[1] = c /\ t[2] = "app"
    BY AppIsThread
  <2>2. /\ UNCHANGED <<pc, todo, line>> /\ pc[t] = "idle"
        /\ opened' = opened \ {c}
    BY <1>5 DEF Disconnect, Called
  <2>3. \A u \in Threads : u # t /\ u[2] = "app" => u[1] # c
    BY AppOfThread
  <2>4. ThreadOK(t)'
    BY <2>1, <2>2, Todos DEF ThreadInv, ThreadOK, line
  <2> HIDE DEF t
  <2> QED
    BY <1>2, <2>1, <2>2, <2>3, <2>4
<1>6. ASSUME NEW c \in Channels, NEW batch \in Batches, WriteMsgs(c, batch) PROVE LockInv'
  <2> DEFINE t == App(c)
  <2>1. t \in Threads /\ t[1] = c /\ t[2] = "app" /\ batch \in Seq(Messages)
    BY AppIsThread, CallsAssumption
  <2>2. /\ UNCHANGED <<opened, line>> /\ pc[t] = "idle" /\ c \in opened
        /\ Begin(t, batch) \/ UNCHANGED <<pc, todo>>
    BY <1>6 DEF WriteMsgs, Called
  <2>3. ThreadOK(t)'
    BY <2>1, <2>2, Todos DEF ThreadInv, ThreadOK, line, Begin
  <2> HIDE DEF t
  <2> QED
    BY <1>2, <2>1, <2>2, <2>3 DEF Begin
<1>7. ASSUME NEW c \in Channels, NEW m \in Messages, SendPeriodicMsg(c, m) PROVE LockInv'
  <2> DEFINE t == <<c, "timer">>
  <2>1. t \in Threads /\ t[2] # "app" /\ <<m>> \in Seq(Messages)
    BY AppIsThread
  <2>2. UNCHANGED <<opened, line>> /\ pc[t] = "idle" /\ Begin(t, <<m>>)
    BY <1>7 DEF SendPeriodicMsg, Called
  <2>3. todo'[t] \notin Parts /\ pc'[t] = "next" /\ write_lock # t
    BY <2>1, <2>2, Todos DEF Begin, ThreadInv, ThreadOK
  <2> HIDE DEF t
  <2>4. ThreadOK(t)'
    BY <2>1, <2>2, <2>3 DEF ThreadOK, line
  <2> QED
    BY <1>2, <2>1, <2>2, <2>4 DEF Begin
<1>8. ASSUME NEW t \in Threads, RefuseMsg(t) PROVE LockInv'
  <2>1. UNCHANGED <<opened, line>> /\ pc[t] = "next" /\ Idle(t)
    BY <1>8 DEF RefuseMsg, At, Fail
  <2>2. ThreadOK(t)'
    BY <2>1, Todos DEF ThreadInv, ThreadOK, line, Idle
  <2> QED
    BY <1>2, <2>1, <2>2 DEF Idle
<1>9. ASSUME NEW t \in Threads, WriteNothing(t) PROVE LockInv'
  <2>1. /\ UNCHANGED <<opened, todo, line>> /\ pc[t] = "next" /\ todo[t] # <<>>
        /\ pc' = [pc EXCEPT ![t] = "written"]
    BY <1>9 DEF WriteNothing, At
  <2>2. ThreadOK(t)'
    BY <2>1 DEF ThreadInv, ThreadOK, line
  <2> QED
    BY <1>2, <2>1, <2>2
<1>10. ASSUME NEW t \in Threads, Send(t) PROVE LockInv'
  <2>1. /\ UNCHANGED <<opened, todo>> /\ pc[t] = "next" /\ todo[t] # <<>>
        /\ write_lock = NoThread /\ write_lock' = t
        /\ pc' = [pc EXCEPT ![t] = "sending"]
        /\ port' = Append(port, <<t, Head(todo[t])>>) /\ overlap' = "pending"
    BY <1>10 DEF Send, At
  <2>2. port = <<>>
    BY <2>1
  <2>3. port' = <<<<t, Head(todo[t])>>>>
    BY <2>1, <2>2
  <2>4. PortInv'
    BY <2>1, <2>3, NoThreadIsNone
  <2>5. ThreadOK(t)'
    BY <2>1 DEF ThreadInv, ThreadOK
  <2>6. \A u \in Threads : u # t => ThreadOK(u)'
    BY <1>1, <2>1, NoThreadIsNone
  <2> QED
    BY <2>4, <2>5, <2>6 DEF ThreadInv
<1>11. ASSUME NEW t \in Threads, Sent(t) PROVE LockInv'
  <2>1. /\ UNCHANGED <<opened, port, overlap>> /\ pc[t] = "sending" /\ todo[t] # <<>>
        /\ overlap # "pending" /\ write_lock = t /\ write_lock' = NoThread
        /\ \/ pc' = [pc EXCEPT ![t] = "written"] /\ UNCHANGED todo
           \/ Idle(t)
    BY <1>11 DEF Sent, Fail, ThreadInv, ThreadOK
  <2>2. ThreadOK(t)'
    BY <2>1, NoThreadIsNone, Todos DEF ThreadInv, ThreadOK, Idle
  <2>3. \A u \in Threads : u # t => ThreadOK(u)'
    BY <1>1, <2>1, NoThreadIsNone DEF Idle
  <2> QED
    BY <2>1, <2>2, <2>3 DEF ThreadInv
<1>12. ASSUME NEW t \in Threads, Written(t) PROVE LockInv'
  <2>1. /\ UNCHANGED <<opened, line>> /\ pc[t] = "written" /\ todo[t] # <<>>
        /\ todo' = [todo EXCEPT ![t] = Tail(@)] /\ pc' = [pc EXCEPT ![t] = "next"]
    BY <1>12 DEF Written, At
  <2>2. todo'[t] \in Parts <=> todo[t] \in Parts /\ todo[t] # <<"O">>
    BY <2>1, Todos DEF Parts
  <2>3. todo[t] \in Parts => todo'[t] \in Parts \cup {<<>>}
    BY <2>1, Todos DEF Parts
  <2>4. ThreadOK(t)'
    BY <2>1, <2>2, <2>3 DEF ThreadInv, ThreadOK, line
  <2> QED
    BY <1>2, <2>1, <2>4
<1>13. ASSUME NEW t \in Threads, Finish(t) PROVE LockInv'
  <2>1. /\ UNCHANGED line /\ pc[t] = "next" /\ Idle(t)
        /\ opened' = opened \/ (t[2] = "app" /\ opened' = opened \cup {t[1]})
    BY <1>13 DEF Finish
  <2>2. \A u \in Threads : u # t /\ u[2] = "app" => (u[1] \in opened' <=> u[1] \in opened)
    BY <2>1, AppOfThread
  <2>3. ThreadOK(t)'
    BY <2>1, Todos DEF ThreadInv, ThreadOK, line, Idle
  <2> QED
    BY <1>2, <2>1, <2>2, <2>3 DEF Idle
<1>14. ASSUME NEW outcome \in {"whole", "cut", "refused"}, PortFinishes(outcome) PROVE LockInv'
  <2>1. overlap = "pending" /\ Tail(<<<<write_lock, Head(todo[write_lock])>>>>) = <<>>
    BY <1>14 DEF PortFinishes
  <2>2. /\ UNCHANGED <<opened, pc, todo, write_lock>>
        /\ port' = <<>> /\ overlap' # "pending"
    BY <1>14, <2>1 DEF PortFinishes
  <2>3. ThreadInv'
    BY <1>1, <2>2 DEF ThreadInv
  <2> QED
    BY <2>2, <2>3
<1> QED
  BY <1>3, <1>4, <1>5, <1>6, <1>7, <1>8, <1>9, <1>10, <1>11, <1>12, <1>13, <1>14 DEF Next

\* Nothing the adapter has been told is undone or repeated.
Steady ==
  /\ UNCHANGED <<adapter, disturbed>>
  /\ \A t \in Threads :
       /\ OpenTaken(t)' <=> OpenTaken(t)
       /\ RateTaken(t)' <=> RateTaken(t)
       /\ CloseTaken(t)' <=> CloseTaken(t)
       /\ OpenToCome(t)' <=> OpenToCome(t)

\* What leaves the stages of all threads alone keeps the invariant.
LEMMA SteadyKeeps == AdapterInv /\ Steady => AdapterInv'
  BY DEF AdapterInv, Steady

\* Only connecting, disconnecting and a finished write move a stage.
LEMMA SteadyUnlessTold ==
  ASSUME TypeOK, LockInv,
         \/ DeviceOpened \/ PassThruOpenFails \/ GetLastError \/ UNCHANGED vars
         \/ \E c \in Channels :
              \/ \E batch \in Batches : WriteMsgs(c, batch)
              \/ \E m \in Messages : SendPeriodicMsg(c, m)
              \/ \E list \in ParamLists : SetConfig(c, list) \/ GetConfig(c, list)
              \/ \E code \in {"NOERROR", "ERROR_NOT_SUPPORTED"} : Ioctl(c, code)
         \/ \E t \in Threads : RefuseMsg(t) \/ WriteNothing(t) \/ Send(t) \/ Sent(t)
                               \/ Written(t) \/ Finish(t)
  PROVE  Steady
<1> USE DEF TypeOK, LockInv, ThreadInv, ThreadOK, PortInv
<1> DEFINE Same(t) ==
      /\ OpenTaken(t)' <=> OpenTaken(t)
      /\ RateTaken(t)' <=> RateTaken(t)
      /\ CloseTaken(t)' <=> CloseTaken(t)
      /\ OpenToCome(t)' <=> OpenToCome(t)
<1>1. ASSUME NEW u \in Threads, pc'[u] = pc[u], todo'[u] = todo[u],
             u[2] = "app" => (u[1] \in opened' <=> u[1] \in opened),
             pc[u] = "sending" => overlap' = overlap
      PROVE  Same(u)
  BY <1>1 DEF OpenTaken, RateTaken, CloseTaken, OpenToCome, Taken
<1>2. ASSUME NEW u \in Threads, opened' = opened,
             todo[u] \notin Parts, todo'[u] \notin Parts,
             \/ u[2] # "app" \/ u[1] \in opened
             \/ pc[u] # "next" /\ pc'[u] # "next"
      PROVE  Same(u)
  BY <1>2 DEF OpenTaken, RateTaken, CloseTaken, OpenToCome, Taken, Parts
<1>3. CASE \/ DeviceOpened \/ PassThruOpenFails \/ GetLastError \/ UNCHANGED vars
           \/ \E c \in Channels :
                \/ \E list \in ParamLists : SetConfig(c, list) \/ GetConfig(c, list)
                \/ \E code \in {"NOERROR", "ERROR_NOT_SUPPORTED"} : Ioctl(c, code)
  <2>1. UNCHANGED <<opened, overlap, pc, todo, adapter, disturbed>>
    BY <1>3 DEF DeviceOpened, PassThruOpenFails, GetLastError, vars, line,
       SetConfig, GetConfig, Config, Ioctl
  <2> QED
    BY <1>1, <2>1 DEF Steady
<1>4. ASSUME NEW c \in Channels, NEW batch \in Batches, WriteMsgs(c, batch) PROVE Steady
  <2>1. batch \in Seq(Messages)
    BY CallsAssumption
  <2>2. /\ UNCHANGED <<opened, overlap, adapter, disturbed>>
        /\ pc[App(c)] = "idle" /\ c \in opened
        /\ \/ Begin(App(c), batch)
           \/ UNCHANGED <<pc, todo>>
    BY <1>4 DEF WriteMsgs, Called, line
  <2>3. Same(App(c))
    <3>1. App(c) \in Threads /\ App(c)[1] = c
      BY AppIsThread
    <3>2. todo[App(c)] \notin Parts /\ todo'[App(c)] \notin Parts
      BY <2>1, <2>2, <3>1, Todos DEF Begin
    <3> QED
      BY <1>2, <2>2, <3>1, <3>2
  <2>4. ASSUME NEW u \in Threads, u # App(c) PROVE Same(u)
    BY <1>1, <2>2, <2>4 DEF Begin
  <2> QED
    BY <2>2, <2>3, <2>4 DEF Steady
<1>5. ASSUME NEW c \in Channels, NEW m \in Messages, SendPeriodicMsg(c, m) PROVE Steady
  <2> DEFINE t == <<c, "timer">>
  <2>1. <<m>> \in Seq(Messages) /\ t \in Threads
    BY AppIsThread
  <2>2. /\ UNCHANGED <<opened, overlap, adapter, disturbed>>
        /\ pc[t] = "idle" /\ Begin(t, <<m>>)
    BY <1>5 DEF SendPeriodicMsg, Called, line
  <2>3. Same(t)
    BY <1>2, <2>1, <2>2, Todos DEF Begin
  <2>4. ASSUME NEW u \in Threads, u # t PROVE Same(u)
    BY <1>1, <2>2, <2>4 DEF Begin
  <2> QED
    BY ZenonT(40), <2>2, <2>3, <2>4 DEF Steady
<1>6. ASSUME NEW t \in Threads, RefuseMsg(t) PROVE Steady
  <2>1. /\ UNCHANGED <<opened, overlap, adapter, disturbed>>
        /\ pc[t] = "next" /\ todo[t] # <<>> /\ Head(todo[t]) \in Messages
        /\ Idle(t)
    BY <1>6, CallsAssumption DEF RefuseMsg, At, Fail, line
  <2>2. todo[t] \notin Parts
    BY <2>1, Todos, CallsAssumption DEF Parts, Commands
  <2>3. Same(t)
    BY <1>2, <2>1, <2>2, Todos DEF Idle
  <2>4. ASSUME NEW u \in Threads, u # t PROVE Same(u)
    BY <1>1, <2>1, <2>4 DEF Idle
  <2> QED
    BY <2>1, <2>3, <2>4 DEF Steady
<1>7. ASSUME NEW t \in Threads, WriteNothing(t) PROVE Steady
  <2>1. /\ UNCHANGED <<opened, overlap, adapter, disturbed, todo>>
        /\ pc[t] = "next" /\ todo[t] # <<>> /\ Head(todo[t]) \in Messages
        /\ pc' = [pc EXCEPT ![t] = "written"]
    BY <1>7 DEF WriteNothing, At, line
  <2>2. todo[t] \notin Parts
    BY <2>1, Todos, CallsAssumption DEF Parts, Commands
  <2>3. Same(t)
    BY <1>2, <2>1, <2>2
  <2>4. ASSUME NEW u \in Threads, u # t PROVE Same(u)
    BY <1>1, <2>1, <2>4
  <2> QED
    BY <2>1, <2>3, <2>4 DEF Steady
<1>8. ASSUME NEW t \in Threads, Send(t) PROVE Steady
  <2>1. /\ UNCHANGED <<opened, adapter, disturbed, todo>>
        /\ pc[t] = "next" /\ todo[t] # <<>> /\ overlap' = "pending"
        /\ pc' = [pc EXCEPT ![t] = "sending"]
        /\ \A u \in Threads : pc[u] # "sending"
    BY <1>8, NoThreadIsNone DEF Send, At
  <2>3. Same(t)
    BY <2>1 DEF OpenTaken, RateTaken, CloseTaken, OpenToCome, Taken
  <2>4. ASSUME NEW u \in Threads, u # t PROVE Same(u)
    BY <1>1, <2>1, <2>4
  <2> QED
    BY <2>1, <2>3, <2>4 DEF Steady
<1>9. ASSUME NEW t \in Threads, Sent(t) PROVE Steady
  <2>1. /\ UNCHANGED <<opened, overlap, adapter, disturbed>>
        /\ pc[t] = "sending" /\ todo[t] # <<>> /\ overlap # "pending"
        /\ \/ pc' = [pc EXCEPT ![t] = "written"] /\ UNCHANGED todo
           \/ Idle(t) /\ Head(todo[t]) \notin Commands
    BY <1>9 DEF Sent, Fail
  <2>2. ASSUME pc' = [pc EXCEPT ![t] = "written"] /\ UNCHANGED todo PROVE Same(t)
    BY <2>1, <2>2 DEF OpenTaken, RateTaken, CloseTaken, OpenToCome, Taken
  <2>3. ASSUME Idle(t) /\ Head(todo[t]) \notin Commands PROVE Same(t)
    <3>1. todo[t] \notin Parts
      BY <2>3, Todos DEF Parts, Commands
    <3> QED
      BY <1>2, <2>1, <2>3, <3>1, Todos DEF Idle
  <2>4. ASSUME NEW u \in Threads, u # t PROVE Same(u)
    BY <1>1, <2>1, <2>4 DEF Idle
  <2> QED
    BY <2>1, <2>2, <2>3, <2>4 DEF Steady
<1>10. ASSUME NEW t \in Threads, Written(t) PROVE Steady
  <2>1. /\ UNCHANGED <<opened, overlap, adapter, disturbed>>
        /\ pc[t] = "written" /\ pc'[t] = "next"
        /\ todo[t] # <<>> /\ todo'[t] = Tail(todo[t])
        /\ \A u \in Threads : u # t => pc'[u] = pc[u] /\ todo'[u] = todo[u]
    BY <1>10 DEF Written, At, line
  <2>2. ASSUME todo[t] \in Parts PROVE Same(t)
    <3>1. t[2] = "app" /\ t[1] \notin opened /\ Kind[t[1]] # "ISO9141" /\ opened' = opened
      BY <2>1, <2>2
    <3>2. Taken(t) /\ ~Taken(t)'
      BY <2>1 DEF Taken
    <3>3. CASE todo[t] = <<"C", "S4", "O">>
      BY <2>1, <3>1, <3>2, <3>3, Todos DEF OpenTaken, RateTaken, CloseTaken, OpenToCome, Parts
    <3>4. CASE todo[t] = <<"S4", "O">>
      BY <2>1, <3>1, <3>2, <3>4, Todos DEF OpenTaken, RateTaken, CloseTaken, OpenToCome, Parts
    <3>5. CASE todo[t] = <<"O">>
      BY <2>1, <3>1, <3>2, <3>5, Todos DEF OpenTaken, RateTaken, CloseTaken, OpenToCome, Parts
    <3> QED
      BY <2>2, <3>3, <3>4, <3>5 DEF Parts
  <2>3. ASSUME todo[t] \notin Parts PROVE Same(t)
    <3>1. todo'[t] \notin Parts
      <4>1. todo[t] \in Seq(Messages)
        BY <2>3
      <4>2. Tail(todo[t]) \in Seq(Messages)
        BY <2>1, <4>1, Todos
      <4> QED
        BY ZenonT(40), <2>1, <4>2, Todos
    <3>2. t[2] # "app" \/ t[1] \in opened
      BY <2>1, <2>3
    <3> QED
      BY <1>2, <2>1, <2>3, <3>1, <3>2
  <2>4. ASSUME NEW u \in Threads, u # t PROVE Same(u)
    BY <1>1, <2>1, <2>4
  <2> QED
    BY <2>1, <2>2, <2>3, <2>4 DEF Steady
<1>11. ASSUME NEW t \in Threads, Finish(t) PROVE Steady
  <2>1. /\ UNCHANGED <<overlap, adapter, disturbed>> /\ Idle(t)
        /\ pc[t] = "next" /\ todo[t] = <<>>
        /\ IF t[2] = "app" THEN opened' = opened \cup {t[1]} ELSE UNCHANGED opened
    BY <1>11 DEF Finish, line
  <2>2. Same(t)
    BY <2>1, Todos DEF Idle, OpenTaken, RateTaken, CloseTaken, OpenToCome, Taken, Parts
  <2>3. ASSUME NEW u \in Threads, u # t PROVE Same(u)
    <3>1. u[2] = "app" => (u[1] \in opened' <=> u[1] \in opened)
      BY <2>1, <2>3, AppOfThread
    <3> QED
      BY <1>1, <2>1, <2>3, <3>1 DEF Idle
  <2> QED
    BY <2>1, <2>2, <2>3 DEF Steady
<1> QED
  BY <1>3, <1>4, <1>5, <1>6, <1>7, <1>8, <1>9, <1>10, <1>11

\* The port finishes a line: the adapter is closed, given the rate or opened.
LEMMA ToldStep ==
  ASSUME TypeOK, LockInv, AdapterInv,
         NEW outcome \in {"whole", "cut", "refused"}, PortFinishes(outcome)
  PROVE  AdapterInv'
<1> USE DEF TypeOK, LockInv, ThreadInv, ThreadOK, PortInv
<1>0. PICK t \in Threads : t = write_lock /\ overlap = "pending"
  BY NoThreadIsNone DEF PortFinishes
<1>1. overlap = "pending" /\ t \in Threads /\ pc[t] = "sending" /\ Head(port) = <<t, Head(todo[t])>>
  BY <1>0 DEF PortFinishes
<1>2. UNCHANGED <<opened, pc, todo, write_lock>> /\ overlap' = outcome /\ outcome # "pending"
  BY DEF PortFinishes
<1>3. SUFFICES ASSUME ~disturbed' PROVE AdapterInv'
  BY DEF AdapterInv
<1>4. /\ ~disturbed /\ outcome = "whole" /\ ~adapter.half
      /\ adapter' = Obey(adapter, Head(todo[t]))
  <2>1. /\ disturbed' = (disturbed \/ outcome # "whole")
        /\ outcome = "whole" => adapter' = Obey(adapter, Head(port)[2])
    BY DEF PortFinishes
  <2>2. ~disturbed /\ outcome = "whole"
    BY <1>3, <2>1
  <2> QED
    BY <1>1, <2>1, <2>2 DEF AdapterInv
<1>5. /\ todo[t] # <<>> /\ todo[t] \in Seq(Messages) \cup Parts
      /\ todo[t] \in Parts => t[1] \notin opened
      /\ Taken(t)' /\ ~Taken(t)
      /\ \A u \in Threads : u # t => (Taken(u)' <=> Taken(u))
  BY <1>1, <1>2 DEF Taken
<1> HIDE DEF LockInv, ThreadInv, ThreadOK, PortInv
<1>6. \A u \in Threads : u # t =>
        /\ OpenTaken(u)' <=> OpenTaken(u)
        /\ RateTaken(u)' <=> RateTaken(u)
        /\ CloseTaken(u)' <=> CloseTaken(u)
        /\ OpenToCome(u)' <=> OpenToCome(u)
  BY <1>2, <1>5 DEF OpenTaken, RateTaken, CloseTaken, OpenToCome
<1>7. CASE todo[t] \notin Parts
  <2>1. Head(todo[t]) \in Messages \ Commands
    BY <1>5, <1>7, Todos
  <2>2. adapter' = adapter
    BY <1>4, <2>1 DEF Obey, Commands
  <2>3. /\ OpenTaken(t)' <=> OpenTaken(t)
        /\ RateTaken(t)' <=> RateTaken(t)
        /\ CloseTaken(t)' <=> CloseTaken(t)
        /\ OpenToCome(t)' <=> OpenToCome(t)
    BY <1>1, <1>2, <1>7, Todos DEF OpenTaken, RateTaken, CloseTaken, OpenToCome, Parts
  <2> QED
    BY <1>1, <1>3, <1>4, <1>6, <2>2, <2>3 DEF AdapterInv
<1>8. CASE todo[t] = <<"C", "S4", "O">>
  <2>1. adapter' = [adapter EXCEPT !.open = FALSE]
    BY <1>4, <1>8, Todos DEF Obey
  <2>2. OpenToCome(t)' /\ ~OpenTaken(t)' /\ ~RateTaken(t)' /\ ~OpenTaken(t) /\ ~RateTaken(t)
    BY <1>1, <1>2, <1>5, <1>8, PartsDiffer DEF OpenToCome, OpenTaken, RateTaken, Parts
  <2> QED
    BY <1>1, <1>3, <1>4, <1>6, <2>1, <2>2 DEF AdapterInv
<1>9. CASE todo[t] = <<"S4", "O">>
  <2>1. OpenToCome(t)' /\ ~OpenTaken(t)' /\ ~OpenTaken(t) /\ CloseTaken(t)
    BY <1>1, <1>2, <1>5, <1>9, PartsDiffer DEF OpenToCome, OpenTaken, CloseTaken, Parts
  <2>2. adapter'.rate = "S4" /\ adapter'.half = FALSE
    BY <1>1, <1>4, <1>9, <2>1, Todos DEF Obey, AdapterInv
  <2> QED
    BY <1>1, <2>1, <2>2 DEF AdapterInv
<1>10. CASE todo[t] = <<"O">>
  <2>1. adapter' = [adapter EXCEPT !.open = TRUE]
    BY <1>4, <1>10, Todos DEF Obey
  <2>2. RateTaken(t)
    BY <1>10 DEF RateTaken
  <2> QED
    BY <1>1, <1>4, <2>1, <2>2 DEF AdapterInv
<1> QED
  BY <1>7, <1>8, <1>9, <1>10 DEF Parts

\* Every step keeps the adapter in step with the PassThruConnects.
LEMMA AdapterStep == TypeOK /\ LockInv /\ AdapterInv /\ [Next]_vars => AdapterInv'
<1> SUFFICES ASSUME TypeOK, LockInv, AdapterInv, [Next]_vars PROVE AdapterInv'
  OBVIOUS
<1>1. ASSUME NEW c \in Channels, Connect(c) PROVE AdapterInv'
  <2> USE DEF TypeOK, LockInv, ThreadInv, ThreadOK, PortInv
  <2> DEFINE t == App(c)
  <2>1. t \in Threads /\ t[1] = c /\ t[2] = "app"
    BY AppIsThread
  <2>2. /\ UNCHANGED <<opened, overlap, adapter, disturbed>> /\ pc[t] = "idle" /\ c \notin opened
        /\ Begin(t, IF Kind[c] = "ISO9141" THEN <<>> ELSE SetDatarate)
    BY <1>1 DEF Connect, Called, line
  <2>3. pc'[t] = "next" /\ todo[t] = <<>>
    BY <2>1, <2>2 DEF Begin
  <2>4. \/ Kind[c] = "ISO9141" /\ todo'[t] = <<>>
        \/ Kind[c] # "ISO9141" /\ todo'[t] = <<"C", "S4", "O">>
    BY <2>1, <2>2 DEF Begin, SetDatarate
  <2>5. \A u \in Threads : u # t => pc'[u] = pc[u] /\ todo'[u] = todo[u]
    BY <2>2 DEF Begin
  <2> HIDE DEF t
  <2>6. \A u \in Threads : u # t =>
          /\ OpenTaken(u)' <=> OpenTaken(u)
          /\ RateTaken(u)' <=> RateTaken(u)
          /\ CloseTaken(u)' <=> CloseTaken(u)
          /\ OpenToCome(u)' <=> OpenToCome(u)
    BY <2>2, <2>5 DEF OpenTaken, RateTaken, CloseTaken, OpenToCome, Taken
  <2>7. ~OpenTaken(t)' /\ ~RateTaken(t)' /\ ~CloseTaken(t)'
    BY <2>1, <2>2, <2>3, <2>4, PartsDiffer DEF OpenTaken, RateTaken, CloseTaken, Taken, Parts
  <2>8. ~OpenToCome(t)
    BY <2>3, Todos DEF OpenToCome
  <2> QED
    BY <2>1, <2>2, <2>6, <2>7, <2>8 DEF AdapterInv
<1>2. ASSUME NEW c \in Channels, Disconnect(c) PROVE AdapterInv'
  <2>1. /\ UNCHANGED <<pc, todo, overlap, adapter, disturbed>> /\ opened' \subseteq opened
    BY <1>2 DEF Disconnect, line
  <2>2. \A u \in Threads :
          /\ OpenTaken(u)' => OpenTaken(u)
          /\ RateTaken(u)' => RateTaken(u)
          /\ CloseTaken(u)' => CloseTaken(u)
          /\ OpenToCome(u)' <=> OpenToCome(u)
    BY <2>1 DEF OpenTaken, RateTaken, CloseTaken, OpenToCome, Taken
  <2> QED
    BY <2>1, <2>2 DEF AdapterInv
<1>3. ASSUME NEW outcome \in {"whole", "cut", "refused"}, PortFinishes(outcome) PROVE AdapterInv'
  BY <1>3, ToldStep
<1>4. CASE \/ DeviceOpened \/ PassThruOpenFails \/ GetLastError \/ UNCHANGED vars
           \/ \E c \in Channels :
                \/ \E batch \in Batches : WriteMsgs(c, batch)
                \/ \E m \in Messages : SendPeriodicMsg(c, m)
                \/ \E list \in ParamLists : SetConfig(c, list) \/ GetConfig(c, list)
                \/ \E code \in {"NOERROR", "ERROR_NOT_SUPPORTED"} : Ioctl(c, code)
           \/ \E t \in Threads : RefuseMsg(t) \/ WriteNothing(t) \/ Send(t) \/ Sent(t)
                                 \/ Written(t) \/ Finish(t)
  BY <1>4, SteadyUnlessTold, SteadyKeeps
<1> QED
  BY <1>1, <1>2, <1>3, <1>4 DEF Next

-----------------------------------------------------------------------------
\* As long as no write failed, the adapter is open at the channel's rate once
\* all PassThruConnects have returned, whatever state it was in and however
\* many of them, of writes and of periodic messages interleaved.
THEOREM AdapterIsReady == Spec => []AdapterFollowsConnect
<1>1. Init => TypeOK /\ LockInv /\ AdapterInv
  <2> SUFFICES ASSUME Init PROVE TypeOK /\ LockInv /\ AdapterInv
    OBVIOUS
  <2>1. TypeOK
    BY Todos DEF Init, TypeOK
  <2>2. LockInv
    BY NoThreadIsNone, Todos DEF Init, LockInv, ThreadInv, ThreadOK, PortInv
  <2>3. \A t \in Threads : ~OpenTaken(t) /\ ~RateTaken(t) /\ ~CloseTaken(t)
    BY DEF Init, OpenTaken, RateTaken, CloseTaken, Taken
  <2>4. ~adapter.half
    BY DEF Init
  <2> QED
    BY <2>1, <2>2, <2>3, <2>4 DEF AdapterInv
<1>2. TypeOK /\ LockInv /\ AdapterInv => AdapterFollowsConnect
  <2> SUFFICES ASSUME TypeOK, LockInv, AdapterInv, ~disturbed,
                      \A t \in Threads : \A i \in DOMAIN todo[t] : todo[t][i] \notin Commands,
                      NEW c \in opened, Kind[c] # "ISO9141"
               PROVE  adapter = [open |-> TRUE, rate |-> "S4", half |-> FALSE]
    BY DEF AdapterFollowsConnect
  <2>1. App(c) \in Threads /\ OpenTaken(App(c)) /\ RateTaken(App(c))
    BY ZenonT(40), AppIsThread DEF TypeOK, OpenTaken, RateTaken
  <2>2. \A t \in Threads : ~OpenToCome(t)
    BY DEF OpenToCome, Parts, Commands
  <2>3. adapter.open = TRUE /\ adapter.rate = "S4" /\ adapter.half = FALSE
    BY <2>1, <2>2 DEF AdapterInv, TypeOK
  <2> QED
    BY <2>3 DEF TypeOK
<1> QED
  BY <1>1, <1>2, TypeStep, LockStep, AdapterStep, PTL DEF Spec

-----------------------------------------------------------------------------
(* The reports: for any number of channels, any batches and any behaviour *)
(* of the port, PassThruWriteMsgs reports what was written.                *)

Results ==
  {"NOERROR", "ERR_INVALID_MSG", "ERR_FAILED", "ERR_EXCEEDED_LIMIT",
   "ERR_DEVICE_NOT_CONNECTED"}

Loopback(c) == config[c]["LOOPBACK"] = 1

\* The types this proof needs beyond those of TypeOK.
CallTypes ==
  /\ call \in [Channels -> [batch : Seq(Messages), delivered : Seq(Messages),
                            copies : Seq(Messages), echo : BOOLEAN, result : Results]]
  /\ config = [c \in Channels |-> config[c]]

\* The head of what c's application thread has to write is delivered already.
Ahead(c) ==
  /\ todo[App(c)] \notin Parts
  /\ \/ pc[App(c)] = "written"
     \/ pc[App(c)] = "sending" /\ overlap = "whole"

\* A call has delivered the first n messages of its batch, has copied the
\* first k of them, and has those behind k left.
Split(c, n, k) ==
  /\ n <= Len(call[c].batch) /\ k >= 0
  /\ call[c].delivered = SubSeq(call[c].batch, 1, n)
  /\ call[c].copies = IF call[c].echo THEN SubSeq(call[c].batch, 1, k) ELSE <<>>
  /\ pc[App(c)] = "idle" => (call[c].result = "NOERROR" <=> n = Len(call[c].batch))
  /\ pc[App(c)] # "idle" =>
       /\ call[c].result = "NOERROR"
       /\ call[c].echo <=> Loopback(c)
       /\ todo[App(c)] \in Parts => call[c].batch = <<>>
       /\ todo[App(c)] \notin Parts =>
            todo[App(c)] = SubSeq(call[c].batch, k + 1, Len(call[c].batch))

Progress(c) ==
  LET n == Len(call[c].delivered)
  IN  /\ Ahead(c) => Split(c, n, n - 1)
      /\ ~Ahead(c) => Split(c, n, n)

ProgressInv == \A c \in Channels : Progress(c)

-----------------------------------------------------------------------------
\* A batch, the part of it before position k and the part from there on.
LEMMA Batch ==
  ASSUME NEW b \in Seq(Messages)
  PROVE  /\ SubSeq(b, 1, 0) = <<>> /\ SubSeq(b, 1, Len(b)) = b
         /\ SubSeq(b, Len(b) + 1, Len(b)) = <<>>
         /\ \A k \in 0..Len(b) : SubSeq(b, 1, k) \in Seq(Messages) /\ Len(SubSeq(b, 1, k)) = k
         /\ \A k \in 0..(Len(b) - 1) :
              /\ b[k + 1] \in Messages
              /\ Append(SubSeq(b, 1, k), b[k + 1]) = SubSeq(b, 1, k + 1)
              /\ SubSeq(b, k + 1, Len(b)) # <<>>
              /\ Head(SubSeq(b, k + 1, Len(b))) = b[k + 1]
              /\ Tail(SubSeq(b, k + 1, Len(b))) = SubSeq(b, k + 2, Len(b))
<1>1. /\ SubSeq(b, 1, 0) = <<>> /\ SubSeq(b, 1, Len(b)) = b
      /\ SubSeq(b, Len(b) + 1, Len(b)) = <<>>
  OBVIOUS
<1>2. ASSUME NEW k \in 0..Len(b)
      PROVE  SubSeq(b, 1, k) \in Seq(Messages) /\ Len(SubSeq(b, 1, k)) = k
  OBVIOUS
<1>3. ASSUME NEW k \in 0..(Len(b) - 1)
      PROVE  b[k + 1] \in Messages /\ Append(SubSeq(b, 1, k), b[k + 1]) = SubSeq(b, 1, k + 1)
  OBVIOUS
<1>4. ASSUME NEW k \in 0..(Len(b) - 1)
      PROVE  /\ SubSeq(b, k + 1, Len(b)) # <<>>
             /\ Head(SubSeq(b, k + 1, Len(b))) = b[k + 1]
  OBVIOUS
<1>5. ASSUME NEW k \in 0..(Len(b) - 1)
      PROVE  Tail(SubSeq(b, k + 1, Len(b))) = SubSeq(b, k + 2, Len(b))
  OBVIOUS
<1> QED
  BY <1>1, <1>2, <1>3, <1>4, <1>5

\* Every step keeps the types.
LEMMA CallTypesStep == TypeOK /\ LockInv /\ CallTypes /\ [Next]_vars => CallTypes'
<1> SUFFICES ASSUME TypeOK, LockInv, CallTypes, [Next]_vars PROVE CallTypes'
  OBVIOUS
<1> USE DEF CallTypes
<1> DEFINE Record == [batch : Seq(Messages), delivered : Seq(Messages),
                      copies : Seq(Messages), echo : BOOLEAN, result : Results]
<1>1. ASSUME NEW t \in Threads PROVE t[1] \in Channels
  BY DEF Threads
<1>2. ASSUME NEW t \in Threads, NEW code \in Results, Fail(t, code)
      PROVE  call' \in [Channels -> Record]
  <2> DEFINE c == t[1]
  <2>1. c \in Channels /\ call[c] \in Record
    BY <1>1
  <2>2. [call[c] EXCEPT !.result = code] \in Record
    BY <2>1
  <2>3. call' = call \/ call' = [call EXCEPT ![c] = [call[c] EXCEPT !.result = code]]
    BY <1>2, <2>1 DEF Fail
  <2>4. call \in [Channels -> Record]
    OBVIOUS
  <2> HIDE DEF c, Record
  <2> QED
    BY <2>1, <2>2, <2>3, <2>4
<1>3. ASSUME NEW t, NEW m, t[1] \in Channels, Delivered(t, m)
      PROVE  call' \in [Channels -> Record]
  <2> DEFINE c == t[1]
  <2>1. c \in Channels /\ call[c] \in Record
    BY <1>3
  <2>2. CASE t[2] = "app" /\ m \in Messages
    <3>1. [call[c] EXCEPT !.delivered = Append(@, m)] \in Record
      <4>1. Append(call[c].delivered, m) \in Seq(Messages)
        BY <2>1, <2>2
      <4> QED
        BY <2>1, <4>1
    <3>2. call' = [call EXCEPT ![c] = [call[c] EXCEPT !.delivered = Append(@, m)]]
      BY <1>3, <2>1, <2>2 DEF Delivered
    <3> QED
      BY <2>1, <3>1, <3>2
  <2>3. CASE ~(t[2] = "app" /\ m \in Messages)
    BY <1>3, <2>3 DEF Delivered
  <2> QED
    BY <2>2, <2>3
<1>4. CASE \/ DeviceOpened \/ PassThruOpenFails \/ GetLastError \/ UNCHANGED vars
           \/ \E c \in Channels :
                \/ Disconnect(c)
                \/ \E m \in Messages : SendPeriodicMsg(c, m)
                \/ \E code \in {"NOERROR", "ERROR_NOT_SUPPORTED"} : Ioctl(c, code)
           \/ \E t \in Threads : Send(t) \/ Finish(t)
  <2>1. UNCHANGED <<call, config>>
    BY <1>4 DEF DeviceOpened, PassThruOpenFails, GetLastError, vars, Disconnect,
       SendPeriodicMsg, Ioctl, Send, Finish
  <2> QED
    BY <2>1
<1>5. ASSUME NEW c \in Channels, Connect(c) PROVE CallTypes'
  <2>1. NoCall \in Record
    BY DEF NoCall, Results
  <2> QED
    BY <1>5, <2>1 DEF Connect
<1>6. ASSUME NEW c \in Channels, NEW batch \in Batches, WriteMsgs(c, batch) PROVE CallTypes'
  <2>1. batch \in Seq(Messages)
    BY CallsAssumption
  <2>2. PICK refusal \in Results :
          call' = [call EXCEPT ![c] = [NoCall EXCEPT !.batch = batch, !.result = refusal,
                                                     !.echo = config[c]["LOOPBACK"] = 1]]
    BY <1>6 DEF WriteMsgs, Results
  <2>3. [NoCall EXCEPT !.batch = batch, !.result = refusal,
                       !.echo = config[c]["LOOPBACK"] = 1] \in Record
    <3>1. PICK e \in BOOLEAN : e = (config[c]["LOOPBACK"] = 1)
      OBVIOUS
    <3>2. [NoCall EXCEPT !.batch = batch, !.result = refusal, !.echo = e] \in Record
      BY <2>1, Todos DEF NoCall
    <3> QED
      BY <3>1, <3>2
  <2>4. config' = config
    BY <1>6 DEF WriteMsgs
  <2> QED
    BY <2>2, <2>3, <2>4
<1>7. ASSUME NEW c \in Channels, NEW list \in ParamLists, SetConfig(c, list) \/ GetConfig(c, list)
      PROVE  CallTypes'
  BY <1>7 DEF SetConfig, GetConfig, Config
<1>8. ASSUME NEW t \in Threads, RefuseMsg(t) PROVE CallTypes'
  BY <1>2, <1>8 DEF RefuseMsg, Results
<1>9. ASSUME NEW t \in Threads, WriteNothing(t) PROVE CallTypes'
  BY <1>1, <1>3, <1>9 DEF WriteNothing
<1>10. ASSUME NEW t \in Threads, Sent(t) PROVE CallTypes'
  BY <1>2, <1>10 DEF Sent, Results
<1>11. ASSUME NEW t \in Threads, Written(t) PROVE CallTypes'
  <2> DEFINE c == t[1]
  <2>1. c \in Channels /\ call[c] \in Record /\ config' = config
    BY <1>1, <1>11 DEF Written
  <2>2. CASE UNCHANGED call
    BY <2>1, <2>2
  <2>3. CASE Head(todo[t]) \in Messages
    <3>1. [call[c] EXCEPT !.copies = Append(@, Head(todo[t]))] \in Record
      <4>1. Append(call[c].copies, Head(todo[t])) \in Seq(Messages)
        BY <2>1, <2>3
      <4> QED
        BY <2>1, <4>1
    <3>2. \/ UNCHANGED call
          \/ call' = [call EXCEPT ![c] = [call[c] EXCEPT !.copies = Append(@, Head(todo[t]))]]
      BY <1>11, <2>1 DEF Written
    <3> QED
      BY <2>1, <3>1, <3>2
  <2> QED
    BY <1>11, <2>2, <2>3 DEF Written
<1>12. ASSUME NEW outcome \in {"whole", "cut", "refused"}, PortFinishes(outcome)
      PROVE  CallTypes'
  <2>1. PICK t \in Threads : port = <<<<t, Head(todo[t])>>>>
    BY <1>12, NoThreadIsNone DEF PortFinishes, LockInv, PortInv, TypeOK
  <2>2. Delivered(t, Head(todo[t])) \/ UNCHANGED call
    BY <1>12, <2>1 DEF PortFinishes
  <2> QED
    BY <1>1, <1>3, <1>12, <2>2 DEF PortFinishes
<1> QED
  BY <1>4, <1>5, <1>6, <1>7, <1>8, <1>9, <1>10, <1>11, <1>12 DEF Next

\* A call whose thread does not move stays where it is.
LEMMA Frame ==
  ASSUME NEW c \in Channels, Progress(c),
         pc'[App(c)] = pc[App(c)], todo'[App(c)] = todo[App(c)], call'[c] = call[c],
         pc[App(c)] # "idle" => config'[c] = config[c],
         pc[App(c)] = "sending" => overlap' = overlap
  PROVE  Progress(c)'
<1>1. Ahead(c)' <=> Ahead(c)
  BY DEF Ahead, App
<1>2. pc[App(c)] # "idle" => (Loopback(c)' <=> Loopback(c))
  BY DEF Loopback
<1> QED
  BY <1>1, <1>2 DEF Progress, Split, App

\* No two channels share a thread.
LEMMA AppsDiffer == \A c, d \in Channels :
  (c # d => App(c) # App(d)) /\ <<d, "timer">> # App(c)
  BY DEF App

\* The batch of a call and the number of its delivered messages, named.
LEMMA Named ==
  ASSUME NEW c \in Channels, CallTypes
  PROVE  \E b \in Seq(Messages), n \in Nat :
           /\ b = call[c].batch /\ n = Len(call[c].delivered) /\ Len(b) \in Nat
           /\ call[c].delivered \in Seq(Messages)
<1>1. call[c].batch \in Seq(Messages) /\ call[c].delivered \in Seq(Messages)
  BY DEF CallTypes
<1>2. Len(call[c].delivered) \in Nat /\ Len(call[c].batch) \in Nat
  BY <1>1
<1> QED
  BY <1>1, <1>2

\* The head of what is left of a batch is delivered.
LEMMA Deliver ==
  ASSUME NEW c \in Channels, CallTypes, Progress(c), ~Ahead(c), Ahead(c)',
         pc[App(c)] # "idle", pc'[App(c)] # "idle", UNCHANGED config,
         todo[App(c)] \notin Parts \cup {<<>>}, todo'[App(c)] = todo[App(c)],
         call' = [call EXCEPT ![c].delivered = Append(@, Head(todo[App(c)]))]
  PROVE  Progress(c)'
<1>1. PICK b \in Seq(Messages), n \in Nat :
        /\ b = call[c].batch /\ n = Len(call[c].delivered)
        /\ Len(b) \in Nat /\ call[c].delivered \in Seq(Messages)
  BY Named
<1>2. /\ n <= Len(b) /\ call[c].delivered = SubSeq(b, 1, n)
      /\ call[c].copies = IF call[c].echo THEN SubSeq(b, 1, n) ELSE <<>>
      /\ call[c].result = "NOERROR" /\ (call[c].echo <=> Loopback(c))
      /\ todo[App(c)] = SubSeq(b, n + 1, Len(b))
  <2>1. Split(c, n, n)
    BY <1>1 DEF Progress
  <2> QED
    BY <1>1, <2>1 DEF Split
<1>3. n < Len(b)
  <2>1. n = Len(b) => SubSeq(b, n + 1, Len(b)) = <<>>
    BY <1>1, Batch
  <2>2. SubSeq(b, n + 1, Len(b)) # <<>>
    BY <1>2
  <2>3. Len(b) \in Nat /\ n \in Nat
    BY <1>1
  <2>4. n # Len(b) /\ n <= Len(b)
    BY <1>2, <2>1, <2>2
  <2> QED
    BY <2>3, <2>4
<1>4. Head(todo[App(c)]) = b[n + 1]
  BY <1>1, <1>2, <1>3, Batch
<1>5. /\ call'[c].batch = b /\ call'[c].copies = call[c].copies
      /\ call'[c].echo = call[c].echo /\ call'[c].result = call[c].result
      /\ call'[c].delivered = Append(call[c].delivered, b[n + 1])
  BY <1>1, <1>4 DEF CallTypes
<1>6. call'[c].delivered = SubSeq(b, 1, n + 1) /\ Len(call'[c].delivered) = n + 1
  <2>1. n \in 0..(Len(b) - 1) /\ n + 1 \in 0..Len(b)
    BY <1>1, <1>3
  <2>2. Append(SubSeq(b, 1, n), b[n + 1]) = SubSeq(b, 1, n + 1)
    BY <2>1, Batch
  <2>3. Len(SubSeq(b, 1, n + 1)) = n + 1
    BY <2>1, Batch
  <2> QED
    BY <1>2, <1>5, <2>2, <2>3
<1>7. Loopback(c)' <=> Loopback(c)
  BY DEF Loopback
<1>8. Split(c, n + 1, n)'
  <2>1. n + 1 <= Len(b) /\ n >= 0
    BY <1>1, <1>3
  <2>2. todo'[App(c)] = SubSeq(b, n + 1, Len(b))
    BY <1>2
  <2>3. pc'[App(c)] # "idle" /\ todo'[App(c)] \notin Parts
    OBVIOUS
  <2> QED
    BY <1>2, <1>5, <1>6, <1>7, <2>1, <2>2, <2>3 DEF Split
<1> QED
  BY <1>1, <1>6, <1>8 DEF Progress

\* The call fails before its next message.
LEMMA GiveUp ==
  ASSUME NEW c \in Channels, CallTypes, Progress(c), ~Ahead(c),
         pc[App(c)] # "idle", pc'[App(c)] = "idle",
         todo[App(c)] \notin Parts \cup {<<>>},
         NEW code \in Results \ {"NOERROR"}, call' = [call EXCEPT ![c].result = code]
  PROVE  Progress(c)'
<1>1. PICK b \in Seq(Messages), n \in Nat :
        b = call[c].batch /\ n = Len(call[c].delivered) /\ Len(b) \in Nat
  BY Named
<1>2. /\ n <= Len(b) /\ call[c].delivered = SubSeq(b, 1, n)
      /\ call[c].copies = IF call[c].echo THEN SubSeq(b, 1, n) ELSE <<>>
      /\ todo[App(c)] = SubSeq(b, n + 1, Len(b))
  <2>1. Split(c, n, n)
    BY <1>1 DEF Progress
  <2> QED
    BY <1>1, <2>1 DEF Split
<1>3. n # Len(b)
  BY <1>2, Batch
<1>4. /\ call'[c].batch = b /\ call'[c].copies = call[c].copies
      /\ call'[c].echo = call[c].echo /\ call'[c].result # "NOERROR"
      /\ call'[c].delivered = call[c].delivered
  BY <1>1 DEF CallTypes
<1>5. Split(c, n, n)'
  BY <1>2, <1>3, <1>4 DEF Split
<1>6. ~Ahead(c)'
  BY DEF Ahead
<1> QED
  BY <1>1, <1>4, <1>5, <1>6 DEF Progress

\* The copy is made, if any, and the next message is due.
LEMMA CopyStep ==
  ASSUME NEW c \in Channels, TypeOK, LockInv, CallTypes, Progress(c), Written(App(c))
  PROVE  Progress(c)'
<1> DEFINE t == App(c)
<1>1. /\ t \in Threads /\ t[1] = c /\ t[2] = "app"
  BY AppIsThread
<1>2. /\ pc[t] = "written" /\ pc'[t] = "next" /\ todo[t] # <<>> /\ todo'[t] = Tail(todo[t])
      /\ UNCHANGED config
      /\ call' = IF Head(todo[t]) \in Messages /\ Loopback(c)
                   THEN [call EXCEPT ![c].copies = Append(@, Head(todo[t]))]
                   ELSE call
  BY <1>1 DEF Written, At, TypeOK, Loopback
<1>3. ~Ahead(c)' /\ (Loopback(c)' <=> Loopback(c))
  BY <1>2 DEF Ahead, Loopback
<1>4. PICK b \in Seq(Messages), n \in Nat :
        b = call[c].batch /\ n = Len(call[c].delivered) /\ Len(b) \in Nat
  BY Named
<1> HIDE DEF t
<1>5. CASE todo[t] \in Parts
  <2>1. ~Ahead(c) /\ Split(c, n, n)
    BY <1>4, <1>5 DEF Ahead, Progress, t
  <2>2. b = <<>> /\ n = 0
    BY <1>2, <1>4, <1>5, <2>1 DEF Split, t
  <2>3. Head(todo[t]) \notin Messages /\ todo'[t] \in Parts \cup {<<>>}
    BY <1>2, <1>5, Todos, CallsAssumption DEF Parts, Commands
  <2>4. call' = call
    BY <1>2, <2>3
  <2>5. SubSeq(b, n + 1, Len(b)) = <<>>
    BY <2>2
  <2>6. Split(c, n, n)'
    BY <1>2, <1>3, <1>4, <2>1, <2>2, <2>3, <2>4, <2>5 DEF Split, t
  <2> QED
    BY <1>3, <1>4, <2>4, <2>6 DEF Progress
<1>6. CASE todo[t] \notin Parts
  <2>1. Split(c, n, n - 1)
    BY <1>2, <1>4, <1>6 DEF Ahead, Progress, t
  <2>2. PICK k \in 0..(Len(b) - 1) : k = n - 1
    <3>1. n <= Len(b) /\ n - 1 >= 0
      BY <1>4, <2>1 DEF Split
    <3>2. n - 1 \in 0..(Len(b) - 1)
      BY <1>4, <3>1
    <3> QED
      BY <3>2
  <2>3. /\ call[c].delivered = SubSeq(b, 1, n) /\ call[c].result = "NOERROR"
        /\ call[c].copies = IF call[c].echo THEN SubSeq(b, 1, k) ELSE <<>>
        /\ call[c].echo <=> Loopback(c)
        /\ todo[t] = SubSeq(b, k + 1, Len(b))
    BY <1>2, <1>4, <1>6, <2>1, <2>2 DEF Split, t
  <2>4. /\ Head(todo[t]) = b[k + 1] /\ b[k + 1] \in Messages
        /\ todo'[t] = SubSeq(b, k + 2, Len(b))
        /\ Append(SubSeq(b, 1, k), b[k + 1]) = SubSeq(b, 1, k + 1)
    BY <1>2, <2>3, Batch
  <2>5. k + 1 = n /\ k + 2 = n + 1 /\ n <= Len(b)
    BY <2>2
  <2>6. /\ call'[c].batch = b /\ call'[c].delivered = call[c].delivered
        /\ call'[c].echo = call[c].echo /\ call'[c].result = "NOERROR"
        /\ call'[c].copies = IF call[c].echo THEN SubSeq(b, 1, n) ELSE <<>>
    <3>1. CASE Loopback(c)
      BY <1>2, <1>4, <2>3, <2>4, <2>5, <3>1 DEF CallTypes
    <3>2. CASE ~Loopback(c)
      BY <1>2, <1>4, <2>3, <3>2
    <3> QED
      BY <3>1, <3>2
  <2>7. todo'[t] \notin Parts
    <3>1. todo[t] \in Seq(Messages)
      BY <1>1, <1>6 DEF TypeOK
    <3>2. Tail(todo[t]) \in Seq(Messages)
      BY <1>2, <3>1, Todos
    <3> QED
      BY <1>2, <3>2, Todos
  <2>8. todo'[t] = SubSeq(b, n + 1, Len(b)) /\ n >= 0
    <3>1. n + 1 = k + 2
      BY <2>5
    <3> QED
      BY SMTT(30), <2>4, <3>1
  <2>9. Split(c, n, n)'
    BY <1>2, <1>3, <2>3, <2>5, <2>6, <2>7, <2>8 DEF Split, t
  <2> QED
    BY <1>3, <1>4, <2>6, <2>9 DEF Progress
<1> QED
  BY <1>5, <1>6

\* A call begins: nothing is delivered.
LEMMA BeginStep ==
  ASSUME NEW c \in Channels, TypeOK, LockInv, CallTypes,
         Connect(c) \/ \E batch \in Batches : WriteMsgs(c, batch)
  PROVE  Progress(c)'
<1> DEFINE t == App(c)
<1>1. t \in Threads
  BY AppIsThread
<1>2. pc[t] = "idle" /\ todo[t] = <<>>
  BY <1>1 DEF Connect, WriteMsgs, Called, LockInv, ThreadInv, ThreadOK
<1> HIDE DEF t
<1>3. CASE Connect(c)
  <2>1. /\ call'[c] = NoCall /\ ~Loopback(c)' /\ pc'[t] = "next"
        /\ todo'[t] \in Parts \cup {<<>>}
    BY <1>1, <1>3 DEF Connect, Begin, SetDatarate, Parts, Loopback, Stored, CallTypes, TypeOK, t
  <2>2. ~Ahead(c)' /\ Len(call'[c].delivered) = 0
    BY <2>1 DEF Ahead, NoCall, t
  <2>3. /\ call'[c].batch = <<>> /\ call'[c].delivered = <<>> /\ call'[c].copies = <<>>
        /\ call'[c].result = "NOERROR" /\ call'[c].echo = FALSE
    BY <2>1 DEF NoCall
  <2>4. SubSeq(<<>>, 1, 0) = <<>> /\ SubSeq(<<>>, 0 + 1, Len(<<>>)) = <<>> /\ 0 <= Len(<<>>)
    OBVIOUS
  <2>5. Split(c, 0, 0)'
    BY <2>1, <2>3, <2>4 DEF Split, t
  <2> QED
    BY <2>2, <2>5 DEF Progress
<1>4. ASSUME NEW batch \in Batches, WriteMsgs(c, batch) PROVE Progress(c)'
  <2>1. batch \in Seq(Messages) /\ batch # <<>>
    BY CallsAssumption
  <2>2. PICK refusal \in Results :
          /\ call'[c] = [NoCall EXCEPT !.batch = batch, !.result = refusal,
                                       !.echo = config[c]["LOOPBACK"] = 1]
          /\ IF refusal = "NOERROR" THEN Begin(t, batch) ELSE UNCHANGED <<pc, todo>>
    BY <1>4 DEF WriteMsgs, Results, CallTypes, t
  <2>3. /\ call'[c].batch = batch /\ call'[c].delivered = <<>> /\ call'[c].copies = <<>>
        /\ call'[c].result = refusal /\ (call'[c].echo <=> Loopback(c))
    BY <2>2 DEF NoCall, Loopback
  <2>4. Loopback(c)' <=> Loopback(c)
    BY <1>4 DEF WriteMsgs, Loopback
  <2>5. /\ pc'[t] = "idle" <=> refusal # "NOERROR"
        /\ pc'[t] \in {"idle", "next"}
        /\ pc'[t] # "idle" => todo'[t] = batch
    BY <1>1, <1>2, <2>2 DEF Begin, TypeOK
  <2>6. ~Ahead(c)' /\ Len(call'[c].delivered) = 0
    BY <2>3, <2>5 DEF Ahead, t
  <2>7. /\ SubSeq(batch, 1, 0) = <<>> /\ SubSeq(batch, 1, Len(batch)) = batch
        /\ batch \notin Parts /\ Len(batch) \in Nat /\ Len(batch) # 0
    BY <2>1, Batch, Todos
  <2>8. Split(c, 0, 0)'
    BY <2>3, <2>4, <2>5, <2>7 DEF Split, t
  <2> QED
    BY <2>6, <2>8 DEF Progress
<1> QED
  BY <1>3, <1>4

\* A call returns when nothing of its batch is left.
LEMMA FinishStep ==
  ASSUME NEW c \in Channels, TypeOK, CallTypes, Progress(c), Finish(App(c))
  PROVE  Progress(c)'
<1>1. /\ App(c) \in Threads
  BY AppIsThread
<1>2. /\ pc[App(c)] = "next" /\ todo[App(c)] = <<>> /\ pc'[App(c)] = "idle"
      /\ UNCHANGED <<call, config>>
  BY <1>1 DEF Finish, Idle, TypeOK
<1>3. ~Ahead(c) /\ ~Ahead(c)'
  BY <1>2 DEF Ahead
<1>4. PICK b \in Seq(Messages), n \in Nat :
        b = call[c].batch /\ n = Len(call[c].delivered) /\ Len(b) \in Nat
  BY Named
<1>5. Split(c, n, n)
  BY <1>3, <1>4 DEF Progress
<1>6. n <= Len(b) /\ SubSeq(b, n + 1, Len(b)) = <<>> /\ call[c].result = "NOERROR"
  BY <1>2, <1>4, <1>5, Todos DEF Split
<1>7. n = Len(b)
  <2>1. n \in 0..(Len(b) - 1) => SubSeq(b, n + 1, Len(b)) # <<>>
    BY Batch
  <2>2. n \notin 0..(Len(b) - 1)
    BY <1>6, <2>1
  <2> QED
    BY <1>4, <1>6, <2>2
<1>8. Split(c, n, n)'
  BY <1>2, <1>4, <1>5, <1>6, <1>7 DEF Split
<1> QED
  BY <1>2, <1>3, <1>4, <1>8 DEF Progress

\* The write of a call is handed to the port, or refused, or taken by the
\* interceptor, or its outcome is read.
LEMMA OwnStep ==
  ASSUME NEW c \in Channels, TypeOK, LockInv, CallTypes, Progress(c),
         RefuseMsg(App(c)) \/ WriteNothing(App(c)) \/ Send(App(c)) \/ Sent(App(c))
  PROVE  Progress(c)'
<1> DEFINE t == App(c)
<1>1. t \in Threads /\ t[1] = c /\ t[2] = "app"
  BY AppIsThread
<1>2. todo[t] \in Seq(Messages) \cup Parts
  BY <1>1 DEF TypeOK
<1> HIDE DEF t
<1>3. CASE RefuseMsg(t)
  <2>1. /\ pc[t] = "next" /\ pc'[t] = "idle" /\ todo[t] # <<>> /\ Head(todo[t]) \in Messages
        /\ call' = [call EXCEPT ![c].result = "ERR_INVALID_MSG"]
    BY <1>1, <1>3, CallsAssumption DEF RefuseMsg, At, Fail, Idle, TypeOK
  <2>2. ~Ahead(c) /\ todo[t] \notin Parts \cup {<<>>}
    BY <2>1, Todos, CallsAssumption DEF Ahead, t, Parts, Commands
  <2> QED
    BY <2>1, <2>2, GiveUp DEF Results, t
<1>4. CASE WriteNothing(t)
  <2>1. /\ pc[t] = "next" /\ pc'[t] = "written" /\ todo[t] # <<>> /\ Head(todo[t]) \in Messages
        /\ UNCHANGED <<todo, config>>
        /\ call' = [call EXCEPT ![c].delivered = Append(@, Head(todo[t]))]
    BY <1>1, <1>4 DEF WriteNothing, At, Delivered, TypeOK
  <2>2. todo[t] \notin Parts \cup {<<>>}
    BY <2>1, Todos, CallsAssumption DEF Parts, Commands
  <2>3. ~Ahead(c) /\ Ahead(c)'
    BY <2>1, <2>2 DEF Ahead, t
  <2> QED
    BY <2>1, <2>2, <2>3, Deliver DEF t
<1>5. CASE Send(t)
  <2>1. /\ pc[t] = "next" /\ pc'[t] = "sending" /\ overlap' = "pending"
        /\ UNCHANGED <<todo, config, call>>
    BY <1>1, <1>5 DEF Send, At, TypeOK
  <2>2. ~Ahead(c) /\ ~Ahead(c)' /\ (Loopback(c)' <=> Loopback(c))
    BY <2>1 DEF Ahead, Loopback, t
  <2> QED
    BY <2>1, <2>2 DEF Progress, Split, t
<1>6. CASE Sent(t)
  <2>1. /\ pc[t] = "sending" /\ todo[t] # <<>> /\ UNCHANGED <<config, overlap>>
        /\ \/ /\ overlap = "whole" \/ Head(todo[t]) \in Commands
              /\ pc'[t] = "written" /\ UNCHANGED <<todo, call>>
           \/ /\ overlap # "whole" /\ Head(todo[t]) \notin Commands
              /\ pc'[t] = "idle" /\ call' = [call EXCEPT ![c].result = "ERR_FAILED"]
    BY <1>1, <1>6 DEF Sent, Fail, Idle, TypeOK, LockInv, ThreadInv, ThreadOK
  <2>2. CASE pc'[t] = "written"
    <3>1. (Ahead(c)' <=> Ahead(c)) /\ (Loopback(c)' <=> Loopback(c))
      BY <1>2, <2>1, <2>2, Todos DEF Ahead, Loopback, t
    <3> QED
      BY <2>1, <2>2, <3>1 DEF Progress, Split, t
  <2>3. CASE pc'[t] = "idle"
    <3>1. ~Ahead(c) /\ todo[t] \notin Parts \cup {<<>>}
      BY <2>1, <2>3, Todos DEF Ahead, t, Parts, Commands
    <3> QED
      BY <2>1, <2>3, <3>1, GiveUp DEF Results, t
  <2> QED
    BY <2>1, <2>2, <2>3
<1> QED
  BY <1>3, <1>4, <1>5, <1>6 DEF t

\* The port finishes a line.
LEMMA PortStep ==
  ASSUME NEW c \in Channels, TypeOK, LockInv, CallTypes, Progress(c),
         NEW outcome \in {"whole", "cut", "refused"}, PortFinishes(outcome)
  PROVE  Progress(c)'
<1>1. PICK u \in Threads :
        /\ u = write_lock /\ overlap = "pending" /\ pc[u] = "sending" /\ todo[u] # <<>>
        /\ port = <<<<u, Head(todo[u])>>>>
  BY NoThreadIsNone DEF PortFinishes, LockInv, ThreadInv, ThreadOK, PortInv, TypeOK
<1>2. /\ UNCHANGED <<pc, todo, config>> /\ overlap' = outcome
      /\ IF outcome = "whole" THEN Delivered(u, Head(todo[u])) ELSE UNCHANGED call
  BY <1>1 DEF PortFinishes
<1>3. App(c) \in Threads /\ App(c)[1] = c /\ App(c)[2] = "app"
  BY AppIsThread
<1>4. CASE u # App(c)
  <2>1. pc[App(c)] # "sending"
    BY <1>1, <1>3, <1>4 DEF LockInv, ThreadInv, ThreadOK
  <2>2. call'[c] = call[c]
    <3>1. u[1] # c \/ u[2] # "app"
      BY <1>4, AppOfThread
    <3> QED
      BY <1>2, <3>1 DEF Delivered, CallTypes
  <2> QED
    BY <1>2, <2>1, <2>2, Frame
<1>5. CASE u = App(c)
  <2>1. ~Ahead(c) /\ (Loopback(c)' <=> Loopback(c))
    BY <1>1, <1>2, <1>5 DEF Ahead, Loopback
  <2>2. CASE outcome = "whole" /\ todo[u] \notin Parts
    <3>1. todo[u] \in Seq(Messages)
      BY <2>2 DEF TypeOK
    <3>2. Head(todo[u]) \in Messages
      BY <1>1, <3>1, Todos
    <3>3. call' = [call EXCEPT ![c].delivered = Append(@, Head(todo[App(c)]))]
      BY <1>2, <1>3, <1>5, <2>2, <3>2 DEF Delivered
    <3>4. Ahead(c)'
      BY <1>1, <1>2, <1>5, <2>2 DEF Ahead
    <3>5. pc[App(c)] # "idle" /\ pc'[App(c)] # "idle"
      BY <1>1, <1>2, <1>5
    <3> QED
      BY <1>1, <1>2, <1>5, <2>1, <2>2, <3>3, <3>4, <3>5, Deliver
  <2>3. CASE ~(outcome = "whole" /\ todo[u] \notin Parts)
    <3>1. todo[u] \in Parts => Head(todo[u]) \notin Messages
      BY Todos, CallsAssumption DEF Parts, Commands
    <3>2. call' = call
      BY <1>2, <2>3, <3>1 DEF Delivered
    <3>3. ~Ahead(c)'
      BY <1>1, <1>2, <1>5, <2>3 DEF Ahead
    <3> QED
      BY <1>2, <2>1, <3>2, <3>3 DEF Progress, Split
  <2> QED
    BY <2>2, <2>3
<1> QED
  BY <1>4, <1>5

\* Every step keeps the split of every batch.
LEMMA ProgressStep ==
  TypeOK /\ LockInv /\ CallTypes /\ ProgressInv /\ [Next]_vars => ProgressInv'
<1> SUFFICES ASSUME TypeOK, LockInv, CallTypes, ProgressInv, [Next]_vars,
                    NEW c \in Channels
             PROVE  Progress(c)'
  BY DEF ProgressInv
<1>1. Progress(c)
  BY DEF ProgressInv
<1>2. ASSUME UNCHANGED <<pc, todo, overlap, call, config>> PROVE Progress(c)'
  BY <1>1, <1>2, Frame
<1>3. CASE DeviceOpened \/ PassThruOpenFails \/ GetLastError \/ UNCHANGED vars
  BY <1>2, <1>3 DEF DeviceOpened, PassThruOpenFails, GetLastError, vars, line
<1>4. ASSUME NEW d \in Channels,
             Connect(d) \/ \E batch \in Batches : WriteMsgs(d, batch)
      PROVE  Progress(c)'
  <2>1. CASE d = c
    BY <1>4, <2>1, BeginStep
  <2>2. CASE d # c
    <3>1. App(d) # App(c)
      BY <2>2, AppsDiffer
    <3>2. pc'[App(c)] = pc[App(c)] /\ todo'[App(c)] = todo[App(c)] /\ overlap' = overlap
      <4>1. UNCHANGED <<pc, todo>> \/ \E lines : Begin(App(d), lines)
        BY <1>4 DEF Connect, WriteMsgs
      <4>2. UNCHANGED line
        BY <1>4 DEF Connect, WriteMsgs
      <4> QED
        BY <3>1, <4>1, <4>2, AppIsThread DEF Begin, TypeOK, line
    <3>3. config'[c] = config[c]
      BY <1>4, <2>2 DEF Connect, WriteMsgs, CallTypes
    <3>4. call'[c] = call[c]
      BY <1>4, <2>2 DEF Connect, WriteMsgs, CallTypes
    <3> QED
      BY <1>1, <3>2, <3>3, <3>4, Frame
  <2> QED
    BY <2>1, <2>2
<1>5. ASSUME NEW d \in Channels,
             \/ Disconnect(d)
             \/ \E code \in {"NOERROR", "ERROR_NOT_SUPPORTED"} : Ioctl(d, code)
      PROVE  Progress(c)'
  BY <1>2, <1>5 DEF Disconnect, Ioctl, line
<1>6. ASSUME NEW d \in Channels, NEW m \in Messages, SendPeriodicMsg(d, m) PROVE Progress(c)'
  <2>1. <<d, "timer">> # App(c)
    BY AppsDiffer
  <2>2. /\ pc'[App(c)] = pc[App(c)] /\ todo'[App(c)] = todo[App(c)]
        /\ UNCHANGED <<call, config, overlap>>
    BY <1>6, <2>1 DEF SendPeriodicMsg, Begin, line
  <2> QED
    BY <1>1, <2>2, Frame
<1>7. ASSUME NEW d \in Channels, NEW list \in ParamLists, SetConfig(d, list) \/ GetConfig(d, list)
      PROVE  Progress(c)'
  <2>1. UNCHANGED <<pc, todo, overlap, call>> /\ pc[App(d)] = "idle"
    BY <1>7 DEF SetConfig, GetConfig, Config, Called, line
  <2>2. d # c => config'[c] = config[c]
    BY <1>7 DEF SetConfig, GetConfig, Config, CallTypes
  <2> QED
    BY <1>1, <2>1, <2>2, Frame
<1>8. ASSUME NEW t \in Threads,
             RefuseMsg(t) \/ WriteNothing(t) \/ Send(t) \/ Sent(t) \/ Written(t) \/ Finish(t)
      PROVE  Progress(c)'
  <2>1. CASE t = App(c)
    BY <1>1, <1>8, <2>1, OwnStep, CopyStep, FinishStep
  <2>2. CASE t # App(c)
    <3>1. t[1] # c \/ t[2] # "app"
      BY <2>2, AppOfThread
    <3>2. pc'[App(c)] = pc[App(c)] /\ todo'[App(c)] = todo[App(c)] /\ UNCHANGED config
      BY <1>8, <2>2, AppIsThread DEF RefuseMsg, WriteNothing, Send, Sent, Written, Finish,
         Fail, Idle, TypeOK
    <3>3. call'[c] = call[c]
      BY <1>8, <3>1 DEF RefuseMsg, WriteNothing, Send, Sent, Written, Finish, Fail, Delivered,
         CallTypes
    <3>4. pc[App(c)] = "sending" => overlap' = overlap
      <4>1. App(c) \in Threads
        BY AppIsThread
      <4> QED
        BY <1>8, <4>1, NoThreadIsNone DEF RefuseMsg, WriteNothing, Send, Sent, Written, Finish,
           line, LockInv, ThreadInv, ThreadOK
    <3> QED
      BY <1>1, <3>2, <3>3, <3>4, Frame
  <2> QED
    BY <2>1, <2>2
<1>9. ASSUME NEW outcome \in {"whole", "cut", "refused"}, PortFinishes(outcome)
      PROVE  Progress(c)'
  BY <1>1, <1>9, PortStep
<1> QED
  BY <1>3, <1>4, <1>5, <1>6, <1>7, <1>8, <1>9 DEF Next

-----------------------------------------------------------------------------
\* What PassThruWriteMsgs reports is what the port took whole, or what counts
\* as delivered without it (ISO 9141 and intercepted messages), and the copies
\* of loopback are of exactly these messages, whatever the other channels and
\* the periodic messages write, fail to write or have cut in between.
THEOREM ReportsAreTrue == Spec => []ReportsMatchTheWire
<1>1. Init => TypeOK /\ LockInv /\ CallTypes /\ ProgressInv
  <2> SUFFICES ASSUME Init PROVE TypeOK /\ LockInv /\ CallTypes /\ ProgressInv
    OBVIOUS
  <2>1. TypeOK
    BY Todos DEF Init, TypeOK
  <2>2. LockInv
    BY NoThreadIsNone, Todos DEF Init, LockInv, ThreadInv, ThreadOK, PortInv
  <2>3. CallTypes
    BY Todos DEF Init, CallTypes, NoCall, Results
  <2>4. ASSUME NEW c \in Channels PROVE Progress(c)
    <3>1. call[c] = NoCall /\ pc[App(c)] = "idle"
      BY AppIsThread DEF Init
    <3>2. SubSeq(<<>>, 1, 0) = <<>> /\ Len(<<>>) = 0
      OBVIOUS
    <3>3. ~Ahead(c) /\ Split(c, 0, 0)
      BY <3>1, <3>2 DEF Ahead, Split, NoCall
    <3> QED
      BY <3>1, <3>2, <3>3 DEF Progress, NoCall
  <2> QED
    BY <2>1, <2>2, <2>3, <2>4 DEF ProgressInv
<1>2. CallTypes /\ ProgressInv => ReportsMatchTheWire
  <2> SUFFICES ASSUME CallTypes, NEW c \in Channels, Progress(c), pc[App(c)] = "idle"
               PROVE  LET done == call[c]
                      IN  /\ done.delivered = SubSeq(done.batch, 1, Len(done.delivered))
                          /\ done.result = "NOERROR" <=> Len(done.delivered) = Len(done.batch)
                          /\ done.copies = IF done.echo THEN done.delivered ELSE <<>>
    BY DEF ReportsMatchTheWire, ProgressInv
  <2>1. ~Ahead(c)
    BY DEF Ahead
  <2> QED
    BY <2>1 DEF Progress, Split
<1> QED
  BY <1>1, <1>2, TypeStep, LockStep, CallTypesStep, ProgressStep, PTL DEF Spec
=============================================================================
