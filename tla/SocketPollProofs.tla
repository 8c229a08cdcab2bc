--------------------------- MODULE SocketPollProofs ---------------------------
(***************************************************************************)
(* Proofs about SocketPoll, for any hosts, any sizes of the pipe and of    *)
(* what is sent at once: that the types hold, that no thread writes to a   *)
(* connection which has been deleted, and that the main thread never       *)
(* sleeps in select on data that the simulation thread has added.  Then,   *)
(* of a host that one thread writes to, that it receives whole events;     *)
(* and, where one host sends commands, that the main thread never waits    *)
(* for room in the pipe that it alone empties.                             *)
(***************************************************************************)
EXTENDS SocketPoll, SequenceTheorems, TLAPS

Steps ==
    [does : {"copy"}, host : Hosts, chunk : Chunks]
        \cup [does : {"store", "signal"}, host : Hosts]

\* What a thread has left to do is made of steps of write_data.
WritingType == writing \in [Threads -> Seq(Steps)]

\* The main thread has nothing left to write when it is in select or sweeps,
\* and the byte it is to read from the pipe is there.
StageInv ==
    /\ stage = "select" => writing["main"] = <<>>
    /\ stage = "sweep" => writing["main"] = <<>> /\ write_set = {}
    /\ stage = "serve" => (pipe_set => pipe > 0)

\* The simulation thread writes only with the mutex, and its last step is the
\* byte in the pipe.
SimulationInv ==
    LET left == writing["simulation"]
    IN  /\ phy = "asleep" => left = <<>>
        /\ left # <<>> => left[Len(left)].does = "signal"

\* Every step that is left to a thread is on a connection that lives.
AllLiving ==
    \A t \in Threads : \A i \in 1 .. Len(writing[t]) : writing[t][i].host \in sockets

\* Between the making of the sets and select: what there is to send is in the
\* set, or a byte is in the pipe, or one will be.
AwakeInv ==
    stage = "select" =>
        /\ pipe_set <=> \E h \in sockets : is_active(h)
        /\ \A h \in sockets \ delete_pending :
              write_buffer_len[h] > 0 =>
                  h \in write_set \/ pipe > 0 \/ writing["simulation"] # <<>>

IInv == TypeOK /\ WritingType /\ StageInv /\ SimulationInv /\ AllLiving /\ AwakeInv
-----------------------------------------------------------------------------
(* Lemmas about sequences and about the operators of SocketPoll.           *)

\* The first step of what is left, and what is left after it.
LEMMA OneStepLess ==
    ASSUME NEW S, NEW s \in Seq(S), s # <<>>
    PROVE  /\ Head(s) = s[1] /\ Head(s) \in S
           /\ Tail(s) \in Seq(S) /\ Len(Tail(s)) = Len(s) - 1
           /\ \A i \in 1 .. Len(Tail(s)) : Tail(s)[i] = s[i + 1] /\ i + 1 \in 1 .. Len(s)
           /\ Len(s) \in Nat \ {0}
OBVIOUS

\* send_event is six steps: twice a copy, a store and a byte into the pipe.
LEMMA EventParts ==
    ASSUME NEW h \in Hosts, NEW e \in {"answer", "report"}
    PROVE  LET s == send_event(h, e)
           IN  /\ s \in Seq(Steps) /\ Len(s) = 6
               /\ s[1] = [does |-> "copy", host |-> h, chunk |-> [event |-> e, part |-> "header"]]
               /\ s[2] = [does |-> "store", host |-> h]
               /\ s[3] = [does |-> "signal", host |-> h]
               /\ s[4] = [does |-> "copy", host |-> h, chunk |-> [event |-> e, part |-> "parameters"]]
               /\ s[5] = [does |-> "store", host |-> h]
               /\ s[6] = [does |-> "signal", host |-> h]
<1> DEFINE a == [does |-> "copy", host |-> h, chunk |-> [event |-> e, part |-> "header"]]
           b == [does |-> "copy", host |-> h, chunk |-> [event |-> e, part |-> "parameters"]]
           c == [does |-> "store", host |-> h]
           d == [does |-> "signal", host |-> h]
<1>1. a \in Steps /\ b \in Steps /\ c \in Steps /\ d \in Steps
  BY DEF Steps, Chunks
<1>2. send_event(h, e) = <<a, c, d>> \o <<b, c, d>>
  BY DEF send_event, write_data
<1> HIDE DEF a, b, c, d
<1> DEFINE x == <<a, c, d>>
           y == <<b, c, d>>
<1>3. x \in Seq(Steps) /\ Len(x) = 3 /\ x[1] = a /\ x[2] = c /\ x[3] = d
  BY <1>1
<1>4. y \in Seq(Steps) /\ Len(y) = 3 /\ y[1] = b /\ y[2] = c /\ y[3] = d
  BY <1>1
<1>5. send_event(h, e) = x \o y
  BY <1>2
<1> HIDE DEF x, y
<1>6. /\ x \o y \in Seq(Steps) /\ Len(x \o y) = Len(x) + Len(y)
      /\ \A i \in 1 .. Len(x) + Len(y) :
            (x \o y)[i] = IF i <= Len(x) THEN x[i] ELSE y[i - Len(x)]
  BY <1>3, <1>4, ConcatProperties, Zenon
<1> DEFINE z == x \o y
<1>7. /\ z \in Seq(Steps) /\ Len(z) = 6
      /\ \A i \in 1 .. 6 : z[i] = IF i <= 3 THEN x[i] ELSE y[i - 3]
  BY <1>6, <1>3, <1>4
<1> HIDE DEF z
<1>8. /\ z[1] = a /\ z[2] = c /\ z[3] = d /\ z[4] = b /\ z[5] = c /\ z[6] = d
      /\ Len(z) = 6 /\ z \in Seq(Steps)
  BY <1>3, <1>4, <1>7
<1>9. send_event(h, e) = z
  BY <1>5 DEF z
<1> QED
  BY <1>8, <1>9, Zenon DEF a, b, c, d

\* All of them are on one host, and the last is on the pipe.
LEMMA EventSteps ==
    ASSUME NEW h \in Hosts, NEW e \in {"answer", "report"}
    PROVE  LET s == send_event(h, e)
           IN  /\ s \in Seq(Steps) /\ s # <<>>
               /\ \A i \in 1 .. Len(s) : s[i].host = h
               /\ s[Len(s)].does = "signal"
<1> DEFINE z == send_event(h, e)
           a == [does |-> "copy", host |-> h, chunk |-> [event |-> e, part |-> "header"]]
           b == [does |-> "copy", host |-> h, chunk |-> [event |-> e, part |-> "parameters"]]
           c == [does |-> "store", host |-> h]
           d == [does |-> "signal", host |-> h]
<1>1. /\ Len(z) = 6 /\ z \in Seq(Steps)
      /\ z[1] = a /\ z[2] = c /\ z[3] = d /\ z[4] = b /\ z[5] = c /\ z[6] = d
  BY EventParts, Zenon
<1>2. a.host = h /\ b.host = h /\ c.host = h /\ d.host = h /\ d.does = "signal"
  OBVIOUS
<1> HIDE DEF z, a, b, c, d
<1>3. /\ Len(z) = 6 /\ z \in Seq(Steps)
      /\ z[1].host = h /\ z[2].host = h /\ z[3].host = h /\ z[4].host = h
      /\ z[5].host = h /\ z[6].host = h /\ z[6].does = "signal"
  BY <1>1, <1>2, Zenon
<1>4. \A i \in 1 .. 6 : i = 1 \/ i = 2 \/ i = 3 \/ i = 4 \/ i = 5 \/ i = 6
  OBVIOUS
<1>5. \A i \in 1 .. 6 : z[i].host = h
  BY <1>3, <1>4
<1>6. z # <<>>
  <2>1. Len(<<>>) # 6
    OBVIOUS
  <2> QED
    BY <2>1, <1>3, Zenon
<1>7. /\ z \in Seq(Steps) /\ z # <<>>
      /\ \A i \in 1 .. Len(z) : z[i].host = h
      /\ z[Len(z)].does = "signal"
  BY <1>3, <1>5, <1>6
<1> QED
  BY <1>7 DEF z

\* A copy makes a block of chunks.
LEMMA CopyType ==
    ASSUME TypeOK, NEW h \in Hosts, NEW i \in Nat \ {0}, NEW c \in Chunks
    PROVE  CopiedTo(h, i, c) \in Seq(Chunks \cup {Stale})
<1> DEFINE n == IF i > Len(write_buffer[h]) THEN i ELSE Len(write_buffer[h])
<1>1. write_buffer[h] \in Seq(Chunks \cup {Stale})
  BY DEF TypeOK
<1>2. n \in Nat
  BY <1>1
<1>3. \A k \in 1 .. n : Cell(h, k) \in Chunks \cup {Stale}
  BY <1>1 DEF Cell
<1>4. CopiedTo(h, i, c) = [k \in 1 .. n |-> IF k = i THEN c ELSE Cell(h, k)]
  BY DEF CopiedTo
<1> HIDE DEF n
<1> QED
  BY <1>2, <1>3, <1>4

\* What is sent is at most what is there, and the rest is a block again.
LEMMA SendType ==
    ASSUME TypeOK, NEW h \in Hosts
    PROVE  /\ Sending(h) \in Nat
           /\ UnsentLen(h, Sending(h)) \in Nat
           /\ Unsent(h, Sending(h)) \in Seq(Chunks \cup {Stale})
<1>1. write_buffer[h] \in Seq(Chunks \cup {Stale}) /\ write_buffer_len[h] \in Nat
  BY DEF TypeOK
<1>2. Sending(h) \in Nat /\ Sending(h) <= write_buffer_len[h]
  BY <1>1, PollAssumption DEF Sending
<1>3. \A n \in Nat : SubSeq(write_buffer[h], n + 1, Len(write_buffer[h])) \in Seq(Chunks \cup {Stale})
  BY <1>1
<1> QED
  BY <1>1, <1>2, <1>3 DEF UnsentLen, Unsent

\* What a host received last is a chunk.
LEMMA ReceivedType ==
    ASSUME TypeOK, NEW h \in Hosts, NEW n \in Nat, Received(h, n)
    PROVE  /\ incoming' \in [Hosts -> Chunks \cup {Nothing, Stale}]
           /\ garbled' \subseteq Hosts /\ asking' \subseteq Hosts
<1> DEFINE cells == [k \in 1 .. n |-> Cell(h, k)]
           got == <<incoming[h]>> \o cells
<1>1. \A k \in 1 .. n : Cell(h, k) \in Chunks \cup {Nothing, Stale}
  BY DEF Cell, TypeOK
<1>2. cells \in Seq(Chunks \cup {Nothing, Stale}) /\ Len(cells) = n
  BY <1>1
<1>3. incoming[h] \in Chunks \cup {Nothing, Stale}
  BY DEF TypeOK
<1> HIDE DEF cells
<1>4. got[n + 1] \in Chunks \cup {Nothing, Stale}
  BY <1>2, <1>3
<1>5. incoming' = [incoming EXCEPT ![h] = IF h \in Watched THEN got[n + 1] ELSE @]
  BY DEF Received, cells
<1> HIDE DEF got
<1>6. incoming' \in [Hosts -> Chunks \cup {Nothing, Stale}]
  BY <1>4, <1>5 DEF TypeOK
<1>7. garbled' \subseteq Hosts /\ asking' \subseteq Hosts
  BY DEF Received, TypeOK
<1> QED
  BY <1>6, <1>7
-----------------------------------------------------------------------------
(* The steps of the main thread, of the simulation thread and of hosts.     *)

\* Hosts change nothing that the invariant is about but their own state.
LEMMA HostSteps ==
    ASSUME IInv, NEW h \in Hosts, Connect(h) \/ SendCommand(h) \/ Close(h)
    PROVE  IInv'
<1> USE DEF hostVars, flagVars, bufferVars, pollVars, threadVars
<1>1. CASE Connect(h)
  <2>1. TypeOK'
    BY <1>1 DEF IInv, TypeOK, StageInv, Connect
  <2>2. WritingType' /\ SimulationInv' /\ AllLiving'
    BY <1>1 DEF IInv, TypeOK, WritingType, SimulationInv, AllLiving, Threads, Connect
  <2>3. StageInv' /\ AwakeInv'
    BY <1>1 DEF IInv, TypeOK, StageInv, SimulationInv, AwakeInv, is_active, Connect
  <2> QED
    BY <2>1, <2>2, <2>3 DEF IInv
<1>2. CASE SendCommand(h)
  <2>1. TypeOK'
    BY <1>2 DEF IInv, TypeOK, StageInv, SendCommand
  <2>2. WritingType' /\ SimulationInv' /\ AllLiving'
    BY <1>2 DEF IInv, TypeOK, WritingType, SimulationInv, AllLiving, Threads, SendCommand
  <2>3. StageInv' /\ AwakeInv'
    BY <1>2 DEF IInv, TypeOK, StageInv, SimulationInv, AwakeInv, is_active, SendCommand
  <2> QED
    BY <2>1, <2>2, <2>3 DEF IInv
<1>3. CASE Close(h)
  <2>1. TypeOK'
    BY <1>3 DEF IInv, TypeOK, StageInv, Close, EndsWith
  <2>2. WritingType' /\ SimulationInv' /\ AllLiving'
    BY <1>3 DEF IInv, TypeOK, WritingType, SimulationInv, AllLiving, Threads, Close, EndsWith
  <2>3. StageInv' /\ AwakeInv'
    BY <1>3 DEF IInv, TypeOK, StageInv, SimulationInv, AwakeInv, is_active, Close, EndsWith
  <2> QED
    BY <2>1, <2>2, <2>3 DEF IInv
<1> QED
  BY <1>1, <1>2, <1>3

\* The simulation thread takes the mutex and gives it back with nothing left to do.
LEMMA RoundSteps ==
    ASSUME IInv, BeginRound \/ EndRound
    PROVE  IInv'
<1> USE DEF hostVars, flagVars, bufferVars, pollVars, threadVars
<1>1. CASE BeginRound
  <2>1. TypeOK'
    BY <1>1 DEF IInv, TypeOK, StageInv, BeginRound
  <2>2. WritingType' /\ SimulationInv' /\ AllLiving'
    BY <1>1 DEF IInv, TypeOK, WritingType, SimulationInv, AllLiving, Threads, BeginRound
  <2>3. StageInv' /\ AwakeInv'
    BY <1>1 DEF IInv, TypeOK, StageInv, SimulationInv, AwakeInv, is_active, BeginRound
  <2> QED
    BY <2>1, <2>2, <2>3 DEF IInv
<1>2. CASE EndRound
  <2>1. TypeOK'
    BY <1>2 DEF IInv, TypeOK, StageInv, EndRound, InRound
  <2>2. WritingType' /\ SimulationInv' /\ AllLiving'
    BY <1>2 DEF IInv, TypeOK, WritingType, SimulationInv, AllLiving, Threads, EndRound, InRound
  <2>3. StageInv' /\ AwakeInv'
    BY <1>2 DEF IInv, TypeOK, StageInv, SimulationInv, AwakeInv, is_active, EndRound, InRound
  <2> QED
    BY <2>1, <2>2, <2>3 DEF IInv
<1> QED
  BY <1>1, <1>2

\* What the simulation thread does in a round.
LEMMA SimulationSteps ==
    ASSUME IInv, NEW h \in Hosts,
           end_of_packet(h) \/ AcknowledgeDeletion(h)
    PROVE  IInv'
<1> USE DEF hostVars, flagVars, bufferVars, pollVars, threadVars
<1>1. CASE end_of_packet(h)
  <2>1. TypeOK'
    BY <1>1 DEF IInv, TypeOK, StageInv, end_of_packet, InRound
  <2>2. WritingType' /\ SimulationInv' /\ AllLiving'
    <3> DEFINE steps == send_event(h, "report")
    <3>1. /\ steps \in Seq(Steps) /\ steps # <<>>
          /\ \A i \in 1 .. Len(steps) : steps[i].host = h
          /\ steps[Len(steps)].does = "signal"
      BY EventSteps
    <3>2. /\ writing' = [writing EXCEPT !["simulation"] = steps]
          /\ sockets' = sockets /\ phy' = phy /\ h \in sockets
      BY <1>1 DEF end_of_packet, InRound
    <3> HIDE DEF steps
    <3>3. writing'["simulation"] = steps /\ writing'["main"] = writing["main"]
      BY <3>2 DEF IInv, WritingType, Threads
    <3>4. WritingType'
      BY <3>1, <3>2 DEF IInv, WritingType, Threads
    <3>5. SimulationInv'
      BY <3>1, <3>2, <3>3, <1>1 DEF IInv, SimulationInv, end_of_packet, InRound
    <3>6. AllLiving'
      BY <3>1, <3>2, <3>3 DEF IInv, AllLiving, Threads
    <3> QED
      BY <3>4, <3>5, <3>6
  <2>3. StageInv' /\ AwakeInv'
    BY <1>1 DEF IInv, TypeOK, StageInv, SimulationInv, AwakeInv, is_active, end_of_packet, InRound
  <2> QED
    BY <2>1, <2>2, <2>3 DEF IInv
<1>2. CASE AcknowledgeDeletion(h)
  <2>1. TypeOK'
    BY <1>2 DEF IInv, TypeOK, StageInv, AcknowledgeDeletion, InRound
  <2>2. WritingType' /\ SimulationInv' /\ AllLiving'
    BY <1>2 DEF IInv, TypeOK, WritingType, SimulationInv, AllLiving, Threads, AcknowledgeDeletion, InRound
  <2>3. StageInv' /\ AwakeInv'
    BY <1>2 DEF IInv, TypeOK, StageInv, SimulationInv, AwakeInv, is_active, AcknowledgeDeletion, InRound
  <2> QED
    BY <2>1, <2>2, <2>3 DEF IInv
<1> QED
  BY <1>1, <1>2

\* The main thread around select.
LEMMA SelectSteps ==
    ASSUME IInv, Select \/ SelectTimeout \/ DrainPipe \/ Swept
    PROVE  IInv'
<1> USE DEF hostVars, flagVars, bufferVars, pollVars, threadVars
<1>1. CASE Select
  <2>1. TypeOK'
    BY <1>1 DEF IInv, TypeOK, StageInv, Select, MainAt, SomethingReady, Arriving
  <2>2. WritingType' /\ SimulationInv' /\ AllLiving'
    BY <1>1 DEF IInv, TypeOK, WritingType, SimulationInv, AllLiving, Threads, Select, MainAt, SomethingReady, Arriving
  <2>3. StageInv' /\ AwakeInv'
    BY <1>1 DEF IInv, TypeOK, StageInv, SimulationInv, AwakeInv, is_active, Select, MainAt, SomethingReady, Arriving
  <2> QED
    BY <2>1, <2>2, <2>3 DEF IInv
<1>2. CASE SelectTimeout
  <2>1. TypeOK'
    BY <1>2 DEF IInv, TypeOK, StageInv, SelectTimeout, MainAt, FillSets
  <2>2. WritingType' /\ SimulationInv' /\ AllLiving'
    BY <1>2 DEF IInv, TypeOK, WritingType, SimulationInv, AllLiving, Threads, SelectTimeout, MainAt, FillSets
  <2>3. StageInv' /\ AwakeInv'
    BY <1>2 DEF IInv, TypeOK, StageInv, SimulationInv, AwakeInv, is_active, SelectTimeout, MainAt, FillSets
  <2> QED
    BY <2>1, <2>2, <2>3 DEF IInv
<1>3. CASE DrainPipe
  <2>1. TypeOK'
    <3>1. AfterRead \in 0 .. PipeSize
      <4>1. CASE pipe_set
        <5>1. pipe > 0
          BY <4>1, <1>3, Zenon DEF IInv, StageInv, DrainPipe, MainAt
        <5>2. AfterRead = pipe - 1
          BY <4>1, Zenon DEF AfterRead
        <5> QED
          BY <5>1, <5>2, PollAssumption DEF IInv, TypeOK
      <4>2. CASE ~pipe_set
        BY <4>2 DEF IInv, TypeOK, AfterRead
      <4> QED
        BY <4>1, <4>2
    <3> QED
      BY <3>1, <1>3 DEF IInv, TypeOK, DrainPipe, MainAt
  <2>2. WritingType' /\ SimulationInv' /\ AllLiving'
    BY <1>3 DEF IInv, TypeOK, WritingType, SimulationInv, AllLiving, Threads, DrainPipe, MainAt, AfterRead
  <2>3. StageInv' /\ AwakeInv'
    BY <1>3 DEF IInv, TypeOK, StageInv, SimulationInv, AwakeInv, is_active, DrainPipe, MainAt, AfterRead
  <2> QED
    BY <2>1, <2>2, <2>3 DEF IInv
<1>4. CASE Swept
  <2>1. TypeOK'
    BY <1>4 DEF IInv, TypeOK, StageInv, Swept, MainAt, FillSets
  <2>2. WritingType' /\ SimulationInv' /\ AllLiving'
    BY <1>4 DEF IInv, TypeOK, WritingType, SimulationInv, AllLiving, Threads, Swept, MainAt, FillSets
  <2>3. StageInv' /\ AwakeInv'
    BY <1>4 DEF IInv, TypeOK, StageInv, SimulationInv, AwakeInv, is_active, Swept, MainAt, FillSets
  <2> QED
    BY <2>1, <2>2, <2>3 DEF IInv
<1> QED
  BY <1>1, <1>2, <1>3, <1>4

\* The main thread serves one socket, or deletes it.
LEMMA ServeSteps ==
    ASSUME IInv, NEW h \in Hosts,
           \/ ServeCommand(h) \/ ServeError(h) \/ ServeEnd(h)
           \/ SendFails(h) \/ on_hci_connection(h) \/ Sweep(h)
    PROVE  IInv'
<1> USE DEF hostVars, flagVars, bufferVars, pollVars, threadVars
<1>1. CASE ServeCommand(h)
  <2>1. TypeOK'
    BY <1>1 DEF IInv, TypeOK, StageInv, ServeCommand, ToRead, MainAt
  <2>2. WritingType' /\ SimulationInv' /\ AllLiving'
    <3> DEFINE steps == send_event(h, "answer")
    <3>1. /\ steps \in Seq(Steps) /\ steps # <<>>
          /\ \A i \in 1 .. Len(steps) : steps[i].host = h
          /\ steps[Len(steps)].does = "signal"
      BY EventSteps
    <3>2. /\ writing' = [writing EXCEPT !["main"] = steps]
          /\ sockets' = sockets /\ phy' = phy /\ h \in sockets
      BY <1>1 DEF ServeCommand, ToRead
    <3> HIDE DEF steps
    <3>3. writing'["main"] = steps /\ writing'["simulation"] = writing["simulation"]
      BY <3>2 DEF IInv, WritingType, Threads
    <3>4. WritingType'
      BY <3>1, <3>2 DEF IInv, WritingType, Threads
    <3>5. SimulationInv'
      BY <3>2, <3>3 DEF IInv, SimulationInv
    <3>6. AllLiving'
      BY <3>1, <3>2, <3>3 DEF IInv, AllLiving, Threads
    <3> QED
      BY <3>4, <3>5, <3>6
  <2>3. StageInv' /\ AwakeInv'
    BY <1>1 DEF IInv, TypeOK, StageInv, SimulationInv, AwakeInv, is_active, ServeCommand, ToRead, MainAt
  <2> QED
    BY <2>1, <2>2, <2>3 DEF IInv
<1>2. CASE ServeError(h)
  <2>1. TypeOK'
    BY <1>2 DEF IInv, TypeOK, StageInv, ServeError, ToRead, MainAt, ErrorRead
  <2>2. WritingType' /\ SimulationInv' /\ AllLiving'
    BY <1>2 DEF IInv, TypeOK, WritingType, SimulationInv, AllLiving, Threads, ServeError, ToRead, MainAt, ErrorRead
  <2>3. StageInv' /\ AwakeInv'
    BY <1>2 DEF IInv, TypeOK, StageInv, SimulationInv, AwakeInv, is_active, ServeError, ToRead, MainAt, ErrorRead
  <2> QED
    BY <2>1, <2>2, <2>3 DEF IInv
<1>3. CASE ServeEnd(h)
  <2>1. TypeOK'
    BY <1>3 DEF IInv, TypeOK, StageInv, ServeEnd, ToRead, MainAt
  <2>2. WritingType' /\ SimulationInv' /\ AllLiving'
    BY <1>3 DEF IInv, TypeOK, WritingType, SimulationInv, AllLiving, Threads, ServeEnd, ToRead, MainAt
  <2>3. StageInv' /\ AwakeInv'
    BY <1>3 DEF IInv, TypeOK, StageInv, SimulationInv, AwakeInv, is_active, ServeEnd, ToRead, MainAt
  <2> QED
    BY <2>1, <2>2, <2>3 DEF IInv
<1>4. CASE SendFails(h)
  <2>1. TypeOK'
    BY <1>4 DEF IInv, TypeOK, StageInv, SendFails, ToWrite, MainAt
  <2>2. WritingType' /\ SimulationInv' /\ AllLiving'
    BY <1>4 DEF IInv, TypeOK, WritingType, SimulationInv, AllLiving, Threads, SendFails, ToWrite, MainAt
  <2>3. StageInv' /\ AwakeInv'
    BY <1>4 DEF IInv, TypeOK, StageInv, SimulationInv, AwakeInv, is_active, SendFails, ToWrite, MainAt
  <2> QED
    BY <2>1, <2>2, <2>3 DEF IInv
<1>5. CASE on_hci_connection(h)
  <2>1. TypeOK'
    BY <1>5 DEF IInv, TypeOK, StageInv, on_hci_connection, MainAt
  <2>2. WritingType' /\ SimulationInv' /\ AllLiving'
    BY <1>5 DEF IInv, TypeOK, WritingType, SimulationInv, AllLiving, Threads, on_hci_connection, MainAt
  <2>3. StageInv' /\ AwakeInv'
    BY <1>5 DEF IInv, TypeOK, StageInv, SimulationInv, AwakeInv, is_active, on_hci_connection, MainAt
  <2> QED
    BY <2>1, <2>2, <2>3 DEF IInv
<1>6. CASE Sweep(h)
  <2>1. TypeOK'
    BY <1>6 DEF IInv, TypeOK, StageInv, Sweep, Deleted, MainAt, is_delete_ready
  <2>2. WritingType' /\ SimulationInv' /\ AllLiving'
    BY <1>6 DEF IInv, TypeOK, WritingType, SimulationInv, AllLiving, Threads, Sweep, Deleted, MainAt, is_delete_ready
  <2>3. StageInv' /\ AwakeInv'
    BY <1>6 DEF IInv, TypeOK, StageInv, SimulationInv, AwakeInv, is_active, Sweep, Deleted, MainAt, is_delete_ready
  <2> QED
    BY <2>1, <2>2, <2>3 DEF IInv
<1> QED
  BY <1>1, <1>2, <1>3, <1>4, <1>5, <1>6

\* on_writable: what is left of the buffer, and a store to make.
LEMMA WritableStep ==
    ASSUME IInv, NEW h \in Hosts, on_writable(h)
    PROVE  IInv'
<1> USE DEF hostVars, flagVars, bufferVars, pollVars, threadVars
<1> DEFINE n == Sending(h)
           step == [does |-> "store", host |-> h]
<1>1. n \in Nat /\ UnsentLen(h, n) \in Nat /\ Unsent(h, n) \in Seq(Chunks \cup {Stale})
  BY SendType DEF IInv
<1>2. /\ stage = "serve" /\ writing["main"] = <<>> /\ h \in sockets
      /\ writing' = [writing EXCEPT !["main"] = <<step>>]
      /\ write_buffer' = [write_buffer EXCEPT ![h] = Unsent(h, n)]
      /\ new_len' = [new_len EXCEPT !["main"] = UnsentLen(h, n)]
      /\ write_set' = write_set \ {h}
      /\ UNCHANGED <<inbox, sockets, flagVars, write_buffer_len, pipe, stage, read_set,
                     pipe_set, phy>>
  BY DEF on_writable, ToWrite, MainAt, IInv, TypeOK
<1>3. /\ connection' \in [Hosts -> {"none", "connecting", "open", "closed", "broken", "failed"}]
      /\ incoming' \in [Hosts -> Chunks \cup {Nothing, Stale}]
      /\ garbled' \subseteq Hosts /\ asking' \subseteq Hosts
  <2>1. CASE Received(h, n) /\ UNCHANGED connection
    BY <2>1, <1>1, ReceivedType DEF IInv, TypeOK
  <2>2. CASE EndsWith(h) /\ UNCHANGED <<asking, incoming, garbled>>
    BY <2>2 DEF EndsWith, IInv, TypeOK
  <2> QED
    BY <2>1, <2>2 DEF on_writable
<1> HIDE DEF n
<1>4. TypeOK'
  BY <1>1, <1>2, <1>3 DEF IInv, TypeOK, Threads
<1>5. step \in Steps /\ step.host = h
  BY DEF Steps
<1> HIDE DEF step
<1>6. writing'["main"] = <<step>> /\ writing'["simulation"] = writing["simulation"]
  BY <1>2 DEF IInv, WritingType, Threads
<1>7. WritingType' /\ SimulationInv' /\ AllLiving'
  <2>1. WritingType'
    BY <1>2, <1>5 DEF IInv, WritingType, Threads
  <2>2. SimulationInv'
    BY <1>2, <1>6 DEF IInv, SimulationInv
  <2>3. AllLiving'
    BY <1>2, <1>5, <1>6 DEF IInv, AllLiving, Threads
  <2> QED
    BY <2>1, <2>2, <2>3
<1>8. StageInv' /\ AwakeInv'
  BY <1>2 DEF IInv, TypeOK, StageInv, AwakeInv, is_active
<1> QED
  BY <1>4, <1>7, <1>8 DEF IInv

\* A step of write_data, of either thread.
LEMMA BufferSteps ==
    ASSUME IInv, NEW t \in Threads, BufferStep(t)
    PROVE  IInv'
<1> USE DEF hostVars, flagVars, bufferVars, pollVars, threadVars
<1> DEFINE left == writing[t]
           do == Head(left)
<1>1. left \in Seq(Steps) /\ left # <<>>
  BY DEF BufferStep, Copy, Store, Signal, Doing, IInv, WritingType
<1>2. /\ do = left[1] /\ do \in Steps /\ Tail(left) \in Seq(Steps)
      /\ Len(Tail(left)) = Len(left) - 1 /\ Len(left) \in Nat \ {0}
      /\ \A i \in 1 .. Len(Tail(left)) : Tail(left)[i] = left[i + 1] /\ i + 1 \in 1 .. Len(left)
  BY <1>1, OneStepLess
<1>3. do.host \in Hosts /\ do.host \in sockets
  BY <1>1, <1>2 DEF Steps, IInv, AllLiving
<1>4. /\ writing' = [writing EXCEPT ![t] = Tail(left)]
      /\ UNCHANGED <<hostVars, sockets, flagVars, pollVars, phy>>
  BY DEF BufferStep, Copy, Store, Signal
<1>5. do.does \in {"copy", "store", "signal"} /\ (do.does = "copy" => do.chunk \in Chunks)
  BY <1>2 DEF Steps
<1> HIDE DEF do, left
<1>6. /\ writing'[t] = Tail(left) /\ left = writing[t]
      /\ \A u \in Threads \ {t} : writing'[u] = writing[u]
  BY <1>4 DEF IInv, WritingType, left
<1>7. WritingType'
  BY <1>2, <1>4 DEF IInv, WritingType
<1>8. AllLiving'
  <2>1. \A i \in 1 .. Len(Tail(left)) : Tail(left)[i].host \in sockets
    BY <1>2, <1>6 DEF IInv, AllLiving
  <2>2. sockets' = sockets
    BY <1>4
  <2> QED
    BY <1>6, <2>1, <2>2 DEF IInv, AllLiving
<1>9. SimulationInv'
  <2>1. CASE t = "main"
    BY <2>1, <1>4, <1>6 DEF IInv, SimulationInv, Threads
  <2>2. CASE t = "simulation"
    <3>1. phy # "asleep"
      BY <2>2, <1>1, <1>6 DEF IInv, SimulationInv
    <3>2. ASSUME Tail(left) # <<>> PROVE Tail(left)[Len(Tail(left))].does = "signal"
      <4>1. Len(Tail(left)) \in 1 .. Len(Tail(left)) /\ Len(Tail(left)) + 1 = Len(left)
        BY <1>2, <3>2
      <4> QED
        BY <4>1, <2>2, <1>1, <1>2, <1>6 DEF IInv, SimulationInv
    <3> QED
      BY <3>1, <3>2, <2>2, <1>4, <1>6 DEF SimulationInv
  <2> QED
    BY <2>1, <2>2 DEF Threads
<1>10. stage \in {"select", "sweep"} => t = "simulation"
  BY <1>1, <1>6 DEF IInv, StageInv, Threads
<1>11. /\ pipe' \in 0 .. PipeSize /\ pipe' >= pipe
       /\ Signal(t) => pipe' > 0
  <2>1. pipe \in 0 .. PipeSize
    BY DEF IInv, TypeOK
  <2>2. CASE Copy(t) \/ Store(t)
    BY <2>1, <2>2, PollAssumption DEF Copy, Store, Signal, Doing
  <2>3. CASE Signal(t)
    BY <2>1, <2>3, PollAssumption DEF Signal
  <2> QED
    BY <2>2, <2>3 DEF BufferStep
<1>12. t = "simulation" => writing'["simulation"] # <<>> \/ pipe' > 0
  <2>1. CASE Signal(t)
    BY <2>1, <1>11
  <2>2. CASE t = "simulation" /\ (Copy(t) \/ Store(t))
    <3>1. left[1].does # "signal"
      BY <2>2, <1>2 DEF Copy, Store, Doing, do, left
    <3>2. left[Len(left)].does = "signal"
      BY <2>2, <1>1, <1>6 DEF IInv, SimulationInv
    <3>3. Len(left) # 1
      BY <3>1, <3>2
    <3>4. Len(Tail(left)) # 0
      BY <3>3, <1>2
    <3>5. Len(<<>>) = 0
      OBVIOUS
    <3>6. Tail(left) # <<>>
      BY <3>4, <3>5, Zenon
    <3> QED
      BY <3>6, <2>2, <1>6
  <2> QED
    BY <2>1, <2>2 DEF BufferStep
<1>13. StageInv'
  <2>1. pipe \in 0 .. PipeSize
    BY DEF IInv, TypeOK
  <2>2. pipe > 0 => pipe' > 0
    BY <2>1, <1>11, PollAssumption
  <2>3. stage \in {"select", "sweep"} => writing'["main"] = writing["main"]
    BY <1>6, <1>10 DEF Threads
  <2> QED
    BY <2>2, <2>3, <1>4 DEF IInv, StageInv
<1>14. AwakeInv'
  <2>1. stage = "select" => writing'["simulation"] # <<>> \/ pipe' > 0
    BY <1>10, <1>12
  <2> QED
    BY <2>1, <1>4 DEF IInv, AwakeInv, is_active
<1>15. TypeOK'
  <2>1. CASE Copy(t)
    <3>1. write_buffer_len[do.host] + 1 \in Nat \ {0}
      BY <1>3 DEF IInv, TypeOK
    <3>2. do.chunk \in Chunks
      BY <2>1, <1>5 DEF Copy, Doing, do, left
    <3>3. CopiedTo(do.host, write_buffer_len[do.host] + 1, do.chunk) \in Seq(Chunks \cup {Stale})
      BY <1>3, <3>1, <3>2, CopyType DEF IInv
    <3> QED
      BY <2>1, <1>3, <3>1, <3>3 DEF Copy, IInv, TypeOK, do, left
  <2>2. CASE Store(t)
    BY <2>2, <1>3 DEF Store, IInv, TypeOK, do, left
  <2>3. CASE Signal(t)
    BY <2>3, <1>11 DEF Signal, IInv, TypeOK
  <2> QED
    BY <2>1, <2>2, <2>3 DEF BufferStep
<1> QED
  BY <1>7, <1>8, <1>9, <1>13, <1>14, <1>15 DEF IInv

\* The server that is started again has none of it.
LEMMA Restart ==
    ASSUME IInv, run_b1ee_server
    PROVE  IInv'
<1> USE DEF run_b1ee_server
<1>1. TypeOK'
  <2>1. incoming' \in [Hosts -> Chunks \cup {Nothing, Stale}]
    OBVIOUS
  <2>2. write_buffer' \in [Hosts -> Seq(Chunks \cup {Stale})]
    OBVIOUS
  <2>3. pipe_set' \in BOOLEAN
    BY Zenon
  <2>4. connection' \in [Hosts -> {"none", "connecting", "open", "closed", "broken", "failed"}]
    OBVIOUS
  <2>5. /\ asking' \subseteq Hosts /\ inbox' \subseteq Hosts /\ garbled' \subseteq Hosts
        /\ sockets' \subseteq Hosts /\ delete_pending' \subseteq sockets'
        /\ delete_ready' \subseteq delete_pending'
        /\ read_set' \subseteq Hosts /\ write_set' \subseteq sockets'
    BY DEF IInv, TypeOK
  <2>6. /\ write_buffer_len' \in [Hosts -> Nat] /\ pipe' \in 0 .. PipeSize
        /\ new_len' \in [Threads -> Nat]
        /\ stage' \in {"select", "serve", "sweep"} /\ phy' \in {"asleep", "round"}
    BY PollAssumption
  <2> QED
    BY <2>1, <2>2, <2>3, <2>4, <2>5, <2>6 DEF TypeOK
<1>2. WritingType' /\ SimulationInv' /\ AllLiving'
  BY DEF WritingType, SimulationInv, AllLiving, Threads
<1>3. StageInv' /\ AwakeInv'
  BY DEF StageInv, AwakeInv, Threads
<1> QED
  BY <1>1, <1>2, <1>3 DEF IInv

-----------------------------------------------------------------------------
\* The invariant holds initially.
LEMMA InvInit == Init => IInv
<1> SUFFICES ASSUME Init PROVE IInv
  OBVIOUS
<1> USE DEF Init
<1>1. TypeOK
  <2>1. incoming \in [Hosts -> Chunks \cup {Nothing, Stale}]
    OBVIOUS
  <2>2. write_buffer \in [Hosts -> Seq(Chunks \cup {Stale})]
    OBVIOUS
  <2>3. pipe_set \in BOOLEAN
    BY Zenon
  <2>4. connection \in [Hosts -> {"none", "connecting", "open", "closed", "broken", "failed"}]
    OBVIOUS
  <2>5. /\ write_buffer_len \in [Hosts -> Nat] /\ pipe \in 0 .. PipeSize
        /\ new_len \in [Threads -> Nat]
        /\ stage \in {"select", "serve", "sweep"} /\ phy \in {"asleep", "round"}
    BY PollAssumption
  <2> QED
    BY <2>1, <2>2, <2>3, <2>4, <2>5 DEF TypeOK
<1>2. WritingType /\ SimulationInv /\ AllLiving
  BY DEF WritingType, SimulationInv, AllLiving, Threads
<1>3. StageInv /\ AwakeInv
  BY DEF StageInv, AwakeInv, Threads
<1> QED
  BY <1>1, <1>2, <1>3 DEF IInv

\* Every step preserves it.
LEMMA InvNext == IInv /\ [Next]_vars => IInv'
<1> SUFFICES ASSUME IInv, [Next]_vars PROVE IInv'
  OBVIOUS
<1>1. CASE poll
  <2>1. CASE Select \/ SelectTimeout \/ DrainPipe \/ Swept
    BY <2>1, SelectSteps
  <2>2. CASE BufferStep("main")
    BY <2>2, BufferSteps DEF Threads
  <2>3. ASSUME NEW h \in Hosts,
               \/ ServeCommand(h) \/ ServeError(h) \/ ServeEnd(h)
               \/ SendFails(h) \/ on_hci_connection(h) \/ Sweep(h)
        PROVE  IInv'
    BY <2>3, ServeSteps
  <2>4. ASSUME NEW h \in Hosts, on_writable(h) PROVE IInv'
    BY <2>4, WritableStep
  <2>5. ASSUME NEW h \in Hosts, BrokenPipe(h) PROVE IInv'
    BY <2>5, Restart DEF BrokenPipe
  <2> QED
    BY <1>1, <2>1, <2>2, <2>3, <2>4, <2>5 DEF poll
<1>2. CASE simulation
  <2>1. CASE BeginRound
    BY <2>1, RoundSteps
  <2>2. CASE EndRound
    BY <2>2, RoundSteps
  <2>3. ASSUME NEW h \in Hosts, end_of_packet(h) \/ AcknowledgeDeletion(h) PROVE IInv'
    BY <2>3, SimulationSteps
  <2>4. CASE BufferStep("simulation")
    BY <2>4, BufferSteps DEF Threads
  <2> QED
    BY <1>2, <2>1, <2>2, <2>3, <2>4 DEF simulation
<1>3. CASE background_monitor_thread
  BY <1>3, Restart DEF background_monitor_thread
<1>4. ASSUME NEW h \in Hosts, Connect(h) \/ SendCommand(h) \/ Close(h) PROVE IInv'
  BY <1>4, HostSteps
<1>5. CASE UNCHANGED vars
  BY <1>5 DEF vars, hostVars, flagVars, bufferVars, pollVars, threadVars, IInv, TypeOK,
     WritingType, StageInv, SimulationInv, AllLiving, AwakeInv, is_active
<1> QED
  BY <1>1, <1>2, <1>3, <1>4, <1>5 DEF Next

\* The invariant holds always.
THEOREM Invariance == Spec => []IInv
<1> QED
  BY InvInit, InvNext, PTL DEF Spec

\* Every variable has its type, for any hosts and any sizes: among others that a
\* connection is acknowledged for deletion only after it was marked, and that
\* the pipe never holds more than it can.
THEOREM TypeCorrect == Spec => []TypeOK
<1>1. IInv => TypeOK
  BY DEF IInv
<1> QED
  BY <1>1, Invariance, PTL

\* A Controller is deleted only when no thread has a step of write_data left to
\* do on it.
THEOREM LivingOnly == Spec => []WritesToLiving
<1>1. IInv => WritesToLiving
  <2> SUFFICES ASSUME IInv, NEW t \in Threads, writing[t] # <<>>
               PROVE  Head(writing[t]).host \in sockets
    BY DEF WritesToLiving
  <2>1. writing[t] \in Seq(Steps)
    BY DEF IInv, WritingType
  <2>2. Head(writing[t]) = writing[t][1] /\ 1 \in 1 .. Len(writing[t])
    BY <2>1
  <2> QED
    BY <2>2 DEF IInv, AllLiving
<1> QED
  BY <1>1, Invariance, PTL

\* The data is stored before the byte goes into the pipe, so that select never
\* sleeps on it, wherever the other thread is interrupted.
THEOREM NoWakeupIsLost == Spec => []NoSleepOnData
<1>1. IInv => NoSleepOnData
  <2> SUFFICES ASSUME IInv, stage = "select", ~SomethingReady, writing["simulation"] = <<>>,
                      NEW h \in sockets \ delete_pending
               PROVE  write_buffer_len[h] = 0
    BY DEF NoSleepOnData
  <2>1. write_set = {} /\ ~(pipe_set /\ pipe > 0)
    BY DEF SomethingReady
  <2>2. pipe_set
    BY DEF IInv, AwakeInv, is_active
  <2>3. write_buffer_len[h] \in Nat /\ ~(write_buffer_len[h] > 0)
    BY <2>1, <2>2 DEF IInv, TypeOK, AwakeInv
  <2> QED
    BY <2>3
<1> QED
  BY <1>1, Invariance, PTL

-----------------------------------------------------------------------------
(* What the threads write, step by step, and what a connection's state says *)
(* about its buffer.                                                        *)

Header(e) == [event |-> e, part |-> "header"]
Parameters(e) == [event |-> e, part |-> "parameters"]

\* These steps are the last ones of an event.
RestOf(left, h, e) ==
    /\ Len(left) <= 6
    /\ \A i \in 1 .. Len(left) : left[i] = send_event(h, e)[i + 6 - Len(left)]

\* The main thread writes answers and the lengths that on_writable has computed,
\* the simulation thread reports.
ScriptInv ==
    /\ writing["main"] # <<>> =>
          \/ Len(writing["main"]) = 1 /\ writing["main"][1].does = "store"
          \/ \E h \in Askers : RestOf(writing["main"], h, "answer")
    /\ writing["simulation"] # <<>> =>
          \E h \in Listeners : RestOf(writing["simulation"], h, "report")
    /\ inbox \subseteq Askers

\* A connection that is open has a controller, and starts with nothing in its
\* buffer and no event begun; one that is to be deleted is gone.
ConnectionInv ==
    \A h \in Hosts :
        /\ h \in sockets <=> connection[h] \notin {"none", "connecting"}
        /\ h \in delete_pending => Gone(h)
        /\ h \notin sockets => write_buffer_len[h] = 0
        /\ connection[h] # "open" => incoming[h] = Nothing

\* One step, and nothing after it.
LEMMA NothingAfterOne ==
    ASSUME NEW S, NEW s \in Seq(S), Len(s) = 1
    PROVE  Tail(s) = <<>>
<1>1. s # <<>>
  <2>1. Len(<<>>) # 1
    OBVIOUS
  <2> QED
    BY <2>1, Zenon
<1>2. Tail(s) \in Seq(S) /\ Len(Tail(s)) = 0
  BY <1>1, OneStepLess
<1> QED
  BY <1>2, EmptySeq, Zenon

\* What is left of an event, by the number of its steps, and one step less.
LEMMA RestSteps ==
    ASSUME NEW left \in Seq(Steps), left # <<>>, NEW h \in Hosts,
           NEW e \in {"answer", "report"}, RestOf(left, h, e)
    PROVE  /\ Len(left) \in 1 .. 6
           /\ Head(left) = left[1] /\ left[1].host = h
           /\ RestOf(Tail(left), h, e)
           /\ Len(left) = 6 => left[1].does = "copy" /\ left[1].chunk = Header(e)
           /\ Len(left) = 5 => left[1].does = "store"
           /\ Len(left) = 4 => left[1].does = "signal"
           /\ Len(left) = 3 => left[1].does = "copy" /\ left[1].chunk = Parameters(e)
           /\ Len(left) = 2 => left[1].does = "store"
           /\ Len(left) = 1 => left[1].does = "signal"
<1> DEFINE s == send_event(h, e)
<1>1. PICK n \in Nat : n = Len(left)
  OBVIOUS
<1>2. /\ Head(left) = left[1] /\ Tail(left) \in Seq(Steps)
      /\ Len(Tail(left)) = Len(left) - 1 /\ Len(left) \in Nat \ {0}
      /\ \A i \in 1 .. Len(Tail(left)) : Tail(left)[i] = left[i + 1] /\ i + 1 \in 1 .. Len(left)
  BY OneStepLess
<1>3. n \in 1 .. 6 /\ left[1] = s[7 - n]
  <2>1. n \in 1 .. 6
    <3>1. Len(left) <= 6
      BY Zenon DEF RestOf
    <3>2. n <= 6 /\ n \in Nat \ {0}
      BY <3>1, <1>1, <1>2, Zenon
    <3> QED
      BY <3>2
  <2>2. left[1] = s[1 + 6 - n]
    BY <1>1, <2>1 DEF RestOf
  <2> QED
    BY <2>1, <2>2
<1>4. RestOf(Tail(left), h, e)
  <2>1. Len(Tail(left)) = n - 1
    BY <1>1, <1>2
  <2>2. ASSUME NEW i \in 1 .. n - 1 PROVE Tail(left)[i] = s[i + 6 - (n - 1)]
    <3>1. i + 1 \in 1 .. n /\ Tail(left)[i] = left[i + 1]
      BY <1>1, <1>2, <2>1
    <3>2. left[i + 1] = s[i + 1 + 6 - n]
      BY <1>1, <3>1 DEF RestOf
    <3>3. i + 1 + 6 - n = i + 6 - (n - 1)
      BY <1>3
    <3> QED
      BY <3>1, <3>2, <3>3
  <2> QED
    BY <1>3, <2>1, <2>2 DEF RestOf
<1>5. /\ s[1] = [does |-> "copy", host |-> h, chunk |-> Header(e)]
      /\ s[2] = [does |-> "store", host |-> h]
      /\ s[3] = [does |-> "signal", host |-> h]
      /\ s[4] = [does |-> "copy", host |-> h, chunk |-> Parameters(e)]
      /\ s[5] = [does |-> "store", host |-> h]
      /\ s[6] = [does |-> "signal", host |-> h]
  BY EventParts, Zenon DEF Header, Parameters
<1> HIDE DEF s
<1>6. /\ n = 6 => left[1] = s[1]
      /\ n = 5 => left[1] = s[2]
      /\ n = 4 => left[1] = s[3]
      /\ n = 3 => left[1] = s[4]
      /\ n = 2 => left[1] = s[5]
      /\ n = 1 => left[1] = s[6]
  BY <1>3
<1>7. n = 1 \/ n = 2 \/ n = 3 \/ n = 4 \/ n = 5 \/ n = 6
  BY <1>3
<1>8. left[1].host = h
  BY <1>5, <1>6, <1>7
<1>9. /\ n = 6 => left[1].does = "copy" /\ left[1].chunk = Header(e)
      /\ n = 5 => left[1].does = "store"
      /\ n = 4 => left[1].does = "signal"
      /\ n = 3 => left[1].does = "copy" /\ left[1].chunk = Parameters(e)
      /\ n = 2 => left[1].does = "store"
      /\ n = 1 => left[1].does = "signal"
  BY <1>5, <1>6
<1> QED
  BY <1>1, <1>2, <1>3, <1>4, <1>8, <1>9, Zenon

\* All six steps are a rest.
LEMMA RestAtFirst ==
    ASSUME NEW h \in Hosts, NEW e \in {"answer", "report"}
    PROVE  /\ RestOf(send_event(h, e), h, e)
           /\ Len(send_event(h, e)) = 6 /\ send_event(h, e) # <<>>
           /\ send_event(h, e) \in Seq(Steps)
<1>1. Len(send_event(h, e)) = 6 /\ send_event(h, e) \in Seq(Steps)
  BY EventParts, Zenon
<1>2. send_event(h, e) # <<>>
  BY EventSteps, Zenon
<1> QED
  BY <1>1, <1>2 DEF RestOf

\* Nothing is being written and no connection is open at first.
LEMMA ScriptInit == Init => ScriptInv /\ ConnectionInv
BY DEF Init, ScriptInv, ConnectionInv, Threads

\* Steps that add nothing to what is to be written, or one event.
LEMMA ScriptNext ==
    ASSUME IInv, ScriptInv, [Next]_vars
    PROVE  ScriptInv'
<1> USE DEF hostVars, flagVars, bufferVars, pollVars, threadVars
<1>1. CASE writing' = writing /\ inbox' \subseteq inbox \cup Askers
  BY <1>1 DEF ScriptInv
<1>2. ASSUME NEW h \in Hosts, ServeCommand(h) PROVE ScriptInv'
  <2>1. /\ writing' = [writing EXCEPT !["main"] = send_event(h, "answer")]
        /\ inbox' \subseteq inbox /\ h \in Askers
    BY <1>2 DEF ServeCommand, ScriptInv
  <2>2. /\ writing'["main"] = send_event(h, "answer")
        /\ writing'["simulation"] = writing["simulation"]
    BY <2>1 DEF IInv, WritingType, Threads
  <2>3. RestOf(writing'["main"], h, "answer")
    BY <2>2, RestAtFirst
  <2> QED
    BY <2>1, <2>2, <2>3 DEF ScriptInv
<1>3. ASSUME NEW h \in Hosts, end_of_packet(h) PROVE ScriptInv'
  <2>1. /\ writing' = [writing EXCEPT !["simulation"] = send_event(h, "report")]
        /\ inbox' = inbox /\ h \in Listeners
    BY <1>3 DEF end_of_packet
  <2>2. /\ writing'["simulation"] = send_event(h, "report")
        /\ writing'["main"] = writing["main"]
    BY <2>1 DEF IInv, WritingType, Threads
  <2>3. RestOf(writing'["simulation"], h, "report")
    BY <2>2, RestAtFirst
  <2> QED
    BY <2>1, <2>2, <2>3 DEF ScriptInv
<1>4. ASSUME NEW h \in Hosts, on_writable(h) PROVE ScriptInv'
  <2> DEFINE step == [does |-> "store", host |-> h]
  <2>1. writing' = [writing EXCEPT !["main"] = <<step>>] /\ inbox' = inbox
    BY <1>4 DEF on_writable
  <2>2. step.does = "store"
    OBVIOUS
  <2> HIDE DEF step
  <2>3. writing'["main"] = <<step>> /\ writing'["simulation"] = writing["simulation"]
    BY <2>1 DEF IInv, WritingType, Threads
  <2>4. Len(writing'["main"]) = 1 /\ writing'["main"][1].does = "store"
    BY <2>2, <2>3
  <2> QED
    BY <2>1, <2>3, <2>4 DEF ScriptInv
<1>5. ASSUME NEW t \in Threads, BufferStep(t) PROVE ScriptInv'
  <2> DEFINE left == writing[t]
  <2>1. left \in Seq(Steps) /\ left # <<>>
    BY <1>5 DEF BufferStep, Copy, Store, Signal, Doing, IInv, WritingType
  <2>2. writing' = [writing EXCEPT ![t] = Tail(left)] /\ inbox' = inbox
    BY <1>5 DEF BufferStep, Copy, Store, Signal
  <2>3. writing'[t] = Tail(left) /\ \A u \in Threads \ {t} : writing'[u] = writing[u]
    BY <2>2 DEF IInv, WritingType
  <2>4. \A h \in Hosts, e \in {"answer", "report"} :
           RestOf(left, h, e) => RestOf(Tail(left), h, e)
    BY <2>1, RestSteps
  <2>5. Askers \subseteq Hosts /\ Listeners \subseteq Hosts
    BY PollAssumption
  <2>6. CASE t = "main"
    <3>1. Len(left) = 1 => Tail(left) = <<>>
      BY <2>1, NothingAfterOne
    <3>2. writing'["simulation"] = writing["simulation"]
      BY <2>6, <2>3 DEF Threads
    <3>3. (\E h \in Askers : RestOf(left, h, "answer")) =>
             \E h \in Askers : RestOf(Tail(left), h, "answer")
      BY <2>4, <2>5
    <3>4. writing'["main"] = Tail(left) /\ left = writing["main"]
      BY <2>3, <2>6
    <3> HIDE DEF left
    <3> QED
      BY <2>1, <2>2, <3>1, <3>2, <3>3, <3>4 DEF ScriptInv
  <2>7. CASE t = "simulation"
    <3>1. writing'["main"] = writing["main"]
      BY <2>7, <2>3 DEF Threads
    <3>2. (\E h \in Listeners : RestOf(left, h, "report")) =>
             \E h \in Listeners : RestOf(Tail(left), h, "report")
      BY <2>4, <2>5
    <3>3. writing'["simulation"] = Tail(left) /\ left = writing["simulation"]
      BY <2>3, <2>7
    <3> HIDE DEF left
    <3> QED
      BY <2>1, <2>2, <3>1, <3>2, <3>3 DEF ScriptInv
  <2> QED
    BY <2>6, <2>7 DEF Threads
<1>6. CASE run_b1ee_server
  BY <1>6 DEF run_b1ee_server, ScriptInv, Threads
<1>7. CASE Select \/ SelectTimeout \/ DrainPipe \/ Swept \/ BeginRound \/ EndRound
  BY <1>1, <1>7 DEF Select, SelectTimeout, DrainPipe, Swept, BeginRound, EndRound
<1>8. ASSUME NEW h \in Hosts,
             \/ ServeError(h) \/ ServeEnd(h) \/ SendFails(h) \/ on_hci_connection(h)
             \/ Sweep(h) \/ AcknowledgeDeletion(h) \/ Connect(h) \/ SendCommand(h) \/ Close(h)
      PROVE  ScriptInv'
  BY <1>1, <1>8 DEF ServeError, ServeEnd, SendFails, on_hci_connection, Sweep, Deleted,
     AcknowledgeDeletion, Connect, SendCommand, Close
<1>9. CASE UNCHANGED vars
  BY <1>1, <1>9 DEF vars
<1> QED
  BY <1>2, <1>3, <1>4, <1>5, <1>6, <1>7, <1>8, <1>9
     DEF Next, poll, simulation, background_monitor_thread, BrokenPipe, Threads

\* What becomes of a connection, and of what a host has received.
LEMMA ConnectionNext ==
    ASSUME IInv, ConnectionInv, [Next]_vars
    PROVE  ConnectionInv'
<1> USE DEF hostVars, flagVars, bufferVars, pollVars, threadVars
<1>1. CASE UNCHANGED <<connection, incoming, sockets, delete_pending, write_buffer_len>>
  BY <1>1 DEF ConnectionInv, Gone
<1>2. ASSUME NEW h \in Hosts, ServeError(h) \/ SendFails(h) PROVE ConnectionInv'
  <2>1. /\ connection[h] = "broken"
        /\ connection' = [connection EXCEPT ![h] = "failed"]
        /\ UNCHANGED <<incoming, sockets, delete_pending, write_buffer_len>>
    BY <1>2 DEF ServeError, SendFails, ErrorRead
  <2> QED
    BY <2>1 DEF ConnectionInv, Gone, IInv, TypeOK
<1>3. ASSUME NEW h \in Hosts, ServeEnd(h) PROVE ConnectionInv'
  <2>1. /\ connection[h] \in {"closed", "failed"}
        /\ delete_pending' = delete_pending \cup {h}
        /\ UNCHANGED <<connection, incoming, sockets, write_buffer_len>>
    BY <1>3 DEF ServeEnd
  <2> QED
    BY <2>1 DEF ConnectionInv, Gone, IInv, TypeOK
<1>4. ASSUME NEW h \in Hosts, on_writable(h) PROVE ConnectionInv'
  <2>1. UNCHANGED <<sockets, delete_pending, write_buffer_len>>
    BY <1>4 DEF on_writable
  <2>2. CASE connection[h] = "open" /\ Received(h, Sending(h)) /\ UNCHANGED connection
    <3>1. \A g \in Hosts \ {h} : incoming'[g] = incoming[g]
      <4> DEFINE last == IF h \in Watched
                         THEN (<<incoming[h]>> \o [k \in 1 .. Sending(h) |-> Cell(h, k)])[Sending(h) + 1]
                         ELSE incoming[h]
      <4>1. incoming' = [incoming EXCEPT ![h] = last]
        BY <2>2 DEF Received
      <4> HIDE DEF last
      <4> QED
        BY <4>1 DEF IInv, TypeOK
    <3> QED
      BY <2>1, <2>2, <3>1 DEF ConnectionInv, Gone
  <2>3. CASE connection[h] = "closed" /\ EndsWith(h) /\ UNCHANGED incoming
    BY <2>1, <2>3 DEF ConnectionInv, Gone, EndsWith, IInv, TypeOK
  <2> QED
    BY <1>4, <2>2, <2>3 DEF on_writable
<1>5. ASSUME NEW h \in Hosts, on_hci_connection(h) PROVE ConnectionInv'
  <2>1. /\ connection[h] = "connecting" /\ h \notin sockets
        /\ connection' = [connection EXCEPT ![h] = "open"]
        /\ sockets' = sockets \cup {h}
        /\ UNCHANGED <<incoming, delete_pending, write_buffer_len>>
    BY <1>5 DEF on_hci_connection
  <2> QED
    BY <2>1 DEF ConnectionInv, Gone, IInv, TypeOK
<1>6. ASSUME NEW h \in Hosts, Sweep(h) PROVE ConnectionInv'
  <2>1. /\ h \in delete_pending
        /\ sockets' = sockets \ {h}
        /\ delete_pending' = delete_pending \ {h}
        /\ connection' = [connection EXCEPT ![h] = "none"]
        /\ write_buffer_len' = [write_buffer_len EXCEPT ![h] = 0]
        /\ UNCHANGED incoming
    BY <1>6 DEF Sweep, Deleted, is_delete_ready
  <2> QED
    BY <2>1 DEF ConnectionInv, Gone, IInv, TypeOK
<1>7. ASSUME NEW t \in Threads, BufferStep(t) PROVE ConnectionInv'
  <2>1. CASE Copy(t) \/ Signal(t)
    BY <1>1, <2>1 DEF Copy, Signal
  <2>2. CASE Store(t)
    <3> DEFINE g == Head(writing[t]).host
    <3>1. /\ writing[t] # <<>>
          /\ write_buffer_len' = [write_buffer_len EXCEPT ![g] = new_len[t]]
          /\ UNCHANGED <<connection, incoming, sockets, delete_pending>>
      BY <2>2 DEF Store, Doing
    <3>2. g \in sockets
      <4>1. writing[t] \in Seq(Steps)
        BY DEF IInv, WritingType
      <4>2. Head(writing[t]) = writing[t][1] /\ 1 \in 1 .. Len(writing[t])
        BY <3>1, <4>1
      <4> QED
        BY <4>2 DEF IInv, AllLiving
    <3> HIDE DEF g
    <3> QED
      BY <3>1, <3>2 DEF ConnectionInv, Gone, IInv, TypeOK
  <2> QED
    BY <1>7, <2>1, <2>2 DEF BufferStep
<1>8. CASE run_b1ee_server
  BY <1>8 DEF run_b1ee_server, ConnectionInv, Gone
<1>9. CASE Select \/ SelectTimeout \/ DrainPipe \/ Swept \/ BeginRound \/ EndRound
  BY <1>1, <1>9 DEF Select, SelectTimeout, DrainPipe, Swept, BeginRound, EndRound
<1>10. ASSUME NEW h \in Hosts,
              \/ ServeCommand(h) \/ end_of_packet(h) \/ AcknowledgeDeletion(h) \/ SendCommand(h)
       PROVE  ConnectionInv'
  BY <1>1, <1>10 DEF ServeCommand, end_of_packet, AcknowledgeDeletion, SendCommand
<1>11. ASSUME NEW h \in Hosts, Connect(h) PROVE ConnectionInv'
  BY <1>11 DEF Connect, ConnectionInv, Gone, IInv, TypeOK
<1>12. ASSUME NEW h \in Hosts, Close(h) PROVE ConnectionInv'
  BY <1>12 DEF Close, EndsWith, ConnectionInv, Gone, IInv, TypeOK
<1>13. CASE UNCHANGED vars
  BY <1>1, <1>13 DEF vars
<1> QED
  BY <1>2, <1>3, <1>4, <1>5, <1>6, <1>7, <1>8, <1>9, <1>10, <1>11, <1>12, <1>13
     DEF Next, poll, simulation, background_monitor_thread, BrokenPipe, Threads

\* They hold always.
LEMMA PlaceHolds == Spec => [](IInv /\ ScriptInv /\ ConnectionInv)
<1> DEFINE PlaceInv == IInv /\ ScriptInv /\ ConnectionInv
<1>1. Init => PlaceInv
  BY InvInit, ScriptInit
<1>2. PlaceInv /\ [Next]_vars => PlaceInv'
  BY InvNext, ScriptNext, ConnectionNext
<1> QED
  BY <1>1, <1>2, PTL DEF Spec

-----------------------------------------------------------------------------
(* Events arrive whole, where one thread alone writes to a host.            *)

\* No host whose stream is looked at is sent reports: the main thread alone
\* writes to it.
OneWriter == Watched \cap Listeners = {}

\* What the main thread has left: steps of an answer to the host; some before its
\* parameters; some between the header and the parameters; a length to store.
AnswerTo(left, h) == left # <<>> /\ RestOf(left, h, "answer")
Unfinished(left, h) == AnswerTo(left, h) /\ Len(left) \in 3 .. 6
HalfOf(left, h) == AnswerTo(left, h) /\ Len(left) \in 3 .. 5
StoreTo(left, h) == left # <<>> /\ left[1].does = "store" /\ left[1].host = h

\* The length of a buffer once the main thread has stored it.
BufferLen(h) ==
    IF StoreTo(writing["main"], h) THEN new_len["main"] ELSE write_buffer_len[h]

LastChunk(h) == IF BufferLen(h) = 0 THEN incoming[h] ELSE Cell(h, BufferLen(h))

\* What was received and what is in the buffer are one stream of events, of which
\* the last is a header only while the main thread has its parameters to write.
InStream(h) ==
    /\ BufferLen(h) > 0 => Follows(incoming[h], Cell(h, 1))
    /\ \A k \in Nat \ {0} : k < BufferLen(h) => Follows(Cell(h, k), Cell(h, k + 1))
    /\ IF HalfOf(writing["main"], h)
       THEN LastChunk(h) = Header("answer")
       ELSE LastChunk(h).part = "parameters"

StreamInv == \A h \in Watched : connection[h] = "open" => InStream(h)

\* Which steps they are is told by their number.
LEMMA RestReads ==
    ASSUME NEW left \in Seq(Steps), NEW g \in Hosts, RestOf(left, g, "answer"),
           NEW h \in Hosts
    PROVE  /\ AnswerTo(left, h) <=> h = g /\ Len(left) \in 1 .. 6
           /\ Unfinished(left, h) <=> h = g /\ Len(left) \in 3 .. 6
           /\ HalfOf(left, h) <=> h = g /\ Len(left) \in 3 .. 5
           /\ StoreTo(left, h) <=> h = g /\ Len(left) \in {2, 5}
<1>1. CASE left = <<>>
  <2>1. Len(left) = 0
    BY <1>1
  <2> QED
    BY <1>1, <2>1 DEF AnswerTo, Unfinished, HalfOf, StoreTo
<1>2. CASE left # <<>>
  <2>1. PICK n \in 1 .. 6 : n = Len(left)
    BY <1>2, RestSteps
  <2>2. /\ left[1].host = g
        /\ n = 6 => left[1].does = "copy"
        /\ n = 5 => left[1].does = "store"
        /\ n = 4 => left[1].does = "signal"
        /\ n = 3 => left[1].does = "copy"
        /\ n = 2 => left[1].does = "store"
        /\ n = 1 => left[1].does = "signal"
    BY <1>2, <2>1, RestSteps
  <2>3. AnswerTo(left, h) => left[1].host = h
    BY RestSteps DEF AnswerTo
  <2>4. h = g => AnswerTo(left, h)
    BY <1>2 DEF AnswerTo
  <2>5. n = 1 \/ n = 2 \/ n = 3 \/ n = 4 \/ n = 5 \/ n = 6
    BY <2>1
  <2>6. left[1].does = "store" <=> n \in {2, 5}
    BY <2>2, <2>5
  <2> QED
    BY <1>2, <2>1, <2>2, <2>3, <2>4, <2>6 DEF Unfinished, HalfOf, StoreTo
<1> QED
  BY <1>1, <1>2

\* What lies where after a copy.
LEMMA CopyCells ==
    ASSUME IInv, NEW t \in Threads, Copy(t), NEW h \in Hosts, NEW k \in Nat \ {0}
    PROVE  Cell(h, k)' = IF h = writing[t][1].host /\ k = write_buffer_len[h] + 1
                         THEN writing[t][1].chunk ELSE Cell(h, k)
<1> DEFINE do == Head(writing[t])
           g == do.host
           i == write_buffer_len[g] + 1
           n == IF i > Len(write_buffer[g]) THEN i ELSE Len(write_buffer[g])
<1>1. writing[t] \in Seq(Steps) /\ writing[t] # <<>>
  BY DEF IInv, WritingType, Copy, Doing
<1>2. do = writing[t][1] /\ g \in Hosts
  BY <1>1 DEF Steps
<1>3. write_buffer' = [write_buffer EXCEPT ![g] = CopiedTo(g, i, do.chunk)]
  BY DEF Copy
<1>4. CopiedTo(g, i, do.chunk) = [j \in 1 .. n |-> IF j = i THEN do.chunk ELSE Cell(g, j)]
  BY DEF CopiedTo
<1>5. write_buffer[h] \in Seq(Chunks \cup {Stale}) /\ write_buffer[g] \in Seq(Chunks \cup {Stale})
      /\ write_buffer_len[g] \in Nat
  BY <1>2 DEF IInv, TypeOK
<1> DEFINE c == do.chunk
<1> HIDE DEF c, do
<1>6. CASE h # g
  <2>1. write_buffer'[h] = write_buffer[h]
    BY <1>2, <1>3, <1>6 DEF IInv, TypeOK
  <2> QED
    BY <1>2, <1>6, <2>1 DEF Cell
<1>7. CASE h = g
  <2>1. write_buffer'[h] = [j \in 1 .. n |-> IF j = i THEN c ELSE Cell(h, j)]
    BY <1>2, <1>3, <1>4, <1>7 DEF IInv, TypeOK, c
  <2>2. PICK m \in Nat : m = n
    BY <1>5
  <2>3. i \in Nat /\ i <= m /\ Len(write_buffer[h]) <= m
    BY <1>5, <1>7, <2>2
  <2>4. Len(write_buffer'[h]) = m
    BY <2>1, <2>2
  <2>5. CASE k <= m
    <3>1. write_buffer'[h][k] = IF k = i THEN c ELSE Cell(h, k)
      <4>1. k \in 1 .. n
        BY <2>2, <2>5
      <4> HIDE DEF n, i
      <4> QED
        BY <2>1, <4>1
    <3>2. Cell(h, k)' = write_buffer'[h][k]
      BY <2>4, <2>5 DEF Cell
    <3>3. h = writing[t][1].host /\ c = writing[t][1].chunk /\ i = write_buffer_len[h] + 1
      BY <1>2, <1>7 DEF c
    <3> HIDE DEF i, g
    <3> QED
      BY <3>1, <3>2, <3>3
  <2>6. CASE ~(k <= m)
    BY <1>2, <1>5, <1>7, <2>3, <2>4, <2>6 DEF Cell
  <2> QED
    BY <2>5, <2>6
<1> QED
  BY <1>6, <1>7

\* What lies where when something was sent.
LEMMA SentCells ==
    ASSUME IInv, NEW g \in Hosts, on_writable(g), NEW h \in Hosts, NEW k \in Nat \ {0}
    PROVE  Cell(h, k)' = IF h = g THEN Cell(h, Sending(h) + k) ELSE Cell(h, k)
<1>1. write_buffer' = [write_buffer EXCEPT ![g] = Unsent(g, Sending(g))]
  BY DEF on_writable
<1>2. write_buffer[h] \in Seq(Chunks \cup {Stale})
  BY DEF IInv, TypeOK
<1>3. CASE h # g
  <2>1. write_buffer'[h] = write_buffer[h]
    BY <1>1, <1>3 DEF IInv, TypeOK
  <2> QED
    BY <1>3, <2>1 DEF Cell
<1>4. CASE h = g
  <2>1. PICK n \in Nat : n = Sending(h)
    BY SendType DEF IInv
  <2>2. PICK m \in Nat : m = Len(write_buffer[h])
    BY <1>2
  <2>3. write_buffer'[h] = SubSeq(write_buffer[h], n + 1, m)
    BY <1>1, <1>4, <2>1, <2>2 DEF IInv, TypeOK, Unsent
  <2>4. /\ Len(SubSeq(write_buffer[h], n + 1, m)) = IF n < m THEN m - n ELSE 0
        /\ \A j \in 1 .. m - n : SubSeq(write_buffer[h], n + 1, m)[j] = write_buffer[h][n + j]
    BY <1>2, <2>2
  <2>5. CASE n + k <= m
    BY <1>4, <2>1, <2>2, <2>3, <2>4, <2>5 DEF Cell
  <2>6. CASE ~(n + k <= m)
    BY <1>4, <2>1, <2>2, <2>3, <2>4, <2>6 DEF Cell
  <2> QED
    BY <2>5, <2>6
<1> QED
  BY <1>3, <1>4

\* What the host got is what lay there.
LEMMA ReceivedCells ==
    ASSUME IInv, NEW h \in Hosts, NEW n \in Nat, Received(h, n)
    PROVE  /\ h \in Watched => incoming'[h] = IF n = 0 THEN incoming[h] ELSE Cell(h, n)
           /\ \A g \in Hosts \ {h} : incoming'[g] = incoming[g]
           /\ asking' = asking \ {g \in {h} : \E k \in 1 .. n : Cell(h, k) = Parameters("answer")}
           /\ (/\ h \in Watched => (n > 0 => Follows(incoming[h], Cell(h, 1)))
               /\ h \in Watched => \A k \in Nat \ {0} : k < n => Follows(Cell(h, k), Cell(h, k + 1)))
              => garbled' = garbled
<1> DEFINE cells == [k \in 1 .. n |-> Cell(h, k)]
           got == <<incoming[h]>> \o cells
<1>1. cells \in Seq(Chunks \cup {Nothing, Stale}) /\ Len(cells) = n
      /\ \A k \in 1 .. n : cells[k] = Cell(h, k)
  <2>1. \A k \in 1 .. n : Cell(h, k) \in Chunks \cup {Nothing, Stale}
    BY DEF Cell, IInv, TypeOK
  <2> QED
    BY <2>1
<1>2. <<incoming[h]>> \in Seq(Chunks \cup {Nothing, Stale}) /\ Len(<<incoming[h]>>) = 1
      /\ <<incoming[h]>>[1] = incoming[h]
  BY DEF IInv, TypeOK
<1>3. /\ incoming' = [incoming EXCEPT ![h] = IF h \in Watched THEN got[n + 1] ELSE @]
      /\ garbled' = garbled \cup {g \in {h} \cap Watched : \E k \in 1 .. n : ~Follows(got[k], got[k + 1])}
      /\ asking' = asking \ {g \in {h} : \E k \in 2 .. n + 1 : got[k] = Parameters("answer")}
  BY DEF Received, Parameters
<1> HIDE DEF cells
<1>4. /\ got[1] = incoming[h]
      /\ \A k \in 1 .. n : got[k + 1] = Cell(h, k)
  <2> DEFINE one == <<incoming[h]>>
  <2>1. one \in Seq(Chunks \cup {Nothing, Stale}) /\ Len(one) = 1 /\ one[1] = incoming[h]
    BY <1>2
  <2> HIDE DEF one
  <2>2. \A i \in 1 .. Len(one) + Len(cells) :
           (one \o cells)[i] = IF i <= Len(one) THEN one[i] ELSE cells[i - Len(one)]
    BY <1>1, <2>1, ConcatProperties, Zenon
  <2> DEFINE both == one \o cells
  <2>3. \A i \in 1 .. Len(one) + Len(cells) :
           both[i] = IF i <= Len(one) THEN one[i] ELSE cells[i - Len(one)]
    BY <2>2
  <2> HIDE DEF both
  <2>4. \A i \in 1 .. 1 + n : both[i] = IF i <= 1 THEN one[i] ELSE cells[i - 1]
    <3>1. Len(one) = 1 /\ Len(cells) = n
      BY <1>1, <2>1
    <3> QED
      BY <2>3, <3>1, Zenon
  <2>5. both[1] = one[1]
    BY <2>4
  <2>6. ASSUME NEW k \in 1 .. n PROVE both[k + 1] = cells[k]
    <3>1. k + 1 \in 1 .. 1 + n /\ ~(k + 1 <= 1) /\ k + 1 - 1 = k
      OBVIOUS
    <3> QED
      BY <2>4, <3>1
  <2> QED
    BY <1>1, <2>1, <2>5, <2>6 DEF one, both
<1> HIDE DEF got
<1>5. h \in Watched => incoming'[h] = IF n = 0 THEN incoming[h] ELSE Cell(h, n)
  BY <1>3, <1>4 DEF IInv, TypeOK
<1>6. \A g \in Hosts \ {h} : incoming'[g] = incoming[g]
  BY <1>3 DEF IInv, TypeOK
<1>7. (\E k \in 2 .. n + 1 : got[k] = Parameters("answer"))
        <=> \E k \in 1 .. n : Cell(h, k) = Parameters("answer")
  <2>1. ASSUME NEW k \in 2 .. n + 1, got[k] = Parameters("answer")
        PROVE  \E j \in 1 .. n : Cell(h, j) = Parameters("answer")
    <3>1. k - 1 \in 1 .. n /\ k - 1 + 1 = k
      OBVIOUS
    <3>2. got[k] = Cell(h, k - 1)
      BY <1>4, <3>1
    <3> QED
      BY <2>1, <3>1, <3>2
  <2>2. ASSUME NEW k \in 1 .. n, Cell(h, k) = Parameters("answer")
        PROVE  \E j \in 2 .. n + 1 : got[j] = Parameters("answer")
    <3>1. k + 1 \in 2 .. n + 1 /\ got[k + 1] = Cell(h, k)
      BY <1>4
    <3> QED
      BY <2>2, <3>1
  <2> QED
    BY <2>1, <2>2
<1>8. ASSUME h \in Watched => (n > 0 => Follows(incoming[h], Cell(h, 1))),
             h \in Watched => \A k \in Nat \ {0} : k < n => Follows(Cell(h, k), Cell(h, k + 1))
      PROVE  garbled' = garbled
  <2>1. ASSUME h \in Watched, NEW k \in 1 .. n PROVE Follows(got[k], got[k + 1])
    <3>1. CASE k = 1
      BY <1>4, <1>8, <2>1, <3>1
    <3>2. CASE k # 1
      <4>1. PICK j \in Nat \ {0} : j + 1 = k
        <5>1. k - 1 \in Nat \ {0} /\ k - 1 + 1 = k
          BY <3>2
        <5> QED
          BY <5>1
      <4>2. j \in 1 .. n /\ j < n
        BY <4>1
      <4>3. got[k] = Cell(h, j) /\ got[k + 1] = Cell(h, j + 1)
        BY <1>4, <4>1, <4>2
      <4> QED
        BY <1>8, <2>1, <4>2, <4>3
    <3> QED
      BY <3>1, <3>2
  <2>2. {g \in {h} \cap Watched : \E k \in 1 .. n : ~Follows(got[k], got[k + 1])} = {}
    BY <2>1
  <2> QED
    BY <1>3, <2>2
<1> QED
  BY <1>3, <1>5, <1>6, <1>7, <1>8

\* A step of write_data by the main thread: the store of on_writable, or one of
\* the six of an answer, by how many are left.
LEMMA MainWrites ==
    ASSUME IInv, ScriptInv, BufferStep("main")
    PROVE  \E g \in Hosts, n \in 1 .. 6 :
              LET left == writing["main"]
              IN  /\ n = Len(left) /\ left \in Seq(Steps) /\ left # <<>>
                  /\ Head(left) = left[1] /\ left[1].host = g
                  /\ writing'["main"] = Tail(left) /\ Tail(left) \in Seq(Steps)
                  /\ Len(Tail(left)) = n - 1
                  /\ writing'["simulation"] = writing["simulation"]
                  /\ \/ /\ n = 1 /\ Store("main")
                        /\ left[1].does = "store" /\ Tail(left) = <<>>
                     \/ /\ g \in Askers
                        /\ RestOf(left, g, "answer") /\ RestOf(Tail(left), g, "answer")
                        /\ n = 6 => Copy("main") /\ left[1].chunk = Header("answer")
                        /\ n = 3 => Copy("main") /\ left[1].chunk = Parameters("answer")
                        /\ n \in {2, 5} => Store("main")
                        /\ n \in {1, 4} => Signal("main")
<1> DEFINE left == writing["main"]
           t == "main"
<1>1. left \in Seq(Steps) /\ left # <<>>
  BY DEF BufferStep, Copy, Store, Signal, Doing, IInv, WritingType, Threads
<1>2. /\ writing'["main"] = Tail(left)
      /\ writing'["simulation"] = writing["simulation"]
  BY DEF BufferStep, Copy, Store, Signal, IInv, WritingType, Threads
<1>3. /\ Head(left) = left[1] /\ Tail(left) \in Seq(Steps) /\ left[1] \in Steps
      /\ Len(Tail(left)) = Len(left) - 1 /\ Len(left) \in Nat \ {0}
  BY <1>1, OneStepLess
<1>4. /\ left[1].does = "copy" => Copy("main")
      /\ left[1].does = "store" => Store("main")
      /\ left[1].does = "signal" => Signal("main")
  BY <1>1, <1>3 DEF BufferStep, Copy, Store, Signal, Doing
<1>5. left[1].host \in Hosts
  BY <1>3 DEF Steps
<1>6. CASE Len(left) = 1 /\ left[1].does = "store"
  <2>1. Tail(left) = <<>>
    BY <1>1, <1>6, NothingAfterOne
  <2> HIDE DEF left
  <2>2. PICK n \in 1 .. 6 : n = 1
    OBVIOUS
  <2>3. n = Len(left) /\ Len(Tail(left)) = n - 1
    BY <1>3, <1>6, <2>2
  <2> QED
    BY <1>1, <1>2, <1>3, <1>4, <1>5, <1>6, <2>1, <2>2, <2>3, Zenon DEF left
<1>7. ASSUME NEW g \in Askers, RestOf(left, g, "answer")
      PROVE  \E m \in 1 .. 6 :
                /\ m = Len(left) /\ Len(Tail(left)) = m - 1
                /\ left[1].host = g /\ g \in Hosts
                /\ RestOf(Tail(left), g, "answer")
                /\ m = 6 => Copy("main") /\ left[1].chunk = Header("answer")
                /\ m = 3 => Copy("main") /\ left[1].chunk = Parameters("answer")
                /\ m \in {2, 5} => Store("main")
                /\ m \in {1, 4} => Signal("main")
  <2>1. g \in Hosts
    BY PollAssumption
  <2>2. PICK m \in 1 .. 6 : m = Len(left)
    BY <1>1, <1>7, <2>1, RestSteps
  <2>3. /\ left[1].host = g
        /\ RestOf(Tail(left), g, "answer")
        /\ m = 6 => left[1].does = "copy" /\ left[1].chunk = Header("answer")
        /\ m = 5 => left[1].does = "store"
        /\ m = 4 => left[1].does = "signal"
        /\ m = 3 => left[1].does = "copy" /\ left[1].chunk = Parameters("answer")
        /\ m = 2 => left[1].does = "store"
        /\ m = 1 => left[1].does = "signal"
    BY <1>1, <1>7, <2>1, <2>2, RestSteps
  <2>4. Len(Tail(left)) = m - 1
    BY <1>3, <2>2
  <2> HIDE DEF left
  <2> QED
    BY <1>4, <2>1, <2>2, <2>3, <2>4
<1>8. (Len(left) = 1 /\ left[1].does = "store") \/ \E g \in Askers : RestOf(left, g, "answer")
  BY <1>1 DEF ScriptInv
<1>9. CASE \E g \in Askers : RestOf(left, g, "answer")
  <2>1. PICK g \in Askers : RestOf(left, g, "answer")
    BY <1>9
  <2>2. PICK m \in 1 .. 6 :
                /\ m = Len(left) /\ Len(Tail(left)) = m - 1
                /\ left[1].host = g /\ g \in Hosts
                /\ RestOf(Tail(left), g, "answer")
                /\ m = 6 => Copy("main") /\ left[1].chunk = Header("answer")
                /\ m = 3 => Copy("main") /\ left[1].chunk = Parameters("answer")
                /\ m \in {2, 5} => Store("main")
                /\ m \in {1, 4} => Signal("main")
    BY <1>7, <2>1
  <2> QED
    BY <1>1, <1>2, <1>3, <2>1, <2>2, Zenon
<1> QED
  BY <1>6, <1>8, <1>9

\* The length that counts is a number.
LEMMA LenType ==
    ASSUME TypeOK, NEW h \in Hosts
    PROVE  BufferLen(h) \in Nat /\ write_buffer_len[h] \in Nat /\ new_len["main"] \in Nat
BY DEF TypeOK, BufferLen, Threads

\* What such a step is to a host: nothing, or one chunk more.
LEMMA MainEffect ==
    ASSUME IInv, ScriptInv, BufferStep("main"), NEW h \in Hosts
    PROVE  \/ /\ BufferLen(h)' = BufferLen(h)
              /\ \A k \in Nat \ {0} : Cell(h, k)' = Cell(h, k)
              /\ HalfOf(writing'["main"], h) <=> HalfOf(writing["main"], h)
              /\ Unfinished(writing'["main"], h) => Unfinished(writing["main"], h)
              /\ AnswerTo(writing'["main"], h) => AnswerTo(writing["main"], h)
           \/ \E c \in {Header("answer"), Parameters("answer")} :
              /\ BufferLen(h)' = BufferLen(h) + 1
              /\ \A k \in Nat \ {0} :
                    Cell(h, k)' = IF k = BufferLen(h) + 1 THEN c ELSE Cell(h, k)
              /\ AnswerTo(writing["main"], h) /\ Unfinished(writing["main"], h)
              /\ c = Header("answer") =>
                    ~HalfOf(writing["main"], h) /\ HalfOf(writing'["main"], h)
              /\ c = Parameters("answer") =>
                    /\ HalfOf(writing["main"], h) /\ ~HalfOf(writing'["main"], h)
                    /\ ~Unfinished(writing'["main"], h)
<1> USE DEF hostVars, flagVars, bufferVars, pollVars, threadVars
<1> DEFINE left == writing["main"]
<1>1. PICK g \in Hosts, n \in 1 .. 6 :
                  /\ n = Len(left) /\ left \in Seq(Steps) /\ left # <<>>
                  /\ Head(left) = left[1] /\ left[1].host = g
                  /\ writing'["main"] = Tail(left) /\ Tail(left) \in Seq(Steps)
                  /\ Len(Tail(left)) = n - 1
                  /\ writing'["simulation"] = writing["simulation"]
                  /\ \/ /\ n = 1 /\ Store("main")
                        /\ left[1].does = "store" /\ Tail(left) = <<>>
                     \/ /\ g \in Askers
                        /\ RestOf(left, g, "answer") /\ RestOf(Tail(left), g, "answer")
                        /\ n = 6 => Copy("main") /\ left[1].chunk = Header("answer")
                        /\ n = 3 => Copy("main") /\ left[1].chunk = Parameters("answer")
                        /\ n \in {2, 5} => Store("main")
                        /\ n \in {1, 4} => Signal("main")
  BY MainWrites, Zenon
<1> DEFINE rest == RestOf(left, g, "answer") /\ RestOf(Tail(left), g, "answer")
           answer == AnswerTo(left, h)
           answerNext == AnswerTo(writing'["main"], h)
           begun == Unfinished(left, h)
           begunNext == Unfinished(writing'["main"], h)
           half == HalfOf(left, h)
           halfNext == HalfOf(writing'["main"], h)
           store == StoreTo(left, h)
           storeNext == StoreTo(writing'["main"], h)
<1>2. rest => /\ answer <=> h = g
              /\ answerNext <=> h = g /\ n - 1 \in 1 .. 6
              /\ begun <=> h = g /\ n \in 3 .. 6
              /\ begunNext <=> h = g /\ n - 1 \in 3 .. 6
              /\ half <=> h = g /\ n \in 3 .. 5
              /\ halfNext <=> h = g /\ n - 1 \in 3 .. 5
              /\ store <=> h = g /\ n \in {2, 5}
              /\ storeNext <=> h = g /\ n - 1 \in {2, 5}
  <2>1. ASSUME rest
        PROVE  /\ AnswerTo(left, h) <=> h = g /\ Len(left) \in 1 .. 6
               /\ Unfinished(left, h) <=> h = g /\ Len(left) \in 3 .. 6
               /\ HalfOf(left, h) <=> h = g /\ Len(left) \in 3 .. 5
               /\ StoreTo(left, h) <=> h = g /\ Len(left) \in {2, 5}
    BY <1>1, <2>1, RestReads
  <2>2. ASSUME rest
        PROVE  /\ AnswerTo(Tail(left), h) <=> h = g /\ Len(Tail(left)) \in 1 .. 6
               /\ Unfinished(Tail(left), h) <=> h = g /\ Len(Tail(left)) \in 3 .. 6
               /\ HalfOf(Tail(left), h) <=> h = g /\ Len(Tail(left)) \in 3 .. 5
               /\ StoreTo(Tail(left), h) <=> h = g /\ Len(Tail(left)) \in {2, 5}
    BY <1>1, <2>2, RestReads
  <2> HIDE DEF left, rest
  <2> QED
    BY <1>1, <2>1, <2>2, Zenon
<1>3. n = 1 /\ Tail(left) = <<>> =>
         ~half /\ ~halfNext /\ ~begunNext /\ ~answerNext /\ ~storeNext
  BY <1>1 DEF Unfinished, HalfOf, AnswerTo, StoreTo
<1>4. BufferLen(h) \in Nat /\ write_buffer_len[h] \in Nat /\ new_len["main"] \in Nat
  BY LenType DEF IInv
<1>5. n = 1 \/ n = 2 \/ n = 3 \/ n = 4 \/ n = 5 \/ n = 6
  OBVIOUS
<1>6. BufferLen(h) = IF store THEN new_len["main"] ELSE write_buffer_len[h]
  BY DEF BufferLen
<1>7. BufferLen(h)' = IF storeNext THEN new_len'["main"] ELSE write_buffer_len'[h]
  BY DEF BufferLen
<1>8. CASE Signal("main")
  <2>1. rest /\ n \in {1, 4}
    <3>1. ~Store("main") /\ ~Copy("main")
      BY <1>8 DEF Signal, Store, Copy, Doing
    <3> QED
      BY <1>1, <1>5, <1>8, <3>1
  <2>2. /\ write_buffer' = write_buffer /\ write_buffer_len' = write_buffer_len
        /\ new_len' = new_len
    BY <1>8 DEF Signal
  <2>3. (halfNext <=> half) /\ (begunNext => begun) /\ (answerNext => answer) /\ ~store /\ ~storeNext
    BY <1>2, <2>1
  <2>4. BufferLen(h)' = BufferLen(h)
    BY <1>6, <1>7, <2>2, <2>3
  <2>5. \A k \in Nat \ {0} : Cell(h, k)' = Cell(h, k)
    BY <2>2 DEF Cell
  <2> QED
    BY <2>3, <2>4, <2>5
<1>9. CASE Store("main")
  <2>1. (rest /\ n \in {2, 5}) \/ (n = 1 /\ Tail(left) = <<>> /\ left[1].does = "store")
    <3>1. ~Signal("main") /\ ~Copy("main")
      BY <1>9 DEF Signal, Store, Copy, Doing
    <3> QED
      BY <1>1, <1>5, <3>1
  <2>2. /\ write_buffer' = write_buffer
        /\ write_buffer_len' = [write_buffer_len EXCEPT ![g] = new_len["main"]]
    BY <1>1, <1>9 DEF Store
  <2>3. (halfNext <=> half) /\ (begunNext => begun) /\ (answerNext => answer) /\ ~storeNext /\ (store <=> h = g)
    <3>1. CASE rest /\ n \in {2, 5}
      <4> HIDE DEF left, rest
      <4> QED
        BY <1>2, <3>1
    <3>2. CASE n = 1 /\ Tail(left) = <<>> /\ left[1].does = "store"
      <4>1. store <=> h = g
        BY <1>1, <3>2 DEF StoreTo
      <4> QED
        BY <1>3, <3>2, <4>1
    <3> QED
      BY <2>1, <3>1, <3>2
  <2>4. write_buffer_len'[h] = IF h = g THEN new_len["main"] ELSE write_buffer_len[h]
    BY <2>2 DEF IInv, TypeOK
  <2>5. BufferLen(h)' = BufferLen(h)
    BY <1>6, <1>7, <2>3, <2>4
  <2>6. \A k \in Nat \ {0} : Cell(h, k)' = Cell(h, k)
    BY <2>2 DEF Cell
  <2> QED
    BY <2>3, <2>5, <2>6
<1>10. CASE Copy("main")
  <2>1. rest /\ n \in {3, 6}
    <3>1. ~Signal("main") /\ ~Store("main")
      BY <1>10 DEF Signal, Store, Copy, Doing
    <3> QED
      BY <1>1, <1>5, <3>1
  <2>2. /\ write_buffer_len' = write_buffer_len
        /\ new_len' = [new_len EXCEPT !["main"] = write_buffer_len[g] + 1]
    BY <1>1, <1>10 DEF Copy
  <2>3. \A k \in Nat \ {0} : Cell(h, k)' = IF h = g /\ k = write_buffer_len[h] + 1
                                           THEN left[1].chunk ELSE Cell(h, k)
    BY <1>1, <1>10, CopyCells DEF Threads
  <2>4. CASE h # g
    <3>1. ~half /\ ~halfNext /\ ~begunNext /\ ~answerNext /\ ~store /\ ~storeNext
      BY <1>2, <2>1, <2>4
    <3>2. BufferLen(h)' = BufferLen(h)
      BY <1>6, <1>7, <2>2, <3>1
    <3>3. \A k \in Nat \ {0} : Cell(h, k)' = Cell(h, k)
      BY <2>3, <2>4
    <3> QED
      BY <3>1, <3>2, <3>3
  <2>5. CASE h = g
    <3>1. /\ ~store /\ storeNext /\ begun /\ answer
          /\ (half <=> n = 3) /\ (halfNext <=> n = 6) /\ (begunNext <=> n = 6)
      BY <1>2, <2>1, <2>5
    <3>2. BufferLen(h) = write_buffer_len[h]
      BY <1>6, <3>1
    <3>3. new_len'["main"] = write_buffer_len[h] + 1
      BY <2>2, <2>5 DEF IInv, TypeOK, Threads
    <3>4. BufferLen(h)' = BufferLen(h) + 1
      BY <1>7, <3>1, <3>2, <3>3
    <3>5. ASSUME NEW k \in Nat \ {0}
          PROVE  Cell(h, k)' = IF k = BufferLen(h) + 1 THEN left[1].chunk ELSE Cell(h, k)
      BY <2>3, <2>5, <3>2
    <3>6. Header("answer") # Parameters("answer")
      BY DEF Header, Parameters
    <3>7. /\ n = 6 => left[1].chunk = Header("answer")
          /\ n = 3 => left[1].chunk = Parameters("answer")
      <4> DEFINE d == left[1].chunk
      <4>1. (n = 6 => d = Header("answer")) /\ (n = 3 => d = Parameters("answer"))
        <5>1. n # 1
          BY <2>1
        <5> QED
          BY <1>1, <5>1, Zenon
      <4> QED
        BY <4>1
    <3> DEFINE c == left[1].chunk
    <3>8. c \in {Header("answer"), Parameters("answer")} /\ (c = Header("answer") <=> n = 6)
          /\ (c = Parameters("answer") <=> n = 3)
      BY <2>1, <3>6, <3>7
    <3> HIDE DEF begun, answer, half, halfNext, begunNext
    <3>9. /\ answer /\ begun
          /\ c = Header("answer") => ~half /\ halfNext
          /\ c = Parameters("answer") => half /\ ~halfNext /\ ~begunNext
      BY <3>1, <3>8
    <3> HIDE DEF c
    <3>10. \A k \in Nat \ {0} :
              Cell(h, k)' = IF k = BufferLen(h) + 1 THEN c ELSE Cell(h, k)
      BY <3>5 DEF c
    <3>11. c \in {Header("answer"), Parameters("answer")}
      BY <3>8
    <3> QED
      BY <3>4, <3>9, <3>10, <3>11, Zenon DEF begun, answer, half, halfNext, begunNext
  <2> QED
    BY <2>4, <2>5
<1> QED
  BY <1>8, <1>9, <1>10 DEF BufferStep

\* A stream that no step touches.
LEMMA StreamKept ==
    ASSUME NEW h \in Hosts, InStream(h), BufferLen(h) \in Nat,
           incoming'[h] = incoming[h], BufferLen(h)' = BufferLen(h),
           \A k \in Nat \ {0} : Cell(h, k)' = Cell(h, k),
           HalfOf(writing'["main"], h) <=> HalfOf(writing["main"], h)
    PROVE  InStream(h)'
<1>1. LastChunk(h)' = LastChunk(h)
  BY DEF LastChunk
<1>2. \A k \in Nat \ {0} : k < BufferLen(h) => Follows(Cell(h, k)', Cell(h, k + 1)')
  BY DEF InStream
<1>3. BufferLen(h) > 0 => Follows(incoming'[h], Cell(h, 1)')
  BY DEF InStream
<1> QED
  BY <1>1, <1>2, <1>3 DEF InStream, Follows

\* No connection is open at first.
LEMMA StreamInit == Init => StreamInv
BY PollAssumption DEF Init, StreamInv

\* Steps of the main thread on a buffer.
LEMMA StreamMain ==
    ASSUME IInv, ScriptInv, BufferStep("main"),
           NEW h \in Hosts, InStream(h)
    PROVE  InStream(h)'
<1>1. incoming' = incoming
  BY DEF BufferStep, Copy, Store, Signal, hostVars
<1>2. PICK m \in Nat : m = BufferLen(h)
  BY LenType DEF IInv
<1>3. CASE /\ BufferLen(h)' = BufferLen(h)
           /\ \A k \in Nat \ {0} : Cell(h, k)' = Cell(h, k)
           /\ HalfOf(writing'["main"], h) <=> HalfOf(writing["main"], h)
  BY <1>1, <1>2, <1>3, StreamKept
<1>4. ASSUME NEW c \in {Header("answer"), Parameters("answer")},
             BufferLen(h)' = m + 1,
             \A k \in Nat \ {0} : Cell(h, k)' = IF k = m + 1 THEN c ELSE Cell(h, k),
             c = Header("answer") =>
                ~HalfOf(writing["main"], h) /\ HalfOf(writing'["main"], h),
             c = Parameters("answer") =>
                HalfOf(writing["main"], h) /\ ~HalfOf(writing'["main"], h)
      PROVE  InStream(h)'
  <2>1. /\ \A k \in 1 .. m : Cell(h, k)' = Cell(h, k)
        /\ Cell(h, m + 1)' = c
    BY <1>4
  <2>2. LastChunk(h) = IF m = 0 THEN incoming[h] ELSE Cell(h, m)
    BY <1>2 DEF LastChunk
  <2>3. LastChunk(h)' = c
    BY <1>4, <2>1 DEF LastChunk
  <2>4. Follows(LastChunk(h), c)
    <3>1. CASE c = Header("answer")
      <4>1. LastChunk(h).part = "parameters"
        BY <1>4, <3>1 DEF InStream
      <4> QED
        BY <3>1, <4>1 DEF Follows, Header
    <3>2. CASE c = Parameters("answer")
      <4>1. LastChunk(h) = Header("answer")
        BY <1>4, <3>2 DEF InStream
      <4> QED
        BY <3>2, <4>1 DEF Follows, Header, Parameters
    <3> QED
      BY <3>1, <3>2
  <2>5. Parameters("answer").part = "parameters"
    BY DEF Parameters
  <2>6. IF HalfOf(writing'["main"], h) THEN c = Header("answer") ELSE c.part = "parameters"
    BY <1>4, <2>5
  <2>7. Follows(incoming'[h], Cell(h, 1)')
    <3>1. CASE m = 0
      BY <1>1, <2>1, <2>2, <2>4, <3>1
    <3>2. CASE m # 0
      <4>1. 1 \in 1 .. m
        BY <3>2
      <4> QED
        BY <1>1, <1>2, <2>1, <4>1 DEF InStream
    <3> QED
      BY <3>1, <3>2
  <2>8. ASSUME NEW k \in Nat \ {0}, k < m + 1
        PROVE  Follows(Cell(h, k)', Cell(h, k + 1)')
    <3>1. CASE k = m
      <4>1. k \in 1 .. m /\ m # 0
        BY <3>1
      <4>2. Cell(h, k)' = Cell(h, m) /\ LastChunk(h) = Cell(h, m)
        BY <2>1, <2>2, <3>1, <4>1
      <4>3. Cell(h, k + 1)' = c
        BY <2>1, <3>1
      <4> QED
        BY <2>4, <4>2, <4>3
    <3>2. CASE k # m
      <4>1. k \in 1 .. m /\ k + 1 \in 1 .. m /\ k < m
        BY <2>8, <3>2
      <4> QED
        BY <1>2, <2>1, <4>1 DEF InStream
    <3> QED
      BY <3>1, <3>2
  <2> QED
    BY <1>4, <2>3, <2>6, <2>7, <2>8 DEF InStream
<1> QED
  BY <1>2, <1>3, <1>4, MainEffect

\* What the simulation thread writes goes to another buffer than that of a host
\* which is not sent reports.
LEMMA OthersBuffer ==
    ASSUME IInv, ScriptInv, BufferStep("simulation"),
           NEW h \in Hosts, h \notin Listeners
    PROVE  /\ writing'["main"] = writing["main"] /\ BufferLen(h)' = BufferLen(h)
           /\ \A k \in Nat \ {0} : Cell(h, k)' = Cell(h, k)
<1> USE DEF hostVars, flagVars, bufferVars, pollVars, threadVars
<1> DEFINE left == writing["simulation"]
<1>1. Listeners \subseteq Hosts
  BY PollAssumption
<1>2. left \in Seq(Steps) /\ left # <<>>
  BY DEF BufferStep, Copy, Store, Signal, Doing, IInv, WritingType, Threads
<1>3. PICK g \in Listeners : RestOf(left, g, "report")
  BY <1>2 DEF ScriptInv
<1>4. Head(left) = left[1] /\ left[1].host = g
  BY <1>1, <1>2, <1>3, RestSteps
<1>5. g # h
  BY <1>3
<1>6. writing'["main"] = writing["main"]
  BY DEF BufferStep, Copy, Store, Signal, IInv, WritingType, Threads
<1>7. new_len'["main"] = new_len["main"]
  BY DEF BufferStep, Copy, Store, Signal, IInv, TypeOK, Threads
<1>8. write_buffer_len'[h] = write_buffer_len[h]
  BY <1>1, <1>4, <1>5 DEF BufferStep, Copy, Store, Signal, IInv, TypeOK
<1>9. ASSUME NEW k \in Nat \ {0} PROVE Cell(h, k)' = Cell(h, k)
  <2>1. CASE Copy("simulation")
    BY <1>1, <1>4, <1>5, <2>1, CopyCells DEF Threads
  <2>2. CASE Store("simulation") \/ Signal("simulation")
    BY <2>2 DEF Store, Signal, Cell
  <2> QED
    BY <2>1, <2>2 DEF BufferStep
<1>10. BufferLen(h)' = BufferLen(h)
  BY <1>6, <1>7, <1>8 DEF BufferLen
<1> QED
  BY <1>6, <1>9, <1>10

\* A step of the simulation thread keeps the stream of a host which is not sent
\* reports.
LEMMA StreamSimulation ==
    ASSUME OneWriter, IInv, ScriptInv, BufferStep("simulation"),
           NEW h \in Watched, InStream(h)
    PROVE  InStream(h)'
<1>1. h \in Hosts /\ h \notin Listeners
  BY PollAssumption DEF OneWriter
<1>2. /\ writing'["main"] = writing["main"] /\ BufferLen(h)' = BufferLen(h)
      /\ \A k \in Nat \ {0} : Cell(h, k)' = Cell(h, k)
  BY <1>1, OthersBuffer
<1>3. BufferLen(h) \in Nat
  BY <1>1, LenType DEF IInv
<1>4. incoming' = incoming
  BY DEF BufferStep, Copy, Store, Signal, hostVars
<1> QED
  BY <1>1, <1>2, <1>3, <1>4, StreamKept

\* What the main thread has left when it has sent.
LEMMA WritableView ==
    ASSUME IInv, NEW g \in Hosts, on_writable(g), NEW h \in Hosts
    PROVE  /\ ~HalfOf(writing["main"], h) /\ ~StoreTo(writing["main"], h)
           /\ ~HalfOf(writing'["main"], h)
           /\ ~AnswerTo(writing'["main"], h) /\ ~Unfinished(writing'["main"], h)
           /\ (StoreTo(writing'["main"], h) <=> h = g)
           /\ new_len'["main"] = UnsentLen(g, Sending(g))
           /\ write_buffer_len' = write_buffer_len
<1> USE DEF hostVars, flagVars, bufferVars, pollVars, threadVars
<1> DEFINE step == [does |-> "store", host |-> g]
<1>1. /\ writing["main"] = <<>> /\ writing' = [writing EXCEPT !["main"] = <<step>>]
      /\ new_len' = [new_len EXCEPT !["main"] = UnsentLen(g, Sending(g))]
      /\ write_buffer_len' = write_buffer_len
  BY DEF on_writable, ToWrite, MainAt
<1>2. step.does = "store" /\ step.host = g /\ step \in Steps
  BY DEF Steps
<1> HIDE DEF step
<1>3. writing'["main"] = <<step>> /\ new_len'["main"] = UnsentLen(g, Sending(g))
  BY <1>1 DEF IInv, WritingType, TypeOK, Threads
<1>4. /\ Len(<<step>>) = 1 /\ <<step>>[1] = step /\ <<step>> # <<>>
      /\ <<step>> \in Seq(Steps)
  BY <1>2
<1>5. ~AnswerTo(<<step>>, h)
  <2>1. RestOf(<<step>>, h, "answer") => <<step>>[1].does = "signal"
    BY <1>4, RestSteps
  <2> QED
    BY <1>2, <1>4, <2>1 DEF AnswerTo
<1>6. ~HalfOf(writing["main"], h) /\ ~StoreTo(writing["main"], h)
  BY <1>1 DEF HalfOf, AnswerTo, StoreTo
<1>7. ~HalfOf(<<step>>, h) /\ ~Unfinished(<<step>>, h) /\ (StoreTo(<<step>>, h) <=> h = g)
  BY <1>2, <1>4, <1>5 DEF HalfOf, Unfinished, StoreTo
<1> QED
  BY <1>1, <1>3, <1>5, <1>6, <1>7

\* What the main thread has left when it has taken a command.
LEMMA ServedView ==
    ASSUME IInv, NEW h \in Hosts, ServeCommand(h), NEW g \in Hosts
    PROVE  /\ ~HalfOf(writing["main"], g) /\ ~StoreTo(writing["main"], g)
           /\ ~HalfOf(writing'["main"], g) /\ ~StoreTo(writing'["main"], g)
           /\ AnswerTo(writing'["main"], g) => g = h
           /\ Unfinished(writing'["main"], g) => g = h
<1> DEFINE ev == send_event(h, "answer")
<1>1. writing["main"] = <<>> /\ writing' = [writing EXCEPT !["main"] = ev]
  BY DEF ServeCommand, ToRead, MainAt
<1>2. writing'["main"] = ev
  BY <1>1 DEF IInv, WritingType, Threads
<1>3. ~HalfOf(writing["main"], g) /\ ~StoreTo(writing["main"], g)
  BY <1>1 DEF HalfOf, AnswerTo, StoreTo
<1>4. RestOf(ev, h, "answer") /\ Len(ev) = 6 /\ ev \in Seq(Steps)
  BY RestAtFirst, Zenon
<1> HIDE DEF ev
<1>5. /\ ~HalfOf(ev, g) /\ ~StoreTo(ev, g)
      /\ AnswerTo(ev, g) => g = h
      /\ Unfinished(ev, g) => g = h
  <2>1. 6 \notin 3 .. 5 /\ 6 \notin {2, 5}
    OBVIOUS
  <2> QED
    BY <1>4, <2>1, RestReads, Zenon
<1> QED
  BY <1>2, <1>3, <1>5

\* What is sent leaves the stream a stream, and is one.
LEMMA StreamSent ==
    ASSUME IInv, NEW g \in Hosts, on_writable(g),
           NEW h \in Watched, connection[h] = "open", InStream(h)
    PROVE  /\ connection'[h] = "open" => InStream(h)'
           /\ h = g => garbled' = garbled
<1>1. h \in Hosts
  BY PollAssumption
<1>2. /\ ~HalfOf(writing["main"], h) /\ ~StoreTo(writing["main"], h)
      /\ ~HalfOf(writing'["main"], h) /\ (StoreTo(writing'["main"], h) <=> h = g)
      /\ new_len'["main"] = UnsentLen(g, Sending(g))
      /\ write_buffer_len' = write_buffer_len
  BY <1>1, WritableView
<1>3. PICK L \in Nat : L = write_buffer_len[h]
  BY <1>1 DEF IInv, TypeOK
<1>4. BufferLen(h) = L
  BY <1>2, <1>3 DEF BufferLen
<1>5. ASSUME NEW k \in Nat \ {0}
      PROVE  Cell(h, k)' = IF h = g THEN Cell(h, Sending(h) + k) ELSE Cell(h, k)
  BY <1>1, SentCells
<1>6. CASE h # g
  <2>1. BufferLen(h)' = BufferLen(h)
    BY <1>2, <1>6 DEF BufferLen
  <2>2. incoming'[h] = incoming[h]
    <3>1. Sending(g) \in Nat
      BY SendType DEF IInv
    <3> QED
      BY <1>1, <1>6, <3>1, ReceivedCells DEF on_writable
  <2> QED
    BY <1>1, <1>2, <1>4, <1>5, <1>6, <2>1, <2>2, StreamKept
<1>7. CASE h = g
  <2>1. PICK n \in Nat : n = Sending(h)
    BY <1>1, SendType DEF IInv
  <2>2. n <= L
    BY <1>3, <2>1, PollAssumption DEF Sending
  <2>3. Received(h, n)
    BY <1>7, <2>1 DEF on_writable
  <2>4. BufferLen(h)' = L - n
    BY <1>1, <1>2, <1>3, <1>7, <2>1 DEF BufferLen, UnsentLen
  <2>5. incoming'[h] = IF n = 0 THEN incoming[h] ELSE Cell(h, n)
    BY <1>1, <2>3, ReceivedCells
  <2>6. ASSUME NEW k \in Nat \ {0} PROVE Cell(h, k)' = Cell(h, n + k)
    BY <1>5, <1>7, <2>1
  <2>7. ASSUME NEW k \in Nat \ {0}, k < L PROVE Follows(Cell(h, k), Cell(h, k + 1))
    BY <1>4, <2>7 DEF InStream
  <2>8. L > 0 => Follows(incoming[h], Cell(h, 1))
    BY <1>4 DEF InStream
  <2>9. garbled' = garbled
    <3>1. n > 0 => Follows(incoming[h], Cell(h, 1))
      BY <2>2, <2>8
    <3>2. ASSUME NEW k \in Nat \ {0}, k < n PROVE Follows(Cell(h, k), Cell(h, k + 1))
      BY <2>2, <2>7, <3>2
    <3> QED
      BY <1>1, <2>3, <3>1, <3>2, ReceivedCells
  <2>10. BufferLen(h)' > 0 => Follows(incoming'[h], Cell(h, 1)')
    <3>1. Cell(h, 1)' = Cell(h, n + 1)
      BY <2>6
    <3>2. CASE n = 0
      BY <2>4, <2>5, <2>8, <3>1, <3>2
    <3>3. CASE n # 0
      BY <2>4, <2>5, <2>7, <3>1, <3>3
    <3> QED
      BY <3>2, <3>3
  <2>11. ASSUME NEW k \in Nat \ {0}, k < BufferLen(h)' PROVE Follows(Cell(h, k)', Cell(h, k + 1)')
    <3>1. Cell(h, k)' = Cell(h, n + k) /\ Cell(h, k + 1)' = Cell(h, n + k + 1)
      <4>1. n + (k + 1) = n + k + 1 /\ k + 1 \in Nat \ {0}
        OBVIOUS
      <4> QED
        BY <2>6, <4>1
    <3>2. n + k \in Nat \ {0} /\ n + k < L
      BY <2>2, <2>4, <2>11
    <3> QED
      BY <2>7, <3>1, <3>2
  <2>12. LastChunk(h)' = LastChunk(h)
    <3>1. LastChunk(h)' = IF L - n = 0 THEN incoming'[h] ELSE Cell(h, L - n)'
      BY <2>4 DEF LastChunk
    <3>2. LastChunk(h) = IF L = 0 THEN incoming[h] ELSE Cell(h, L)
      BY <1>4 DEF LastChunk
    <3>3. CASE L = n
      BY <2>5, <3>1, <3>2, <3>3
    <3>4. CASE L # n
      <4>1. L - n \in Nat \ {0} /\ n + (L - n) = L /\ L # 0
        BY <2>2, <3>4
      <4>2. PICK j \in Nat \ {0} : j = L - n
        BY <4>1
      <4>3. LastChunk(h)' = Cell(h, j)'
        BY <2>4, <4>2 DEF LastChunk
      <4>4. Cell(h, j)' = Cell(h, n + j) /\ n + j = L
        BY <2>6, <4>1, <4>2
      <4> QED
        BY <3>2, <4>1, <4>3, <4>4
    <3> QED
      BY <3>3, <3>4
  <2>13. LastChunk(h).part = "parameters"
    BY <1>2 DEF InStream
  <2>14. InStream(h)'
    BY <1>2, <2>10, <2>11, <2>12, <2>13 DEF InStream
  <2> QED
    BY <2>9, <2>14
<1> QED
  BY <1>6, <1>7

\* A connection begins with an empty stream.
LEMMA StreamBegins ==
    ASSUME IInv, ConnectionInv, NEW h \in Hosts, on_hci_connection(h)
    PROVE  InStream(h)'
<1> USE DEF hostVars, flagVars, bufferVars, pollVars, threadVars
<1>1. /\ writing'["main"] = <<>> /\ incoming'[h] = incoming[h]
      /\ write_buffer_len'[h] = write_buffer_len[h]
      /\ connection[h] # "open" /\ h \notin sockets
  BY DEF on_hci_connection, MainAt
<1>2. incoming[h] = Nothing /\ write_buffer_len[h] = 0
  BY <1>1 DEF ConnectionInv
<1>3. ~HalfOf(writing'["main"], h) /\ ~StoreTo(writing'["main"], h)
  BY <1>1 DEF HalfOf, AnswerTo, StoreTo
<1>4. BufferLen(h)' = 0
  BY <1>1, <1>2, <1>3 DEF BufferLen
<1>5. LastChunk(h)' = Nothing
  BY <1>1, <1>2, <1>4 DEF LastChunk
<1> QED
  BY <1>3, <1>4, <1>5 DEF InStream, Nothing

\* Every step leaves the streams whole.
LEMMA StreamNext ==
    ASSUME OneWriter, IInv, ScriptInv, ConnectionInv, StreamInv, EventsArriveWhole, [Next]_vars
    PROVE  StreamInv' /\ EventsArriveWhole'
<1> USE DEF hostVars, flagVars, bufferVars, pollVars, threadVars
<1>1. Watched \subseteq Hosts
  BY PollAssumption
<1>2. ASSUME UNCHANGED <<bufferVars, incoming, new_len>>,
             \A h \in Hosts : connection'[h] = "open" => connection[h] = "open",
             \A h \in Hosts : /\ HalfOf(writing'["main"], h) <=> HalfOf(writing["main"], h)
                              /\ StoreTo(writing'["main"], h) <=> StoreTo(writing["main"], h)
      PROVE  StreamInv'
  <2> SUFFICES ASSUME NEW h \in Watched, connection'[h] = "open" PROVE InStream(h)'
    BY DEF StreamInv
  <2>1. h \in Hosts /\ InStream(h)
    BY <1>1, <1>2 DEF StreamInv
  <2>2. BufferLen(h)' = BufferLen(h) /\ BufferLen(h) \in Nat
    BY <1>2, <2>1, LenType DEF BufferLen, IInv
  <2>3. \A k \in Nat \ {0} : Cell(h, k)' = Cell(h, k)
    BY <1>2 DEF Cell
  <2> QED
    BY <1>2, <2>1, <2>2, <2>3, StreamKept
<1>3. ASSUME NEW h \in Hosts, ServeCommand(h) PROVE StreamInv' /\ EventsArriveWhole'
  <2>1. UNCHANGED <<bufferVars, connection, incoming, new_len, garbled>>
    BY <1>3 DEF ServeCommand
  <2> QED
    BY <1>2, <1>3, <2>1, ServedView DEF EventsArriveWhole
<1>4. ASSUME NEW g \in Hosts, on_writable(g) PROVE StreamInv' /\ EventsArriveWhole'
  <2>1. \A h \in Hosts : connection'[h] = "open" => connection[h] = "open"
    BY <1>4 DEF on_writable, EndsWith, IInv, TypeOK
  <2>2. StreamInv'
    BY <1>1, <1>4, <2>1, StreamSent DEF StreamInv
  <2>3. EventsArriveWhole'
    <3>1. CASE connection[g] = "open" /\ g \in Watched
      BY <1>1, <1>4, <3>1, StreamSent DEF StreamInv, EventsArriveWhole
    <3>2. CASE g \notin Watched /\ Received(g, Sending(g))
      <4>1. Sending(g) \in Nat
        BY SendType DEF IInv
      <4> QED
        BY <3>2, <4>1, ReceivedCells DEF EventsArriveWhole
    <3>3. CASE UNCHANGED garbled
      BY <3>3 DEF EventsArriveWhole
    <3> QED
      BY <1>4, <3>1, <3>2, <3>3 DEF on_writable
  <2> QED
    BY <2>2, <2>3
<1>5. CASE BufferStep("main")
  <2>1. connection' = connection /\ garbled' = garbled
    BY <1>5 DEF BufferStep, Copy, Store, Signal
  <2>2. StreamInv'
    BY <1>1, <1>5, <2>1, StreamMain DEF StreamInv
  <2> QED
    BY <2>1, <2>2 DEF EventsArriveWhole
<1>6. CASE BufferStep("simulation")
  <2>1. connection' = connection /\ garbled' = garbled
    BY <1>6 DEF BufferStep, Copy, Store, Signal
  <2>2. StreamInv'
    BY <1>6, <2>1, StreamSimulation DEF StreamInv
  <2> QED
    BY <2>1, <2>2 DEF EventsArriveWhole
<1>7. ASSUME NEW h \in Hosts, on_hci_connection(h) PROVE StreamInv' /\ EventsArriveWhole'
  <2>1. /\ connection' = [connection EXCEPT ![h] = "open"]
        /\ UNCHANGED <<bufferVars, incoming, writing, new_len, garbled>>
    BY <1>7 DEF on_hci_connection
  <2>2. ASSUME NEW g \in Watched, connection'[g] = "open" PROVE InStream(g)'
    <3>1. CASE g = h
      BY <1>7, <3>1, StreamBegins
    <3>2. CASE g # h
      <4>1. g \in Hosts /\ InStream(g)
        BY <1>1, <2>1, <2>2, <3>2 DEF StreamInv, IInv, TypeOK
      <4>2. BufferLen(g)' = BufferLen(g) /\ BufferLen(g) \in Nat
        BY <2>1, <4>1, LenType DEF BufferLen, IInv
      <4>3. \A k \in Nat \ {0} : Cell(g, k)' = Cell(g, k)
        BY <2>1 DEF Cell
      <4> QED
        BY <2>1, <4>1, <4>2, <4>3, StreamKept
    <3> QED
      BY <3>1, <3>2
  <2> QED
    BY <2>1, <2>2 DEF StreamInv, EventsArriveWhole
<1>8. ASSUME NEW h \in Hosts, end_of_packet(h) PROVE StreamInv' /\ EventsArriveWhole'
  <2>1. /\ writing' = [writing EXCEPT !["simulation"] = send_event(h, "report")]
        /\ UNCHANGED <<bufferVars, connection, incoming, new_len, garbled>>
    BY <1>8 DEF end_of_packet
  <2>2. writing'["main"] = writing["main"]
    BY <2>1 DEF IInv, WritingType, Threads
  <2> QED
    BY <1>2, <2>1, <2>2 DEF EventsArriveWhole
<1>9. ASSUME NEW h \in Hosts, Sweep(h) PROVE StreamInv' /\ EventsArriveWhole'
  <2>1. /\ connection' = [connection EXCEPT ![h] = "none"]
        /\ write_buffer' = [write_buffer EXCEPT ![h] = <<>>]
        /\ write_buffer_len' = [write_buffer_len EXCEPT ![h] = 0]
        /\ UNCHANGED <<incoming, writing, new_len, garbled>>
    BY <1>9 DEF Sweep, Deleted
  <2>2. ASSUME NEW g \in Watched, connection'[g] = "open" PROVE InStream(g)'
    <3>1. g \in Hosts /\ g # h /\ connection[g] = "open"
      BY <1>1, <2>1, <2>2 DEF IInv, TypeOK
    <3>2. write_buffer'[g] = write_buffer[g] /\ write_buffer_len'[g] = write_buffer_len[g]
      BY <2>1, <3>1 DEF IInv, TypeOK
    <3>3. BufferLen(g)' = BufferLen(g) /\ BufferLen(g) \in Nat
      BY <2>1, <3>1, <3>2, LenType DEF BufferLen, IInv
    <3>4. \A k \in Nat \ {0} : Cell(g, k)' = Cell(g, k)
      BY <3>2 DEF Cell
    <3>5. InStream(g)
      BY <3>1 DEF StreamInv
    <3> QED
      BY <2>1, <3>1, <3>3, <3>4, <3>5, StreamKept
  <2> QED
    BY <2>1, <2>2 DEF StreamInv, EventsArriveWhole
<1>10. CASE run_b1ee_server
  BY <1>1, <1>10 DEF run_b1ee_server, StreamInv, EventsArriveWhole
<1>11. CASE Select \/ SelectTimeout \/ DrainPipe \/ Swept \/ BeginRound \/ EndRound
  <2>1. UNCHANGED <<bufferVars, connection, incoming, writing, new_len, garbled>>
    BY <1>11 DEF Select, SelectTimeout, DrainPipe, Swept, BeginRound, EndRound
  <2> QED
    BY <1>2, <2>1 DEF EventsArriveWhole
<1>12. ASSUME NEW h \in Hosts, ServeEnd(h) \/ AcknowledgeDeletion(h) \/ SendCommand(h)
       PROVE  StreamInv' /\ EventsArriveWhole'
  <2>1. UNCHANGED <<bufferVars, connection, incoming, writing, new_len, garbled>>
    BY <1>12 DEF ServeEnd, AcknowledgeDeletion, SendCommand
  <2> QED
    BY <1>2, <2>1 DEF EventsArriveWhole
<1>13. ASSUME NEW h \in Hosts, ServeError(h) \/ SendFails(h) \/ Connect(h)
       PROVE  StreamInv' /\ EventsArriveWhole'
  <2>1. /\ \/ connection' = [connection EXCEPT ![h] = "failed"]
           \/ connection' = [connection EXCEPT ![h] = "connecting"]
        /\ UNCHANGED <<bufferVars, incoming, writing, new_len, garbled>>
    BY <1>13 DEF ServeError, SendFails, Connect, ErrorRead
  <2>2. \A g \in Hosts : connection'[g] = "open" => connection[g] = "open"
    BY <2>1 DEF IInv, TypeOK
  <2> QED
    BY <1>2, <2>1, <2>2 DEF EventsArriveWhole
<1>14. ASSUME NEW h \in Hosts, Close(h) PROVE StreamInv' /\ EventsArriveWhole'
  <2>1. /\ connection[h] = "open" /\ EndsWith(h)
        /\ incoming' = [incoming EXCEPT ![h] = Nothing]
        /\ UNCHANGED <<bufferVars, writing, new_len, garbled>>
    BY <1>14 DEF Close
  <2>2. ASSUME NEW g \in Watched, connection'[g] = "open" PROVE InStream(g)'
    <3>1. g \in Hosts /\ g # h /\ connection[g] = "open" /\ incoming'[g] = incoming[g]
      BY <1>1, <2>1, <2>2 DEF IInv, TypeOK, EndsWith
    <3>2. BufferLen(g)' = BufferLen(g) /\ BufferLen(g) \in Nat
      BY <2>1, <3>1, LenType DEF BufferLen, IInv
    <3>3. \A k \in Nat \ {0} : Cell(g, k)' = Cell(g, k)
      BY <2>1 DEF Cell
    <3>4. InStream(g)
      BY <3>1 DEF StreamInv
    <3> QED
      BY <2>1, <3>1, <3>2, <3>3, <3>4, StreamKept
  <2> QED
    BY <2>1, <2>2 DEF StreamInv, EventsArriveWhole
<1>15. CASE UNCHANGED vars
  <2>1. UNCHANGED <<bufferVars, connection, incoming, writing, new_len, garbled>>
    BY <1>15 DEF vars
  <2> QED
    BY <1>2, <2>1 DEF EventsArriveWhole
<1> QED
  BY <1>3, <1>4, <1>5, <1>6, <1>7, <1>8, <1>9, <1>10, <1>11, <1>12, <1>13, <1>14, <1>15
     DEF Next, poll, simulation, background_monitor_thread, BrokenPipe

\* Where one thread alone writes to a host, the host receives events one after
\* the other, each with its own parameters: however the threads alternate, how
\* little of a buffer is sent at once, and whatever other connections, resets
\* and restarts come in between.
THEOREM EventsComeWhole ==
    ASSUME OneWriter
    PROVE  Spec => []EventsArriveWhole
<1> DEFINE WholeInv == StreamInv /\ EventsArriveWhole
<1>1. Init => WholeInv
  BY StreamInit DEF Init, EventsArriveWhole
<1>2. (IInv /\ ScriptInv /\ ConnectionInv) /\ WholeInv /\ [Next]_vars => WholeInv'
  BY StreamNext
<1>3. Spec => []WholeInv
  BY <1>1, <1>2, PlaceHolds, PTL DEF Spec
<1>4. WholeInv => EventsArriveWhole
  OBVIOUS
<1> QED
  BY <1>3, <1>4, PTL

-----------------------------------------------------------------------------
(* The thread that empties the pipe never waits for room in it.             *)

\* One host at most sends commands, and it does not scan; and the pipe is longer
\* than the reports can fill it.
OneAsker ==
    /\ Askers \cap Listeners = {}
    /\ \A g, h \in Askers : g = h

RoomToAnswer == PipeRoom + 3 <= PipeSize

\* The host's command has been taken and is not yet answered, or it cannot ask.
Silent(h) == h \notin inbox /\ (h \in asking \/ connection[h] # "open")

\* One command at a time: a host that asks or may ask has nothing in its buffer,
\* and the parameters of an answer are the last thing there.
CommandOK(h) ==
    /\ h \in inbox => h \in sockets /\ (h \in asking \/ connection[h] # "open")
    /\ ~Silent(h) =>
          BufferLen(h) = 0 /\ h \notin write_set /\ ~AnswerTo(writing["main"], h)
    /\ \A k \in Nat \ {0} :
          k <= BufferLen(h) /\ Cell(h, k) = Parameters("answer") =>
              k = BufferLen(h) /\ ~Unfinished(writing["main"], h)

CommandInv == \A h \in Askers : CommandOK(h)

\* The bytes that a thread has still to write into the pipe.
ToSignal(left) ==
    IF Len(left) >= 4 THEN 2
    ELSE IF Len(left) >= 1 /\ left[Len(left)].does = "signal" THEN 1 ELSE 0

Bytes == pipe + ToSignal(writing["main"]) + ToSignal(writing["simulation"])

Kept(h) == h \in sockets \ delete_pending /\ Silent(h)

\* A poll takes out as many bytes as a command puts in, for there is a poll
\* between the one that answers a command and the one that reads the next: when
\* the pipe is as full as it becomes, the host that asks is waiting.
RoomInv ==
    /\ writing["simulation"] # <<>> => PipeRoom >= 2
    /\ stage = "select" => read_set = sockets \ delete_pending /\ write_set \subseteq read_set
    /\ stage \in {"select", "sweep"} =>
          /\ Bytes <= PipeRoom + 2
          /\ Bytes = PipeRoom + 2 => \E h \in Askers : Kept(h)
    /\ stage = "serve" =>
          LET after == Bytes - IF pipe_set THEN 1 ELSE 0
          IN  /\ read_set \cap delete_pending = {}
              /\ after <= PipeRoom + 2
              /\ ToSignal(writing["main"]) > 0 \/ after = PipeRoom + 2 =>
                    \E h \in Askers : Kept(h) /\ h \notin read_set \cup write_set
              /\ after = PipeRoom + 1 =>
                    \A h \in Askers : h \notin read_set \cap sockets \/ Silent(h)

\* The buffer of a host that no step touches.
LEMMA CommandKept ==
    ASSUME NEW h \in Hosts, CommandOK(h), BufferLen(h) \in Nat,
           BufferLen(h)' = BufferLen(h),
           \A k \in Nat \ {0} : Cell(h, k)' = Cell(h, k),
           AnswerTo(writing'["main"], h) => AnswerTo(writing["main"], h),
           Unfinished(writing'["main"], h) => Unfinished(writing["main"], h),
           h \in write_set' => h \in write_set \/ BufferLen(h) > 0,
           Silent(h) => Silent(h)',
           h \in inbox' => h \in sockets' /\ (h \in asking' \/ connection'[h] # "open")
    PROVE  CommandOK(h)'
<1>1. ~Silent(h)' =>
         BufferLen(h)' = 0 /\ h \notin write_set' /\ ~AnswerTo(writing'["main"], h)
  BY DEF CommandOK
<1>2. ASSUME NEW k \in Nat \ {0}, k <= BufferLen(h)', Cell(h, k)' = Parameters("answer")
      PROVE  k = BufferLen(h)' /\ ~Unfinished(writing'["main"], h)
  BY <1>2 DEF CommandOK
<1> QED
  BY <1>1, <1>2 DEF CommandOK

\* No command is on its way at first.
LEMMA CommandInit == Init => CommandInv
<1> SUFFICES ASSUME Init, NEW h \in Askers PROVE CommandOK(h)
  BY DEF CommandInv
<1>1. h \in Hosts
  BY PollAssumption
<1>2. Silent(h) /\ h \notin inbox
  BY <1>1 DEF Init, Silent
<1>3. writing["main"] = <<>> /\ write_buffer_len[h] = 0
  BY <1>1 DEF Init, Threads
<1>4. BufferLen(h) = 0
  BY <1>3 DEF BufferLen, StoreTo
<1> QED
  BY <1>2, <1>4 DEF CommandOK

\* Steps of the main thread on a buffer.
LEMMA CommandMain ==
    ASSUME IInv, ScriptInv, BufferStep("main"),
           NEW h \in Hosts, CommandOK(h)
    PROVE  CommandOK(h)'
<1>1. UNCHANGED <<asking, inbox, connection, sockets, write_set>>
  BY DEF BufferStep, Copy, Store, Signal, hostVars, pollVars
<1>2. PICK m \in Nat : m = BufferLen(h)
  BY LenType DEF IInv
<1>3. (Silent(h)' <=> Silent(h))
      /\ (h \in inbox' => h \in sockets' /\ (h \in asking' \/ connection'[h] # "open"))
  BY <1>1 DEF Silent, CommandOK
<1>4. CASE /\ BufferLen(h)' = BufferLen(h)
           /\ \A k \in Nat \ {0} : Cell(h, k)' = Cell(h, k)
           /\ Unfinished(writing'["main"], h) => Unfinished(writing["main"], h)
           /\ AnswerTo(writing'["main"], h) => AnswerTo(writing["main"], h)
  BY <1>1, <1>2, <1>3, <1>4, CommandKept
<1>5. ASSUME NEW c \in {Header("answer"), Parameters("answer")},
             BufferLen(h)' = m + 1,
             \A k \in Nat \ {0} : Cell(h, k)' = IF k = m + 1 THEN c ELSE Cell(h, k),
             AnswerTo(writing["main"], h), Unfinished(writing["main"], h),
             c = Parameters("answer") => ~Unfinished(writing'["main"], h)
      PROVE  CommandOK(h)'
  <2>1. Silent(h)'
    BY <1>3, <1>5 DEF CommandOK
  <2>2. \A k \in 1 .. m : Cell(h, k) # Parameters("answer")
    BY <1>2, <1>5 DEF CommandOK
  <2>3. ASSUME NEW k \in Nat \ {0}, k <= m + 1, Cell(h, k)' = Parameters("answer")
        PROVE  k = m + 1 /\ ~Unfinished(writing'["main"], h)
    <3>1. k = m + 1 \/ k \in 1 .. m
      BY <2>3
    <3>2. k = m + 1
      BY <1>5, <2>2, <2>3, <3>1
    <3>3. c = Parameters("answer")
      BY <1>5, <2>3, <3>2
    <3> QED
      BY <1>5, <3>2, <3>3
  <2> QED
    BY <1>3, <1>5, <2>1, <2>3 DEF CommandOK
<1> QED
  BY <1>2, <1>4, <1>5, MainEffect

\* Steps of the simulation thread on a buffer, which is another host's.
LEMMA CommandSimulation ==
    ASSUME OneAsker, IInv, ScriptInv, BufferStep("simulation"),
           NEW h \in Askers, CommandOK(h)
    PROVE  CommandOK(h)'
<1> USE DEF hostVars, flagVars, bufferVars, pollVars, threadVars
<1>1. h \in Hosts /\ h \notin Listeners
  BY PollAssumption DEF OneAsker
<1>2. UNCHANGED <<asking, inbox, connection, sockets, write_set>>
  BY DEF BufferStep, Copy, Store, Signal
<1>3. /\ writing'["main"] = writing["main"] /\ BufferLen(h)' = BufferLen(h)
      /\ \A k \in Nat \ {0} : Cell(h, k)' = Cell(h, k)
  BY <1>1, OthersBuffer
<1>4. BufferLen(h) \in Nat
  BY <1>1, LenType DEF IInv
<1>5. (Silent(h)' <=> Silent(h))
      /\ (h \in inbox' => h \in sockets' /\ (h \in asking' \/ connection'[h] # "open"))
  BY <1>2 DEF Silent, CommandOK
<1> QED
  BY <1>1, <1>2, <1>3, <1>4, <1>5, CommandKept

\* What is sent is at most one answer, whose parameters are the end of it.
LEMMA CommandSent ==
    ASSUME IInv, ConnectionInv, NEW g \in Hosts, on_writable(g),
           NEW h \in Hosts, CommandOK(h)
    PROVE  CommandOK(h)'
<1> USE DEF hostVars, flagVars, bufferVars, pollVars, threadVars
<1>1. /\ ~HalfOf(writing["main"], h) /\ ~StoreTo(writing["main"], h)
      /\ ~AnswerTo(writing'["main"], h) /\ ~Unfinished(writing'["main"], h)
      /\ (StoreTo(writing'["main"], h) <=> h = g)
      /\ new_len'["main"] = UnsentLen(g, Sending(g)) /\ write_buffer_len' = write_buffer_len
  BY WritableView
<1>2. PICK L \in Nat : L = write_buffer_len[h]
  BY DEF IInv, TypeOK
<1>3. BufferLen(h) = L
  BY <1>1, <1>2 DEF BufferLen
<1>4. PICK n \in Nat : n = Sending(g)
  BY SendType DEF IInv
<1>5. ASSUME NEW k \in Nat \ {0}
      PROVE  Cell(h, k)' = IF h = g THEN Cell(h, n + k) ELSE Cell(h, k)
  BY <1>4, SentCells
<1>6. /\ UNCHANGED <<inbox, sockets>> /\ write_set' = write_set \ {g} /\ g \in write_set
  BY DEF on_writable, ToWrite
<1>7. CASE h # g
  <2>1. BufferLen(h)' = BufferLen(h)
    BY <1>1, <1>7 DEF BufferLen
  <2>2. connection'[h] = connection[h]
    BY <1>7 DEF on_writable, EndsWith, IInv, TypeOK
  <2>3. h \in asking' <=> h \in asking
    BY <1>4, <1>7, ReceivedCells DEF on_writable
  <2>4. Silent(h) => Silent(h)'
    BY <1>6, <2>2, <2>3 DEF Silent
  <2>5. h \in inbox' => h \in sockets' /\ (h \in asking' \/ connection'[h] # "open")
    BY <1>6, <2>2, <2>3 DEF CommandOK
  <2> QED
    BY <1>1, <1>3, <1>5, <1>6, <1>7, <2>1, <2>4, <2>5, CommandKept
<1>8. CASE h = g
  <2>1. n <= L
    BY <1>2, <1>4, <1>8, PollAssumption DEF Sending
  <2>2. BufferLen(h)' = L - n
    BY <1>1, <1>2, <1>4, <1>8 DEF BufferLen, UnsentLen
  <2>3. Silent(h) /\ h \notin inbox /\ h \notin inbox' /\ h \notin write_set'
    BY <1>6, <1>8 DEF CommandOK, Silent
  <2>4. ASSUME NEW k \in Nat \ {0}, k <= BufferLen(h)', Cell(h, k)' = Parameters("answer")
        PROVE  k = BufferLen(h)'
    <3>1. Cell(h, n + k) = Parameters("answer") /\ n + k \in Nat \ {0} /\ n + k <= L
      BY <1>5, <1>8, <2>1, <2>2, <2>4
    <3>2. n + k = L
      BY <1>3, <3>1 DEF CommandOK
    <3> QED
      BY <2>1, <2>2, <3>2
  <2>5. ~Silent(h)' => BufferLen(h)' = 0
    <3>1. CASE connection[h] = "open" /\ Received(h, n) /\ UNCHANGED connection
      <4>1. asking' = asking \ {x \in {h} : \E k \in 1 .. n : Cell(h, k) = Parameters("answer")}
        BY <3>1, ReceivedCells
      <4>2. ASSUME ~Silent(h)' PROVE \E k \in 1 .. n : Cell(h, k) = Parameters("answer")
        BY <2>3, <3>1, <4>1, <4>2 DEF Silent
      <4>3. ASSUME NEW k \in 1 .. n, Cell(h, k) = Parameters("answer") PROVE L = n
        <5>1. k = L
          BY <1>3, <2>1, <4>3 DEF CommandOK
        <5> QED
          BY <2>1, <5>1
      <4> QED
        BY <2>2, <4>2, <4>3
    <3>2. CASE connection[h] = "closed" /\ EndsWith(h)
      <4>1. connection'[h] # "open"
        BY <3>2 DEF EndsWith, IInv, TypeOK
      <4> QED
        BY <2>3, <4>1 DEF Silent
    <3> QED
      BY <1>4, <1>8, <3>1, <3>2 DEF on_writable
  <2> QED
    BY <1>1, <2>3, <2>4, <2>5 DEF CommandOK
<1> QED
  BY <1>7, <1>8

\* A command is taken, and the answer to it begins.
LEMMA CommandServed ==
    ASSUME IInv, NEW g \in Hosts, ServeCommand(g), NEW h \in Hosts, CommandOK(h)
    PROVE  CommandOK(h)'
<1> USE DEF hostVars, flagVars, bufferVars, pollVars, threadVars
<1>1. /\ g \in inbox /\ inbox' = inbox \ {g}
      /\ UNCHANGED <<connection, asking, sockets, bufferVars, write_set, new_len>>
  BY DEF ServeCommand, ToRead
<1>2. /\ ~StoreTo(writing["main"], h) /\ ~StoreTo(writing'["main"], h)
      /\ AnswerTo(writing'["main"], h) => h = g
      /\ Unfinished(writing'["main"], h) => h = g
  BY ServedView
<1>3. BufferLen(h)' = BufferLen(h) /\ BufferLen(h) \in Nat
  BY <1>1, <1>2, LenType DEF BufferLen, IInv
<1>4. \A k \in Nat \ {0} : Cell(h, k)' = Cell(h, k)
  BY <1>1 DEF Cell
<1>5. h \in inbox' => h \in sockets' /\ (h \in asking' \/ connection'[h] # "open")
  BY <1>1 DEF CommandOK
<1>6. CASE h # g
  BY <1>1, <1>2, <1>3, <1>4, <1>5, <1>6, CommandKept DEF Silent
<1>7. CASE h = g
  <2>1. BufferLen(h) = 0
    BY <1>1, <1>7 DEF CommandOK, Silent
  <2>2. Silent(h)'
    BY <1>1, <1>7 DEF CommandOK, Silent
  <2> QED
    BY <1>3, <1>5, <2>1, <2>2 DEF CommandOK
<1> QED
  BY <1>6, <1>7

\* Connections begin, and are deleted, with nothing in the buffer.
LEMMA CommandEnds ==
    ASSUME IInv, ConnectionInv, NEW g \in Hosts, on_hci_connection(g) \/ Sweep(g),
           NEW h \in Hosts, CommandOK(h)
    PROVE  CommandOK(h)'
<1> USE DEF hostVars, flagVars, bufferVars, pollVars, threadVars
<1>1. /\ writing["main"] = <<>> /\ UNCHANGED <<writing, new_len, write_set, asking>>
      /\ inbox' \subseteq inbox
  BY DEF on_hci_connection, Sweep, Deleted, MainAt
<1>2. /\ ~StoreTo(writing["main"], h) /\ ~AnswerTo(writing["main"], h)
      /\ ~Unfinished(writing["main"], h)
  BY <1>1 DEF StoreTo, AnswerTo, Unfinished
<1>3. CASE h # g
  <2>1. /\ connection'[h] = connection[h] /\ (h \in sockets' <=> h \in sockets)
        /\ write_buffer'[h] = write_buffer[h] /\ write_buffer_len'[h] = write_buffer_len[h]
        /\ (h \in inbox' <=> h \in inbox)
    BY <1>3 DEF on_hci_connection, Sweep, Deleted, IInv, TypeOK
  <2>2. BufferLen(h)' = BufferLen(h) /\ BufferLen(h) \in Nat
    BY <1>1, <2>1, LenType DEF BufferLen, IInv
  <2>3. \A k \in Nat \ {0} : Cell(h, k)' = Cell(h, k)
    BY <2>1 DEF Cell
  <2>4. /\ Silent(h) => Silent(h)'
        /\ h \in inbox' => h \in sockets' /\ (h \in asking' \/ connection'[h] # "open")
    BY <1>1, <2>1 DEF CommandOK, Silent
  <2> QED
    BY <1>1, <2>2, <2>3, <2>4, CommandKept
<1>4. CASE h = g /\ on_hci_connection(g)
  <2>1. h \notin sockets /\ UNCHANGED <<write_buffer_len, inbox>>
    BY <1>4 DEF on_hci_connection
  <2>2. BufferLen(h)' = 0
    BY <1>1, <1>2, <2>1 DEF BufferLen, ConnectionInv
  <2>3. h \notin inbox' /\ h \notin write_set'
    BY <1>1, <2>1 DEF CommandOK, IInv, TypeOK
  <2> QED
    BY <1>1, <1>2, <2>2, <2>3 DEF CommandOK
<1>5. CASE h = g /\ Sweep(g)
  <2>1. h \notin inbox' /\ connection'[h] # "open" /\ write_buffer_len'[h] = 0
    BY <1>5 DEF Sweep, Deleted, IInv, TypeOK
  <2>2. BufferLen(h)' = 0 /\ Silent(h)'
    BY <1>1, <1>2, <2>1 DEF BufferLen, Silent
  <2> QED
    BY <2>1, <2>2 DEF CommandOK
<1> QED
  BY <1>3, <1>4, <1>5

\* Every step.
LEMMA CommandNext ==
    ASSUME OneAsker, IInv, ScriptInv, ConnectionInv, [Next]_vars,
           NEW h \in Askers, CommandOK(h)
    PROVE  CommandOK(h)'
<1> USE DEF hostVars, flagVars, bufferVars, pollVars, threadVars
<1>1. h \in Hosts /\ BufferLen(h) \in Nat
  BY PollAssumption, LenType DEF IInv
<1>2. ASSUME UNCHANGED <<bufferVars, new_len>>, writing'["main"] = writing["main"],
             h \in write_set' => h \in write_set \/ BufferLen(h) > 0,
             Silent(h) => Silent(h)',
             h \in inbox' => h \in sockets' /\ (h \in asking' \/ connection'[h] # "open")
      PROVE  CommandOK(h)'
  <2>1. BufferLen(h)' = BufferLen(h)
    BY <1>2 DEF BufferLen
  <2>2. \A k \in Nat \ {0} : Cell(h, k)' = Cell(h, k)
    BY <1>2 DEF Cell
  <2> QED
    BY <1>1, <1>2, <2>1, <2>2, CommandKept
<1>3. CASE Select \/ DrainPipe \/ BeginRound \/ EndRound \/ UNCHANGED vars
  <2>1. UNCHANGED <<bufferVars, new_len, writing, write_set, asking, inbox, connection, sockets>>
    BY <1>3 DEF Select, DrainPipe, BeginRound, EndRound, vars
  <2> QED
    BY <1>2, <2>1 DEF Silent, CommandOK
<1>4. CASE SelectTimeout \/ Swept
  <2>1. /\ writing["main"] = <<>>
        /\ UNCHANGED <<bufferVars, new_len, writing, asking, inbox, connection, sockets>>
        /\ write_set' = {g \in sockets : is_active(g) /\ write_buffer_len[g] > 0}
    BY <1>4 DEF SelectTimeout, Swept, FillSets, MainAt
  <2>2. BufferLen(h) = write_buffer_len[h]
    BY <2>1 DEF BufferLen, StoreTo
  <2> QED
    BY <1>2, <2>1, <2>2 DEF Silent, CommandOK
<1>5. ASSUME NEW g \in Hosts,
             \/ ServeEnd(g) \/ AcknowledgeDeletion(g) \/ ServeError(g) \/ SendFails(g) \/ Connect(g)
      PROVE  CommandOK(h)'
  <2>1. /\ UNCHANGED <<bufferVars, new_len, writing, asking, inbox, sockets>>
        /\ write_set' \subseteq write_set
        /\ \/ connection' = connection
           \/ connection' = [connection EXCEPT ![g] = "failed"]
           \/ connection' = [connection EXCEPT ![g] = "connecting"]
    BY <1>5 DEF ServeEnd, AcknowledgeDeletion, ServeError, SendFails, Connect, ErrorRead
  <2>2. connection'[h] = "open" => connection[h] = "open"
    BY <1>1, <2>1 DEF IInv, TypeOK
  <2> QED
    BY <1>2, <2>1, <2>2 DEF Silent, CommandOK
<1>6. ASSUME NEW g \in Hosts, SendCommand(g) PROVE CommandOK(h)'
  <2>1. /\ connection[g] = "open" /\ asking' = asking \cup {g} /\ inbox' = inbox \cup {g}
        /\ g \notin asking
        /\ UNCHANGED <<bufferVars, new_len, writing, write_set, connection, sockets>>
    BY <1>6 DEF SendCommand
  <2>2. Silent(h) => Silent(h)'
    BY <2>1 DEF Silent
  <2>3. g \in sockets
    BY <2>1 DEF ConnectionInv
  <2> QED
    BY <1>2, <2>1, <2>2, <2>3 DEF CommandOK
<1>7. ASSUME NEW g \in Hosts, Close(g) PROVE CommandOK(h)'
  <2>1. /\ asking' = asking \ {g} /\ EndsWith(g)
        /\ UNCHANGED <<bufferVars, new_len, writing, write_set, inbox, sockets>>
    BY <1>7 DEF Close
  <2>2. connection'[g] # "open" /\ (h # g => connection'[h] = connection[h])
    BY <1>1, <2>1 DEF EndsWith, IInv, TypeOK
  <2>3. Silent(h) => Silent(h)'
    BY <2>1, <2>2 DEF Silent
  <2>4. h \in inbox' => h \in sockets' /\ (h \in asking' \/ connection'[h] # "open")
    BY <2>1, <2>2 DEF CommandOK
  <2> QED
    BY <1>2, <2>1, <2>3, <2>4
<1>8. ASSUME NEW g \in Hosts, end_of_packet(g) PROVE CommandOK(h)'
  <2>1. /\ writing' = [writing EXCEPT !["simulation"] = send_event(g, "report")]
        /\ UNCHANGED <<bufferVars, new_len, write_set, asking, inbox, connection, sockets>>
    BY <1>8 DEF end_of_packet
  <2>2. writing'["main"] = writing["main"]
    BY <2>1 DEF IInv, WritingType, Threads
  <2> QED
    BY <1>2, <2>1, <2>2 DEF Silent, CommandOK
<1>9. CASE run_b1ee_server
  <2>1. /\ h \notin inbox' /\ connection'[h] # "open" /\ write_buffer_len'[h] = 0
        /\ writing'["main"] = <<>>
    BY <1>1, <1>9 DEF run_b1ee_server, Threads
  <2>2. BufferLen(h)' = 0 /\ Silent(h)'
    BY <2>1 DEF BufferLen, StoreTo, Silent
  <2> QED
    BY <2>1, <2>2 DEF CommandOK
<1>10. ASSUME NEW g \in Hosts,
              ServeCommand(g) \/ on_writable(g) \/ on_hci_connection(g) \/ Sweep(g)
       PROVE  CommandOK(h)'
  BY <1>1, <1>10, CommandServed, CommandSent, CommandEnds
<1>11. CASE BufferStep("main") \/ BufferStep("simulation")
  BY <1>1, <1>11, CommandMain, CommandSimulation
<1> QED
  BY <1>3, <1>4, <1>5, <1>6, <1>7, <1>8, <1>9, <1>10, <1>11
     DEF Next, poll, simulation, background_monitor_thread, BrokenPipe

\* The bytes to come, by the steps that are left.
LEMMA RestSignals ==
    ASSUME NEW left \in Seq(Steps), NEW h \in Hosts, NEW e \in {"answer", "report"},
           RestOf(left, h, e)
    PROVE  /\ Len(left) \in 0 .. 6
           /\ ToSignal(left) = IF Len(left) >= 4 THEN 2 ELSE IF Len(left) >= 1 THEN 1 ELSE 0
<1>1. PICK n \in Nat : n = Len(left)
  OBVIOUS
<1>2. n \in 0 .. 6
  <2>1. Len(left) <= 6
    BY Zenon DEF RestOf
  <2> QED
    BY <1>1, <2>1
<1>3. CASE n >= 1
  <2>1. left[n] = send_event(h, e)[n + 6 - n]
    BY <1>1, <1>3 DEF RestOf
  <2>2. n + 6 - n = 6
    OBVIOUS
  <2>3. send_event(h, e)[6] = [does |-> "signal", host |-> h]
    BY EventParts, Zenon
  <2>4. left[n].does = "signal"
    BY <2>1, <2>2, <2>3
  <2> QED
    BY <1>1, <1>2, <1>3, <2>4 DEF ToSignal
<1>4. CASE ~(n >= 1)
  BY <1>1, <1>2, <1>4 DEF ToSignal
<1> QED
  BY <1>3, <1>4

\* They are two at most, one for a step that writes one.
LEMMA SignalSteps ==
    ASSUME NEW left \in Seq(Steps), left # <<>>, NEW h \in Hosts,
           NEW e \in {"answer", "report"}, RestOf(left, h, e)
    PROVE  /\ ToSignal(left) \in {1, 2}
           /\ left[1].does = "signal" => ToSignal(Tail(left)) = ToSignal(left) - 1
           /\ left[1].does # "signal" => ToSignal(Tail(left)) = ToSignal(left)
<1>1. /\ Len(left) \in 1 .. 6 /\ RestOf(Tail(left), h, e)
      /\ Len(left) = 6 => left[1].does = "copy"
      /\ Len(left) = 5 => left[1].does = "store"
      /\ Len(left) = 4 => left[1].does = "signal"
      /\ Len(left) = 3 => left[1].does = "copy"
      /\ Len(left) = 2 => left[1].does = "store"
      /\ Len(left) = 1 => left[1].does = "signal"
  <2>1. Len(left) \in 1 .. 6
    BY RestSteps
  <2>2. RestOf(Tail(left), h, e)
    BY RestSteps
  <2>3. /\ Len(left) = 5 => left[1].does = "store"
        /\ Len(left) = 4 => left[1].does = "signal"
        /\ Len(left) = 2 => left[1].does = "store"
        /\ Len(left) = 1 => left[1].does = "signal"
    BY RestSteps
  <2>4. Len(left) = 6 => left[1].does = "copy"
    BY RestSteps
  <2>5. Len(left) = 3 => left[1].does = "copy"
    BY RestSteps
  <2> QED
    BY <2>1, <2>2, <2>3, <2>4, <2>5
<1>2. PICK n \in 1 .. 6 : n = Len(left)
  BY <1>1
<1>3. /\ RestOf(Tail(left), h, e)
      /\ n = 6 => left[1].does = "copy"
      /\ n = 5 => left[1].does = "store"
      /\ n = 4 => left[1].does = "signal"
      /\ n = 3 => left[1].does = "copy"
      /\ n = 2 => left[1].does = "store"
      /\ n = 1 => left[1].does = "signal"
  BY <1>1, <1>2, Zenon
<1>4. Tail(left) \in Seq(Steps) /\ Len(Tail(left)) = n - 1
  BY <1>2, OneStepLess
<1>5. ToSignal(left) = IF n >= 4 THEN 2 ELSE IF n >= 1 THEN 1 ELSE 0
  BY <1>2, RestSignals
<1>6. ToSignal(Tail(left)) = IF n - 1 >= 4 THEN 2 ELSE IF n - 1 >= 1 THEN 1 ELSE 0
  BY <1>3, <1>4, RestSignals
<1>7. n = 1 \/ n = 2 \/ n = 3 \/ n = 4 \/ n = 5 \/ n = 6
  OBVIOUS
<1> QED
  BY <1>3, <1>5, <1>6, <1>7

\* A thread that writes nothing adds no byte.
LEMMA NoSignals == ToSignal(<<>>) = 0
BY DEF ToSignal

\* What a thread has left to write into the pipe is a small number.
LEMMA SignalsType ==
    ASSUME IInv, ScriptInv
    PROVE  /\ ToSignal(writing["main"]) \in 0 .. 2
           /\ ToSignal(writing["simulation"]) \in 0 .. 2
           /\ writing["main"] = <<>> => ToSignal(writing["main"]) = 0
           /\ writing["simulation"] = <<>> => ToSignal(writing["simulation"]) = 0
           /\ pipe \in Nat /\ Bytes \in Nat
<1>1. pipe \in Nat
  BY PollAssumption DEF IInv, TypeOK
<1>2. ToSignal(writing["main"]) \in 0 .. 2 /\ ToSignal(writing["simulation"]) \in 0 .. 2
  BY DEF ToSignal
<1> QED
  BY <1>1, <1>2, NoSignals DEF Bytes

\* A byte that goes into the pipe was to go there.
LEMMA BytesStay ==
    ASSUME IInv, ScriptInv, NEW t \in Threads, BufferStep(t)
    PROVE  /\ Bytes' = Bytes
           /\ ToSignal(writing'["main"]) > 0 => ToSignal(writing["main"]) > 0
<1> USE DEF hostVars, flagVars, bufferVars, pollVars, threadVars
<1> DEFINE left == writing[t]
<1>1. left \in Seq(Steps) /\ left # <<>>
  BY DEF BufferStep, Copy, Store, Signal, Doing, IInv, WritingType
<1>2. /\ writing'[t] = Tail(left) /\ \A u \in Threads \ {t} : writing'[u] = writing[u]
  BY DEF BufferStep, Copy, Store, Signal, IInv, WritingType
<1>3. /\ left[1].does = "signal" => pipe' = pipe + 1
      /\ left[1].does # "signal" => pipe' = pipe
  <2>1. Head(left) = left[1]
    BY <1>1
  <2> QED
    BY <2>1 DEF BufferStep, Copy, Store, Signal, Doing
<1>4. Askers \subseteq Hosts /\ Listeners \subseteq Hosts
  BY PollAssumption
<1>5. /\ ToSignal(left) \in 0 .. 2
      /\ left[1].does = "signal" => ToSignal(Tail(left)) = ToSignal(left) - 1
      /\ left[1].does # "signal" => ToSignal(Tail(left)) = ToSignal(left)
  <2>1. CASE Len(left) = 1 /\ left[1].does = "store"
    <3>1. Tail(left) = <<>>
      BY <1>1, <2>1, NothingAfterOne
    <3>2. ToSignal(left) = 0
      BY <2>1 DEF ToSignal
    <3>3. ToSignal(Tail(left)) = 0
      BY <3>1, NoSignals, Zenon
    <3> HIDE DEF left
    <3> QED
      BY <2>1, <3>2, <3>3
  <2>2. ASSUME NEW h \in Hosts, NEW e \in {"answer", "report"}, RestOf(left, h, e)
        PROVE  /\ ToSignal(left) \in 0 .. 2
               /\ left[1].does = "signal" => ToSignal(Tail(left)) = ToSignal(left) - 1
               /\ left[1].does # "signal" => ToSignal(Tail(left)) = ToSignal(left)
    BY <1>1, <2>2, SignalSteps
  <2> QED
    BY <1>1, <1>4, <2>1, <2>2 DEF ScriptInv, Threads
<1>6. PICK a \in 0 .. 2, b \in Int : a = ToSignal(left) /\ b = ToSignal(Tail(left))
  <2>1. ToSignal(Tail(left)) \in Int
    BY <1>5
  <2> QED
    BY <1>5, <2>1
<1>7. pipe \in Nat
  BY SignalsType
<1> HIDE DEF left
<1>8. CASE t = "main"
  <2>1. /\ ToSignal(writing'["main"]) = b /\ ToSignal(writing["main"]) = a
        /\ writing'["simulation"] = writing["simulation"]
    BY <1>2, <1>6, <1>8 DEF Threads, left
  <2>2. ToSignal(writing["simulation"]) \in 0 .. 2
    BY SignalsType
  <2>3. pipe' + b = pipe + a /\ (b > 0 => a > 0)
    BY <1>3, <1>5, <1>6, <1>7
  <2>4. pipe' \in Nat
    BY <1>3, <1>7
  <2> QED
    BY <1>7, <2>1, <2>2, <2>3, <2>4 DEF Bytes
<1>9. CASE t = "simulation"
  <2>1. /\ ToSignal(writing'["simulation"]) = b /\ ToSignal(writing["simulation"]) = a
        /\ writing'["main"] = writing["main"]
    BY <1>2, <1>6, <1>9 DEF Threads, left
  <2>2. ToSignal(writing["main"]) \in 0 .. 2
    BY SignalsType
  <2>3. pipe' + b = pipe + a
    BY <1>3, <1>5, <1>6, <1>7
  <2>4. pipe' \in Nat
    BY <1>3, <1>7
  <2> QED
    BY <1>7, <2>1, <2>2, <2>3, <2>4 DEF Bytes
<1> QED
  BY <1>8, <1>9 DEF Threads

\* Steps that leave the pipe and the poll alone, and silence no host.
LEMMA RoomKept ==
    ASSUME RoomInv, UNCHANGED <<stage, pipe_set, sockets>>, Bytes' = Bytes,
           read_set' \subseteq read_set, write_set' \subseteq write_set,
           stage = "select" => UNCHANGED <<read_set, write_set, delete_pending>>,
           read_set' \cap delete_pending' = {} \/ stage # "serve",
           writing'["simulation"] # <<>> => writing["simulation"] # <<>>,
           ToSignal(writing'["main"]) > 0 => ToSignal(writing["main"]) > 0,
           \A h \in Askers \ read_set : h \in delete_pending' => h \in delete_pending,
           stage # "serve" => delete_pending' \subseteq delete_pending,
           \A h \in Askers : Silent(h) => Silent(h)' \/ (stage = "serve" /\ h \in write_set \ read_set)
    PROVE  RoomInv'
<1>1. ASSUME stage \in {"select", "sweep"}
      PROVE  /\ Bytes' <= PipeRoom + 2
             /\ Bytes' = PipeRoom + 2 => \E h \in Askers : Kept(h)'
  BY <1>1 DEF RoomInv, Kept
<1>2. ASSUME stage = "serve"
      PROVE  LET after == Bytes' - IF pipe_set THEN 1 ELSE 0
             IN  /\ after <= PipeRoom + 2
                 /\ ToSignal(writing'["main"]) > 0 \/ after = PipeRoom + 2 =>
                       \E h \in Askers : Kept(h)' /\ h \notin read_set' \cup write_set'
                 /\ after = PipeRoom + 1 =>
                       \A h \in Askers : h \notin read_set' \cap sockets \/ Silent(h)'
  <2> DEFINE after == Bytes - IF pipe_set THEN 1 ELSE 0
  <2>1. /\ after <= PipeRoom + 2
        /\ ToSignal(writing["main"]) > 0 \/ after = PipeRoom + 2 =>
              \E h \in Askers : Kept(h) /\ h \notin read_set \cup write_set
        /\ after = PipeRoom + 1 =>
              \A h \in Askers : h \notin read_set \cap sockets \/ Silent(h)
    BY <1>2 DEF RoomInv
  <2>2. ASSUME NEW h \in Askers, Kept(h), h \notin read_set \cup write_set
        PROVE  Kept(h)' /\ h \notin read_set' \cup write_set'
    BY <2>2 DEF Kept
  <2>3. ASSUME NEW h \in Askers, h \notin read_set \cap sockets \/ Silent(h)
        PROVE  h \notin read_set' \cap sockets \/ Silent(h)'
    BY <2>3
  <2> HIDE DEF after
  <2>4. /\ after <= PipeRoom + 2
        /\ ToSignal(writing'["main"]) > 0 \/ after = PipeRoom + 2 =>
              \E h \in Askers : Kept(h)' /\ h \notin read_set' \cup write_set'
        /\ after = PipeRoom + 1 =>
              \A h \in Askers : h \notin read_set' \cap sockets \/ Silent(h)'
    BY <2>1, <2>2, <2>3
  <2> QED
    BY <2>4 DEF after
<1>3. writing'["simulation"] # <<>> => PipeRoom >= 2
  BY DEF RoomInv
<1>4. stage = "select" => read_set' = sockets' \ delete_pending' /\ write_set' \subseteq read_set'
  BY DEF RoomInv
<1> QED
  BY <1>1, <1>2, <1>3, <1>4 DEF RoomInv

\* The pipe is empty at first.
LEMMA RoomInit == Init => RoomInv
<1> SUFFICES ASSUME Init PROVE RoomInv
  OBVIOUS
<1>1. /\ writing["main"] = <<>> /\ writing["simulation"] = <<>> /\ pipe = 0
      /\ stage = "select" /\ read_set = {} /\ write_set = {} /\ sockets = {}
  BY DEF Init, Threads
<1>2. Bytes = 0
  BY <1>1, NoSignals DEF Bytes
<1> QED
  BY <1>1, <1>2, PollAssumption DEF RoomInv

\* Steps that change neither what the threads write nor the pipe.
LEMMA RoomQuiet ==
    ASSUME IInv, ScriptInv, ConnectionInv, RoomInv, CommandInv, NEW g \in Hosts,
           \/ BeginRound \/ EndRound \/ UNCHANGED vars
           \/ AcknowledgeDeletion(g) \/ ServeError(g) \/ ServeEnd(g) \/ SendFails(g)
           \/ Connect(g) \/ SendCommand(g) \/ Close(g)
    PROVE  RoomInv'
<1> USE DEF hostVars, flagVars, bufferVars, pollVars, threadVars
<1>1. /\ UNCHANGED <<stage, pipe_set, sockets, writing, pipe>>
      /\ read_set' \subseteq read_set /\ write_set' \subseteq write_set
      /\ UNCHANGED <<read_set, write_set, delete_pending>> \/ stage = "serve"
      /\ delete_pending' \subseteq delete_pending \cup (read_set \ read_set')
  BY DEF vars, BeginRound, EndRound, AcknowledgeDeletion, ServeError, ServeEnd, SendFails,
     Connect, SendCommand, Close, ToRead, ToWrite, MainAt
<1>2. ASSUME NEW h \in Askers, Silent(h) PROVE Silent(h)'
  <2>1. h \in Hosts
    BY PollAssumption
  <2>2. CASE BeginRound \/ EndRound \/ AcknowledgeDeletion(g) \/ ServeEnd(g) \/ UNCHANGED vars
    BY <1>2, <2>2 DEF vars, BeginRound, EndRound, AcknowledgeDeletion, ServeEnd, Silent
  <2>3. CASE ServeError(g) \/ SendFails(g) \/ Connect(g)
    <3>1. /\ UNCHANGED <<inbox, asking>>
          /\ \/ connection' = [connection EXCEPT ![g] = "failed"]
             \/ connection' = [connection EXCEPT ![g] = "connecting"]
      BY <2>3 DEF ServeError, SendFails, Connect, ErrorRead
    <3> QED
      BY <1>2, <2>1, <3>1 DEF Silent, IInv, TypeOK
  <2>4. CASE SendCommand(g)
    BY <1>2, <2>4 DEF SendCommand, Silent
  <2>5. CASE Close(g)
    <3>1. /\ inbox' = inbox /\ asking' = asking \ {g}
          /\ EndsWith(g)
      BY <2>5 DEF Close
    <3>2. connection'[g] # "open" /\ (h # g => connection'[h] = connection[h])
      BY <2>1, <3>1 DEF EndsWith, IInv, TypeOK
    <3> QED
      BY <1>2, <3>1, <3>2 DEF Silent
  <2> QED
    BY <2>2, <2>3, <2>4, <2>5
<1>3. Bytes' = Bytes
  BY <1>1 DEF Bytes
<1>4. read_set' \cap delete_pending' = {} \/ stage # "serve"
  BY <1>1 DEF RoomInv
<1> QED
  BY <1>1, <1>2, <1>3, <1>4, RoomKept

\* A step of write_data.
LEMMA RoomWrites ==
    ASSUME IInv, ScriptInv, RoomInv, NEW t \in Threads, BufferStep(t)
    PROVE  RoomInv'
<1> USE DEF hostVars, flagVars, bufferVars, pollVars, threadVars
<1>1. UNCHANGED <<stage, pipe_set, sockets, delete_pending, read_set, write_set, inbox, asking, connection>>
  BY DEF BufferStep, Copy, Store, Signal
<1>2. /\ Bytes' = Bytes
      /\ ToSignal(writing'["main"]) > 0 => ToSignal(writing["main"]) > 0
  BY BytesStay
<1>3. writing'["simulation"] # <<>> => writing["simulation"] # <<>>
  BY DEF BufferStep, Copy, Store, Signal, Doing, IInv, WritingType, Threads
<1>4. read_set' \cap delete_pending' = {} \/ stage # "serve"
  BY <1>1 DEF RoomInv
<1> QED
  BY <1>1, <1>2, <1>3, <1>4, RoomKept DEF Silent

\* on_writable, which may let the host ask again.
LEMMA RoomSent ==
    ASSUME IInv, ScriptInv, RoomInv, NEW g \in Hosts, on_writable(g)
    PROVE  RoomInv'
<1> USE DEF hostVars, flagVars, bufferVars, pollVars, threadVars
<1>1. /\ UNCHANGED <<stage, pipe, pipe_set, sockets, delete_pending, read_set, inbox>>
      /\ stage = "serve" /\ g \in write_set \ read_set /\ write_set' = write_set \ {g}
      /\ writing["main"] = <<>>
  BY DEF on_writable, ToWrite, MainAt
<1> DEFINE step == [does |-> "store", host |-> g]
<1>2. writing' = [writing EXCEPT !["main"] = <<step>>]
  BY DEF on_writable
<1>3. ToSignal(<<step>>) = 0
  <2>1. step.does = "store"
    OBVIOUS
  <2> HIDE DEF step
  <2>2. Len(<<step>>) = 1 /\ <<step>>[1] = step
    OBVIOUS
  <2> QED
    BY <2>1, <2>2 DEF ToSignal
<1> HIDE DEF step
<1>4. writing'["main"] = <<step>> /\ writing'["simulation"] = writing["simulation"]
  BY <1>2 DEF IInv, WritingType, Threads
<1>5. ToSignal(writing'["main"]) = 0 /\ ToSignal(writing["main"]) = 0
  BY <1>1, <1>3, <1>4, NoSignals
<1>6. Bytes' = Bytes
  BY <1>1, <1>4, <1>5 DEF Bytes
<1>7. ASSUME NEW h \in Askers, h # g, Silent(h) PROVE Silent(h)'
  <2>1. h \in Hosts
    BY PollAssumption
  <2>2. connection'[h] = connection[h]
    BY <1>7, <2>1 DEF on_writable, EndsWith, IInv, TypeOK
  <2>3. h \in asking' <=> h \in asking
    <3>1. Sending(g) \in Nat
      BY SendType DEF IInv
    <3> QED
      BY <1>7, <3>1, ReceivedCells DEF on_writable
  <2> QED
    BY <1>1, <1>7, <2>2, <2>3 DEF Silent
<1>8. read_set' \cap delete_pending' = {}
  BY <1>1 DEF RoomInv
<1>9. \A h \in Askers : Silent(h) => Silent(h)' \/ (stage = "serve" /\ h \in write_set \ read_set)
  BY <1>1, <1>7
<1>10. /\ ToSignal(writing'["main"]) > 0 => ToSignal(writing["main"]) > 0
       /\ writing'["simulation"] # <<>> => writing["simulation"] # <<>>
  BY <1>4, <1>5
<1> QED
  BY <1>1, <1>6, <1>8, <1>9, <1>10, RoomKept

\* A command is taken: two bytes more, and a host that waits.
LEMMA RoomServed ==
    ASSUME OneAsker, IInv, ScriptInv, ConnectionInv, RoomInv, CommandInv,
           NEW g \in Hosts, ServeCommand(g)
    PROVE  RoomInv'
<1> USE DEF hostVars, flagVars, bufferVars, pollVars, threadVars
<1>1. /\ UNCHANGED <<stage, pipe, pipe_set, sockets, delete_pending, write_set, asking, connection>>
      /\ stage = "serve" /\ g \in sockets \cap read_set /\ g \in inbox
      /\ read_set' = read_set \ {g} /\ inbox' = inbox \ {g}
      /\ writing["main"] = <<>>
      /\ writing' = [writing EXCEPT !["main"] = send_event(g, "answer")]
  BY DEF ServeCommand, ToRead, MainAt
<1>2. g \in Askers /\ CommandOK(g)
  BY <1>1 DEF ScriptInv, CommandInv
<1>3. \A h \in Askers : h = g
  BY <1>2 DEF OneAsker
<1>4. ~Silent(g) /\ g \notin write_set /\ (g \in asking \/ connection[g] # "open")
  BY <1>1, <1>2 DEF CommandOK, Silent
<1>5. Silent(g)'
  BY <1>1, <1>4 DEF Silent
<1>6. g \notin delete_pending'
  BY <1>1 DEF RoomInv
<1>7. Kept(g)' /\ g \notin read_set' \cup write_set'
  BY <1>1, <1>4, <1>5, <1>6 DEF Kept
<1> DEFINE after == Bytes - IF pipe_set THEN 1 ELSE 0
<1>8. after <= PipeRoom
  <2>1. /\ after <= PipeRoom + 2
        /\ after = PipeRoom + 2 => \E h \in Askers : Kept(h) /\ h \notin read_set \cup write_set
        /\ after = PipeRoom + 1 => \A h \in Askers : h \notin read_set \cap sockets \/ Silent(h)
    BY <1>1 DEF RoomInv
  <2>2. after # PipeRoom + 2 /\ after # PipeRoom + 1
    BY <1>1, <1>2, <1>3, <1>4, <2>1
  <2>3. after \in Int /\ PipeRoom \in Nat
    BY SignalsType, PollAssumption
  <2> HIDE DEF after
  <2> QED
    BY <2>1, <2>2, <2>3
<1>9. writing'["main"] = send_event(g, "answer") /\ writing'["simulation"] = writing["simulation"]
  BY <1>1 DEF IInv, WritingType, Threads
<1>10. ToSignal(writing'["main"]) = 2 /\ ToSignal(writing["main"]) = 0
  <2> DEFINE ev == send_event(g, "answer")
  <2>1. RestOf(ev, g, "answer") /\ ev \in Seq(Steps) /\ Len(ev) = 6
    BY RestAtFirst, Zenon
  <2> HIDE DEF ev
  <2>2. ToSignal(ev) = 2
    BY <2>1, RestSignals
  <2> QED
    BY <1>1, <1>9, <2>2, NoSignals DEF ev
<1>11. Bytes' = Bytes + 2
  <2>1. ToSignal(writing["simulation"]) \in 0 .. 2 /\ pipe \in Nat
    BY SignalsType
  <2> QED
    BY <1>1, <1>9, <1>10, <2>1 DEF Bytes
<1>12. /\ Bytes' - (IF pipe_set THEN 1 ELSE 0) <= PipeRoom + 2
  BY <1>8, <1>11, SignalsType, PollAssumption
<1>13. read_set' \cap delete_pending' = {}
  BY <1>1 DEF RoomInv
<1>14. \A h \in Askers : h \notin read_set' \cap sockets' \/ Silent(h)'
  BY <1>3, <1>7
<1>15. \E h \in Askers : Kept(h)' /\ h \notin read_set' \cup write_set'
  BY <1>2, <1>7
<1>16. writing'["simulation"] # <<>> => PipeRoom >= 2
  BY <1>9 DEF RoomInv
<1> QED
  BY <1>1, <1>12, <1>13, <1>14, <1>15, <1>16 DEF RoomInv

\* select: what it finds in the pipe is taken out at the end of the round.
LEMMA RoomSelect ==
    ASSUME OneAsker, IInv, ScriptInv, ConnectionInv, RoomInv, Select
    PROVE  RoomInv'
<1> USE DEF hostVars, flagVars, bufferVars, pollVars, threadVars
<1>1. /\ UNCHANGED <<sockets, delete_pending, pipe, write_set, writing, inbox, asking, connection>>
      /\ stage = "select" /\ stage' = "serve" /\ writing["main"] = <<>>
      /\ pipe_set' = (pipe_set /\ pipe > 0)
      /\ read_set' \subseteq read_set \cup Arriving
  BY DEF Select, MainAt
<1>2. /\ Bytes <= PipeRoom + 2
      /\ Bytes = PipeRoom + 2 => \E h \in Askers : Kept(h)
      /\ read_set = sockets \ delete_pending /\ write_set \subseteq read_set
      /\ writing["simulation"] # <<>> => PipeRoom >= 2
  BY <1>1 DEF RoomInv
<1>3. \A h \in Arriving : h \notin sockets
  BY DEF Arriving, ConnectionInv
<1>4. Arriving \cap delete_pending = {}
  BY <1>3 DEF IInv, TypeOK
<1>5. read_set' \cap delete_pending' = {}
  BY <1>1, <1>2, <1>4
<1>6. pipe_set <=> \E h \in sockets : h \in sockets \ delete_pending
  BY <1>1 DEF IInv, AwakeInv, is_active
<1>7. ToSignal(writing["main"]) = 0 /\ ToSignal(writing'["main"]) = 0 /\ Bytes' = Bytes
  BY <1>1, NoSignals DEF Bytes
<1>8. PICK r \in 0 .. 2 :
         r = ToSignal(writing["simulation"]) /\ (r > 0 => PipeRoom >= 2) /\ Bytes = pipe + r
  <2>1. ToSignal(writing["simulation"]) \in 0 .. 2 /\ pipe \in Nat
    BY SignalsType
  <2>2. ToSignal(writing["simulation"]) > 0 => writing["simulation"] # <<>>
    BY NoSignals
  <2>3. Bytes = pipe + ToSignal(writing["simulation"])
    BY <1>7, <2>1 DEF Bytes
  <2> QED
    BY <1>2, <2>1, <2>2, <2>3
<1> DEFINE after == Bytes' - IF pipe_set' THEN 1 ELSE 0
<1>9. PICK d \in {0, 1} : after = Bytes - d /\ (d = 1 <=> pipe_set /\ pipe > 0)
  <2>1. CASE pipe_set'
    BY <1>1, <1>7, <2>1
  <2>2. CASE ~pipe_set'
    <3>1. Bytes \in Nat
      BY SignalsType
    <3>2. after = Bytes - 0
      BY <1>7, <2>2, <3>1
    <3>3. ~(pipe_set /\ pipe > 0)
      BY <1>1, <2>2
    <3>4. 0 = 1 <=> pipe_set /\ pipe > 0
      BY <3>3
    <3> HIDE DEF after
    <3> QED
      BY <3>2, <3>4
  <2> QED
    BY <2>1, <2>2
<1>10. pipe \in Nat /\ PipeRoom \in Nat
  BY SignalsType, PollAssumption
<1> HIDE DEF after
<1>11. Bytes = PipeRoom + 2 => d = 1 /\ \E h \in Askers : Kept(h)
  <2> SUFFICES ASSUME Bytes = PipeRoom + 2 PROVE d = 1 /\ \E h \in Askers : Kept(h)
    OBVIOUS
  <2>1. PICK h \in Askers : Kept(h)
    BY <1>2
  <2>2. pipe_set
    BY <1>6, <2>1 DEF Kept
  <2>3. pipe > 0
    BY <1>8, <1>10
  <2> QED
    BY <1>9, <2>1, <2>2, <2>3
<1>12. after <= PipeRoom + 2 /\ after # PipeRoom + 2
  <2>1. Bytes \in Nat
    BY SignalsType
  <2> QED
    BY <1>2, <1>9, <1>10, <1>11, <2>1
<1>13. ASSUME after = PipeRoom + 1, NEW h \in Askers
       PROVE  h \notin read_set' \cap sockets' \/ Silent(h)'
  <2>1. CASE Bytes = PipeRoom + 2
    <3>1. PICK a \in Askers : Kept(a)
      BY <1>11, <2>1
    <3>2. a = h
      BY DEF OneAsker
    <3> QED
      BY <1>1, <3>1, <3>2 DEF Kept, Silent
  <2>2. CASE Bytes # PipeRoom + 2
    <3>1. d = 0 /\ Bytes = PipeRoom + 1
      <4>1. Bytes \in Nat
        BY SignalsType
      <4> QED
        BY <1>2, <1>9, <1>10, <1>13, <2>2, <4>1
    <3>2. pipe > 0
      BY <1>8, <1>10, <3>1
    <3>3. ~pipe_set
      BY <1>9, <3>1, <3>2
    <3>4. sockets \ delete_pending = {}
      BY <1>6, <3>3
    <3>5. read_set' \subseteq Arriving
      BY <1>1, <1>2, <3>4
    <3> QED
      BY <1>1, <1>3, <3>5
  <2> QED
    BY <2>1, <2>2
<1>14. writing'["simulation"] # <<>> => PipeRoom >= 2
  BY <1>1, <1>2
<1> QED
  BY <1>1, <1>5, <1>7, <1>12, <1>13, <1>14 DEF RoomInv, after

\* The sets are filled again; the byte is read from the pipe.
LEMMA RoomPolls ==
    ASSUME IInv, ScriptInv, RoomInv, SelectTimeout \/ Swept \/ DrainPipe
    PROVE  RoomInv'
<1> USE DEF hostVars, flagVars, bufferVars, pollVars, threadVars
<1>1. /\ UNCHANGED <<sockets, delete_pending, writing, inbox, asking, connection>>
      /\ writing["main"] = <<>>
  BY DEF SelectTimeout, Swept, DrainPipe, FillSets, MainAt
<1>2. \A h \in Askers : Kept(h)' <=> Kept(h)
  BY <1>1 DEF Kept, Silent
<1>3. writing'["simulation"] # <<>> => PipeRoom >= 2
  BY <1>1 DEF RoomInv
<1>4. CASE SelectTimeout \/ Swept
  <2>1. /\ stage' = "select" /\ stage \in {"select", "sweep"} /\ pipe' = pipe
        /\ read_set' = sockets \ delete_pending /\ write_set' \subseteq read_set'
    BY <1>4 DEF SelectTimeout, Swept, FillSets, MainAt, is_active
  <2>2. Bytes' = Bytes
    BY <1>1, <2>1 DEF Bytes
  <2> QED
    BY <1>1, <1>2, <1>3, <2>1, <2>2 DEF RoomInv
<1>5. CASE DrainPipe
  <2>1. /\ stage = "serve" /\ stage' = "sweep"
        /\ pipe' = IF pipe_set THEN pipe - 1 ELSE pipe
    BY <1>5 DEF DrainPipe, MainAt, AfterRead
  <2>2. /\ ToSignal(writing["main"]) \in 0 .. 2 /\ ToSignal(writing["simulation"]) \in 0 .. 2
        /\ pipe \in Nat
    BY SignalsType
  <2>3. Bytes' = Bytes - IF pipe_set THEN 1 ELSE 0
    BY <1>1, <2>1, <2>2 DEF Bytes
  <2> DEFINE after == Bytes - IF pipe_set THEN 1 ELSE 0
  <2>4. /\ after <= PipeRoom + 2
        /\ after = PipeRoom + 2 => \E h \in Askers : Kept(h)
    BY <2>1 DEF RoomInv
  <2> QED
    BY <1>2, <1>3, <2>1, <2>3, <2>4 DEF RoomInv
<1> QED
  BY <1>4, <1>5

\* Controllers come and go.
LEMMA RoomEnds ==
    ASSUME IInv, ScriptInv, ConnectionInv, RoomInv, NEW g \in Hosts,
           on_hci_connection(g) \/ Sweep(g)
    PROVE  RoomInv'
<1> USE DEF hostVars, flagVars, bufferVars, pollVars, threadVars
<1>1. UNCHANGED <<stage, writing, asking, pipe, pipe_set, write_set>>
  BY DEF on_hci_connection, Sweep, Deleted
<1>2. Bytes' = Bytes
  BY <1>1 DEF Bytes
<1>3. ASSUME NEW h \in Askers, h # g, Silent(h) PROVE Silent(h)'
  <2>1. h \in Hosts
    BY PollAssumption
  <2>2. connection'[h] = connection[h] /\ (h \in inbox' => h \in inbox)
    BY <1>3, <2>1 DEF on_hci_connection, Sweep, Deleted, IInv, TypeOK
  <2> QED
    BY <1>1, <1>3, <2>2 DEF Silent
<1>4. writing'["simulation"] # <<>> => PipeRoom >= 2
  BY <1>1 DEF RoomInv
<1>5. CASE on_hci_connection(g)
  <2>1. /\ stage = "serve" /\ g \notin sockets /\ sockets' = sockets \cup {g}
        /\ read_set' = read_set \ {g} /\ delete_pending' = delete_pending
    BY <1>5 DEF on_hci_connection, MainAt
  <2>2. ASSUME NEW h \in Askers, Kept(h) PROVE Kept(h)'
    BY <1>3, <2>1, <2>2 DEF Kept
  <2>3. ASSUME NEW h \in Askers, h \notin read_set \cap sockets \/ Silent(h)
        PROVE  h \notin read_set' \cap sockets' \/ Silent(h)'
    BY <1>3, <2>1, <2>3
  <2> DEFINE after == Bytes - IF pipe_set THEN 1 ELSE 0
  <2>4. /\ read_set \cap delete_pending = {} /\ after <= PipeRoom + 2
        /\ ToSignal(writing["main"]) > 0 \/ after = PipeRoom + 2 =>
              \E h \in Askers : Kept(h) /\ h \notin read_set \cup write_set
        /\ after = PipeRoom + 1 =>
              \A h \in Askers : h \notin read_set \cap sockets \/ Silent(h)
    BY <2>1 DEF RoomInv
  <2>5. after = Bytes' - IF pipe_set' THEN 1 ELSE 0
    BY <1>1, <1>2
  <2> HIDE DEF after
  <2>6. /\ read_set' \cap delete_pending' = {}
        /\ ToSignal(writing'["main"]) > 0 \/ after = PipeRoom + 2 =>
              \E h \in Askers : Kept(h)' /\ h \notin read_set' \cup write_set'
        /\ after = PipeRoom + 1 =>
              \A h \in Askers : h \notin read_set' \cap sockets' \/ Silent(h)'
    BY <1>1, <2>1, <2>2, <2>3, <2>4
  <2> QED
    BY <1>1, <1>4, <2>1, <2>4, <2>5, <2>6 DEF RoomInv
<1>6. CASE Sweep(g)
  <2>1. /\ stage = "sweep" /\ g \in delete_pending /\ sockets' = sockets \ {g}
        /\ delete_pending' = delete_pending \ {g}
    BY <1>6 DEF Sweep, Deleted, MainAt, is_delete_ready
  <2>2. ASSUME NEW h \in Askers, Kept(h) PROVE Kept(h)'
    BY <1>3, <2>1, <2>2 DEF Kept
  <2> QED
    BY <1>1, <1>2, <1>4, <2>1, <2>2 DEF RoomInv
<1> QED
  BY <1>5, <1>6

\* A report is added only while there is room for it.
LEMMA RoomReport ==
    ASSUME OneAsker, IInv, ScriptInv, RoomInv, NEW g \in Hosts, end_of_packet(g)
    PROVE  RoomInv'
<1> USE DEF hostVars, flagVars, bufferVars, pollVars, threadVars
<1>1. /\ UNCHANGED <<stage, sockets, delete_pending, pipe, pipe_set, read_set, write_set,
                     inbox, asking, connection>>
      /\ writing["simulation"] = <<>> /\ pipe + 2 <= PipeRoom
      /\ writing' = [writing EXCEPT !["simulation"] = send_event(g, "report")]
  BY DEF end_of_packet, InRound
<1>2. writing'["simulation"] = send_event(g, "report") /\ writing'["main"] = writing["main"]
  BY <1>1 DEF IInv, WritingType, Threads
<1>3. ToSignal(writing'["simulation"]) = 2
  <2> DEFINE ev == send_event(g, "report")
  <2>1. RestOf(ev, g, "report") /\ ev \in Seq(Steps) /\ Len(ev) = 6
    BY RestAtFirst, Zenon
  <2> HIDE DEF ev
  <2>2. ToSignal(ev) = IF Len(ev) >= 4 THEN 2 ELSE IF Len(ev) >= 1 THEN 1 ELSE 0
    BY <2>1, RestSignals, Zenon
  <2>3. ToSignal(ev) = 2
    BY <2>1, <2>2
  <2> QED
    BY <1>2, <2>3 DEF ev
<1>4. PICK m \in 0 .. 2 : m = ToSignal(writing["main"]) /\ (writing["main"] = <<>> => m = 0)
  BY SignalsType
<1>5. pipe \in Nat /\ PipeRoom \in Nat
  BY SignalsType, PollAssumption
<1>6. Bytes' = pipe + m + 2 /\ Bytes' <= PipeRoom + m
  <2>1. Bytes' = pipe + m + 2
    BY <1>1, <1>2, <1>3, <1>4 DEF Bytes
  <2> QED
    BY <1>1, <1>5, <2>1
<1>7. \A h \in Askers : (Kept(h)' <=> Kept(h)) /\ (Silent(h)' <=> Silent(h))
  BY <1>1 DEF Kept, Silent
<1>8. PipeRoom >= 2
  BY <1>1, <1>5
<1>9. CASE stage \in {"select", "sweep"}
  <2>1. m = 0
    BY <1>4, <1>9 DEF IInv, StageInv
  <2>2. Bytes' <= PipeRoom + 2 /\ Bytes' # PipeRoom + 2
    BY <1>5, <1>6, <2>1
  <2> QED
    BY <1>1, <1>8, <1>9, <2>2 DEF RoomInv
<1>10. CASE stage = "serve"
  <2> DEFINE after == Bytes' - IF pipe_set' THEN 1 ELSE 0
  <2>1. after \in Int /\ after <= PipeRoom + m
    BY <1>5, <1>6
  <2>2. m > 0 => \E h \in Askers : Kept(h) /\ h \notin read_set \cup write_set
    BY <1>4, <1>10 DEF RoomInv
  <2> HIDE DEF after
  <2>3. after <= PipeRoom + 2
    BY <1>5, <2>1
  <2>4. m > 0 \/ after = PipeRoom + 2 =>
           \E h \in Askers : Kept(h)' /\ h \notin read_set' \cup write_set'
    BY <1>1, <1>5, <1>7, <2>1, <2>2
  <2>5. ASSUME after = PipeRoom + 1, NEW h \in Askers
        PROVE  h \notin read_set' \cap sockets' \/ Silent(h)'
    <3>1. m > 0
      BY <1>5, <2>1, <2>5
    <3>2. PICK a \in Askers : Kept(a) /\ a \notin read_set \cup write_set
      BY <2>2, <3>1
    <3>3. a = h
      BY DEF OneAsker
    <3> QED
      BY <1>1, <3>2, <3>3
  <2>6. read_set' \cap delete_pending' = {}
    BY <1>1, <1>10 DEF RoomInv
  <2>7. ToSignal(writing'["main"]) = m
    BY <1>2, <1>4
  <2> QED
    BY <1>1, <1>8, <1>10, <2>3, <2>4, <2>5, <2>6, <2>7 DEF RoomInv, after
<1> QED
  BY <1>9, <1>10 DEF IInv, TypeOK

\* Every step.
LEMMA RoomNext ==
    ASSUME OneAsker, IInv, ScriptInv, ConnectionInv, CommandInv, RoomInv, [Next]_vars
    PROVE  CommandInv' /\ RoomInv'
<1>1. CommandInv'
  BY CommandNext DEF CommandInv
<1>2. CASE run_b1ee_server
  <2>1. /\ writing'["main"] = <<>> /\ writing'["simulation"] = <<>> /\ pipe' = 0
        /\ stage' = "select" /\ read_set' = {} /\ write_set' = {} /\ sockets' = {}
    BY <1>2 DEF run_b1ee_server, Threads
  <2>2. Bytes' = 0
    BY <2>1, NoSignals DEF Bytes
  <2> QED
    BY <1>1, <2>1, <2>2, PollAssumption DEF RoomInv
<1>3. CASE BufferStep("main") \/ BufferStep("simulation")
  BY <1>1, <1>3, RoomWrites DEF Threads
<1>4. CASE Select \/ SelectTimeout \/ Swept \/ DrainPipe
  BY <1>1, <1>4, RoomSelect, RoomPolls
<1>5. CASE BeginRound \/ EndRound \/ UNCHANGED vars
  <2>1. CASE Hosts = {}
    <3>1. UNCHANGED <<stage, pipe_set, sockets, writing, pipe, read_set, write_set,
                      delete_pending, inbox, asking, connection>>
      BY <1>5 DEF vars, BeginRound, EndRound, hostVars, flagVars, bufferVars, pollVars, threadVars
    <3>2. Bytes' = Bytes /\ (\A h \in Askers : (Kept(h)' <=> Kept(h)) /\ (Silent(h)' <=> Silent(h)))
      BY <3>1 DEF Bytes, Kept, Silent
    <3> QED
      BY <1>1, <3>1, <3>2 DEF RoomInv
  <2>2. CASE Hosts # {}
    BY <1>1, <1>5, <2>2, RoomQuiet
  <2> QED
    BY <2>1, <2>2
<1>6. ASSUME NEW g \in Hosts,
             \/ AcknowledgeDeletion(g) \/ ServeError(g) \/ ServeEnd(g) \/ SendFails(g)
             \/ Connect(g) \/ SendCommand(g) \/ Close(g)
      PROVE  RoomInv'
  BY <1>6, RoomQuiet
<1>7. ASSUME NEW g \in Hosts,
             \/ ServeCommand(g) \/ on_writable(g) \/ on_hci_connection(g) \/ Sweep(g)
             \/ end_of_packet(g)
      PROVE  RoomInv'
  BY <1>7, RoomServed, RoomSent, RoomEnds, RoomReport
<1> QED
  BY <1>1, <1>2, <1>3, <1>4, <1>5, <1>6, <1>7
     DEF Next, poll, simulation, background_monitor_thread, BrokenPipe

\* The main thread puts two bytes into the pipe with each answer and takes one out
\* in each poll: with one host that asks, which does not scan, it never waits for
\* room in a pipe that reports do not fill to its last three bytes.
THEOREM MainNeverWaits ==
    ASSUME OneAsker, RoomToAnswer
    PROVE  Spec => []MainNeverBlocks
<1> DEFINE PipeInv == CommandInv /\ RoomInv
<1>1. Init => PipeInv
  BY CommandInit, RoomInit
<1>2. (IInv /\ ScriptInv /\ ConnectionInv) /\ PipeInv /\ [Next]_vars => PipeInv'
  BY RoomNext
<1>3. Spec => []PipeInv
  BY <1>1, <1>2, PlaceHolds, PTL DEF Spec
<1>4. (IInv /\ ScriptInv /\ ConnectionInv) /\ PipeInv => MainNeverBlocks
  <2> SUFFICES ASSUME IInv, ScriptInv, RoomInv, Doing("main", "signal")
               PROVE  pipe < PipeSize
    BY DEF MainNeverBlocks
  <2> DEFINE left == writing["main"]
  <2>1. left # <<>> /\ left \in Seq(Steps) /\ Head(left) = left[1] /\ left[1].does = "signal"
    BY DEF Doing, IInv, WritingType, Threads
  <2>2. ToSignal(left) >= 1
    <3>1. left[1].does # "store"
      BY <2>1
    <3>2. PICK h \in Askers : RestOf(left, h, "answer")
      BY <2>1, <3>1 DEF ScriptInv
    <3>3. h \in Hosts
      BY PollAssumption
    <3> HIDE DEF left
    <3>4. ToSignal(left) \in {1, 2}
      BY <2>1, <3>2, <3>3, SignalSteps
    <3> QED
      BY <3>4
  <2>3. stage = "serve"
    BY <2>1 DEF IInv, StageInv, TypeOK
  <2>4. Bytes - (IF pipe_set THEN 1 ELSE 0) <= PipeRoom + 2
    BY <2>3 DEF RoomInv
  <2>5. /\ ToSignal(writing["main"]) \in 0 .. 2 /\ ToSignal(writing["simulation"]) \in 0 .. 2
        /\ pipe \in Nat /\ PipeRoom \in Nat /\ PipeSize \in Nat
    BY SignalsType, PollAssumption
  <2>6. Bytes <= PipeRoom + 3
    BY <2>4, <2>5 DEF Bytes
  <2> QED
    BY <2>2, <2>5, <2>6 DEF Bytes, RoomToAnswer
<1> QED
  BY <1>3, <1>4, PlaceHolds, PTL
==============================================================================
