----------------------------- MODULE SocketPoll -----------------------------
(***************************************************************************)
(* The process seen from its sockets: Socket::poll, which the main thread  *)
(* repeats, with the connections it accepts, serves and deletes, and the   *)
(* simulation thread, which writes reports into the same write buffers and *)
(* acknowledges deletions (server/src/socket.cpp, socket.h,                *)
(* client_socket.cpp, listen_socket.cpp, main.cpp and the parts of         *)
(* phylayer.cpp and lowerhci.cpp that touch sockets).                      *)
(*                                                                         *)
(* A thread adds to a write buffer with write_data: the bytes are copied   *)
(* behind the buffer's length, the length is new_len, then stored, and a    *)
(* byte goes into a pipe, so that select wakes; that write blocks while    *)
(* the pipe is full.  on_writable loads and stores the same length, with   *)
(* no lock.  An event is two calls of write_data.                          *)
(*                                                                         *)
(* The process ends when a connection that was reset is written to, for    *)
(* SIGPIPE is not ignored, or when its executable is replaced, and         *)
(* run_b1ee_server starts it again.  The controller behind the sockets is  *)
(* in LowerHCI.tla and LinkLayer.tla: here a command has an answer, and a  *)
(* host that listens may be sent a report.                                 *)
(***************************************************************************)
EXTENDS Integers, FiniteSets, Sequences

CONSTANTS
    Hosts,          \* each has one connection at a time
    Askers,         \* the hosts that send commands
    Listeners,      \* the hosts that scan, and so may be sent reports
    Resetting,      \* the hosts whose connections may be reset
    Watched,        \* the hosts whose streams the properties look at
    BufferSize,     \* BUFFER_SIZE: chunks that are sent at once
    PipeSize,       \* 65536: bytes the pipe holds
    PipeRoom,       \* bound: bytes in the pipe when a report has come on top
    MaxBuffer       \* bound: chunks in a buffer to which a report is added

ASSUME PollAssumption ==
    /\ Askers \cup Listeners \cup Resetting \cup Watched \subseteq Hosts
    /\ BufferSize \in Nat \ {0} /\ PipeSize \in Nat \ {0} /\ PipeRoom \in Nat /\ MaxBuffer \in Nat

VARIABLES
    connection,     \* none, connecting, open, closed by the host, broken (it was
                    \* reset) or failed (and an error of it has been reported)
    asking,         \* hosts that wait for the answer to a command
    inbox,          \* hosts whose command has not been read yet
    incoming,       \* per host: the chunk that came last
    garbled,        \* hosts that got parameters which are not the header's
    sockets,        \* the Controller objects in all_sockets
    delete_pending, delete_ready,
    write_buffer,   \* per host: the chunks in the block, stale ones too
    write_buffer_len,
    pipe,           \* bytes in the pipe
    stage,          \* where the main thread is in Socket::poll
    read_set, write_set, pipe_set,
    phy,            \* the simulation thread: asleep, or in a round
    writing,        \* per thread: what is left to do to a write buffer
    new_len         \* per thread: the length it has computed, until it is stored

hostVars == <<connection, asking, inbox, incoming, garbled>>
flagVars == <<delete_pending, delete_ready>>
pollVars == <<stage, read_set, write_set, pipe_set>>
bufferVars == <<write_buffer, write_buffer_len>>
threadVars == <<phy, writing, new_len>>
vars == <<hostVars, sockets, flagVars, bufferVars, pipe, pollVars, threadVars>>

Threads == {"main", "simulation"}

\* What a host has received before anything: no event is begun.
Nothing == [event |-> "none", part |-> "parameters"]

\* What lies in the block where nothing was copied, or was sent already.
Stale == [event |-> "stale", part |-> "parameters"]

Cell(h, i) == IF i <= Len(write_buffer[h]) THEN write_buffer[h][i] ELSE Stale

CopiedTo(h, i, chunk) ==
    [k \in 1 .. IF i > Len(write_buffer[h]) THEN i ELSE Len(write_buffer[h]) |->
        IF k = i THEN chunk ELSE Cell(h, k)]

\* The steps of a call of write_data.
SlipSignalFirst(h, chunk) ==
    <<[does |-> "signal", host |-> h], [does |-> "copy", host |-> h, chunk |-> chunk],
      [does |-> "store", host |-> h]>>

write_data(h, chunk) ==
    <<[does |-> "copy", host |-> h, chunk |-> chunk], [does |-> "store", host |-> h],
      [does |-> "signal", host |-> h]>>

send_event(h, event) ==
    write_data(h, [event |-> event, part |-> "header"])
        \o write_data(h, [event |-> event, part |-> "parameters"])
-----------------------------------------------------------------------------
(* What both threads do to a write buffer.                                 *)

Doing(t, what) == writing[t] # <<>> /\ Head(writing[t]).does = what

\* The length is read for the place of the copy and for the addition.
Copy(t) ==
    /\ Doing(t, "copy")
    /\ LET do == Head(writing[t])
       IN  /\ write_buffer' = [write_buffer EXCEPT ![do.host] =
                 CopiedTo(do.host, write_buffer_len[do.host] + 1, do.chunk)]
           /\ new_len' = [new_len EXCEPT ![t] = write_buffer_len[do.host] + 1]
    /\ writing' = [writing EXCEPT ![t] = Tail(@)]
    /\ UNCHANGED <<hostVars, sockets, flagVars, write_buffer_len, pipe, pollVars, phy>>

Store(t) ==
    /\ Doing(t, "store")
    /\ write_buffer_len' = [write_buffer_len EXCEPT ![Head(writing[t]).host] = new_len[t]]
    /\ new_len' = [new_len EXCEPT ![t] = 0]
    /\ writing' = [writing EXCEPT ![t] = Tail(@)]
    /\ UNCHANGED <<hostVars, sockets, flagVars, write_buffer, pipe, pollVars, phy>>

Signal(t) ==
    /\ Doing(t, "signal")
    /\ pipe < PipeSize
    /\ pipe' = pipe + 1
    /\ writing' = [writing EXCEPT ![t] = Tail(@)]
    /\ UNCHANGED <<hostVars, sockets, flagVars, bufferVars, pollVars, phy, new_len>>

BufferStep(t) == Copy(t) \/ Store(t) \/ Signal(t)
-----------------------------------------------------------------------------
(* The main thread: Socket::poll.                                          *)

MainAt(s) == stage = s /\ writing["main"] = <<>>

is_active(h) == h \in sockets \ delete_pending

\* poll is called again: the sets that select is to watch.  The pipe is watched
\* only if its number is below max_fd + 1, which a client's always exceeds.
FillSets ==
    /\ stage' = "select"
    /\ read_set' = {h \in sockets : is_active(h)}
    /\ write_set' = {h \in sockets : is_active(h) /\ write_buffer_len[h] > 0}
    /\ pipe_set' = \E h \in sockets : is_active(h)

Gone(h) == connection[h] \in {"closed", "broken", "failed"}

Readable(h) == h \in inbox \/ Gone(h)

Arriving == {h \in Hosts : connection[h] = "connecting"}

\* What select would wake for; accept takes one connection at a time.
SomethingReady ==
    \/ \E h \in read_set : Readable(h)
    \/ write_set # {}
    \/ pipe_set /\ pipe > 0
    \/ Arriving # {}

Select ==
    /\ MainAt("select")
    /\ SomethingReady
    /\ stage' = "serve"
    /\ \E a \in {x \in SUBSET Arriving : Cardinality(x) = IF Arriving = {} THEN 0 ELSE 1} :
          read_set' = {h \in read_set : Readable(h)} \cup a
    /\ pipe_set' = (pipe_set /\ pipe > 0)
    /\ UNCHANGED <<hostVars, sockets, flagVars, bufferVars, pipe, write_set, threadVars>>

\* After sixty seconds poll returns without a look at what may be deleted.
SelectTimeout ==
    /\ MainAt("select")
    /\ ~SomethingReady
    /\ FillSets
    /\ UNCHANGED <<hostVars, sockets, flagVars, bufferVars, pipe, threadVars>>

ToRead(h) == MainAt("serve") /\ h \in sockets \cap read_set /\ read_set' = read_set \ {h}

\* on_readable of a controller: the host's command is carried out and answered.
ServeCommand(h) ==
    /\ ToRead(h)
    /\ h \in inbox
    /\ inbox' = inbox \ {h}
    /\ writing' = [writing EXCEPT !["main"] = send_event(h, "answer")]
    /\ UNCHANGED <<connection, asking, incoming, garbled, sockets, flagVars,
                   bufferVars, pipe, stage, write_set, pipe_set, phy, new_len>>

\* recv reports an error once and the end of the stream from then on.
SlipErrorForEver(h) == connection

ErrorRead(h) == [connection EXCEPT ![h] = "failed"]

ServeError(h) ==
    /\ ToRead(h)
    /\ h \notin inbox /\ connection[h] = "broken"
    /\ connection' = ErrorRead(h)
    /\ UNCHANGED <<asking, inbox, incoming, garbled, sockets, flagVars, bufferVars,
                   pipe, stage, write_set, pipe_set, threadVars>>

SlipEndOnlyReady(h) ==
    /\ ToRead(h)
    /\ h \notin inbox /\ connection[h] \in {"closed", "failed"}
    /\ delete_ready' = delete_ready \cup {h}
    /\ UNCHANGED <<hostVars, sockets, delete_pending, bufferVars, pipe, stage,
                   write_set, pipe_set, threadVars>>

ServeEnd(h) ==
    /\ ToRead(h)
    /\ h \notin inbox /\ connection[h] \in {"closed", "failed"}
    /\ delete_pending' = delete_pending \cup {h}
    /\ UNCHANGED <<hostVars, sockets, delete_ready, bufferVars, pipe, stage,
                   write_set, pipe_set, threadVars>>

ToWrite(h) == MainAt("serve") /\ h \in write_set \ read_set

\* In order, or by a reset.
EndsWith(h) ==
    \E c \in {"closed"} \cup {b \in {"broken"} : h \in Resetting} :
        connection' = [connection EXCEPT ![h] = c]

\* on_writable: send takes all it is given, for the sockets block; the rest is
\* moved to the front, and the length is made less.  A host that has closed
\* answers what is sent to it with a reset, which may be late.
Sending(h) == IF write_buffer_len[h] > BufferSize THEN BufferSize ELSE write_buffer_len[h]

Follows(c, d) ==
    IF c.part = "header" THEN d = [c EXCEPT !.part = "parameters"] ELSE d.part = "header"

Received(h, n) ==
    LET got == <<incoming[h]>> \o [k \in 1 .. n |-> Cell(h, k)]
    IN  /\ incoming' = [incoming EXCEPT ![h] = IF h \in Watched THEN got[n + 1] ELSE @]
        /\ garbled' = garbled \cup {g \in {h} \cap Watched : \E k \in 1 .. n : ~Follows(got[k], got[k + 1])}
        /\ asking' = asking \ {g \in {h} : \E k \in 2 .. n + 1 :
                                  got[k] = [event |-> "answer", part |-> "parameters"]}

Unsent(h, n) == SubSeq(write_buffer[h], n + 1, Len(write_buffer[h]))

SlipSameLen(h, n) == write_buffer_len[h]

UnsentLen(h, n) == write_buffer_len[h] - n

on_writable(h) ==
    /\ ToWrite(h)
    /\ write_set' = write_set \ {h}
    /\ write_buffer' = [write_buffer EXCEPT ![h] = Unsent(h, Sending(h))]
    /\ writing' = [writing EXCEPT !["main"] = <<[does |-> "store", host |-> h]>>]
    /\ new_len' = [new_len EXCEPT !["main"] = UnsentLen(h, Sending(h))]
    /\ \/ connection[h] = "open" /\ Received(h, Sending(h)) /\ UNCHANGED connection
       \/ /\ connection[h] = "closed"
          /\ EndsWith(h)
          /\ UNCHANGED <<asking, incoming, garbled>>
    /\ UNCHANGED <<inbox, sockets, flagVars, write_buffer_len, pipe, stage, read_set,
                   pipe_set, phy>>

\* send reports the error of a connection that was reset, if recv has not.
SendFails(h) ==
    /\ ToWrite(h)
    /\ connection[h] = "broken"
    /\ connection' = [connection EXCEPT ![h] = "failed"]
    /\ write_set' = write_set \ {h}
    /\ UNCHANGED <<asking, inbox, incoming, garbled, sockets, flagVars, bufferVars,
                   pipe, stage, read_set, pipe_set, threadVars>>

\* ListenSocket::on_readable and on_hci_connection.  The new controller's
\* radio is put in the list under physical_layer_mutex.
on_hci_connection(h) ==
    /\ MainAt("serve")
    /\ h \in read_set \ sockets
    /\ connection[h] = "connecting"
    /\ phy = "asleep"
    /\ connection' = [connection EXCEPT ![h] = "open"]
    /\ sockets' = sockets \cup {h}
    /\ read_set' = read_set \ {h}
    /\ UNCHANGED <<asking, inbox, incoming, garbled, flagVars, bufferVars, pipe, stage,
                   write_set, pipe_set, threadVars>>

\* One byte is read from the pipe, when every socket has been served.
SlipReadNothing == pipe

AfterRead == IF pipe_set THEN pipe - 1 ELSE pipe

DrainPipe ==
    /\ MainAt("serve")
    /\ read_set = {} /\ write_set = {}
    /\ pipe' = AfterRead
    /\ stage' = "sweep"
    /\ pipe_set' = FALSE
    /\ UNCHANGED <<hostVars, sockets, flagVars, bufferVars, read_set, write_set, threadVars>>

\* delete sl: the radio leaves the list under physical_layer_mutex.
is_delete_ready(h) == h \in delete_pending \cap delete_ready

Deleted(h) ==
    /\ MainAt("sweep")
    /\ h \in sockets
    /\ sockets' = sockets \ {h}
    /\ delete_pending' = delete_pending \ {h}
    /\ delete_ready' = delete_ready \ {h}
    /\ connection' = [connection EXCEPT ![h] = "none"]
    /\ inbox' = inbox \ {h}
    /\ write_buffer' = [write_buffer EXCEPT ![h] = <<>>]
    /\ write_buffer_len' = [write_buffer_len EXCEPT ![h] = 0]
    /\ UNCHANGED <<asking, incoming, garbled, pipe, pollVars, threadVars>>

SlipSweepAtOnce(h) == h \in delete_pending /\ Deleted(h)

Sweep(h) == is_delete_ready(h) /\ phy = "asleep" /\ Deleted(h)

Swept ==
    /\ MainAt("sweep")
    /\ \A h \in sockets : ~is_delete_ready(h)
    /\ FillSets
    /\ UNCHANGED <<hostVars, sockets, flagVars, bufferVars, pipe, threadVars>>
-----------------------------------------------------------------------------
(* The end of the process, which run_b1ee_server starts again: the hosts'  *)
(* connections go with it.                                                 *)

run_b1ee_server ==
    /\ connection' = [h \in Hosts |-> "none"]
    /\ asking' = {} /\ inbox' = {} /\ incoming' = [h \in Hosts |-> Nothing]
    /\ sockets' = {}
    /\ delete_pending' = {} /\ delete_ready' = {}
    /\ write_buffer' = [h \in Hosts |-> <<>>]
    /\ write_buffer_len' = [h \in Hosts |-> 0]
    /\ pipe' = 0
    /\ stage' = "select"
    /\ read_set' = {} /\ write_set' = {} /\ pipe_set' = FALSE
    /\ phy' = "asleep"
    /\ writing' = [t \in Threads |-> <<>>]
    /\ new_len' = [t \in Threads |-> 0]
    /\ UNCHANGED garbled

\* SIGPIPE, on the way into send.
BrokenPipe(h) ==
    /\ ToWrite(h)
    /\ connection[h] \in {"broken", "failed"}
    /\ run_b1ee_server

\* The thread that looks at the executable's time, ten times a second.
background_monitor_thread == run_b1ee_server

poll ==
    \/ Select \/ SelectTimeout
    \/ \E h \in Hosts :
          \/ ServeCommand(h) \/ ServeError(h) \/ ServeEnd(h)
          \/ on_writable(h) \/ SendFails(h) \/ BrokenPipe(h)
          \/ on_hci_connection(h) \/ Sweep(h)
    \/ DrainPipe \/ Swept
    \/ BufferStep("main")
-----------------------------------------------------------------------------
(* The simulation thread, which holds physical_layer_mutex in a round.     *)

BeginRound ==
    /\ phy = "asleep"
    /\ phy' = "round"
    /\ UNCHANGED <<hostVars, sockets, flagVars, bufferVars, pipe, pollVars, writing, new_len>>

InRound == phy = "round" /\ writing["simulation"] = <<>>

\* A packet was received for a host that scans.  A radio that may be deleted
\* has no window open: LeavesOffAir of PhysicalLayer.tla.
end_of_packet(h) ==
    /\ InRound
    /\ h \in (sockets \cap Listeners) \ delete_ready
    /\ pipe + 2 <= PipeRoom /\ write_buffer_len[h] <= MaxBuffer
    /\ writing' = [writing EXCEPT !["simulation"] = send_event(h, "report")]
    /\ UNCHANGED <<hostVars, sockets, flagVars, bufferVars, pipe, pollVars, phy, new_len>>

\* get_next_packet of a radio that is to be deleted.
AcknowledgeDeletion(h) ==
    /\ InRound
    /\ h \in (sockets \cap delete_pending) \ delete_ready
    /\ delete_ready' = delete_ready \cup {h}
    /\ UNCHANGED <<hostVars, sockets, delete_pending, bufferVars, pipe, pollVars, threadVars>>

EndRound ==
    /\ InRound
    /\ phy' = "asleep"
    /\ UNCHANGED <<hostVars, sockets, flagVars, bufferVars, pipe, pollVars, writing, new_len>>

simulation ==
    \/ BeginRound \/ EndRound
    \/ \E h \in Hosts : end_of_packet(h) \/ AcknowledgeDeletion(h)
    \/ BufferStep("simulation")
-----------------------------------------------------------------------------
(* The hosts.                                                              *)

Connect(h) ==
    /\ connection[h] = "none"
    /\ connection' = [connection EXCEPT ![h] = "connecting"]
    /\ UNCHANGED <<asking, inbox, incoming, garbled, sockets, flagVars, bufferVars, pipe, pollVars, threadVars>>

SendCommand(h) ==
    /\ connection[h] = "open"
    /\ h \in Askers \ asking
    /\ asking' = asking \cup {h}
    /\ inbox' = inbox \cup {h}
    /\ UNCHANGED <<connection, incoming, garbled, sockets, flagVars, bufferVars,
                   pipe, pollVars, threadVars>>

Close(h) ==
    /\ connection[h] = "open"
    /\ EndsWith(h)
    /\ asking' = asking \ {h}
    /\ incoming' = [incoming EXCEPT ![h] = Nothing]
    /\ UNCHANGED <<inbox, garbled, sockets, flagVars, bufferVars, pipe, pollVars,
                   threadVars>>
-----------------------------------------------------------------------------
Init ==
    /\ connection = [h \in Hosts |-> "none"]
    /\ asking = {} /\ inbox = {} /\ garbled = {}
    /\ incoming = [h \in Hosts |-> Nothing]
    /\ sockets = {}
    /\ delete_pending = {} /\ delete_ready = {}
    /\ write_buffer = [h \in Hosts |-> <<>>]
    /\ write_buffer_len = [h \in Hosts |-> 0]
    /\ pipe = 0
    /\ stage = "select"
    /\ read_set = {} /\ write_set = {} /\ pipe_set = FALSE
    /\ phy = "asleep"
    /\ writing = [t \in Threads |-> <<>>]
    /\ new_len = [t \in Threads |-> 0]

Next ==
    \/ poll
    \/ simulation
    \/ background_monitor_thread
    \/ \E h \in Hosts : Connect(h) \/ SendCommand(h) \/ Close(h)

Spec == Init /\ [][Next]_vars

\* Both threads run; the simulation thread sleeps between rounds, so that the
\* mutex is to be had again and again; that a radio which is to be deleted is
\* acknowledged in some round is DeletionAcknowledged of PhysicalLayer.tla.
Fairness ==
    /\ SF_vars(poll)
    /\ WF_vars(simulation)
    /\ WF_vars(EndRound)
    /\ \A h \in Hosts : SF_vars(AcknowledgeDeletion(h))

FairSpec == Spec /\ Fairness
-----------------------------------------------------------------------------
(* Properties.                                                             *)

Chunks == [event : {"answer", "report"}, part : {"header", "parameters"}]

\* Every variable has its type.
TypeOK ==
    /\ connection \in [Hosts -> {"none", "connecting", "open", "closed", "broken", "failed"}]
    /\ asking \subseteq Hosts /\ inbox \subseteq Hosts /\ garbled \subseteq Hosts
    /\ incoming \in [Hosts -> Chunks \cup {Nothing, Stale}]
    /\ sockets \subseteq Hosts
    /\ delete_pending \subseteq sockets /\ delete_ready \subseteq delete_pending
    /\ write_buffer \in [Hosts -> Seq(Chunks \cup {Stale})]
    /\ write_buffer_len \in [Hosts -> Nat]
    /\ pipe \in 0 .. PipeSize
    /\ stage \in {"select", "serve", "sweep"}
    /\ read_set \subseteq Hosts /\ write_set \subseteq sockets
    /\ pipe_set \in BOOLEAN
    /\ phy \in {"asleep", "round"}
    /\ new_len \in [Threads -> Nat]

\* No wakeup is lost: when the main thread sleeps in select there is nothing
\* to send, unless a thread has still to write its byte into the pipe.
NoSleepOnData ==
    (stage = "select" /\ ~SomethingReady /\ writing["simulation"] = <<>>) =>
        \A h \in sockets \ delete_pending : write_buffer_len[h] = 0

\* No thread writes to a connection that has been deleted.
WritesToLiving ==
    \A t \in Threads : writing[t] # <<>> => Head(writing[t]).host \in sockets

\* The main thread, the only one to read the pipe, never waits for room in it.
MainNeverBlocks == Doing("main", "signal") => pipe < PipeSize

\* example_protocol.md: a host receives events, each with its own parameters.
\* With a host Watched to which one thread alone writes, that what the threads do
\* to a buffer they share never shows in the stream of another connection.
EventsArriveWhole == garbled = {}

\* Every command is answered, unless its host goes away or the process ends.
CommandsAnswered == \A h \in Askers : h \in asking ~> h \notin asking

\* A connection that its host closed, or that was reset, is deleted, provided that
\* poll does not only time out from then on.
DeletedWhenBusy ==
    []<>(stage = "sweep") =>
        \A h \in Hosts : h \in sockets /\ Gone(h) ~> h \notin sockets
=============================================================================
