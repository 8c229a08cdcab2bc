--------------------------- MODULE CommandStream ---------------------------
(***************************************************************************)
(* How a controller takes commands from its TCP connection:                *)
(* Controller::on_readable (server/src/controller.cpp) on top of the read  *)
(* buffer of ClientSocket (server/src/client_socket.cpp).                  *)
(*                                                                         *)
(* The host sends commands of a header and parameters.  TCP delivers the   *)
(* bytes in order, cut anywhere in Cuts.  What the command does is in      *)
(* LowerHCI.tla.  Hosts have no connections over the air, so that they send*)
(* no data packets.                                                        *)
(***************************************************************************)
EXTENDS Integers, FiniteSets, Sequences

CONSTANTS
    HeaderLength,       \* 4: packet type, opcode and parameter length
    ParameterLengths,   \* parameter lengths of the commands in use, to 127:
                        \* beyond it command_len is negative
    Cuts,               \* how many bytes of a command may arrive on their own
    Ahead,              \* commands a host sends before the first is answered
    MaxCommands         \* bound: commands that the host sends

ASSUME StreamAssumption ==
    /\ HeaderLength \in Nat \ {0}
    /\ ParameterLengths \subseteq 0 .. 127
    /\ Ahead \in Nat \ {0}
    /\ MaxCommands \in Nat

VARIABLES
    count,          \* commands the host has sent
    closed,         \* the host has closed the connection
    stream,         \* bytes within TCP
    read_buffer,
    processing,     \* on_readable is in its loop
    processed,      \* history: per command, how often it was processed, to 2
    delete_pending

vars == <<count, closed, stream, read_buffer, processing, processed, delete_pending>>

SlipShortLength(n, length) ==
    [k \in 1 .. HeaderLength + length |->
        [command |-> n, at |-> k, command_len |-> IF length = 0 THEN 0 ELSE length - 1]]

\* A byte says which command it is of, where in it, and how long that is.
CommandBytes(n, length) ==
    [k \in 1 .. HeaderLength + length |->
        [command |-> n, at |-> k, command_len |-> length]]

LastOfCommand(b) == b.at = HeaderLength + b.command_len
-----------------------------------------------------------------------------
(* The host, and TCP.                                                      *)

Unprocessed == {n \in 1 .. count : processed[n] = 0}

HostSends ==
    /\ ~closed
    /\ count < MaxCommands
    /\ Cardinality(Unprocessed) < Ahead
    /\ count' = count + 1
    /\ \E length \in ParameterLengths : stream' = stream \o CommandBytes(count + 1, length)
    /\ UNCHANGED <<closed, read_buffer, processing, processed, delete_pending>>

HostCloses ==
    /\ ~closed
    /\ closed' = TRUE
    /\ UNCHANGED <<count, stream, read_buffer, processing, processed, delete_pending>>

\* ClientSocket::on_readable: recv has some of the bytes.
Receive(n) ==
    /\ ~processing /\ ~delete_pending
    /\ LastOfCommand(stream[n]) \/ stream[n].at \in Cuts
    /\ read_buffer' = read_buffer \o SubSeq(stream, 1, n)
    /\ stream' = SubSeq(stream, n + 1, Len(stream))
    /\ processing' = TRUE
    /\ UNCHANGED <<count, closed, processed, delete_pending>>

\* recv has none: the host has closed the connection.
ReceiveEnd ==
    /\ ~processing /\ ~delete_pending
    /\ closed /\ stream = <<>>
    /\ delete_pending' = TRUE
    /\ processing' = TRUE
    /\ UNCHANGED <<count, closed, stream, read_buffer, processed>>
-----------------------------------------------------------------------------
(* The loop of Controller::on_readable.                                    *)

\* consume_read_buffer does nothing when there is less than that to consume.
SlipConsumeLess(length) ==
    IF length > 0 /\ length < Len(read_buffer)
    THEN SubSeq(read_buffer, length + 1, Len(read_buffer))
    ELSE read_buffer

consume_read_buffer(length) ==
    IF length > 0 /\ length <= Len(read_buffer)
    THEN SubSeq(read_buffer, length + 1, Len(read_buffer))
    ELSE read_buffer

\* The condition under which the command at the head is processed.
SlipLongHeader ==
    /\ Len(read_buffer) > HeaderLength
    /\ Head(read_buffer).command_len + HeaderLength >= Len(read_buffer)

HeadIsProcessed ==
    /\ Len(read_buffer) > HeaderLength - 1
    /\ Head(read_buffer).command_len + HeaderLength >= Len(read_buffer)

process_command ==
    /\ processing
    /\ HeadIsProcessed
    /\ processed' = [processed EXCEPT ![Head(read_buffer).command] = IF @ < 2 THEN @ + 1 ELSE @]
    /\ read_buffer' = consume_read_buffer(Head(read_buffer).command_len + HeaderLength)
    /\ UNCHANGED <<count, closed, stream, processing, delete_pending>>

LeaveLoop ==
    /\ processing
    /\ ~HeadIsProcessed
    /\ processing' = FALSE
    /\ UNCHANGED <<count, closed, stream, read_buffer, processed, delete_pending>>

on_readable ==
    \/ \E n \in 1 .. Len(stream) : Receive(n)
    \/ ReceiveEnd
    \/ process_command
    \/ LeaveLoop
-----------------------------------------------------------------------------
Init ==
    /\ count = 0
    /\ closed = FALSE
    /\ stream = <<>>
    /\ read_buffer = <<>>
    /\ processing = FALSE
    /\ processed = [n \in 1 .. MaxCommands |-> 0]
    /\ delete_pending = FALSE

Next == HostSends \/ HostCloses \/ on_readable

Spec == Init /\ [][Next]_vars

\* select wakes the socket thread while bytes are there to be read.
FairSpec == Spec /\ WF_vars(on_readable)
-----------------------------------------------------------------------------
(* Properties.                                                             *)

Bytes == [command: 1 .. MaxCommands, at: Nat \ {0}, command_len: ParameterLengths]

\* Every variable has its type.
TypeOK ==
    /\ count \in 0 .. MaxCommands
    /\ closed \in BOOLEAN
    /\ stream \in Seq(Bytes)
    /\ read_buffer \in Seq(Bytes)
    /\ \A s \in {stream, read_buffer} :
          \A i \in 1 .. Len(s) : /\ s[i].command <= count
                                 /\ s[i].at <= HeaderLength + s[i].command_len
    /\ processing \in BOOLEAN
    /\ processed \in [1 .. MaxCommands -> 0 .. 2]
    /\ delete_pending \in BOOLEAN

\* A command is carried out once, when all of it is there, and in its turn:
\* what is left in the buffer and within TCP are the commands not processed
\* yet, from the first byte of the first to the last byte of the last.
ProcessedOnceWhole ==
    LET bytes == read_buffer \o stream
    IN  /\ \A n \in 1 .. MaxCommands : processed[n] <= 1
        /\ \A n \in 1 .. count : processed[n] = 1 <=> \A i \in 1 .. Len(bytes) : bytes[i].command # n
        /\ bytes # <<>> => bytes[1].at = 1

\* Every command that a host sends is processed in the end.
CommandsAreProcessed ==
    \A n \in 1 .. MaxCommands : (count >= n) ~> (processed[n] > 0)
=============================================================================
