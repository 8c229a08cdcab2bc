------------------------------ MODULE UpperHCI ------------------------------
(***************************************************************************)
(* The client: UpperHCI and CommandQueue of client/blecli.py, with the     *)
(* loop and the socket of client/asyncsocket.py and the factory of         *)
(* client/hci.py.                                                          *)
(*                                                                         *)
(* Three kinds of threads share its state.  The main thread queues the     *)
(* host's program and then runs the loop, which receives events and runs   *)
(* the callbacks; a daemon thread takes commands from the queue and sends  *)
(* them; a timer queues commands later.  The server answers commands in    *)
(* the order they come, AnswersInOrder of LowerHCI.tla; that events come   *)
(* in pieces is what a stream, and CommandStream.tla, allow.               *)
(***************************************************************************)
EXTENDS Integers, Sequences

CONSTANTS
    Program,        \* what the main thread queues: a sequence of commands
    OnTimer,        \* what the timer queues
    Then,           \* commands with a callback -> what the callback queues, urgently
    Done,           \* cm_done's entry of the queue, which holds no command
    Report,         \* an event that answers no command
    Cuts,           \* pieces of an event, of 1 .. 3, that recv may return last
    MaxReports      \* bound: reports in all

Elements(s) == {s[i] : i \in 1 .. Len(s)}

Commands ==
    (Elements(Program) \cup Elements(OnTimer) \cup
        UNION {Elements(Then[c]) : c \in DOMAIN Then}) \ {Done}

ASSUME ClientAssumption ==
    /\ Program \in Seq(Commands \cup {Done}) /\ OnTimer \in Seq(Commands \cup {Done})
    /\ Then \in [DOMAIN Then -> Seq(Commands)] /\ DOMAIN Then \subseteq Commands
    /\ Report \notin Commands \cup {Done}
    /\ Cuts \subseteq 1 .. 3 /\ 3 \in Cuts
    /\ MaxReports \in Nat

VARIABLES
    program, timer,     \* what these threads have still to queue
    command_queue,      \* per priority, 1 being the more urgent: entries
    callback_queue,     \* the commands whose callbacks wait for their events
    num_hci_commands,   \* the credit
    command_event,      \* is set, and never cleared
    sender, command,    \* the daemon thread: where it is, and what it has taken
    loop, event,        \* the main thread: where it is, and the event at hand
    follow_ups,         \* what the callback it runs has still to queue
    input_buffer,       \* pieces of events
    running, connected,
    sent,               \* the stream to the server
    answered,           \* how many commands of it the server has answered
    stream,             \* the stream from the server: pieces of events
    reports             \* how many reports the server has sent

queueVars == <<command_queue, command_event>>
hostVars == <<program, timer, follow_ups>>
creditVars == <<num_hci_commands, callback_queue>>
senderVars == <<sender, command>>
loopVars == <<loop, event, input_buffer>>
serverVars == <<answered, stream, reports, connected>>
vars == <<hostVars, queueVars, creditVars, senderVars, loopVars, running, sent, serverVars>>

\* An event is a type and code, a length, and parameters.
Pieces(e) == [p \in 1 .. 3 |-> [event |-> e, piece |-> p]]
-----------------------------------------------------------------------------
(* CommandQueue, whose lock makes put and get atomic.                      *)

put(priority, entry) ==
    [command_queue EXCEPT ![priority] = Append(@, entry)]

\* send_command.
Queue(priority, entry) ==
    /\ command_queue' = put(priority, entry)
    /\ command_event' = TRUE

SlipAnyPriority(p) == command_queue[p] # <<>>

First(p) == command_queue[p] # <<>> /\ \A q \in {0, 1} : q > p => command_queue[q] = <<>>

MainQueues ==
    /\ loop = "program"
    /\ program # <<>>
    /\ Queue(0, Head(program))
    /\ program' = Tail(program)
    /\ UNCHANGED <<timer, follow_ups, creditVars, senderVars, loopVars, running, sent, serverVars>>

\* run, once the program is queued.
Run ==
    /\ loop = "program"
    /\ program = <<>>
    /\ loop' = "select"
    /\ UNCHANGED <<hostVars, queueVars, creditVars, senderVars, event, input_buffer,
                   running, sent, serverVars>>

TimerQueues ==
    /\ loop \notin {"program", "ended"}
    /\ timer # <<>>
    /\ Queue(0, Head(timer))
    /\ timer' = Tail(timer)
    /\ UNCHANGED <<program, follow_ups, creditVars, senderVars, loopVars, running, sent, serverVars>>
-----------------------------------------------------------------------------
(* process_command_queue, the daemon thread.                               *)

SenderAt(s) == sender = s /\ loop # "ended"

HasCredit ==
    /\ SenderAt("check")
    /\ sender' = IF num_hci_commands > 0 THEN "get" ELSE "wait"
    /\ UNCHANGED <<hostVars, queueVars, creditVars, command, loopVars, running, sent, serverVars>>

Wait ==
    /\ SenderAt("wait")
    /\ command_event
    /\ sender' = "check"
    /\ UNCHANGED <<hostVars, queueVars, creditVars, command, loopVars, running, sent, serverVars>>

get(p) ==
    /\ SenderAt("get")
    /\ First(p)
    /\ command_queue' = [command_queue EXCEPT ![p] = Tail(@)]
    /\ IF Head(command_queue[p]) = Done
       THEN running' = FALSE /\ sender' = "check" /\ UNCHANGED command
       ELSE command' = Head(command_queue[p]) /\ sender' = "debit" /\ UNCHANGED running
    /\ UNCHANGED <<hostVars, command_event, creditVars, loopVars, sent, serverVars>>

SlipDebitNothing ==
    /\ SenderAt("debit")
    /\ sender' = "register"
    /\ UNCHANGED <<hostVars, queueVars, creditVars, command, loopVars, running, sent, serverVars>>

Debit ==
    /\ SenderAt("debit")
    /\ num_hci_commands' = num_hci_commands - 1
    /\ sender' = "register"
    /\ UNCHANGED <<hostVars, queueVars, callback_queue, command, loopVars, running, sent, serverVars>>

SlipRegisterAny ==
    /\ SenderAt("register")
    /\ callback_queue' = Append(callback_queue, command)
    /\ sender' = "sendall"
    /\ UNCHANGED <<hostVars, queueVars, num_hci_commands, command, loopVars, running,
                   sent, serverVars>>

Register ==
    /\ SenderAt("register")
    /\ callback_queue' = IF command \in DOMAIN Then THEN Append(callback_queue, command)
                         ELSE callback_queue
    /\ sender' = "sendall"
    /\ UNCHANGED <<hostVars, queueVars, num_hci_commands, command, loopVars, running,
                   sent, serverVars>>

\* What is sent on a connection that is lost is never answered.
SendAll ==
    /\ SenderAt("sendall")
    /\ sent' = IF connected THEN Append(sent, command) ELSE sent
    /\ sender' = "check"
    /\ UNCHANGED <<hostVars, queueVars, creditVars, command, loopVars, running, serverVars>>
-----------------------------------------------------------------------------
(* The loop of the main thread.                                            *)

\* select and handle_read: the loop takes what has come.
Receive(n) ==
    /\ loop = "select"
    /\ running
    /\ stream[n].piece \in Cuts
    /\ input_buffer' = input_buffer \o SubSeq(stream, 1, n)
    /\ stream' = SubSeq(stream, n + 1, Len(stream))
    /\ loop' = "input"
    /\ UNCHANGED <<hostVars, queueVars, creditVars, senderVars, event, running, sent,
                   answered, reports, connected>>

\* close and handle_close.
HandleClose ==
    /\ loop = "select"
    /\ running
    /\ ~connected /\ stream = <<>>
    /\ running' = FALSE
    /\ UNCHANGED <<hostVars, queueVars, creditVars, senderVars, loopVars, sent, serverVars>>

Ended ==
    /\ loop = "select"
    /\ ~running
    /\ loop' = "ended"
    /\ UNCHANGED <<hostVars, queueVars, creditVars, senderVars, event, input_buffer,
                   running, sent, serverVars>>

\* handle_input.  A whole event is taken; the loop is left when there is less
\* than a length.  There is no step when there is a length without all the
\* parameters: then the code repeats itself without end.
TakeEvent ==
    /\ loop = "input"
    /\ Len(input_buffer) >= 3
    /\ event' = input_buffer[1].event
    /\ input_buffer' = SubSeq(input_buffer, 4, Len(input_buffer))
    /\ loop' = "event"
    /\ UNCHANGED <<hostVars, queueVars, creditVars, senderVars, running, sent, serverVars>>

NoMoreInput ==
    /\ loop = "input"
    /\ Len(input_buffer) < 2
    /\ loop' = "select"
    /\ UNCHANGED <<hostVars, queueVars, creditVars, senderVars, event, input_buffer,
                   running, sent, serverVars>>

\* process_event: an answer has the next callback, if there is one, run.
SlipCreditFirst ==
    /\ loop = "event"
    /\ event # Report
    /\ num_hci_commands' = 1
    /\ IF callback_queue # <<>>
       THEN /\ follow_ups' = Then[Head(callback_queue)]
            /\ callback_queue' = Tail(callback_queue)
       ELSE UNCHANGED <<follow_ups, callback_queue>>
    /\ loop' = "callback"
    /\ UNCHANGED <<program, timer, queueVars, senderVars, event, input_buffer,
                   running, sent, serverVars>>

Answered ==
    /\ loop = "event"
    /\ event # Report
    /\ IF callback_queue # <<>>
       THEN /\ follow_ups' = Then[Head(callback_queue)]
            /\ callback_queue' = Tail(callback_queue)
       ELSE UNCHANGED <<follow_ups, callback_queue>>
    /\ loop' = "callback"
    /\ UNCHANGED <<program, timer, queueVars, num_hci_commands, senderVars, event,
                   input_buffer, running, sent, serverVars>>

Reported ==
    /\ loop = "event"
    /\ event = Report
    /\ command_event' = TRUE
    /\ loop' = "input"
    /\ UNCHANGED <<hostVars, command_queue, creditVars, senderVars, event, input_buffer,
                   running, sent, serverVars>>

CallbackQueues ==
    /\ loop = "callback"
    /\ follow_ups # <<>>
    /\ Queue(1, Head(follow_ups))
    /\ follow_ups' = Tail(follow_ups)
    /\ UNCHANGED <<program, timer, creditVars, senderVars, loopVars, running, sent, serverVars>>

\* Every event of the server's grants one command.
SlipGrantNothing ==
    /\ loop = "callback"
    /\ follow_ups = <<>>
    /\ command_event' = TRUE
    /\ loop' = "input"
    /\ UNCHANGED <<hostVars, command_queue, creditVars, senderVars, event,
                   input_buffer, running, sent, serverVars>>

Grant ==
    /\ loop = "callback"
    /\ follow_ups = <<>>
    /\ num_hci_commands' = 1
    /\ command_event' = TRUE
    /\ loop' = "input"
    /\ UNCHANGED <<hostVars, command_queue, callback_queue, senderVars, event,
                   input_buffer, running, sent, serverVars>>
-----------------------------------------------------------------------------
(* The server and the connection.                                          *)

ServerAnswers ==
    /\ connected
    /\ answered < Len(sent)
    /\ stream' = stream \o Pieces(sent[answered + 1])
    /\ answered' = answered + 1
    /\ UNCHANGED <<hostVars, queueVars, creditVars, senderVars, loopVars, running, sent,
                   reports, connected>>

ServerReports ==
    /\ connected
    /\ reports < MaxReports
    /\ stream' = stream \o Pieces(Report)
    /\ reports' = reports + 1
    /\ UNCHANGED <<hostVars, queueVars, creditVars, senderVars, loopVars, running, sent,
                   answered, connected>>

ServerLost ==
    /\ connected
    /\ connected' = FALSE
    /\ UNCHANGED <<hostVars, queueVars, creditVars, senderVars, loopVars, running, sent,
                   answered, stream, reports>>
-----------------------------------------------------------------------------
Init ==
    /\ program = Program /\ timer = OnTimer
    /\ command_queue = [p \in {0, 1} |-> <<>>]
    /\ callback_queue = <<>>
    /\ num_hci_commands = 1
    /\ command_event = FALSE
    /\ sender = "check" /\ command = Done
    /\ loop = "program" /\ event = Report
    /\ follow_ups = <<>> /\ input_buffer = <<>>
    /\ running = TRUE /\ connected = TRUE
    /\ sent = <<>> /\ answered = 0 /\ stream = <<>> /\ reports = 0

process_command_queue ==
    HasCredit \/ Wait \/ (\E p \in {0, 1} : get(p)) \/ Debit \/ Register \/ SendAll

run ==
    \/ MainQueues \/ Run
    \/ \E n \in 1 .. Len(stream) : Receive(n)
    \/ HandleClose \/ Ended \/ TakeEvent \/ NoMoreInput
    \/ Answered \/ Reported \/ CallbackQueues \/ Grant

Next ==
    \/ run
    \/ process_command_queue
    \/ TimerQueues
    \/ ServerAnswers \/ ServerReports \/ ServerLost

Spec == Init /\ [][Next]_vars

\* The client's threads run, and the server answers what it was sent.
FairSpec ==
    /\ Spec
    /\ WF_vars(run) /\ WF_vars(process_command_queue) /\ WF_vars(TimerQueues)
    /\ WF_vars(ServerAnswers)
-----------------------------------------------------------------------------
(* Properties.                                                             *)

Entries == Commands \cup {Done}
EventPieces == [event : Commands \cup {Report}, piece : 1 .. 3]

\* Every variable has its type.
TypeOK ==
    /\ program \in Seq(Entries) /\ timer \in Seq(Entries)
    /\ command_queue \in [{0, 1} -> Seq(Entries)]
    /\ callback_queue \in Seq(DOMAIN Then)
    /\ num_hci_commands \in {0, 1}
    /\ command_event \in BOOLEAN
    /\ sender \in {"check", "wait", "get", "debit", "register", "sendall"}
    /\ command \in Entries
    /\ loop \in {"program", "select", "input", "event", "callback", "ended"}
    /\ event \in Commands \cup {Report}
    /\ follow_ups \in Seq(Commands)
    /\ input_buffer \in Seq(EventPieces) /\ stream \in Seq(EventPieces)
    /\ running \in BOOLEAN /\ connected \in BOOLEAN
    /\ sent \in Seq(Commands) /\ answered \in 0 .. Len(sent)
    /\ reports \in 0 .. MaxReports

AnswersIn(s) == {i \in 1 .. Len(s) : s[i].piece = 3 /\ s[i].event # Report}

\* At most one command is under way.  It is somewhere between the daemon
\* thread that takes it and the main thread that grants the next, and the
\* credit is spent exactly as long as it is.
UnderWay ==
    {<<"sending", i>> : i \in {j \in {1} : sender \in {"register", "sendall"}}}
    \cup {<<"sent", i>> : i \in answered + 1 .. Len(sent)}
    \cup {<<"coming", i>> : i \in AnswersIn(stream)}
    \cup {<<"received", i>> : i \in AnswersIn(input_buffer)}
    \cup {<<"at hand", i>> : i \in {j \in {1} :
              loop = "callback" \/ (loop = "event" /\ event # Report)}}

OneCommandAtATime ==
    /\ \A x, y \in UnderWay : x = y
    /\ connected => (num_hci_commands = 0 <=> UnderWay # {})

\* An answer runs the callback of the command that it answers, and of no other.
CallbackGetsItsEvent ==
    loop = "event" /\ event # Report =>
        /\ callback_queue # <<>> => Head(callback_queue) = event
        /\ event \in DOMAIN Then => callback_queue # <<>>

\* "Higher priority to put these in front of any other commands already
\* queued": what a callback queues is sent next, in its order, whatever the
\* other threads queue meanwhile.
FollowUpsComeNext ==
    \A i \in 1 .. Len(sent) : sent[i] \in DOMAIN Then =>
        \A j \in 1 .. Len(Then[sent[i]]) :
            i + j <= Len(sent) => sent[i + j] = Then[sent[i]][j]

\* cm_done ends the client only after everything it had queued was answered.
DoneIsLast ==
    (~running /\ connected /\ timer = <<>>) =>
        /\ \A p \in {0, 1} : command_queue[p] = <<>>
        /\ UnderWay = {}

\* Every command that is queued is answered, unless the connection is lost.
CommandsAnswered ==
    \A c \in Commands :
        (\E p \in {0, 1} : c \in Elements(command_queue[p])) ~>
            (\E i \in 1 .. answered : sent[i] = c) \/ ~connected
=============================================================================
