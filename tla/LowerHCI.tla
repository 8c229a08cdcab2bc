------------------------------ MODULE LowerHCI ------------------------------
(***************************************************************************)
(* The HCI of one virtual controller: server/src/lowerhci.cpp, and the     *)
(* host's side of the dialogue as client/hci.py encodes it.                *)
(*                                                                         *)
(* The socket thread takes commands one by one (process_command), changes  *)
(* the controller and then sends the answer.  Meanwhile the simulation     *)
(* thread reports advertisers it hears: it looks at the machine, then at   *)
(* the event mask, then writes, and shares no lock with the socket thread. *)
(* Between controller and host lie two queues in order; how bytes travel is*)
(* in CommandStream.tla and SocketPoll.tla.                                *)
(*                                                                         *)
(* The link layer appears as its flags and the roles that have a machine;  *)
(* that a free role always finds an idle machine is FlagsMatchMachines of  *)
(* LinkLayer.tla.                                                          *)
(***************************************************************************)
EXTENDS Integers, Sequences

CONSTANTS
    Opcodes,        \* the commands that hosts send
    EnableValues,   \* first parameter byte of the enable commands
    EventMasks,     \* parameters of Set Event Mask, as sets of event codes
    LEEventMasks,   \* the same of LE Set Event Mask, with subevent codes
    UnsetFlags,     \* ll_advertising_enabled before anything is assigned to it
    MaxCommands,    \* bound: commands a host sends ahead of their answers
    MaxEvents       \* bound: events on their way to the host

Roles == {"Advertising", "Scanning"}

\* Codes of hci.h.  The answers and one more cannot be masked out.
Events == {"Command_Complete", "Command_Status", "Number_Of_Completed_Packets", "LE_Meta"}

SubEvents == {"LE_Connection_Complete", "LE_Advertising_Report"}

\* The cases of process_command.
Setters == {"Write_LE_Host_Supported", "LE_Set_Advertising_Parameters",
            "LE_Set_Advertising_Data", "LE_Set_Scan_Response_Data",
            "LE_Set_Scan_Parameters"}

Readers == {"Read_Local_Version_Information", "Read_Local_Supported_Commands",
            "Read_Local_Supported_Features", "Read_Local_Extended_Features",
            "Read_Buffer_Size", "Read_BD_ADDR", "LE_Read_Buffer_Size",
            "LE_Read_Local_Supported_Features",
            "LE_Read_Advertising_Channel_Tx_Power", "LE_Read_White_List_Size",
            "LE_Read_Supported_States"}

Handled == {"Set_Event_Mask", "Reset", "LE_Set_Event_Mask",
            "LE_Set_Advertise_Enable", "LE_Set_Scan_Enable"} \cup Setters \cup Readers

ASSUME OpcodesAssumption == Opcodes \subseteq Handled \cup {"Other"}

ASSUME ParametersAssumption ==
    /\ EnableValues \subseteq Nat
    /\ EventMasks \subseteq SUBSET Events
    /\ LEEventMasks \subseteq SUBSET SubEvents
    /\ UnsetFlags \subseteq Nat

VARIABLES
    hci_event_mask,     \* the event codes that pass it
    hci_le_event_mask,  \* the member; no handler assigns to it but reset
    enabled,            \* ll_advertising_enabled and ll_scanning_enabled
    roles,              \* the roles that have a machine
    answer,             \* the socket thread: the answer it is about to send
    reporting,          \* the simulation thread within send_le_advertising_report_event
    commands,           \* on their way to the controller
    events,             \* on their way to the host
    unanswered,         \* the host: commands it has no answer to
    believed,           \* the host: the roles it has, going by the answers
    wants,              \* the host: event and subevent codes it asked for
    stale               \* the host: unwanted reports since the last answer

controllerVars == <<hci_event_mask, hci_le_event_mask, enabled, roles>>
hostVars == <<unanswered, believed, wants, stale>>
vars == <<controllerVars, answer, reporting, commands, events, hostVars>>

DefaultEventMask == Events \ {"LE_Meta"}    \* 0x00001FFFFFFFFFFF
DefaultLEEventMask == SubEvents             \* 0x1F
NumHCICommandPackets == 1
-----------------------------------------------------------------------------
(* Commands and answers.                                                   *)

Checked == {"Set_Event_Mask", "LE_Set_Event_Mask", "Write_LE_Host_Supported",
            "LE_Set_Advertising_Parameters", "LE_Set_Scan_Parameters"}

MasksOf(opcode) ==
    IF opcode = "Set_Event_Mask" THEN EventMasks
    ELSE IF opcode = "LE_Set_Event_Mask" THEN LEEventMasks ELSE {{}}

\* What a host sends: accepted is whether parameter_len is what the handler
\* compares it with, in the handlers that do.
CommandsOf(o) ==
    [opcode: {o},
     accepted: IF o \in Checked THEN BOOLEAN ELSE {TRUE},
     enable: IF o \in {"LE_Set_Advertise_Enable", "LE_Set_Scan_Enable"}
             THEN EnableValues ELSE {0},
     mask: MasksOf(o)]

Answer(event, opcode, status) == [event |-> event, opcode |-> opcode, status |-> status]

CommandComplete(opcode, success) ==
    Answer("Command_Complete", opcode, IF success THEN "Success" ELSE "Invalid_Parameters")

CommandStatus(opcode) == Answer("Command_Status", opcode, "Unknown_Command")

SlipSubEvent == Answer("LE_Advertising_Report", "None", "None")

Report == Answer("LE_Meta", "None", "None")

RoleOf(opcode) == IF opcode = "LE_Set_Scan_Enable" THEN "Scanning" ELSE "Advertising"

\* Set Event Mask forces three bits.
SlipMaskAsGiven(mask) == mask \cap Events

ForcedMask(mask) ==
    (mask \cap Events) \cup {"Command_Complete", "Command_Status", "Number_Of_Completed_Packets"}
-----------------------------------------------------------------------------
(* The socket thread: process_command executes a command, and then the     *)
(* answer goes through send_event.                                         *)

Taking(c) ==
    /\ answer = <<>>
    /\ commands # <<>>
    /\ c = Head(commands)
    /\ commands' = Tail(commands)
    /\ UNCHANGED <<reporting, events, hostVars>>

hci_set_event_mask_command(c) ==
    /\ Taking(c)
    /\ c.opcode = "Set_Event_Mask"
    /\ answer' = <<CommandComplete(c.opcode, c.accepted)>>
    /\ hci_event_mask' = IF c.accepted THEN ForcedMask(c.mask) ELSE hci_event_mask
    /\ UNCHANGED <<hci_le_event_mask, enabled, roles>>

\* PhysicalLayer::reset does nothing, LinkLayer::reset leaves one flag.
SlipResetKeepsRoles(c) ==
    /\ Taking(c)
    /\ c.opcode = "Reset"
    /\ answer' = <<CommandComplete(c.opcode, TRUE)>>
    /\ hci_event_mask' = DefaultEventMask
    /\ hci_le_event_mask' = DefaultLEEventMask
    /\ UNCHANGED <<enabled, roles>>

hci_reset_command(c) ==
    /\ Taking(c)
    /\ c.opcode = "Reset"
    /\ answer' = <<CommandComplete(c.opcode, TRUE)>>
    /\ hci_event_mask' = DefaultEventMask
    /\ hci_le_event_mask' = DefaultLEEventMask
    /\ enabled' = [enabled EXCEPT !["Scanning"] = 0]
    /\ roles' = {}

\* The mask is stored in a local variable of the same name.
hci_le_set_event_mask_command(c) ==
    /\ Taking(c)
    /\ c.opcode = "LE_Set_Event_Mask"
    /\ answer' = <<CommandComplete(c.opcode, c.accepted)>>
    /\ UNCHANGED controllerVars

\* LE Set Advertise Enable and LE Set Scan Enable.
hci_le_set_enable_command(c) ==
    LET role == RoleOf(c.opcode)
        start == c.enable # 0 /\ enabled[role] = 0
        stop == c.enable = 0 /\ enabled[role] = 1 /\ role \in roles
    IN  /\ Taking(c)
        /\ c.opcode \in {"LE_Set_Advertise_Enable", "LE_Set_Scan_Enable"}
        /\ answer' = <<CommandComplete(c.opcode, start \/ stop)>>
        /\ enabled' = IF start \/ stop THEN [enabled EXCEPT ![role] = c.enable] ELSE enabled
        /\ roles' = IF start THEN roles \cup {role}
                    ELSE IF stop THEN roles \ {role} ELSE roles
        /\ UNCHANGED <<hci_event_mask, hci_le_event_mask>>

\* What the other setters store is in LinkLayer.tla.
hci_set_command(c) ==
    /\ Taking(c)
    /\ c.opcode \in Setters
    /\ answer' = <<CommandComplete(c.opcode, c.accepted)>>
    /\ UNCHANGED controllerVars

hci_read_command(c) ==
    /\ Taking(c)
    /\ c.opcode \in Readers
    /\ answer' = <<CommandComplete(c.opcode, TRUE)>>
    /\ UNCHANGED controllerVars

hci_unsupported_command(c) ==
    /\ Taking(c)
    /\ c.opcode \notin Handled
    /\ answer' = <<CommandStatus(c.opcode)>>
    /\ UNCHANGED controllerVars

process_command ==
    \E c \in {commands[i] : i \in 1 .. Len(commands)} :
        \/ hci_set_event_mask_command(c)
        \/ hci_reset_command(c)
        \/ hci_le_set_event_mask_command(c)
        \/ hci_le_set_enable_command(c)
        \/ hci_set_command(c)
        \/ hci_read_command(c)
        \/ hci_unsupported_command(c)

\* send_event filters by the mask as it is now.
send_command_complete_event ==
    /\ answer # <<>>
    /\ Len(events) < MaxEvents
    /\ answer' = <<>>
    /\ events' = IF Head(answer).event \in hci_event_mask
                 THEN events \o answer ELSE events
    /\ UNCHANGED <<controllerVars, reporting, commands, hostVars>>
-----------------------------------------------------------------------------
(* The simulation thread: LinkLayer::end_of_packet for a packet that was   *)
(* received, and the event it sends.                                       *)

SlipHearAlways ==
    /\ reporting = "No"
    /\ reporting' = "Scanning"
    /\ UNCHANGED <<controllerVars, answer, commands, events, hostVars>>

end_of_packet ==
    /\ reporting = "No"
    /\ "Scanning" \in roles
    /\ reporting' = "Scanning"
    /\ UNCHANGED <<controllerVars, answer, commands, events, hostVars>>

FilterReport ==
    /\ reporting = "Scanning"
    /\ reporting' = IF "LE_Meta" \in hci_event_mask THEN "Writing" ELSE "No"
    /\ UNCHANGED <<controllerVars, answer, commands, events, hostVars>>

WriteReport ==
    /\ reporting = "Writing"
    /\ Len(events) < MaxEvents
    /\ reporting' = "No"
    /\ events' = Append(events, Report)
    /\ UNCHANGED <<controllerVars, answer, commands, hostVars>>

send_le_advertising_report_event == end_of_packet \/ FilterReport \/ WriteReport
-----------------------------------------------------------------------------
(* The host.                                                               *)

HostSends ==
    /\ Len(unanswered) < MaxCommands
    /\ \E o \in Opcodes : \E c \in CommandsOf(o) :
          /\ commands' = Append(commands, c)
          /\ unanswered' = Append(unanswered, c)
    /\ stale' = 0
    /\ UNCHANGED <<controllerVars, answer, reporting, events, believed, wants>>

\* What a successful answer to command c tells the host.
Believing(c) ==
    IF c.opcode = "Reset" THEN {}
    ELSE IF c.opcode \in {"LE_Set_Advertise_Enable", "LE_Set_Scan_Enable"}
    THEN IF c.enable = 0 THEN believed \ {RoleOf(c.opcode)}
                         ELSE believed \cup {RoleOf(c.opcode)}
    ELSE believed

Wanting(c) ==
    IF c.opcode = "Reset" THEN DefaultEventMask \cup DefaultLEEventMask
    ELSE IF c.opcode = "Set_Event_Mask" THEN (wants \ Events) \cup c.mask
    ELSE IF c.opcode = "LE_Set_Event_Mask" THEN (wants \ SubEvents) \cup c.mask
    ELSE wants

HostReadsAnswer ==
    /\ events # <<>>
    /\ Head(events).event # "LE_Meta"
    /\ events' = Tail(events)
    /\ unanswered' = IF unanswered = <<>> THEN <<>> ELSE Tail(unanswered)
    /\ IF Head(events).status = "Success" /\ unanswered # <<>>
       THEN /\ believed' = Believing(Head(unanswered))
            /\ wants' = Wanting(Head(unanswered))
       ELSE UNCHANGED <<believed, wants>>
    /\ stale' = 0
    /\ UNCHANGED <<controllerVars, answer, reporting, commands>>

\* A report is stale if the host has the answer to a command that stops them.
HostReadsReport ==
    /\ events # <<>>
    /\ Head(events).event = "LE_Meta"
    /\ events' = Tail(events)
    /\ stale' = IF unanswered = <<>> /\ stale < 2 /\ ~("Scanning" \in believed /\ "LE_Meta" \in wants)
                THEN stale + 1 ELSE stale
    /\ UNCHANGED <<controllerVars, answer, reporting, commands, unanswered, believed, wants>>
-----------------------------------------------------------------------------
Init ==
    /\ hci_event_mask = DefaultEventMask
    /\ hci_le_event_mask = DefaultLEEventMask
    /\ enabled \in [Roles -> UnsetFlags] /\ enabled["Scanning"] = 0
    /\ roles = {}
    /\ answer = <<>>
    /\ reporting = "No"
    /\ commands = <<>>
    /\ events = <<>>
    /\ unanswered = <<>>
    /\ believed = {}
    /\ wants = DefaultEventMask \cup DefaultLEEventMask
    /\ stale = 0

SocketThread == process_command \/ send_command_complete_event

Host == HostSends \/ HostReadsAnswer \/ HostReadsReport

Next == SocketThread \/ send_le_advertising_report_event \/ Host

Spec == Init /\ [][Next]_vars
-----------------------------------------------------------------------------
(* Properties.                                                             *)

Commands == UNION {CommandsOf(o) : o \in Opcodes}

Answers == [event: Events, opcode: Opcodes \cup {"None"},
            status: {"Success", "Invalid_Parameters", "Unknown_Command", "None"}]

\* Every variable has its type.
TypeOK ==
    /\ hci_event_mask \subseteq Events
    /\ hci_le_event_mask \subseteq SubEvents
    /\ enabled \in [Roles -> Nat]
    /\ roles \subseteq Roles
    /\ answer \in Seq(Answers) /\ Len(answer) <= 1
    /\ reporting \in {"No", "Scanning", "Writing"}
    /\ commands \in Seq(Commands)
    /\ events \in Seq(Answers)
    /\ unanswered \in Seq(Commands)
    /\ believed \subseteq Roles
    /\ wants \subseteq Events \cup SubEvents
    /\ stale \in 0 .. 2

OpcodesIn(s) == [i \in 1 .. Len(s) |-> s[i].opcode]

IsAnswer(e) == e.event # "LE_Meta"

\* The n answers among the events are, in this order, those at at[1] .. at[n].
AnswersAre(n, at) ==
    /\ \A k \in 1 .. n : IsAnswer(events[at[k]])
    /\ \A j, k \in 1 .. n : j < k => at[j] < at[k]
    /\ \A i \in 1 .. Len(events) : IsAnswer(events[i]) => \E k \in 1 .. n : at[k] = i

\* Whatever event mask the host sets, every command is answered once and in
\* order: the answers on their way, the one being sent and the commands not
\* yet taken are, in this order, those the host waits for.
AnswersInOrder ==
    \E n \in 0 .. Len(events) : \E at \in [1 .. n -> 1 .. Len(events)] :
        /\ AnswersAre(n, at)
        /\ OpcodesIn([k \in 1 .. n |-> events[at[k]]] \o answer \o commands) = OpcodesIn(unanswered)

\* A host that goes by the answers knows its roles: with nothing outstanding
\* the roles that have a machine are those it was told it has.
HostKnowsRoles == unanswered = <<>> => believed = roles

\* A host that disabled scanning, or masked the reports out, and has the
\* answer is sent one more report at most: the one that the simulation thread
\* was about to write.
AtMostOneStaleReport == stale <= 1
=============================================================================
