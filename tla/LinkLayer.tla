----------------------------- MODULE LinkLayer -----------------------------
(***************************************************************************)
(* The link layer of every virtual controller on top of the shared radio:  *)
(* server/src/linklayer.cpp, llsm.cpp, llsm_adv.cpp and llsm_scan.cpp.     *)
(*                                                                         *)
(* Each radio has two state machines, each of which is idle, advertising or*)
(* scanning.  The socket thread changes them as HCI commands come in,      *)
(* without taking physical_layer_mutex, between any two steps of the       *)
(* simulation thread, which asks them for packets (get_next_packet) and    *)
(* tells them what was received (end_of_packet).                           *)
(*                                                                         *)
(* Every step of the radio is a step of PhysicalLayer with get_next_packet *)
(* filled in, which is what ImplementsPhysicalLayer says.                  *)
(***************************************************************************)
EXTENDS Integers, FiniteSets

CONSTANTS
    Radios,             \* names for the controllers the process may hold
    Machines,           \* 0 .. maximum_number_of_link_layer_state_machines - 1
    Slot,               \* 625: the unit of intervals and windows
    Ifs,                \* 150: what lies between two packets of an event
    AdvAlign,           \* 1250: advertising starts at a multiple of it
    FirstScan,          \* 1250: scanning starts this long after the command
    Jitter,             \* 0 .. 15: rand () % 16
    AdvTimes,           \* 8 + 32 + 24 + 8 * length for the data lengths in use
    AdvIntervals,       \* ll_advertising_interval_min that hosts ask for
    ScanIntervals,      \* ll_scan_interval that hosts ask for
    ScanWindows,        \* ll_scan_window that hosts ask for
    DefaultAdvTime,     \* of advertising data of length 0
    DefaultAdvInterval, \* 0x0800
    EnableValues,       \* first parameter byte of the enable commands
    UnsetFlags,         \* what ll_advertising_enabled may hold when it is
                        \* read before anything was assigned to it
    UnsetClocks,        \* the same for last_clock
    SyncTime, IdleStep, BusyStep, NoPacket

Channels == 37 .. 39
LeadTimes == Nat \ {0}
WindowTimes == {w * Slot - Ifs : w \in ScanWindows \cup {0}}

VARIABLES
    all_radios, active, current_packet, delete_pending, delete_ready, stage,
    unvisited, ordered_transmitters, ordered_receivers, physical_clock,
    time_until_next_event, transmitting, bad_transmission, sent, reported,
    machine,                        \* per radio and index: the state machine
    last_machine,                   \* the machine that last transmitted
    last_clock,                     \* when get_next_packet was last asked
    ll_advertising_enabled,
    ll_scanning_enabled,
    ll_advertising_interval_min,
    ll_advertising_time,            \* stands for ll_advertising_data_length
    ll_scan_interval,
    ll_scan_window,
    advertising_reports             \* history: reports sent to hosts in this round

PHY == INSTANCE PhysicalLayer WITH
           Tags <- Machines, Leads <- LeadTimes, Airtimes <- AdvTimes,
           Windows <- WindowTimes

ASSUME LinkAssumption ==
    /\ 0 \in Machines
    /\ Slot \in Nat /\ Ifs \in Nat /\ AdvAlign \in Nat \ {0} /\ FirstScan \in Nat
    /\ Jitter \subseteq Nat
    /\ AdvTimes \subseteq Nat \ {0} /\ DefaultAdvTime \in AdvTimes
    /\ AdvIntervals \subseteq Nat /\ DefaultAdvInterval \in Nat
    /\ ScanIntervals \subseteq Nat /\ ScanWindows \subseteq Nat
    /\ EnableValues \subseteq Int /\ UnsetFlags \subseteq Int /\ UnsetClocks \subseteq Int
    /\ SyncTime \in Nat \ {0} /\ IdleStep \in Nat \ {0} /\ BusyStep \in Nat \ {0}
    /\ NoPacket \notin PHY!Packet

phyVars   == <<all_radios, active, delete_pending, delete_ready, current_packet,
               stage, unvisited, ordered_transmitters, ordered_receivers,
               physical_clock, time_until_next_event, transmitting,
               bad_transmission, sent, reported>>
flagVars  == <<ll_advertising_enabled, ll_scanning_enabled>>
paramVars == <<ll_advertising_interval_min, ll_advertising_time,
               ll_scan_interval, ll_scan_window>>
linkVars  == <<machine, last_machine, last_clock, flagVars, paramVars>>
vars      == <<phyVars, linkVars, advertising_reports>>
-----------------------------------------------------------------------------
(* The state machines: a union, of which only the state's part is kept.    *)

IdleMachine == [state |-> "Idle"]

Advertising(m) == m.state = "Advertising"
Scanning(m) == m.state = "Scanning"
Idle(m) == m.state = "Idle"

mk_advertiser(after, jitter) ==
    LET instant == (after \div AdvAlign) * AdvAlign + AdvAlign
    IN  [state |-> "Advertising", instant |-> instant,
         tx |-> instant + jitter * Slot, channel |-> 0]

mk_scanner(after) ==
    [state |-> "Scanning", instant |-> after + FirstScan, channel |-> 0]

\* A machine hands over a packet only if it is to start after now.
SlipDueAgain(m, after) ==
    \/ Advertising(m) /\ m.tx >= after
    \/ Scanning(m) /\ m.instant >= after

Due(m, after) ==
    \/ Advertising(m) /\ m.tx > after
    \/ Scanning(m) /\ m.instant > after

\* What becomes of a machine that has missed its time, or has none.
SlipNoCatchUp(r, m, after, jitter) == m

CatchUp(r, m, after, jitter) ==
    IF Advertising(m) /\ m.tx < after
    THEN LET instant == m.instant + ll_advertising_interval_min[r] * Slot
         IN  [m EXCEPT !.instant = instant, !.tx = instant + jitter * Slot]
    ELSE IF Scanning(m) /\ m.instant < after
    THEN [m EXCEPT !.instant = @ + ll_scan_interval[r] * Slot]
    ELSE m

\* The packet it hands over ...
PacketFrom(r, i) ==
    LET m == machine[r][i]
    IN  IF Advertising(m)
        THEN PHY!PacketOf(r, TRUE, 37 + m.channel, i, m.tx, ll_advertising_time[r])
        ELSE PHY!PacketOf(r, FALSE, 37 + m.channel, i, m.instant,
                          ll_scan_window[r] * Slot - Ifs)

\* ... and what becomes of it: three channels make an advertising event, and
\* each receive window is on the next channel.
SlipNoWrap(r, m, jitter) ==
    IF Scanning(m)
    THEN [m EXCEPT !.instant = @ + ll_scan_interval[r] * Slot, !.channel = @ + 1]
    ELSE [m EXCEPT !.tx = @ + ll_advertising_time[r] + Ifs, !.channel = @ + 1]

HandedOver(r, m, jitter) ==
    LET next == (m.channel + 1) % 3
        instant == m.instant + ll_advertising_interval_min[r] * Slot
    IN  IF Scanning(m)
        THEN [m EXCEPT !.instant = @ + ll_scan_interval[r] * Slot, !.channel = next]
        ELSE IF next = 0
        THEN [m EXCEPT !.instant = instant, !.tx = instant + jitter * Slot,
                       !.channel = next]
        ELSE [m EXCEPT !.tx = @ + ll_advertising_time[r] + Ifs, !.channel = next]

\* The loop of get_next_packet begins after last_machine and wraps around.
Turn(r, i) == (i - last_machine[r] - 1) % Cardinality(Machines)

Before(r, i) == {k \in Machines : Turn(r, k) < Turn(r, i)}
-----------------------------------------------------------------------------
(* The simulation thread.                                                  *)

\* get_next_packet hands over the packet of the first machine that is due;
\* the machines before it catch up.
GetNextPacket(r, i) ==
    LET m == machine[r][i]
    IN  /\ Due(m, physical_clock)
        /\ \A k \in Before(r, i) : ~Due(machine[r][k], physical_clock)
        /\ \E j \in [Machines -> Jitter] :
              machine' = [machine EXCEPT ![r] =
                  [k \in Machines |->
                      IF k = i THEN HandedOver(r, m, j[k])
                      ELSE IF k \in Before(r, i)
                      THEN CatchUp(r, machine[r][k], physical_clock, j[k])
                      ELSE machine[r][k]]]
        /\ last_machine' = IF Advertising(m) THEN [last_machine EXCEPT ![r] = i]
                                             ELSE last_machine
        /\ last_clock' = [last_clock EXCEPT ![r] = physical_clock]
        /\ PHY!VisitOffer(r, PacketFrom(r, i))
        /\ UNCHANGED <<flagVars, paramVars, advertising_reports>>

\* No machine is due: all catch up and there is no packet.
GetNoPacket(r) ==
    /\ \A k \in Machines : ~Due(machine[r][k], physical_clock)
    /\ \E j \in [Machines -> Jitter] :
          machine' = [machine EXCEPT ![r] =
              [k \in Machines |-> CatchUp(r, machine[r][k], physical_clock, j[k])]]
    /\ last_clock' = [last_clock EXCEPT ![r] = physical_clock]
    /\ PHY!VisitSilent(r)
    /\ UNCHANGED <<last_machine, flagVars, paramVars, advertising_reports>>

\* LinkLayer::end_of_packet of the radios a transmission is delivered to: the
\* host gets a report if the machine that opened the window scans by now.
SlipReportAlways(p) ==
    {[window |-> w, transmission |-> p] : w \in PHY!Receivers(p)}

ReportsOf(p) ==
    {[window |-> w, transmission |-> p] :
        w \in {v \in PHY!Receivers(p) : Scanning(machine[v.physical_layer][v.llsm_index])}}

EndOfPacket(p) ==
    /\ PHY!EndTransmission(p)
    /\ advertising_reports' = advertising_reports \cup ReportsOf(p)
    /\ UNCHANGED linkVars

BeginRound ==
    /\ PHY!BeginRound
    /\ advertising_reports' = {}
    /\ UNCHANGED linkVars

\* The steps in which the link layer has no part.
RadioStep ==
    /\ \/ \E r \in unvisited :
             \/ PHY!SkipInactive(r)
             \/ PHY!VisitBusy(r)
             \/ PHY!VisitDeleting(r)
       \/ PHY!Gathered
       \/ \E p \in ordered_transmitters :
             \/ PHY!StayOnAir(p)
             \/ PHY!StartTransmission(p)
             \/ PHY!AwaitTransmission(p)
       \/ PHY!TransmittersDone
       \/ PHY!StepReceivers
    /\ UNCHANGED <<linkVars, advertising_reports>>

SimulationThread ==
    \/ BeginRound
    \/ \E r \in unvisited, i \in Machines : GetNextPacket(r, i)
    \/ \E r \in unvisited : GetNoPacket(r)
    \/ \E p \in ordered_transmitters : EndOfPacket(p)
    \/ RadioStep
-----------------------------------------------------------------------------
(* The socket thread: connections come and go ...                          *)

\* A new controller.  LinkLayer::reset leaves two members as the allocator
\* returned them.
Connect(r) ==
    /\ PHY!PhysicalLayerConstructor(r)
    /\ machine' = [machine EXCEPT ![r] = [i \in Machines |-> IdleMachine]]
    /\ last_machine' = [last_machine EXCEPT ![r] = 0]
    /\ \E c \in UnsetClocks : last_clock' = [last_clock EXCEPT ![r] = c]
    /\ \E f \in UnsetFlags :
          ll_advertising_enabled' = [ll_advertising_enabled EXCEPT ![r] = f]
    /\ ll_scanning_enabled' = [ll_scanning_enabled EXCEPT ![r] = 0]
    /\ ll_advertising_interval_min' =
          [ll_advertising_interval_min EXCEPT ![r] = DefaultAdvInterval]
    /\ ll_advertising_time' = [ll_advertising_time EXCEPT ![r] = DefaultAdvTime]
    /\ ll_scan_interval' = [ll_scan_interval EXCEPT ![r] = 0]
    /\ ll_scan_window' = [ll_scan_window EXCEPT ![r] = 0]
    /\ UNCHANGED advertising_reports

ConnectionStep ==
    /\ \E r \in Radios :
          \/ PHY!mk_active(r)
          \/ PHY!set_delete_pending(r)
          \/ PHY!PhysicalLayerDestructor(r)
    /\ UNCHANGED <<linkVars, advertising_reports>>

(* ... and HCI commands are carried out: on_readable of the connection.    *)

Command(r) ==
    /\ r \in active \ delete_pending
    /\ UNCHANGED <<phyVars, advertising_reports>>

\* HCI Reset.  ll_advertising_enabled is not among what it assigns.
SlipResetKeepsScanFlag(r) ==
    /\ Command(r)
    /\ machine' = [machine EXCEPT ![r] = [i \in Machines |-> IdleMachine]]
    /\ UNCHANGED <<last_machine, last_clock, flagVars, paramVars>>

reset(r) ==
    /\ Command(r)
    /\ machine' = [machine EXCEPT ![r] = [i \in Machines |-> IdleMachine]]
    /\ last_machine' = [last_machine EXCEPT ![r] = 0]
    /\ ll_scanning_enabled' = [ll_scanning_enabled EXCEPT ![r] = 0]
    /\ ll_advertising_interval_min' =
          [ll_advertising_interval_min EXCEPT ![r] = DefaultAdvInterval]
    /\ ll_advertising_time' = [ll_advertising_time EXCEPT ![r] = DefaultAdvTime]
    /\ ll_scan_interval' = [ll_scan_interval EXCEPT ![r] = 0]
    /\ ll_scan_window' = [ll_scan_window EXCEPT ![r] = 0]
    /\ UNCHANGED <<last_clock, ll_advertising_enabled>>

\* The first machine of radio r that satisfies P, as the loops look for it.
FirstMachine(r, i, P(_)) ==
    P(machine[r][i]) /\ \A k \in Machines : k < i => ~P(machine[r][k])

StartAdvertising(r, enable) ==
    /\ Command(r)
    /\ enable # 0 /\ ll_advertising_enabled[r] = 0
    /\ \E i \in Machines, j \in Jitter :
          /\ FirstMachine(r, i, Idle)
          /\ ll_advertising_enabled' = [ll_advertising_enabled EXCEPT ![r] = enable]
          /\ machine' = [machine EXCEPT ![r][i] = mk_advertiser(last_clock[r], j)]
    /\ UNCHANGED <<last_machine, last_clock, ll_scanning_enabled, paramVars>>

StopAdvertising(r) ==
    /\ Command(r)
    /\ ll_advertising_enabled[r] = 1
    /\ \E i \in Machines :
          /\ FirstMachine(r, i, Advertising)
          /\ ll_advertising_enabled' = [ll_advertising_enabled EXCEPT ![r] = 0]
          /\ machine' = [machine EXCEPT ![r][i] = IdleMachine]
    /\ UNCHANGED <<last_machine, last_clock, ll_scanning_enabled, paramVars>>

StartScanning(r, enable) ==
    /\ Command(r)
    /\ enable # 0 /\ ll_scanning_enabled[r] = 0
    /\ \E i \in Machines :
          /\ FirstMachine(r, i, Idle)
          /\ ll_scanning_enabled' = [ll_scanning_enabled EXCEPT ![r] = enable]
          /\ machine' = [machine EXCEPT ![r][i] = mk_scanner(last_clock[r])]
    /\ UNCHANGED <<last_machine, last_clock, ll_advertising_enabled, paramVars>>

StopScanning(r) ==
    /\ Command(r)
    /\ ll_scanning_enabled[r] = 1
    /\ \E i \in Machines :
          /\ FirstMachine(r, i, Scanning)
          /\ ll_scanning_enabled' = [ll_scanning_enabled EXCEPT ![r] = 0]
          /\ machine' = [machine EXCEPT ![r][i] = IdleMachine]
    /\ UNCHANGED <<last_machine, last_clock, ll_advertising_enabled, paramVars>>

\* The parameters are stored as they come, also while a machine uses them.
ll_set_advertising_parameters(r, interval) ==
    /\ Command(r)
    /\ ll_advertising_interval_min' = [ll_advertising_interval_min EXCEPT ![r] = interval]
    /\ UNCHANGED <<machine, last_machine, last_clock, flagVars,
                   ll_advertising_time, ll_scan_interval, ll_scan_window>>

ll_set_advertising_data(r, time) ==
    /\ Command(r)
    /\ ll_advertising_time' = [ll_advertising_time EXCEPT ![r] = time]
    /\ UNCHANGED <<machine, last_machine, last_clock, flagVars,
                   ll_advertising_interval_min, ll_scan_interval, ll_scan_window>>

ll_set_scan_parameters(r, interval, window) ==
    /\ Command(r)
    /\ ll_scan_interval' = [ll_scan_interval EXCEPT ![r] = interval]
    /\ ll_scan_window' = [ll_scan_window EXCEPT ![r] = window]
    /\ UNCHANGED <<machine, last_machine, last_clock, flagVars,
                   ll_advertising_interval_min, ll_advertising_time>>

HostCommand(r) ==
    \/ reset(r)
    \/ \E e \in EnableValues : StartAdvertising(r, e)
    \/ StopAdvertising(r)
    \/ \E e \in EnableValues : StartScanning(r, e)
    \/ StopScanning(r)
    \/ \E i \in AdvIntervals : ll_set_advertising_parameters(r, i)
    \/ \E t \in AdvTimes : ll_set_advertising_data(r, t)
    \/ \E i \in ScanIntervals, w \in ScanWindows : ll_set_scan_parameters(r, i, w)
-----------------------------------------------------------------------------
Init ==
    /\ PHY!Init
    /\ machine = [r \in Radios |-> [i \in Machines |-> IdleMachine]]
    /\ last_machine = [r \in Radios |-> 0]
    /\ last_clock = [r \in Radios |-> 0]
    /\ ll_advertising_enabled = [r \in Radios |-> 0]
    /\ ll_scanning_enabled = [r \in Radios |-> 0]
    /\ ll_advertising_interval_min = [r \in Radios |-> DefaultAdvInterval]
    /\ ll_advertising_time = [r \in Radios |-> DefaultAdvTime]
    /\ ll_scan_interval = [r \in Radios |-> 0]
    /\ ll_scan_window = [r \in Radios |-> 0]
    /\ advertising_reports = {}

Next ==
    \/ SimulationThread
    \/ \E r \in Radios : Connect(r) \/ HostCommand(r)
    \/ ConnectionStep

Spec == Init /\ [][Next]_vars

FairSpec == Spec /\ WF_vars(SimulationThread)
-----------------------------------------------------------------------------
(* Properties.                                                             *)

MachineStates ==
    {IdleMachine}
    \cup [state : {"Advertising"}, instant : Int, tx : Int, channel : 0 .. 2]
    \cup [state : {"Scanning"}, instant : Int, channel : 0 .. 2]

\* Every variable has its type.
TypeOK ==
    /\ PHY!TypeOK
    /\ machine \in [Radios -> [Machines -> MachineStates]]
    /\ last_machine \in [Radios -> Machines]
    /\ last_clock \in [Radios -> Int]
    /\ ll_advertising_enabled \in [Radios -> Int]
    /\ ll_scanning_enabled \in [Radios -> Int]
    /\ ll_advertising_interval_min \in [Radios -> Nat]
    /\ ll_advertising_time \in [Radios -> AdvTimes]
    /\ ll_scan_interval \in [Radios -> Nat]
    /\ ll_scan_window \in [Radios -> ScanWindows \cup {0}]
    /\ advertising_reports \subseteq reported

Role(r, P(_)) == {i \in Machines : P(machine[r][i])}

\* The flags the enable commands test and the machines they look for agree:
\* scanning is enabled exactly while one machine scans, at most one machine
\* advertises and only while advertising is enabled.  So the machines suffice:
\* a role that is not taken finds an idle one.
FlagsMatchMachines ==
    \A r \in all_radios :
        /\ Cardinality(Role(r, Scanning)) = IF ll_scanning_enabled[r] = 0 THEN 0 ELSE 1
        /\ Cardinality(Role(r, Advertising)) <= 1
        /\ Role(r, Advertising) # {} => ll_advertising_enabled[r] # 0

\* A host is told of an advertiser only while it has scanning enabled, however
\* its commands fall between the opening of a window and the packet's end.
ReportsOnlyWhileScanning ==
    [][\A d \in advertising_reports' \ advertising_reports :
          ll_scanning_enabled[d.window.physical_layer] # 0]_vars

\* website/index.md:19 has a host stack connect and advertise: while it has no
\* advertiser, the flag does not keep it from getting one.
CanAdvertise ==
    \A r \in all_radios : Role(r, Advertising) = {} => ll_advertising_enabled[r] = 0

\* A radio that advertises and does not scan goes on transmitting, whatever its
\* host did before: it catches up with the clock.  (A radio that is held by a
\* window which ends before it starts is silent for good.)
OnAir(r) == \E c \in Channels : \E t \in PHY!OnAir(c) : t.physical_layer = r

AdvertiserTransmits ==
    \A r \in Radios :
        <>[](/\ r \in active \ delete_pending
             /\ Role(r, Advertising) # {} /\ Role(r, Scanning) = {}
             /\ ~PHY!NeverEnds(r))
            => []<>OnAir(r)
=============================================================================
