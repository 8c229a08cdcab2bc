---------------------------- MODULE MCLinkLayer ----------------------------
(***************************************************************************)
(* LinkLayer for TLC: times are scaled down and, between rounds, moved back*)
(* by whole multiples of AdvAlign, which mk_advertiser rounds to, so that  *)
(* executions of any length have finitely many states.                     *)
(***************************************************************************)
EXTENDS LinkLayer

CONSTANTS
    MaxLag,     \* the furthest a machine's time is kept behind the clock
    Observer,   \* the radio of the host that scans
    MaxLead     \* more than any packet is handed over before its start

AIR == INSTANCE MCPhysicalLayer WITH
           Tags <- Machines, Leads <- 1 .. MaxLead, Airtimes <- AdvTimes,
           Windows <- WindowTimes

Latest(a, b) == IF a >= b THEN a ELSE b

\* A machine that has fallen far behind is kept MaxLag behind.
Moved(m, d) ==
    IF Advertising(m)
    THEN LET instant == Latest(m.instant - d, -MaxLag)
         IN  [m EXCEPT !.instant = instant, !.tx = instant + (m.tx - m.instant)]
    ELSE IF Scanning(m)
    THEN [m EXCEPT !.instant = Latest(@ - d, -MaxLag)]
    ELSE m

Settled == stage = "asleep" /\ physical_clock >= AdvAlign

Rebase ==
    LET d == (physical_clock \div AdvAlign) * AdvAlign
    IN  /\ AIR!RebaseBy(d)
        /\ machine' = [r \in Radios |-> [i \in Machines |-> Moved(machine[r][i], d)]]
        /\ last_clock' = [r \in Radios |-> Latest(last_clock[r] - d, -MaxLag)]
        /\ advertising_reports' = {}
        /\ UNCHANGED <<last_machine, flagVars, paramVars>>

MCNext == (Settled /\ Rebase) \/ (~Settled /\ Next)

MCSpec == Init /\ [][MCNext]_vars

MCThread == (Settled /\ Rebase) \/ (~Settled /\ SimulationThread)

MCFairSpec == MCSpec /\ WF_vars(MCThread)
-----------------------------------------------------------------------------
(* Hosts that stay connected, from a state with all of them active.        *)

Connected ==
    /\ all_radios = Radios
    /\ active = Radios
    /\ delete_pending = {}
    /\ delete_ready = {}
    /\ current_packet = [r \in Radios |-> NoPacket]
    /\ stage = "asleep"
    /\ unvisited = {}
    /\ ordered_transmitters = {}
    /\ ordered_receivers = {}
    /\ physical_clock = 0
    /\ time_until_next_event = IdleStep
    /\ transmitting = [c \in Channels |-> 0]
    /\ bad_transmission = [c \in Channels |-> FALSE]
    /\ sent = {}
    /\ reported = {}
    /\ machine = [r \in Radios |-> [i \in Machines |-> IdleMachine]]
    /\ last_machine = [r \in Radios |-> 0]
    /\ last_clock = [r \in Radios |-> 0]
    /\ ll_advertising_enabled = [r \in Radios |-> 0]
    /\ ll_scanning_enabled = [r \in Radios |-> 0]
    /\ ll_advertising_interval_min = [r \in Radios |-> DefaultAdvInterval]
    /\ ll_advertising_time = [r \in Radios |-> DefaultAdvTime]
    /\ ll_scan_interval = [r \in Radios |-> 0]
    /\ ll_scan_window = [r \in Radios |-> 0]
    /\ advertising_reports = {}

\* One host only scans, and sets scan parameters before it does; the others
\* only advertise.
ObserverCommand ==
    \/ reset(Observer)
    \/ \E e \in EnableValues : ll_scan_window[Observer] # 0 /\ StartScanning(Observer, e)
    \/ StopScanning(Observer)
    \/ \E i \in ScanIntervals, w \in ScanWindows : ll_set_scan_parameters(Observer, i, w)

BroadcasterCommand(r) ==
    \/ reset(r)
    \/ \E e \in EnableValues : StartAdvertising(r, e)
    \/ StopAdvertising(r)

DiscoveryNext ==
    \/ MCThread
    \/ ~Settled /\ ObserverCommand
    \/ ~Settled /\ \E r \in Radios \ {Observer} : BroadcasterCommand(r)

DiscoverySpec == Connected /\ [][DiscoveryNext]_vars
-----------------------------------------------------------------------------
\* The radio of LinkLayer is the radio of PhysicalLayer, with get_next_packet
\* filled in: every packet a machine hands over starts after the clock, is on
\* one of the channels and has one of the lengths the radio is proved for.
ImplementsPhysicalLayer ==
    AIR!Init /\ [][~Settled => AIR!Next]_phyVars
=============================================================================
