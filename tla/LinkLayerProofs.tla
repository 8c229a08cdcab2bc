---------------------------- MODULE LinkLayerProofs ----------------------------
(***************************************************************************)
(* Proofs about LinkLayer, for any radios, any number of machines and any  *)
(* intervals, windows and lengths: that it implements the radio of         *)
(* PhysicalLayer, whose theorems therefore hold of it, that the flags which*)
(* the enable commands test agree with the machines they look for, and     *)
(* that a host is only sent reports while it has scanning enabled.         *)
(*                                                                         *)
(* RADIO is PHY of LinkLayer together with its theorems: its definitions   *)
(* are those of PhysicalLayer, with the same constants and variables.      *)
(***************************************************************************)
EXTENDS LinkLayer, FiniteSetTheorems, TLAPS

RADIO == INSTANCE PhysicalLayerDeliveryProofs WITH
             Tags <- Machines, Leads <- LeadTimes, Airtimes <- AdvTimes,
             Windows <- WindowTimes

\* The types of what is the link layer's own.
LinkTypes ==
    /\ machine \in [Radios -> [Machines -> MachineStates]]
    /\ last_machine \in [Radios -> Machines]
    /\ last_clock \in [Radios -> Int]
    /\ ll_advertising_enabled \in [Radios -> Int]
    /\ ll_scanning_enabled \in [Radios -> Int]
    /\ ll_advertising_interval_min \in [Radios -> Nat]
    /\ ll_advertising_time \in [Radios -> AdvTimes]
    /\ ll_scan_interval \in [Radios -> Nat]
    /\ ll_scan_window \in [Radios -> ScanWindows \cup {0}]

InState(r, s) == {i \in Machines : machine[r][i].state = s}

\* FlagsMatchMachines without cardinalities, for all radios that there may be.
RolesInv ==
    \A r \in Radios :
        /\ ll_scanning_enabled[r] = 0 => InState(r, "Scanning") = {}
        /\ ll_scanning_enabled[r] # 0 => \E i \in Machines : InState(r, "Scanning") = {i}
        /\ \A i, j \in InState(r, "Advertising") : i = j
        /\ InState(r, "Advertising") # {} => ll_advertising_enabled[r] # 0

LinkInv == LinkTypes /\ RolesInv
-----------------------------------------------------------------------------
(* The radio of LinkLayer is that of PhysicalLayer.                        *)

\* The constants are as PhysicalLayer assumes.
LEMMA RadioConstants == RADIO!ConstantsAssumption
<1>1. \A w \in WindowTimes : w \in Int
  BY LinkAssumption DEF WindowTimes
<1>2. NoPacket \notin RADIO!Packet
  BY LinkAssumption DEF PHY!Packet, RADIO!Packet
<1> QED
  BY <1>1, <1>2, LinkAssumption DEF RADIO!ConstantsAssumption, LeadTimes

\* The steps of the socket thread are the same in both instances.
LEMMA SameSocketSteps ==
    ASSUME NEW r
    PROVE  /\ PHY!PhysicalLayerConstructor(r) => RADIO!PhysicalLayerConstructor(r)
           /\ PHY!mk_active(r) => RADIO!mk_active(r)
           /\ PHY!set_delete_pending(r) => RADIO!set_delete_pending(r)
           /\ PHY!PhysicalLayerDestructor(r) => RADIO!PhysicalLayerDestructor(r)
<1> USE DEF PHY!listVars, PHY!airVars, RADIO!listVars, RADIO!airVars
<1>1. PHY!PhysicalLayerConstructor(r) => RADIO!PhysicalLayerConstructor(r)
  BY DEF PHY!PhysicalLayerConstructor, RADIO!PhysicalLayerConstructor
<1>2. PHY!mk_active(r) => RADIO!mk_active(r)
  BY DEF PHY!mk_active, RADIO!mk_active
<1>3. PHY!set_delete_pending(r) => RADIO!set_delete_pending(r)
  BY DEF PHY!set_delete_pending, RADIO!set_delete_pending
<1>4. PHY!PhysicalLayerDestructor(r) => RADIO!PhysicalLayerDestructor(r)
  BY DEF PHY!PhysicalLayerDestructor, RADIO!PhysicalLayerDestructor
<1> QED
  BY <1>1, <1>2, <1>3, <1>4

\* The steps of the gathering loop.
LEMMA SameGatherSteps ==
    ASSUME NEW r, NEW p
    PROVE  /\ PHY!BeginRound => RADIO!BeginRound
           /\ PHY!SkipInactive(r) => RADIO!SkipInactive(r)
           /\ PHY!VisitBusy(r) => RADIO!VisitBusy(r)
           /\ PHY!VisitOffer(r, p) => RADIO!VisitOffer(r, p)
           /\ PHY!VisitSilent(r) => RADIO!VisitSilent(r)
           /\ PHY!VisitDeleting(r) => RADIO!VisitDeleting(r)
           /\ PHY!Gathered => RADIO!Gathered
<1> USE DEF PHY!radioVars, PHY!listVars, PHY!airVars, PHY!AtRadio, PHY!insert_into,
            RADIO!radioVars, RADIO!listVars, RADIO!airVars, RADIO!AtRadio, RADIO!insert_into
<1>1. PHY!BeginRound => RADIO!BeginRound
  BY DEF PHY!BeginRound, RADIO!BeginRound
<1>2. PHY!SkipInactive(r) => RADIO!SkipInactive(r)
  BY DEF PHY!SkipInactive, RADIO!SkipInactive
<1>3. PHY!VisitBusy(r) => RADIO!VisitBusy(r)
  BY DEF PHY!VisitBusy, RADIO!VisitBusy
<1>4. PHY!VisitOffer(r, p) => RADIO!VisitOffer(r, p)
  BY DEF PHY!VisitOffer, RADIO!VisitOffer
<1>5. PHY!VisitSilent(r) => RADIO!VisitSilent(r)
  BY DEF PHY!VisitSilent, RADIO!VisitSilent
<1>6. PHY!VisitDeleting(r) => RADIO!VisitDeleting(r)
  BY DEF PHY!VisitDeleting, RADIO!VisitDeleting
<1>7. PHY!Gathered => RADIO!Gathered
  BY DEF PHY!Gathered, RADIO!Gathered
<1> QED
  BY <1>1, <1>2, <1>3, <1>4, <1>5, <1>6, <1>7

\* The steps of the loop over the transmitters.
LEMMA SameTransmitterSteps ==
    ASSUME NEW p
    PROVE  /\ PHY!EndTransmission(p) => RADIO!EndTransmission(p)
           /\ PHY!StayOnAir(p) => RADIO!StayOnAir(p)
           /\ PHY!StartTransmission(p) => RADIO!StartTransmission(p)
           /\ PHY!AwaitTransmission(p) => RADIO!AwaitTransmission(p)
           /\ PHY!TransmittersDone => RADIO!TransmittersDone
<1> USE DEF PHY!radioVars, PHY!listVars, PHY!airVars, PHY!AtTransmitter, PHY!Earliest, PHY!Sooner,
            RADIO!radioVars, RADIO!listVars, RADIO!airVars, RADIO!AtTransmitter,
            RADIO!Earliest, RADIO!Sooner
<1>1. PHY!EndTransmission(p) => RADIO!EndTransmission(p)
  <2>1. PHY!Receivers(p) = RADIO!Receivers(p)
    BY DEF PHY!Receivers, PHY!Listening, RADIO!Receivers, RADIO!Listening
  <2> QED
    BY <2>1 DEF PHY!EndTransmission, PHY!GiveBack, PHY!ClearBad,
                RADIO!EndTransmission, RADIO!GiveBack, RADIO!ClearBad
<1>2. PHY!StayOnAir(p) => RADIO!StayOnAir(p)
  BY DEF PHY!StayOnAir, RADIO!StayOnAir
<1>3. PHY!StartTransmission(p) => RADIO!StartTransmission(p)
  BY DEF PHY!StartTransmission, RADIO!StartTransmission
<1>4. PHY!AwaitTransmission(p) => RADIO!AwaitTransmission(p)
  BY DEF PHY!AwaitTransmission, RADIO!AwaitTransmission
<1>5. PHY!TransmittersDone => RADIO!TransmittersDone
  BY DEF PHY!TransmittersDone, RADIO!TransmittersDone
<1> QED
  BY <1>1, <1>2, <1>3, <1>4, <1>5

\* The loop over the receivers.
LEMMA SameReceiverSteps == PHY!StepReceivers => RADIO!StepReceivers
<1> USE DEF PHY!radioVars, PHY!listVars, PHY!airVars, PHY!AtReceiver, PHY!Earliest, PHY!Sooner,
            RADIO!radioVars, RADIO!listVars, RADIO!airVars, RADIO!AtReceiver,
            RADIO!Earliest, RADIO!Sooner
<1>1. ASSUME NEW w
      PROVE  /\ PHY!EndReception(w) => RADIO!EndReception(w)
             /\ PHY!StayListening(w) => RADIO!StayListening(w)
             /\ PHY!StartReception(w) => RADIO!StartReception(w)
             /\ PHY!AwaitReception(w) => RADIO!AwaitReception(w)
             /\ PHY!PassReception(w) => RADIO!PassReception(w)
  <2>1. PHY!EndReception(w) => RADIO!EndReception(w)
    BY DEF PHY!EndReception, RADIO!EndReception
  <2>2. PHY!StayListening(w) => RADIO!StayListening(w)
    BY DEF PHY!StayListening, RADIO!StayListening
  <2>3. PHY!StartReception(w) => RADIO!StartReception(w)
    BY DEF PHY!StartReception, RADIO!StartReception
  <2>4. PHY!AwaitReception(w) => RADIO!AwaitReception(w)
    BY DEF PHY!AwaitReception, RADIO!AwaitReception
  <2>5. PHY!PassReception(w) => RADIO!PassReception(w)
    BY DEF PHY!PassReception, RADIO!PassReception
  <2> QED
    BY <2>1, <2>2, <2>3, <2>4, <2>5
<1>2. PHY!Advance => RADIO!Advance
  BY DEF PHY!Advance, RADIO!Advance
<1> QED
  BY <1>1, <1>2 DEF PHY!StepReceivers, RADIO!StepReceivers
-----------------------------------------------------------------------------
(* Every step of LinkLayer is a step of the radio, or leaves it alone.     *)

\* What a machine that is due hands over is a packet that starts after the
\* clock, on one of the channels, of one of the lengths.
LEMMA OffersAreAllowed ==
    ASSUME LinkTypes, physical_clock \in Int,
           NEW r \in Radios, NEW i \in Machines,
           Due(machine[r][i], physical_clock), PHY!VisitOffer(r, PacketFrom(r, i))
    PROVE  RADIO!VisitAny(r)
<1> DEFINE m == machine[r][i]
<1>1. RADIO!VisitOffer(r, PacketFrom(r, i))
  BY SameGatherSteps
<1>2. m \in MachineStates
  BY DEF LinkTypes
<1>3. CASE m.state = "Advertising"
  <2>1. /\ m.tx \in Int /\ m.channel \in 0 .. 2
        /\ m.tx > physical_clock
    BY <1>2, <1>3 DEF MachineStates, IdleMachine, Due, Advertising, Scanning
  <2> DEFINE lead == m.tx - physical_clock
  <2>2. lead \in LeadTimes /\ m.tx = physical_clock + lead
    BY <2>1 DEF LeadTimes
  <2>3. 37 + m.channel \in Channels
    BY <2>1 DEF Channels
  <2>4. ll_advertising_time[r] \in AdvTimes
    BY DEF LinkTypes
  <2>5. PacketFrom(r, i) =
          RADIO!PacketOf(r, TRUE, 37 + m.channel, i, physical_clock + lead, ll_advertising_time[r])
    BY <2>2, <1>3 DEF PacketFrom, Advertising, PHY!PacketOf, RADIO!PacketOf
  <2> HIDE DEF lead, m
  <2> QED
    BY <1>1, <2>2, <2>3, <2>4, <2>5 DEF RADIO!VisitAny
<1>4. CASE m.state = "Scanning"
  <2>1. /\ m.instant \in Int /\ m.channel \in 0 .. 2
        /\ m.instant > physical_clock
    BY <1>2, <1>4 DEF MachineStates, IdleMachine, Due, Advertising, Scanning
  <2> DEFINE lead == m.instant - physical_clock
  <2> DEFINE length == ll_scan_window[r] * Slot - Ifs
  <2>2. lead \in LeadTimes /\ m.instant = physical_clock + lead
    BY <2>1 DEF LeadTimes
  <2>3. 37 + m.channel \in Channels
    BY <2>1 DEF Channels
  <2>4. length \in WindowTimes
    BY DEF LinkTypes, WindowTimes
  <2>5. PacketFrom(r, i) =
          RADIO!PacketOf(r, FALSE, 37 + m.channel, i, physical_clock + lead, length)
    BY <2>2, <1>4 DEF PacketFrom, Advertising, PHY!PacketOf, RADIO!PacketOf
  <2> HIDE DEF lead, length, m
  <2> QED
    BY <1>1, <2>2, <2>3, <2>4, <2>5 DEF RADIO!VisitAny
<1> QED
  BY <1>3, <1>4 DEF Due, Advertising, Scanning

LEMMA RadioInit == Init => RADIO!Init
  BY DEF Init, PHY!Init, RADIO!Init

LEMMA RadioNext == LinkTypes /\ RADIO!TypeInv /\ [Next]_vars => [RADIO!Next]_(RADIO!vars)
<1> SUFFICES ASSUME LinkTypes, RADIO!TypeInv, [Next]_vars
             PROVE  RADIO!Next \/ UNCHANGED phyVars
  BY DEF RADIO!vars, phyVars, RADIO!radioVars, RADIO!listVars, RADIO!airVars
<1> USE DEF RADIO!Next, RADIO!physical_layer_simulation_thread
<1>1. physical_clock \in Int /\ unvisited \subseteq Radios
  BY DEF RADIO!TypeInv, RADIO!TypeOK
<1>2. CASE BeginRound
  BY <1>2, SameGatherSteps DEF BeginRound, RADIO!Gather
<1>3. ASSUME NEW r \in unvisited, NEW i \in Machines, GetNextPacket(r, i) PROVE RADIO!Next
  <2>1. RADIO!VisitAny(r)
    BY <1>1, <1>3, OffersAreAllowed DEF GetNextPacket
  <2> QED
    BY <2>1 DEF RADIO!Gather
<1>4. ASSUME NEW r \in unvisited, GetNoPacket(r) PROVE RADIO!Next
  BY <1>4, SameGatherSteps DEF GetNoPacket, RADIO!Gather
<1>5. ASSUME NEW p \in ordered_transmitters, EndOfPacket(p) PROVE RADIO!Next
  BY <1>5, SameTransmitterSteps DEF EndOfPacket, RADIO!StepTransmitters
<1>6. CASE RadioStep
  <2>1. ASSUME NEW r \in unvisited,
               PHY!SkipInactive(r) \/ PHY!VisitBusy(r) \/ PHY!VisitDeleting(r)
        PROVE  RADIO!Next
    BY <2>1, SameGatherSteps DEF RADIO!Gather
  <2>2. CASE PHY!Gathered
    BY <2>2, SameGatherSteps DEF RADIO!Gather
  <2>3. ASSUME NEW p \in ordered_transmitters,
               PHY!StayOnAir(p) \/ PHY!StartTransmission(p) \/ PHY!AwaitTransmission(p)
        PROVE  RADIO!Next
    BY <2>3, SameTransmitterSteps DEF RADIO!StepTransmitters
  <2>4. CASE PHY!TransmittersDone
    BY <2>4, SameTransmitterSteps DEF RADIO!StepTransmitters
  <2>5. CASE PHY!StepReceivers
    BY <2>5, SameReceiverSteps
  <2> QED
    BY <1>6, <2>1, <2>2, <2>3, <2>4, <2>5 DEF RadioStep
<1>7. ASSUME NEW r \in Radios, Connect(r) PROVE RADIO!Next
  BY <1>7, SameSocketSteps DEF Connect, RADIO!SocketThread
<1>8. ASSUME NEW r \in Radios, HostCommand(r) PROVE UNCHANGED phyVars
  BY <1>8 DEF HostCommand, Command, reset, StartAdvertising, StopAdvertising,
              StartScanning, StopScanning, ll_set_advertising_parameters,
              ll_set_advertising_data, ll_set_scan_parameters
<1>9. CASE ConnectionStep
  BY <1>9, SameSocketSteps DEF ConnectionStep, RADIO!SocketThread
<1>10. CASE UNCHANGED vars
  BY <1>10 DEF vars
<1> QED
  BY <1>2, <1>3, <1>4, <1>5, <1>6, <1>7, <1>8, <1>9, <1>10 DEF Next, SimulationThread

-----------------------------------------------------------------------------
(* The machines.                                                           *)

\* The next of three channels is one of them.
LEMMA NextChannel == \A c \in 0 .. 2 : (c + 1) % 3 \in 0 .. 2
<1>1. \A c \in 0 .. 2 : c = 0 \/ c = 1 \/ c = 2
  OBVIOUS
<1> QED
  BY <1>1

LEMMA AdvTimeIsNumber ==
    ASSUME LinkTypes, NEW r \in Radios
    PROVE  ll_advertising_time[r] \in Int
<1>1. ll_advertising_time[r] \in AdvTimes
  BY DEF LinkTypes
<1>2. \A t \in AdvTimes : t \in Int
  BY LinkAssumption
<1> QED
  BY <1>1, <1>2, Zenon

LEMMA Numbers ==
    ASSUME LinkTypes, NEW r \in Radios, NEW j \in Jitter
    PROVE  /\ j * Slot \in Int
           /\ ll_advertising_interval_min[r] * Slot \in Int
           /\ ll_scan_interval[r] * Slot \in Int
<1>1. /\ j \in Int /\ Slot \in Int
      /\ ll_advertising_interval_min[r] \in Int
      /\ ll_scan_interval[r] \in Int
  BY LinkAssumption DEF LinkTypes
<1> QED
  BY <1>1

\* A machine that hands over a packet remains what it is ...
LEMMA HandedOverKeeps ==
    ASSUME LinkTypes, NEW r \in Radios, NEW m \in MachineStates, m.state # "Idle",
           NEW j \in Jitter
    PROVE  /\ HandedOver(r, m, j) \in MachineStates
           /\ HandedOver(r, m, j).state = m.state
<1> DEFINE next == (m.channel + 1) % 3
           step == ll_scan_interval[r] * Slot
           event == ll_advertising_interval_min[r] * Slot
           late == j * Slot
<1>1. step \in Int /\ event \in Int /\ late \in Int
  BY Numbers
<1>2. HandedOver(r, m, j) =
        IF Scanning(m) THEN [m EXCEPT !.instant = @ + step, !.channel = next]
        ELSE IF next = 0
        THEN [m EXCEPT !.instant = m.instant + event, !.tx = m.instant + event + late,
                       !.channel = next]
        ELSE [m EXCEPT !.tx = @ + ll_advertising_time[r] + Ifs, !.channel = next]
  BY DEF HandedOver
<1>3. CASE m.state = "Advertising"
  <2>1. m \in [state : {"Advertising"}, instant : Int, tx : Int, channel : 0 .. 2]
    BY <1>3 DEF MachineStates, IdleMachine
  <2>2. next \in 0 .. 2
    BY <2>1, NextChannel
  <2>3. m.tx + ll_advertising_time[r] + Ifs \in Int
    <3>1. m.tx \in Int /\ ll_advertising_time[r] \in Int /\ Ifs \in Int
      BY <2>1, AdvTimeIsNumber, LinkAssumption
    <3> QED
      BY <3>1
  <2> HIDE DEF next, step, event, late
  <2>4. m.instant + event \in Int /\ m.instant + event + late \in Int
    BY <2>1, <1>1
  <2> QED
    BY <1>2, <1>3, <2>1, <2>2, <2>3, <2>4 DEF MachineStates, Scanning
<1>4. CASE m.state = "Scanning"
  <2>1. m \in [state : {"Scanning"}, instant : Int, channel : 0 .. 2]
    BY <1>4 DEF MachineStates, IdleMachine
  <2>2. next \in 0 .. 2
    BY <2>1, NextChannel
  <2> HIDE DEF next, step, event, late
  <2>3. m.instant + step \in Int
    BY <2>1, <1>1
  <2> QED
    BY <1>2, <1>4, <2>1, <2>2, <2>3 DEF MachineStates, Scanning
<1> QED
  BY <1>3, <1>4 DEF MachineStates, IdleMachine

\* ... and so does one that catches up.
LEMMA CatchUpKeeps ==
    ASSUME LinkTypes, NEW r \in Radios, NEW m \in MachineStates,
           NEW t \in Int, NEW j \in Jitter
    PROVE  /\ CatchUp(r, m, t, j) \in MachineStates
           /\ CatchUp(r, m, t, j).state = m.state
<1> DEFINE step == ll_scan_interval[r] * Slot
           event == ll_advertising_interval_min[r] * Slot
           late == j * Slot
<1>1. step \in Int /\ event \in Int /\ late \in Int
  BY Numbers
<1>2. CatchUp(r, m, t, j) =
        IF Advertising(m) /\ m.tx < t
        THEN [m EXCEPT !.instant = m.instant + event, !.tx = m.instant + event + late]
        ELSE IF Scanning(m) /\ m.instant < t
        THEN [m EXCEPT !.instant = @ + step]
        ELSE m
  BY DEF CatchUp
<1> HIDE DEF step, event, late
<1>3. CASE m.state = "Advertising"
  <2>1. m \in [state : {"Advertising"}, instant : Int, tx : Int, channel : 0 .. 2]
    BY <1>3 DEF MachineStates, IdleMachine
  <2>2. m.instant + event \in Int /\ m.instant + event + late \in Int
    BY <2>1, <1>1
  <2> QED
    BY <1>2, <1>3, <2>1, <2>2 DEF MachineStates, Scanning
<1>4. CASE m.state = "Scanning"
  <2>1. m \in [state : {"Scanning"}, instant : Int, channel : 0 .. 2]
    BY <1>4 DEF MachineStates, IdleMachine
  <2>2. m.instant + step \in Int
    BY <2>1, <1>1
  <2> QED
    BY <1>2, <1>4, <2>1, <2>2 DEF MachineStates, Advertising, Scanning
<1>5. CASE m.state = "Idle"
  BY <1>2, <1>5 DEF Advertising, Scanning
<1> QED
  BY <1>3, <1>4, <1>5 DEF MachineStates, IdleMachine

\* A command starts a machine with the right type.
LEMMA MadeMachines ==
    ASSUME NEW t \in Int, NEW j \in Jitter
    PROVE  /\ mk_advertiser(t, j) \in MachineStates
           /\ mk_advertiser(t, j).state = "Advertising"
<1> DEFINE instant == (t \div AdvAlign) * AdvAlign + AdvAlign
           late == j * Slot
<1>1. instant \in Int
  <2>1. AdvAlign \in Int /\ AdvAlign > 0
    BY LinkAssumption
  <2>2. t \div AdvAlign \in Int
    BY <2>1
  <2> QED
    BY <2>1, <2>2
<1>2. late \in Int
  BY LinkAssumption
<1>3. mk_advertiser(t, j) = [state |-> "Advertising", instant |-> instant,
                             tx |-> instant + late, channel |-> 0]
  BY DEF mk_advertiser
<1> HIDE DEF instant, late
<1> QED
  BY <1>1, <1>2, <1>3 DEF MachineStates

LEMMA MadeScanner ==
    ASSUME NEW t \in Int
    PROVE  mk_scanner(t) \in MachineStates /\ mk_scanner(t).state = "Scanning"
<1>1. FirstScan \in Int
  BY LinkAssumption
<1> QED
  BY <1>1 DEF mk_scanner, MachineStates

\* Steps in which no machine changes its state keep the roles.
LEMMA RolesKept ==
    ASSUME RolesInv, UNCHANGED flagVars,
           \A r \in Radios, i \in Machines : machine'[r][i].state = machine[r][i].state
    PROVE  RolesInv'
<1>1. \A r \in Radios : \A s : InState(r, s)' = InState(r, s)
  BY DEF InState
<1> QED
  BY <1>1 DEF RolesInv, flagVars

-----------------------------------------------------------------------------
(* LinkInv is an invariant.                                                *)

\* get_next_packet only moves machines on in time.
LEMMA MachinesMoveOn ==
    ASSUME LinkTypes, physical_clock \in Int, NEW r \in Radios,
           \/ \E i \in Machines : GetNextPacket(r, i)
           \/ GetNoPacket(r)
    PROVE  /\ machine' \in [Radios -> [Machines -> MachineStates]]
           /\ \A q \in Radios, k \in Machines : machine'[q][k].state = machine[q][k].state
<1>1. ASSUME NEW q \in Radios, NEW k \in Machines
      PROVE  machine[q][k] \in MachineStates
  BY DEF LinkTypes
<1>2. ASSUME NEW i \in Machines, GetNextPacket(r, i)
      PROVE  /\ machine' \in [Radios -> [Machines -> MachineStates]]
             /\ \A q \in Radios, k \in Machines : machine'[q][k].state = machine[q][k].state
  <2>1. PICK j \in [Machines -> Jitter] :
          machine' = [machine EXCEPT ![r] =
              [k \in Machines |->
                  IF k = i THEN HandedOver(r, machine[r][i], j[k])
                  ELSE IF k \in Before(r, i)
                  THEN CatchUp(r, machine[r][k], physical_clock, j[k])
                  ELSE machine[r][k]]]
    BY <1>2 DEF GetNextPacket
  <2>2. machine[r][i].state # "Idle"
    BY <1>2 DEF GetNextPacket, Due, Advertising, Scanning
  <2>3. ASSUME NEW k \in Machines
        PROVE  machine'[r][k] \in MachineStates /\ machine'[r][k].state = machine[r][k].state
    <3>1. j[k] \in Jitter
      OBVIOUS
    <3>2. machine'[r][k] = IF k = i THEN HandedOver(r, machine[r][i], j[k])
                           ELSE IF k \in Before(r, i)
                           THEN CatchUp(r, machine[r][k], physical_clock, j[k])
                           ELSE machine[r][k]
      BY <2>1 DEF LinkTypes
    <3>3. CASE k = i
      BY <3>1, <3>2, <3>3, <1>1, <2>2, HandedOverKeeps
    <3>4. CASE k # i
      BY <3>1, <3>2, <3>4, <1>1, CatchUpKeeps
    <3> QED
      BY <3>3, <3>4
  <2>4. \A q \in Radios \ {r} : machine'[q] = machine[q]
    BY <2>1 DEF LinkTypes
  <2>5. /\ machine'[r] \in [Machines -> MachineStates]
        /\ DOMAIN machine' = Radios /\ machine' = [q \in Radios |-> machine'[q]]
    BY <2>1, <2>3 DEF LinkTypes
  <2>6. \A q \in Radios : machine'[q] \in [Machines -> MachineStates]
    BY <2>4, <2>5 DEF LinkTypes
  <2> QED
    BY <2>3, <2>4, <2>5, <2>6
<1>3. CASE GetNoPacket(r)
  <2>1. PICK j \in [Machines -> Jitter] :
          machine' = [machine EXCEPT ![r] =
              [k \in Machines |-> CatchUp(r, machine[r][k], physical_clock, j[k])]]
    BY <1>3 DEF GetNoPacket
  <2>2. ASSUME NEW k \in Machines
        PROVE  machine'[r][k] \in MachineStates /\ machine'[r][k].state = machine[r][k].state
    <3>1. j[k] \in Jitter
      OBVIOUS
    <3> DEFINE late == CatchUp(r, machine[r][k], physical_clock, j[k])
    <3>2. machine'[r][k] = late
      BY <2>1 DEF LinkTypes
    <3>3. machine[r][k] \in MachineStates
      BY <1>1
    <3>4. late \in MachineStates /\ late.state = machine[r][k].state
      BY <3>1, <3>3, CatchUpKeeps
    <3> HIDE DEF late
    <3> QED
      BY <3>2, <3>4
  <2>3. \A q \in Radios \ {r} : machine'[q] = machine[q]
    BY <2>1 DEF LinkTypes
  <2>4. /\ machine'[r] \in [Machines -> MachineStates]
        /\ DOMAIN machine' = Radios /\ machine' = [q \in Radios |-> machine'[q]]
    BY <2>1, <2>2 DEF LinkTypes
  <2>5. \A q \in Radios : machine'[q] \in [Machines -> MachineStates]
    BY <2>3, <2>4 DEF LinkTypes
  <2> QED
    BY <2>2, <2>3, <2>4, <2>5
<1> QED
  BY <1>2, <1>3

LEMMA SimulationKeeps ==
    LinkInv /\ RADIO!TypeInv /\ SimulationThread => LinkInv'
<1> SUFFICES ASSUME LinkInv, RADIO!TypeInv, SimulationThread PROVE LinkInv'
  OBVIOUS
<1> USE DEF LinkInv
<1>1. physical_clock \in Int /\ unvisited \subseteq Radios
  BY DEF RADIO!TypeInv, RADIO!TypeOK
<1>2. ASSUME NEW r \in unvisited,
             (\E i \in Machines : GetNextPacket(r, i)) \/ GetNoPacket(r)
      PROVE  LinkInv'
  <2>1. r \in Radios
    BY <1>1
  <2>2. /\ machine' \in [Radios -> [Machines -> MachineStates]]
        /\ \A q \in Radios, k \in Machines : machine'[q][k].state = machine[q][k].state
    BY <1>1, <1>2, <2>1, MachinesMoveOn
  <2>3. UNCHANGED <<flagVars, paramVars>>
    BY <1>2 DEF GetNextPacket, GetNoPacket
  <2>4. last_machine' \in [Radios -> Machines] /\ last_clock' \in [Radios -> Int]
    BY <1>1, <1>2 DEF GetNextPacket, GetNoPacket, LinkTypes
  <2>5. LinkTypes'
    BY <2>2, <2>3, <2>4 DEF LinkTypes, flagVars, paramVars
  <2>6. RolesInv'
    BY <2>2, <2>3, RolesKept
  <2> QED
    BY <2>5, <2>6
<1>3. ASSUME UNCHANGED linkVars PROVE LinkInv'
  BY <1>3 DEF linkVars, flagVars, paramVars, LinkTypes, RolesInv, InState
<1> QED
  BY <1>2, <1>3 DEF SimulationThread, BeginRound, EndOfPacket, RadioStep


\* A command that changes one machine.
LEMMA OneMachine ==
    ASSUME LinkTypes, NEW r \in Radios, NEW i \in Machines, NEW m \in MachineStates,
           machine' = [machine EXCEPT ![r][i] = m]
    PROVE  /\ machine' \in [Radios -> [Machines -> MachineStates]]
           /\ \A s : InState(r, s)' = IF m.state = s THEN InState(r, s) \cup {i}
                                                    ELSE InState(r, s) \ {i}
           /\ \A q \in Radios \ {r} : \A s : InState(q, s)' = InState(q, s)
<1>1. machine' \in [Radios -> [Machines -> MachineStates]]
  BY DEF LinkTypes
<1>2. \A q \in Radios, k \in Machines :
         machine'[q][k] = IF q = r /\ k = i THEN m ELSE machine[q][k]
  BY DEF LinkTypes
<1> QED
  BY <1>1, <1>2 DEF InState

\* A role that starts takes the idle machine ...
LEMMA StartsKeep ==
    ASSUME LinkInv, NEW r \in Radios, NEW e \in EnableValues,
           StartAdvertising(r, e) \/ StartScanning(r, e)
    PROVE  LinkInv'
<1> USE DEF LinkInv
<1>1. e \in Int
  BY LinkAssumption
<1>2. CASE StartAdvertising(r, e)
  <2>1. PICK i \in Machines, j \in Jitter :
          /\ FirstMachine(r, i, Idle)
          /\ ll_advertising_enabled' = [ll_advertising_enabled EXCEPT ![r] = e]
          /\ machine' = [machine EXCEPT ![r][i] = mk_advertiser(last_clock[r], j)]
    BY <1>2 DEF StartAdvertising
  <2>2. machine[r][i].state = "Idle"
    BY <2>1 DEF FirstMachine, Idle
  <2>3. last_clock[r] \in Int
    BY DEF LinkTypes
  <2> DEFINE m == mk_advertiser(last_clock[r], j)
  <2>4. m \in MachineStates /\ m.state = "Advertising" /\ machine' = [machine EXCEPT ![r][i] = m]
    BY <2>1, <2>3, MadeMachines
  <2> HIDE DEF m
  <2>5. /\ machine' \in [Radios -> [Machines -> MachineStates]]
        /\ \A s : InState(r, s)' = IF m.state = s THEN InState(r, s) \cup {i}
                                                 ELSE InState(r, s) \ {i}
        /\ \A q \in Radios \ {r} : \A s : InState(q, s)' = InState(q, s)
    BY <2>4, OneMachine, Zenon
  <2>6. UNCHANGED <<last_machine, last_clock, ll_scanning_enabled, paramVars>>
        /\ e # 0 /\ ll_advertising_enabled[r] = 0
    BY <1>2 DEF StartAdvertising
  <2>7. LinkTypes'
    BY <1>1, <2>1, <2>5, <2>6 DEF LinkTypes, paramVars
  <2>8. i \notin InState(r, "Scanning") /\ InState(r, "Advertising") = {}
    BY <2>2, <2>6 DEF InState, RolesInv
  <2>9. /\ InState(r, "Scanning")' = InState(r, "Scanning")
        /\ InState(r, "Advertising")' = {i}
        /\ \A q \in Radios \ {r} : /\ InState(q, "Scanning")' = InState(q, "Scanning")
                                   /\ InState(q, "Advertising")' = InState(q, "Advertising")
    <3>1. InState(r, "Scanning")' = InState(r, "Scanning") \ {i}
      BY <2>4, <2>5
    <3>2. InState(r, "Advertising")' = InState(r, "Advertising") \cup {i}
      BY <2>4, <2>5
    <3> QED
      BY <3>1, <3>2, <2>5, <2>8
  <2>10. /\ ll_advertising_enabled'[r] # 0
         /\ \A q \in Radios \ {r} : ll_advertising_enabled'[q] = ll_advertising_enabled[q]
    BY <2>1, <2>6 DEF LinkTypes
  <2>11. RolesInv'
    BY <2>6, <2>9, <2>10 DEF RolesInv
  <2> QED
    BY <2>7, <2>11
<1>3. CASE StartScanning(r, e)
  <2>1. PICK i \in Machines :
          /\ FirstMachine(r, i, Idle)
          /\ ll_scanning_enabled' = [ll_scanning_enabled EXCEPT ![r] = e]
          /\ machine' = [machine EXCEPT ![r][i] = mk_scanner(last_clock[r])]
    BY <1>3 DEF StartScanning
  <2>2. machine[r][i].state = "Idle"
    BY <2>1 DEF FirstMachine, Idle
  <2>3. last_clock[r] \in Int
    BY DEF LinkTypes
  <2> DEFINE m == mk_scanner(last_clock[r])
  <2>4. m \in MachineStates /\ m.state = "Scanning" /\ machine' = [machine EXCEPT ![r][i] = m]
    BY <2>1, <2>3, MadeScanner
  <2> HIDE DEF m
  <2>5. /\ machine' \in [Radios -> [Machines -> MachineStates]]
        /\ \A s : InState(r, s)' = IF m.state = s THEN InState(r, s) \cup {i}
                                                 ELSE InState(r, s) \ {i}
        /\ \A q \in Radios \ {r} : \A s : InState(q, s)' = InState(q, s)
    BY <2>4, OneMachine, Zenon
  <2>6. UNCHANGED <<last_machine, last_clock, ll_advertising_enabled, paramVars>>
        /\ e # 0 /\ ll_scanning_enabled[r] = 0
    BY <1>3 DEF StartScanning
  <2>7. LinkTypes'
    BY <1>1, <2>1, <2>5, <2>6 DEF LinkTypes, paramVars
  <2>8. i \notin InState(r, "Advertising") /\ InState(r, "Scanning") = {}
    BY <2>2, <2>6 DEF InState, RolesInv
  <2>9. /\ InState(r, "Advertising")' = InState(r, "Advertising")
        /\ InState(r, "Scanning")' = {i}
        /\ \A q \in Radios \ {r} : /\ InState(q, "Scanning")' = InState(q, "Scanning")
                                   /\ InState(q, "Advertising")' = InState(q, "Advertising")
    <3>1. InState(r, "Advertising")' = InState(r, "Advertising") \ {i}
      BY <2>4, <2>5
    <3>2. InState(r, "Scanning")' = InState(r, "Scanning") \cup {i}
      BY <2>4, <2>5
    <3> QED
      BY <3>1, <3>2, <2>5, <2>8
  <2>10. /\ ll_scanning_enabled'[r] # 0
         /\ \A q \in Radios \ {r} : ll_scanning_enabled'[q] = ll_scanning_enabled[q]
    BY <2>1, <2>6 DEF LinkTypes
  <2>11. RolesInv'
    BY <2>6, <2>9, <2>10 DEF RolesInv
  <2> QED
    BY <2>7, <2>11
<1> QED
  BY <1>2, <1>3

\* ... and gives it back when it stops.
LEMMA StopsKeep ==
    ASSUME LinkInv, NEW r \in Radios, StopAdvertising(r) \/ StopScanning(r)
    PROVE  LinkInv'
<1> USE DEF LinkInv
<1>1. IdleMachine \in MachineStates /\ IdleMachine.state = "Idle"
  BY DEF IdleMachine, MachineStates
<1>2. CASE StopAdvertising(r)
  <2>1. PICK i \in Machines :
          /\ FirstMachine(r, i, Advertising)
          /\ ll_advertising_enabled' = [ll_advertising_enabled EXCEPT ![r] = 0]
          /\ machine' = [machine EXCEPT ![r][i] = IdleMachine]
    BY <1>2 DEF StopAdvertising
  <2>2. machine[r][i].state = "Advertising"
    BY <2>1 DEF FirstMachine, Advertising
  <2>3. /\ machine' \in [Radios -> [Machines -> MachineStates]]
        /\ \A s : InState(r, s)' = IF IdleMachine.state = s THEN InState(r, s) \cup {i}
                                                 ELSE InState(r, s) \ {i}
        /\ \A q \in Radios \ {r} : \A s : InState(q, s)' = InState(q, s)
    BY <1>1, <2>1, OneMachine, Zenon
  <2>4. UNCHANGED <<last_machine, last_clock, ll_scanning_enabled, paramVars>>
    BY <1>2 DEF StopAdvertising
  <2>5. LinkTypes'
    BY <2>1, <2>3, <2>4 DEF LinkTypes, paramVars
  <2>6. i \notin InState(r, "Scanning") /\ InState(r, "Advertising") = {i}
    BY <2>2 DEF InState, RolesInv
  <2>7. /\ InState(r, "Scanning")' = InState(r, "Scanning")
        /\ InState(r, "Advertising")' = {}
        /\ \A q \in Radios \ {r} : /\ InState(q, "Scanning")' = InState(q, "Scanning")
                                   /\ InState(q, "Advertising")' = InState(q, "Advertising")
    BY <1>1, <2>3, <2>6
  <2>8. \A q \in Radios \ {r} : ll_advertising_enabled'[q] = ll_advertising_enabled[q]
    BY <2>1 DEF LinkTypes
  <2>9. RolesInv'
    BY <2>4, <2>7, <2>8 DEF RolesInv
  <2> QED
    BY <2>5, <2>9
<1>3. CASE StopScanning(r)
  <2>1. PICK i \in Machines :
          /\ FirstMachine(r, i, Scanning)
          /\ ll_scanning_enabled' = [ll_scanning_enabled EXCEPT ![r] = 0]
          /\ machine' = [machine EXCEPT ![r][i] = IdleMachine]
    BY <1>3 DEF StopScanning
  <2>2. machine[r][i].state = "Scanning"
    BY <2>1 DEF FirstMachine, Scanning
  <2>3. /\ machine' \in [Radios -> [Machines -> MachineStates]]
        /\ \A s : InState(r, s)' = IF IdleMachine.state = s THEN InState(r, s) \cup {i}
                                                 ELSE InState(r, s) \ {i}
        /\ \A q \in Radios \ {r} : \A s : InState(q, s)' = InState(q, s)
    BY <1>1, <2>1, OneMachine, Zenon
  <2>4. UNCHANGED <<last_machine, last_clock, ll_advertising_enabled, paramVars>>
        /\ ll_scanning_enabled[r] = 1
    BY <1>3 DEF StopScanning
  <2>5. LinkTypes'
    BY <2>1, <2>3, <2>4 DEF LinkTypes, paramVars
  <2>6. i \notin InState(r, "Advertising") /\ InState(r, "Scanning") = {i}
    BY <2>2, <2>4 DEF InState, RolesInv
  <2>7. /\ InState(r, "Advertising")' = InState(r, "Advertising")
        /\ InState(r, "Scanning")' = {}
        /\ \A q \in Radios \ {r} : /\ InState(q, "Scanning")' = InState(q, "Scanning")
                                   /\ InState(q, "Advertising")' = InState(q, "Advertising")
    BY <1>1, <2>3, <2>6
  <2>8. /\ ll_scanning_enabled'[r] = 0
        /\ \A q \in Radios \ {r} : ll_scanning_enabled'[q] = ll_scanning_enabled[q]
    BY <2>1 DEF LinkTypes
  <2>9. RolesInv'
    BY <2>4, <2>7, <2>8 DEF RolesInv
  <2> QED
    BY <2>5, <2>9
<1> QED
  BY <1>2, <1>3


\* A new controller, and HCI Reset, make all machines idle.
LEMMA AllIdleKeeps ==
    ASSUME LinkInv, NEW r \in Radios, Connect(r) \/ reset(r)
    PROVE  LinkInv'
<1> USE DEF LinkInv
<1>1. IdleMachine \in MachineStates /\ IdleMachine.state = "Idle"
  BY DEF IdleMachine, MachineStates
<1>2. machine' = [machine EXCEPT ![r] = [i \in Machines |-> IdleMachine]]
  BY DEF Connect, reset
<1>3. /\ machine' \in [Radios -> [Machines -> MachineStates]]
      /\ \A i \in Machines : machine'[r][i] = IdleMachine
      /\ \A q \in Radios \ {r} : machine'[q] = machine[q]
  BY <1>1, <1>2 DEF LinkTypes
<1>4. /\ last_machine' = [last_machine EXCEPT ![r] = 0]
      /\ ll_scanning_enabled' = [ll_scanning_enabled EXCEPT ![r] = 0]
      /\ ll_advertising_interval_min' =
            [ll_advertising_interval_min EXCEPT ![r] = DefaultAdvInterval]
      /\ ll_advertising_time' = [ll_advertising_time EXCEPT ![r] = DefaultAdvTime]
      /\ ll_scan_interval' = [ll_scan_interval EXCEPT ![r] = 0]
      /\ ll_scan_window' = [ll_scan_window EXCEPT ![r] = 0]
  BY DEF Connect, reset
<1>5. /\ last_clock' \in [Radios -> Int]
      /\ ll_advertising_enabled' \in [Radios -> Int]
      /\ \A q \in Radios \ {r} : ll_advertising_enabled'[q] = ll_advertising_enabled[q]
  BY LinkAssumption DEF Connect, reset, LinkTypes
<1>6. LinkTypes'
  <2>1. 0 \in Machines /\ DefaultAdvInterval \in Nat /\ DefaultAdvTime \in AdvTimes
    BY LinkAssumption
  <2>2. last_machine' \in [Radios -> Machines] /\ ll_scanning_enabled' \in [Radios -> Int]
    BY <1>4, <2>1 DEF LinkTypes
  <2>3. /\ ll_advertising_interval_min' \in [Radios -> Nat]
        /\ ll_advertising_time' \in [Radios -> AdvTimes]
    BY <1>4, <2>1 DEF LinkTypes
  <2>4. ll_scan_interval' \in [Radios -> Nat] /\ ll_scan_window' \in [Radios -> ScanWindows \cup {0}]
    BY <1>4 DEF LinkTypes
  <2> QED
    BY <1>3, <1>5, <2>2, <2>3, <2>4 DEF LinkTypes
<1>7. /\ InState(r, "Scanning")' = {} /\ InState(r, "Advertising")' = {}
      /\ \A q \in Radios \ {r} : /\ InState(q, "Scanning")' = InState(q, "Scanning")
                                 /\ InState(q, "Advertising")' = InState(q, "Advertising")
  BY <1>1, <1>3 DEF InState
<1>8. /\ ll_scanning_enabled'[r] = 0
      /\ \A q \in Radios \ {r} : ll_scanning_enabled'[q] = ll_scanning_enabled[q]
  BY <1>4 DEF LinkTypes
<1>9. RolesInv'
  BY <1>5, <1>7, <1>8 DEF RolesInv
<1> QED
  BY <1>6, <1>9

\* The parameters have no part in the roles.
LEMMA ParametersKeep ==
    ASSUME LinkInv, NEW r \in Radios,
           \/ \E i \in AdvIntervals : ll_set_advertising_parameters(r, i)
           \/ \E t \in AdvTimes : ll_set_advertising_data(r, t)
           \/ \E i \in ScanIntervals, w \in ScanWindows : ll_set_scan_parameters(r, i, w)
    PROVE  LinkInv'
<1> USE DEF LinkInv
<1>1. UNCHANGED <<machine, last_machine, last_clock, flagVars>>
  BY DEF ll_set_advertising_parameters, ll_set_advertising_data, ll_set_scan_parameters
<1>2. /\ ll_advertising_interval_min' \in [Radios -> Nat]
      /\ ll_advertising_time' \in [Radios -> AdvTimes]
      /\ ll_scan_interval' \in [Radios -> Nat]
      /\ ll_scan_window' \in [Radios -> ScanWindows \cup {0}]
  <2>1. AdvIntervals \subseteq Nat /\ ScanIntervals \subseteq Nat
    BY LinkAssumption
  <2>2. ASSUME NEW i \in AdvIntervals, ll_set_advertising_parameters(r, i) PROVE <1>2
    BY <2>1, <2>2 DEF ll_set_advertising_parameters, LinkTypes
  <2>3. ASSUME NEW t \in AdvTimes, ll_set_advertising_data(r, t) PROVE <1>2
    BY <2>3 DEF ll_set_advertising_data, LinkTypes
  <2>4. ASSUME NEW i \in ScanIntervals, NEW w \in ScanWindows, ll_set_scan_parameters(r, i, w)
        PROVE  <1>2
    BY <2>1, <2>4 DEF ll_set_scan_parameters, LinkTypes
  <2> QED
    BY <2>2, <2>3, <2>4
<1>3. LinkTypes'
  BY <1>1, <1>2 DEF LinkTypes, flagVars
<1>4. RolesInv'
  BY <1>1, RolesKept
<1> QED
  BY <1>3, <1>4

LEMMA LinkInvInit == Init => LinkInv
<1> SUFFICES ASSUME Init PROVE LinkInv
  OBVIOUS
<1>1. LinkTypes
  BY LinkAssumption DEF Init, LinkTypes, MachineStates
<1>2. \A r \in Radios : InState(r, "Scanning") = {} /\ InState(r, "Advertising") = {}
  BY DEF Init, InState, IdleMachine
<1>3. RolesInv
  BY <1>2 DEF RolesInv, Init
<1> QED
  BY <1>1, <1>3 DEF LinkInv

LEMMA LinkInvNext == LinkInv /\ RADIO!TypeInv /\ [Next]_vars => LinkInv'
<1> SUFFICES ASSUME LinkInv, RADIO!TypeInv, [Next]_vars PROVE LinkInv'
  OBVIOUS
<1>1. CASE SimulationThread
  BY <1>1, SimulationKeeps
<1>2. ASSUME NEW r \in Radios, Connect(r) PROVE LinkInv'
  BY <1>2, AllIdleKeeps
<1>3. ASSUME NEW r \in Radios, HostCommand(r) PROVE LinkInv'
  BY <1>3, AllIdleKeeps, StartsKeep, StopsKeep, ParametersKeep DEF HostCommand
<1>4. ASSUME UNCHANGED linkVars PROVE LinkInv'
  BY <1>4 DEF linkVars, flagVars, paramVars, LinkInv, LinkTypes, RolesInv, InState
<1> QED
  BY <1>1, <1>2, <1>3, <1>4 DEF Next, ConnectionStep, vars

-----------------------------------------------------------------------------
(* The reports to the host.                                                *)

\* advertising_reports is what was delivered to a machine that scans.
ReportsInv == advertising_reports \subseteq reported

LEMMA ReportsNext == ReportsInv /\ [Next]_vars => ReportsInv'
<1> SUFFICES ASSUME ReportsInv, [Next]_vars PROVE ReportsInv'
  OBVIOUS
<1> USE DEF ReportsInv
<1>1. CASE BeginRound
  BY <1>1 DEF BeginRound
<1>2. ASSUME NEW p, EndOfPacket(p) PROVE ReportsInv'
  <2>1. /\ advertising_reports' = advertising_reports \cup ReportsOf(p)
        /\ reported' = reported \cup
              {[window |-> w, transmission |-> p] : w \in PHY!Receivers(p)}
    BY <1>2 DEF EndOfPacket, PHY!EndTransmission
  <2> QED
    BY <2>1 DEF ReportsOf
<1>3. ASSUME UNCHANGED <<reported, advertising_reports>> PROVE ReportsInv'
  BY <1>3
<1>4. ASSUME NEW r \in unvisited,
             (\E i \in Machines : GetNextPacket(r, i)) \/ GetNoPacket(r)
      PROVE  UNCHANGED <<reported, advertising_reports>>
  BY <1>4 DEF GetNextPacket, GetNoPacket, PHY!VisitOffer, PHY!VisitSilent, PHY!AtRadio, PHY!airVars
<1>5. CASE RadioStep
  <2>1. UNCHANGED advertising_reports
    BY <1>5 DEF RadioStep
  <2>2. UNCHANGED reported
    BY <1>5 DEF RadioStep, PHY!SkipInactive, PHY!VisitBusy, PHY!VisitDeleting, PHY!AtRadio,
                PHY!Gathered, PHY!StayOnAir, PHY!StartTransmission, PHY!AwaitTransmission,
                PHY!TransmittersDone, PHY!StepReceivers, PHY!EndReception,
                PHY!StayListening, PHY!StartReception, PHY!AwaitReception,
                PHY!PassReception, PHY!Advance, PHY!AtReceiver, PHY!airVars
  <2> QED
    BY <2>1, <2>2
<1>6. ASSUME NEW r \in Radios, Connect(r) PROVE UNCHANGED <<reported, advertising_reports>>
  BY <1>6 DEF Connect, PHY!PhysicalLayerConstructor, PHY!airVars
<1>7. ASSUME NEW r \in Radios, HostCommand(r)
      PROVE  UNCHANGED <<reported, advertising_reports>>
  BY <1>7 DEF HostCommand, Command, reset, StartAdvertising, StopAdvertising,
              StartScanning, StopScanning, ll_set_advertising_parameters,
              ll_set_advertising_data, ll_set_scan_parameters, phyVars
<1>8. CASE ConnectionStep
  BY <1>8 DEF ConnectionStep, PHY!mk_active, PHY!set_delete_pending,
              PHY!PhysicalLayerDestructor, PHY!airVars
<1>9. CASE UNCHANGED vars
  BY <1>9 DEF vars, phyVars
<1> QED
  BY <1>1, <1>2, <1>3, <1>4, <1>5, <1>6, <1>7, <1>8, <1>9 DEF Next, SimulationThread

\* Only the end of a packet makes reports, and only for machines that scan.
LEMMA NewReports ==
    ASSUME LinkInv, RADIO!TypeInv, [Next]_vars,
           NEW d \in advertising_reports' \ advertising_reports
    PROVE  ll_scanning_enabled[d.window.physical_layer] # 0
<1>1. PICK p \in ordered_transmitters : EndOfPacket(p)
  BY DEF Next, SimulationThread, BeginRound, GetNextPacket, GetNoPacket, RadioStep,
         Connect, HostCommand, Command, reset, StartAdvertising, StopAdvertising,
         StartScanning, StopScanning, ll_set_advertising_parameters,
         ll_set_advertising_data, ll_set_scan_parameters, ConnectionStep, vars
<1>2. PICK w \in PHY!Receivers(p) :
        /\ d = [window |-> w, transmission |-> p]
        /\ Scanning(machine[w.physical_layer][w.llsm_index])
  BY <1>1 DEF EndOfPacket, ReportsOf
<1>3. w.physical_layer \in Radios /\ w.llsm_index \in Machines
  BY <1>2 DEF PHY!Receivers, RADIO!TypeInv, RADIO!TypeOK, RADIO!Packet
<1>4. w.llsm_index \in InState(w.physical_layer, "Scanning")
  BY <1>2, <1>3 DEF InState, Scanning
<1>5. ll_scanning_enabled[w.physical_layer] # 0
  BY <1>3, <1>4 DEF LinkInv, RolesInv
<1> QED
  BY <1>2, <1>5
-----------------------------------------------------------------------------
(* The theorems.                                                           *)

\* The types, the roles and the reports, together.
LEMMA Invariance == Spec => [](LinkInv /\ RADIO!TypeInv /\ ReportsInv)
<1>1. Init => LinkInv /\ RADIO!TypeInv /\ ReportsInv
  <2>1. RADIO!Init => RADIO!TypeInv
    BY RadioConstants, RADIO!TypeInvInit
  <2>2. Init => ReportsInv
    BY DEF Init, ReportsInv
  <2> QED
    BY <2>1, <2>2, LinkInvInit, RadioInit
<1>2. LinkInv /\ RADIO!TypeInv /\ ReportsInv /\ [Next]_vars
        => (LinkInv /\ RADIO!TypeInv /\ ReportsInv)'
  <2>1. RADIO!TypeInv /\ [RADIO!Next]_(RADIO!vars) => RADIO!TypeInv'
    BY RadioConstants, RADIO!TypeInvNext
  <2> QED
    BY <2>1, RadioNext, LinkInvNext, ReportsNext DEF LinkInv
<1> QED
  BY <1>1, <1>2, PTL DEF Spec

\* Every variable has its type: the fields of the machines survive their
\* commands, catching up and channel hopping, and what is reported to a host
\* was delivered to its radio.
THEOREM TypeCorrect == Spec => []TypeOK
<1>1. LinkInv /\ RADIO!TypeInv /\ ReportsInv => TypeOK
  <2> SUFFICES ASSUME LinkInv, RADIO!TypeInv, ReportsInv PROVE TypeOK
    OBVIOUS
  <2>1. PHY!TypeOK
    BY DEF RADIO!TypeInv, RADIO!TypeOK, PHY!TypeOK, RADIO!Packet, PHY!Packet,
           RADIO!Stages, PHY!Stages
  <2> QED
    BY <2>1 DEF LinkInv, LinkTypes, ReportsInv, TypeOK
<1> QED
  BY <1>1, Invariance, PTL

\* With the packets that its state machines hand over and the commands that
\* come in between, every controller is a radio of PhysicalLayer: what the
\* theorems about PhysicalLayer say holds of it.
THEOREM ImplementsRadio == Spec => RADIO!Spec
<1>1. LinkInv /\ RADIO!TypeInv /\ [Next]_vars => [RADIO!Next]_(RADIO!vars)
  BY RadioNext DEF LinkInv
<1> QED
  BY <1>1, RadioInit, Invariance, PTL DEF Spec, RADIO!Spec

\* In particular, what a controller is given to report never collided and lay
\* within its window.
THEOREM ControllersHearCleanly == Spec => []RADIO!ReportsAreClean
  BY ImplementsRadio, RadioConstants, RADIO!DeliveriesAreClean, PTL

\* And a window of a scanner that closes empty missed nothing: every transmission
\* on its channel that lay wholly inside it collided, if what is advertised is on
\* the air as long as its preamble and access address at least.
THEOREM ControllersMissNothing ==
    ASSUME RADIO!AirtimesCoverSync
    PROVE  Spec => RADIO!NothingMissed
<1>1. RADIO!Spec => RADIO!NothingMissed
  BY RadioConstants, RADIO!NothingIsMissed
<1> QED
  BY <1>1, ImplementsRadio, PTL

\* However enable and disable commands, resets and packets interleave, the
\* flags of linklayer.cpp and its machines agree.
THEOREM FlagsAgree == Spec => []FlagsMatchMachines
<1>1. LinkInv /\ RADIO!TypeInv => FlagsMatchMachines
  <2> SUFFICES ASSUME LinkInv, RADIO!TypeInv, NEW r \in all_radios
               PROVE  /\ Cardinality(Role(r, Scanning)) =
                            IF ll_scanning_enabled[r] = 0 THEN 0 ELSE 1
                      /\ Cardinality(Role(r, Advertising)) <= 1
                      /\ Role(r, Advertising) # {} => ll_advertising_enabled[r] # 0
    BY DEF FlagsMatchMachines
  <2>1. r \in Radios
    BY DEF RADIO!TypeInv, RADIO!TypeOK
  <2>2. /\ Role(r, Scanning) = InState(r, "Scanning")
        /\ Role(r, Advertising) = InState(r, "Advertising")
    BY DEF Role, InState, Scanning, Advertising
  <2>3. /\ ll_scanning_enabled[r] = 0 => Role(r, Scanning) = {}
        /\ ll_scanning_enabled[r] # 0 => \E i \in Machines : Role(r, Scanning) = {i}
        /\ \A i, j \in Role(r, Advertising) : i = j
        /\ Role(r, Advertising) # {} => ll_advertising_enabled[r] # 0
    BY <2>1, <2>2 DEF LinkInv, RolesInv
  <2>4. Cardinality(Role(r, Scanning)) = IF ll_scanning_enabled[r] = 0 THEN 0 ELSE 1
    BY <2>3, FS_EmptySet, FS_Singleton
  <2>5. Cardinality(Role(r, Advertising)) <= 1
    <3>1. CASE Role(r, Advertising) = {}
      <4>1. Cardinality({}) = 0
        BY FS_EmptySet
      <4> QED
        BY <3>1, <4>1
    <3>2. ASSUME NEW i \in Role(r, Advertising) PROVE Cardinality(Role(r, Advertising)) <= 1
      <4>1. Role(r, Advertising) = {i}
        BY <2>3
      <4>2. Cardinality({i}) = 1
        BY FS_Singleton
      <4> QED
        BY <4>1, <4>2
    <3> QED
      BY <3>1, <3>2
  <2> QED
    BY <2>3, <2>4, <2>5
<1> QED
  BY <1>1, Invariance, PTL

\* A report reaches the host only while it has scanning enabled: a window that
\* was opened before scanning was disabled reports nothing after.
THEOREM OnlyWhileScanning == Spec => ReportsOnlyWhileScanning
<1>1. LinkInv /\ RADIO!TypeInv /\ [Next]_vars =>
         [\A d \in advertising_reports' \ advertising_reports :
             ll_scanning_enabled[d.window.physical_layer] # 0]_vars
  BY NewReports
<1> QED
  BY <1>1, Invariance, PTL DEF Spec, ReportsOnlyWhileScanning

================================================================================
