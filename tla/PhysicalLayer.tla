--------------------------- MODULE PhysicalLayer ---------------------------
(***************************************************************************)
(* The shared simulation of the radio: server/src/phylayer.cpp.            *)
(*                                                                         *)
(* One thread repeats a round under physical_layer_mutex: it visits every  *)
(* radio and collects the packet each one transmits or the window in which *)
(* it listens, steps the packets in start order, delivers those that were  *)
(* alone on their channel, and moves physical_clock to the next packet     *)
(* boundary.  The socket thread creates, activates and destroys radios     *)
(* while that goes on.                                                     *)
(*                                                                         *)
(* What a radio transmits or listens for is left open here: get_next_packet*)
(* answers with any packet that starts after the clock.  LinkLayer.tla     *)
(* gives the answer the code gives, and implements this module.            *)
(***************************************************************************)
EXTENDS Integers, FiniteSets

CONSTANTS
    Radios,     \* names for the PhysicalLayer objects the process may hold
    Channels,   \* radio channels in use
    Tags,       \* values of llsm_index, which this layer only carries
    Leads,      \* how long before its start a packet may be handed over
    Airtimes,   \* end_time - start_time of a transmission
    Windows,    \* end_time - start_time of a receive window; may be negative,
                \* as ll_scan_window * 625 - 150 is when the window is 0
    SyncTime,   \* 8 + 32: preamble and access address
    IdleStep,   \* 12500: the longest a round moves the clock
    BusyStep,   \* 1250: the same when there is a transmitter
    NoPacket    \* the null PhysicalPacket pointer

Packet == [physical_layer : Radios, is_tx : BOOLEAN, channel : Channels,
           llsm_index : Tags, start_time : Int, end_time : Int]

ASSUME ConstantsAssumption ==
    /\ Leads \subseteq Nat \ {0}
    /\ Airtimes \subseteq Nat \ {0}
    /\ Windows \subseteq Int
    /\ SyncTime \in Nat \ {0}
    /\ IdleStep \in Nat \ {0}
    /\ BusyStep \in Nat \ {0}
    /\ NoPacket \notin Packet

VARIABLES
    all_radios,             \* the linked list of radios, as a set
    active,                 \* radios with physical_layer_is_active
    current_packet,         \* per radio: the packet in progress, or NoPacket
    delete_pending,         \* radios whose connection is closing (socket.h)
    delete_ready,           \* radios that may be destroyed (socket.h)
    stage,                  \* where the simulation thread is in its round
    unvisited,              \* radios the gathering loop has still to visit
    ordered_transmitters,   \* what is left of the two lists of the round
    ordered_receivers,
    physical_clock,
    time_until_next_event,
    transmitting,           \* per channel: number of transmissions in the air
    bad_transmission,       \* per channel: a collision happened
    sent,                   \* history: the transmissions that have started
    reported                \* history: what was delivered in this round

radioVars == <<all_radios, active, delete_pending, delete_ready>>
listVars  == <<unvisited, ordered_transmitters, ordered_receivers>>
airVars   == <<transmitting, bad_transmission, sent, reported>>
vars == <<radioVars, current_packet, stage, listVars, physical_clock,
          time_until_next_event, airVars>>

Stages == {"asleep", "gather", "transmitters", "receivers"}
-----------------------------------------------------------------------------
(* Packets.                                                                *)

\* set_transmit with set_pdu, and set_receive: a packet of radio r.
PacketOf(r, tx, c, tag, start, length) ==
    [physical_layer |-> r, is_tx |-> tx, channel |-> c, llsm_index |-> tag,
     start_time |-> start, end_time |-> start + length]

\* A receiver that takes part in the end of transmission p: it listened
\* before p began and, as far as this test goes, through its access address.
SlipAnyChannel(w, p) ==
    /\ w.start_time <= p.start_time
    /\ w.end_time >= p.start_time + SyncTime

SlipLateStart(w, p) ==
    /\ w.start_time < p.start_time
    /\ w.end_time >= p.start_time + SyncTime
    /\ w.channel = p.channel

Listening(w, p) ==
    /\ w.start_time <= p.start_time
    /\ w.end_time >= p.start_time + SyncTime
    /\ w.channel = p.channel

\* insert_into keeps a list sorted by start time; its head is the next packet.
\* (Which of two packets with one start time comes first is left open.)
Earliest(list) == {p \in list : \A q \in list : p.start_time <= q.start_time}

\* time_until_next_event after a packet's next boundary was found to be d
\* away.  d is a uint64: for a window that ends before it starts it is huge.
SlipNoBoundary(d) == time_until_next_event

SlipSigned(d) == IF d < time_until_next_event THEN d ELSE time_until_next_event

Sooner(d) ==
    IF d \in 0 .. time_until_next_event THEN d ELSE time_until_next_event
-----------------------------------------------------------------------------
Init ==
    /\ all_radios = {}
    /\ active = {}
    /\ current_packet = [r \in Radios |-> NoPacket]
    /\ delete_pending = {}
    /\ delete_ready = {}
    /\ stage = "asleep"
    /\ unvisited = {}
    /\ ordered_transmitters = {}
    /\ ordered_receivers = {}
    /\ physical_clock = 0
    /\ time_until_next_event = IdleStep
    /\ transmitting = [c \in Channels |-> 0]
    /\ bad_transmission = [c \in Channels |-> FALSE]
    /\ sent = {}
    /\ reported = {}
-----------------------------------------------------------------------------
(* The socket thread.  The constructor and the destructor take the mutex,  *)
(* so they run between rounds; mk_active and the delete flags do not.      *)

PhysicalLayerConstructor(r) ==
    /\ stage = "asleep"
    /\ r \notin all_radios
    /\ all_radios' = all_radios \cup {r}
    /\ active' = active \ {r}
    /\ current_packet' = [current_packet EXCEPT ![r] = NoPacket]
    /\ delete_pending' = delete_pending \ {r}
    /\ delete_ready' = delete_ready \ {r}
    /\ UNCHANGED <<stage, listVars, physical_clock, time_until_next_event, airVars>>

mk_active(r) ==
    /\ r \in all_radios \ active
    /\ active' = active \cup {r}
    /\ UNCHANGED <<all_radios, delete_pending, delete_ready, current_packet, stage,
                   listVars, physical_clock, time_until_next_event, airVars>>

\* The host closed its connection (ClientSocket::on_readable, Socket::poll).
set_delete_pending(r) ==
    /\ r \in all_radios
    /\ delete_pending' = delete_pending \cup {r}
    /\ UNCHANGED <<all_radios, active, delete_ready, current_packet, stage,
                   listVars, physical_clock, time_until_next_event, airVars>>

\* Socket::poll deletes what is ready; the object's flags go with it.
PhysicalLayerDestructor(r) ==
    /\ stage = "asleep"
    /\ r \in all_radios \cap delete_ready
    /\ all_radios' = all_radios \ {r}
    /\ active' = active \ {r}
    /\ delete_pending' = delete_pending \ {r}
    /\ delete_ready' = delete_ready \ {r}
    /\ UNCHANGED <<current_packet, stage, listVars, physical_clock,
                   time_until_next_event, airVars>>
-----------------------------------------------------------------------------
(* The gathering loop.                                                     *)

BeginRound ==
    /\ stage = "asleep"
    /\ stage' = "gather"
    /\ unvisited' = all_radios
    /\ ordered_transmitters' = {}
    /\ ordered_receivers' = {}
    /\ reported' = {}
    /\ UNCHANGED <<radioVars, current_packet, physical_clock,
                   time_until_next_event, transmitting, bad_transmission, sent>>

AtRadio(r) ==
    /\ stage = "gather"
    /\ r \in unvisited
    /\ unvisited' = unvisited \ {r}
    /\ UNCHANGED <<all_radios, active, delete_pending, stage, physical_clock,
                   time_until_next_event, airVars>>

insert_into(p) ==
    /\ ordered_transmitters' = ordered_transmitters \cup {q \in {p} : q.is_tx}
    /\ ordered_receivers' = ordered_receivers \cup {q \in {p} : ~q.is_tx}

SkipInactive(r) ==
    /\ AtRadio(r)
    /\ r \notin active
    /\ UNCHANGED <<current_packet, delete_ready, ordered_transmitters, ordered_receivers>>

\* The radio's packet is still in progress.
VisitBusy(r) ==
    /\ AtRadio(r)
    /\ r \in active
    /\ current_packet[r] # NoPacket
    /\ insert_into(current_packet[r])
    /\ UNCHANGED <<current_packet, delete_ready>>

\* get_next_packet hands over a packet ...
VisitOffer(r, p) ==
    /\ AtRadio(r)
    /\ r \in active
    /\ current_packet[r] = NoPacket
    /\ r \notin delete_pending
    /\ current_packet' = [current_packet EXCEPT ![r] = p]
    /\ insert_into(p)
    /\ UNCHANGED delete_ready

\* (any packet that starts after the clock)
VisitAny(r) ==
    \E c \in Channels, tag \in Tags, lead \in Leads :
        \/ \E length \in Airtimes :
              VisitOffer(r, PacketOf(r, TRUE, c, tag, physical_clock + lead, length))
        \/ \E length \in Windows :
              VisitOffer(r, PacketOf(r, FALSE, c, tag, physical_clock + lead, length))

\* ... or has none to hand over ...
VisitSilent(r) ==
    /\ AtRadio(r)
    /\ r \in active
    /\ current_packet[r] = NoPacket
    /\ r \notin delete_pending
    /\ UNCHANGED <<current_packet, delete_ready, ordered_transmitters, ordered_receivers>>

\* ... or finds that the radio is to be deleted.  A packet in progress keeps
\* get_next_packet from being called, so the radio is out of the air here.
SlipDeleteInFlight(r) ==
    /\ AtRadio(r)
    /\ r \in active
    /\ r \in delete_pending
    /\ delete_ready' = delete_ready \cup {r}
    /\ UNCHANGED <<current_packet, ordered_transmitters, ordered_receivers>>

VisitDeleting(r) ==
    /\ AtRadio(r)
    /\ r \in active
    /\ current_packet[r] = NoPacket
    /\ r \in delete_pending
    /\ delete_ready' = delete_ready \cup {r}
    /\ UNCHANGED <<current_packet, ordered_transmitters, ordered_receivers>>

Gathered ==
    /\ stage = "gather"
    /\ unvisited = {}
    /\ stage' = "transmitters"
    /\ time_until_next_event' = IF ordered_transmitters = {} THEN IdleStep ELSE BusyStep
    /\ UNCHANGED <<radioVars, current_packet, listVars, physical_clock, airVars>>
-----------------------------------------------------------------------------
(* The loop over ordered_transmitters: one action for each branch.  The    *)
(* branches leave out a packet with start_time and end_time both gone by;  *)
(* NoBoundaryMissed says that there is none.                               *)

AtTransmitter(p) ==
    /\ stage = "transmitters"
    /\ p \in Earliest(ordered_transmitters)
    /\ ordered_transmitters' = ordered_transmitters \ {p}
    /\ UNCHANGED <<radioVars, stage, unvisited, ordered_receivers, physical_clock>>

\* The packet is over.  If nothing else was on the channel every receiver
\* that listened gets it, and is done with its window; then the channel is
\* given back.
SlipClearBad(c) == [bad_transmission EXCEPT ![c] = FALSE]

ClearBad(c) ==
    [bad_transmission EXCEPT ![c] = @ /\ transmitting[c] # 1]

SlipGiveAllBack(c) == [transmitting EXCEPT ![c] = 0]

GiveBack(c) == [transmitting EXCEPT ![c] = @ - 1]

SlipDeliverCollided(p) == {w \in ordered_receivers : Listening(w, p)}

Receivers(p) ==
    {w \in ordered_receivers : Listening(w, p) /\ ~bad_transmission[p.channel]}

EndTransmission(p) ==
    /\ AtTransmitter(p)
    /\ p.end_time = physical_clock
    /\ reported' = reported \cup {[window |-> w, transmission |-> p] : w \in Receivers(p)}
    /\ current_packet' =
         [r \in Radios |-> IF r \in {q.physical_layer : q \in Receivers(p) \cup {p}}
                           THEN NoPacket
                           ELSE current_packet[r]]
    /\ transmitting' = GiveBack(p.channel)
    /\ bad_transmission' = ClearBad(p.channel)
    /\ time_until_next_event' = Sooner(1)
    /\ UNCHANGED sent

StayOnAir(p) ==
    /\ AtTransmitter(p)
    /\ p.start_time < physical_clock
    /\ p.end_time > physical_clock
    /\ time_until_next_event' = Sooner(p.end_time - physical_clock)
    /\ UNCHANGED <<current_packet, airVars>>

StartTransmission(p) ==
    /\ AtTransmitter(p)
    /\ p.end_time # physical_clock
    /\ p.start_time = physical_clock
    /\ transmitting' = [transmitting EXCEPT ![p.channel] = @ + 1]
    /\ bad_transmission' =
         [bad_transmission EXCEPT ![p.channel] = @ \/ transmitting'[p.channel] >= 2]
    /\ time_until_next_event' = Sooner(p.end_time - physical_clock)
    /\ sent' = sent \cup {p}
    /\ UNCHANGED <<current_packet, reported>>

AwaitTransmission(p) ==
    /\ AtTransmitter(p)
    /\ p.end_time # physical_clock
    /\ p.start_time > physical_clock
    /\ time_until_next_event' = Sooner(p.start_time - physical_clock)
    /\ UNCHANGED <<current_packet, airVars>>

TransmittersDone ==
    /\ stage = "transmitters"
    /\ ordered_transmitters = {}
    /\ stage' = "receivers"
    /\ UNCHANGED <<radioVars, current_packet, listVars, physical_clock,
                   time_until_next_event, airVars>>
-----------------------------------------------------------------------------
(* The loop over ordered_receivers.  A receiver that was served above is   *)
(* still in the list.                                                      *)

AtReceiver(w) ==
    /\ stage = "receivers"
    /\ w \in Earliest(ordered_receivers)
    /\ ordered_receivers' = ordered_receivers \ {w}
    /\ UNCHANGED <<radioVars, stage, unvisited, ordered_transmitters, physical_clock, airVars>>

EndReception(w) ==
    /\ AtReceiver(w)
    /\ w.end_time = physical_clock
    /\ current_packet' = [current_packet EXCEPT ![w.physical_layer] = NoPacket]
    /\ time_until_next_event' = Sooner(1)

StayListening(w) ==
    /\ AtReceiver(w)
    /\ w.start_time < physical_clock
    /\ w.end_time > physical_clock
    /\ time_until_next_event' = Sooner(w.end_time - physical_clock)
    /\ UNCHANGED current_packet

StartReception(w) ==
    /\ AtReceiver(w)
    /\ w.end_time # physical_clock
    /\ w.start_time = physical_clock
    /\ time_until_next_event' = Sooner(w.end_time - physical_clock)
    /\ UNCHANGED current_packet

AwaitReception(w) ==
    /\ AtReceiver(w)
    /\ w.end_time # physical_clock
    /\ w.start_time > physical_clock
    /\ time_until_next_event' = Sooner(w.start_time - physical_clock)
    /\ UNCHANGED current_packet

\* A window that ends before it starts, once its start has gone by.
PassReception(w) ==
    /\ AtReceiver(w)
    /\ w.start_time < physical_clock
    /\ w.end_time < physical_clock
    /\ UNCHANGED <<current_packet, time_until_next_event>>

Advance ==
    /\ stage = "receivers"
    /\ ordered_receivers = {}
    /\ stage' = "asleep"
    /\ physical_clock' = physical_clock + time_until_next_event
    /\ UNCHANGED <<radioVars, current_packet, listVars, time_until_next_event, airVars>>
-----------------------------------------------------------------------------
Gather ==
    \/ BeginRound
    \/ \E r \in unvisited :
          \/ SkipInactive(r)
          \/ VisitBusy(r)
          \/ VisitAny(r)
          \/ VisitSilent(r)
          \/ VisitDeleting(r)
    \/ Gathered

StepTransmitters ==
    \/ \E p \in ordered_transmitters :
          \/ EndTransmission(p)
          \/ StayOnAir(p)
          \/ StartTransmission(p)
          \/ AwaitTransmission(p)
    \/ TransmittersDone

StepReceivers ==
    \/ \E w \in ordered_receivers :
          \/ EndReception(w)
          \/ StayListening(w)
          \/ StartReception(w)
          \/ AwaitReception(w)
          \/ PassReception(w)
    \/ Advance

physical_layer_simulation_thread == Gather \/ StepTransmitters \/ StepReceivers

SocketThread ==
    \E r \in Radios :
        \/ PhysicalLayerConstructor(r)
        \/ mk_active(r)
        \/ set_delete_pending(r)
        \/ PhysicalLayerDestructor(r)

Next == physical_layer_simulation_thread \/ SocketThread

Spec == Init /\ [][Next]_vars

\* The thread's loop never blocks for good: the mutex is held only for a
\* constructor's or a destructor's few assignments.
FairSpec == Spec /\ WF_vars(physical_layer_simulation_thread)
-----------------------------------------------------------------------------
(* Properties.                                                             *)

\* Every variable has its type.
TypeOK ==
    /\ all_radios \subseteq Radios
    /\ active \subseteq all_radios
    /\ delete_pending \subseteq all_radios
    /\ delete_ready \subseteq delete_pending
    /\ current_packet \in [Radios -> Packet \cup {NoPacket}]
    /\ stage \in Stages
    /\ unvisited \subseteq all_radios
    /\ ordered_transmitters \subseteq Packet
    /\ ordered_receivers \subseteq Packet
    /\ physical_clock \in Int
    /\ time_until_next_event \in Nat \ {0}
    /\ transmitting \in [Channels -> Int]
    /\ bad_transmission \in [Channels -> BOOLEAN]
    /\ sent \subseteq Packet
    /\ reported \subseteq [window : Packet, transmission : Packet]

InProgress == {r \in all_radios : current_packet[r] # NoPacket}

\* The clock only ever stops at packet boundaries or before them: between two
\* rounds no transmission and no window that ends after it starts has begun
\* or ended without the simulation having seen it.
NoBoundaryMissed ==
    stage = "asleep" =>
        \A r \in InProgress :
            LET p == current_packet[r]
            IN  /\ p.start_time < p.end_time => physical_clock <= p.end_time
                /\ p.is_tx => (p \in sent <=> p.start_time < physical_clock)

OnAir(c) == {t \in sent : t.channel = c /\ current_packet[t.physical_layer] = t}

\* The counter of a channel is the number of transmissions that have started
\* on it and not ended, at every moment: none is counted twice, or left
\* behind by a radio that was deleted or whose packet was passed over.
AirCount == \A c \in Channels : transmitting[c] = Cardinality(OnAir(c))

\* What it is for a transmission to collide: another one on its channel was
\* in the air at a moment when it was.
Overlap(t, u) ==
    /\ t # u
    /\ t.channel = u.channel
    /\ t.start_time < u.end_time
    /\ u.start_time < t.end_time

Collided(t) == \E u \in sent : Overlap(t, u)

\* bad_transmission, set and cleared by counting, says of each transmission
\* in the air exactly whether it has collided.
BadMeansCollided ==
    \A c \in Channels :
        /\ bad_transmission[c] => OnAir(c) # {}
        /\ \A t \in OnAir(c) : bad_transmission[c] <=> Collided(t)

\* What is delivered never collided, is on the window's channel and lies
\* wholly inside the window, although the code only compares the window's end
\* with the end of the access address.
ReportsAreClean ==
    \A d \in reported :
        /\ ~Collided(d.transmission)
        /\ d.window.channel = d.transmission.channel
        /\ d.window.start_time <= d.transmission.start_time
        /\ d.transmission.end_time <= d.window.end_time

\* A receive window delivers one packet at most.
OneReportPerWindow ==
    \A d, e \in reported : d.window = e.window => d.transmission = e.transmission

\* A window that closes without having delivered anything missed nothing: no
\* transmission that was alone on its channel lay wholly inside it.
ClosesEmpty(r) ==
    /\ current_packet[r] # NoPacket
    /\ current_packet'[r] = NoPacket
    /\ ~current_packet[r].is_tx
    /\ \A d \in reported' : d.window # current_packet[r]

NothingMissed ==
    [][\A r \in all_radios :
          ClosesEmpty(r) =>
             \A t \in sent :
                 ~ /\ t.channel = current_packet[r].channel
                   /\ current_packet[r].start_time <= t.start_time
                   /\ t.end_time <= current_packet[r].end_time
                   /\ ~Collided(t)]_vars

\* A radio leaves the list only when it is off the air, whatever its host does.
LeavesOffAir ==
    [][\A r \in all_radios \ all_radios' : current_packet[r] = NoPacket]_vars

\* A window that ends before it starts: nothing in the simulation ends it.
NeverEnds(r) ==
    /\ current_packet[r] # NoPacket
    /\ current_packet[r].end_time < current_packet[r].start_time

\* Every packet comes to its end, those windows excepted: no radio keeps one
\* for ever, whatever others do, come and go.
PacketsEnd ==
    \A r \in Radios :
        (current_packet[r] # NoPacket /\ ~NeverEnds(r)) ~> (current_packet[r] = NoPacket)

\* A connection that closes is told, sooner or later, that its radio may go,
\* unless it is held by such a window.
DeletionAcknowledged ==
    \A r \in Radios :
        (r \in delete_pending /\ r \in active /\ ~NeverEnds(r)) ~> (r \in delete_ready)
=============================================================================
