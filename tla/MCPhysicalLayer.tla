-------------------------- MODULE MCPhysicalLayer --------------------------
(***************************************************************************)
(* PhysicalLayer for TLC.  Nothing in it depends on the absolute value of  *)
(* the clock, so that between rounds all times may be moved back by it, and*)
(* transmissions too old to matter forgotten: with bounded Leads, Airtimes *)
(* and Windows the states are finitely many, and the runs cover executions *)
(* of any length.                                                          *)
(***************************************************************************)
EXTENDS PhysicalLayer, TLC

\* A window that ends before it starts, once it has gone by, stays for ever:
\* its times no longer matter, so they are moved to just before the clock.
GoneBy(p) == p.start_time < physical_clock /\ p.end_time < p.start_time

Shifted(p, d) ==
    IF GoneBy(p)
    THEN [p EXCEPT !.start_time = -1, !.end_time = -2]
    ELSE [p EXCEPT !.start_time = @ - d, !.end_time = @ - d]

\* A transmission is kept while a packet in progress began before its end:
\* no other can overlap it, or lie around it, any more.
Recent ==
    {t \in sent : \E r \in InProgress :
        ~GoneBy(current_packet[r]) /\ current_packet[r].start_time < t.end_time}

\* All times move back by d, which is at most the clock.
RebaseBy(d) ==
    /\ physical_clock' = physical_clock - d
    /\ current_packet' =
         [r \in Radios |-> IF current_packet[r] = NoPacket
                           THEN NoPacket ELSE Shifted(current_packet[r], d)]
    /\ sent' = {Shifted(t, d) : t \in Recent}
    /\ reported' = {}
    /\ time_until_next_event' = IdleStep
    /\ UNCHANGED <<radioVars, stage, listVars, transmitting, bad_transmission>>

Rebase == RebaseBy(physical_clock)

Settled == stage = "asleep" /\ physical_clock > 0

MCNext == (Settled /\ Rebase) \/ (~Settled /\ Next)

MCSpec == Init /\ [][MCNext]_vars

MCThread ==
    (Settled /\ Rebase) \/ (~Settled /\ physical_layer_simulation_thread)

MCFairSpec == MCSpec /\ WF_vars(MCThread)

\* Three radios that stay: a state the socket thread reaches before the first
\* packet, from where only the simulation thread runs.
AirInit ==
    /\ all_radios = Radios
    /\ active = Radios
    /\ current_packet = [r \in Radios |-> NoPacket]
    /\ delete_pending = {}
    /\ delete_ready = {}
    /\ stage = "asleep"
    /\ unvisited = {}
    /\ ordered_transmitters = {}
    /\ ordered_receivers = {}
    /\ physical_clock = 0
    /\ time_until_next_event = IdleStep
    /\ transmitting = [c \in Channels |-> 0]
    /\ bad_transmission = [c \in Channels |-> FALSE]
    /\ sent = {}
    /\ reported = {}

AirSpec == AirInit /\ [][MCThread]_vars

MCWindows == {-1, 2, 4}

Symmetry == Permutations(Radios) \cup Permutations(Channels)
=============================================================================
