-------------------- MODULE PhysicalLayerDeliveryProofs --------------------
(***************************************************************************)
(* Collisions and deliveries: that the counters of PhysicalLayer say what  *)
(* is in the air, that bad_transmission says what has collided, and that   *)
(* what a radio is given was alone on its channel, and that what it is not *)
(* given, though within its window, was not.                               *)
(***************************************************************************)
EXTENDS PhysicalLayerProofs

\* A transmission that has started is in progress, or it is over.
SentInv ==
    \A t \in sent :
        /\ t.start_time < t.end_time
        /\ current_packet[t.physical_layer] = t \/ t.end_time <= physical_clock

AirInv == AirCount /\ \A c \in Channels : IsFiniteSet(OnAir(c))

\* A delivered packet and the window it was delivered to are both over, and a
\* window of this round that is over was delivered to.
Delivered(d) ==
    /\ d.transmission \in sent
    /\ current_packet[d.transmission.physical_layer] # d.transmission
    /\ current_packet[d.window.physical_layer] # d.window
    /\ d.transmission.channel = d.window.channel

ReportInv ==
    /\ \A d \in reported : Delivered(d)
    /\ stage = "gather" => reported = {}
    /\ stage = "transmitters" =>
          /\ \A d \in reported : d.transmission.end_time = physical_clock
          /\ \A w \in ordered_receivers :
                \/ current_packet[w.physical_layer] = w
                \/ \E d \in reported : d.window = w
    /\ ReportsAreClean
    /\ OneReportPerWindow

DeliveryInv == SentInv /\ AirInv /\ BadMeansCollided /\ ReportInv

LEMMA DeliveryInit == Init => DeliveryInv
<1> SUFFICES ASSUME Init PROVE DeliveryInv
  OBVIOUS
<1>1. \A c \in Channels : OnAir(c) = {}
  BY DEF Init, OnAir
<1> QED
  BY <1>1, FS_EmptySet
  DEF Init, DeliveryInv, SentInv, AirInv, AirCount, BadMeansCollided, ReportInv,
      ReportsAreClean, OneReportPerWindow

\* Steps at which nothing starts or ends keep the air as it is.
LEMMA AirKept ==
    ASSUME IInv, DeliveryInv,
           UNCHANGED <<transmitting, bad_transmission, sent>>,
           physical_clock' \in Int, physical_clock' >= physical_clock,
           \A t \in sent : current_packet'[t.physical_layer] = t
                              <=> current_packet[t.physical_layer] = t
    PROVE  SentInv' /\ AirInv' /\ BadMeansCollided'
<1> USE DEF IInv, TypeInv, TypeOK, DeliveryInv
<1>1. SentInv'
  BY DEF SentInv, Packet
<1>2. \A c \in Channels : OnAir(c)' = OnAir(c)
  BY DEF OnAir
<1>3. \A t : Collided(t)' <=> Collided(t)
  BY DEF Collided, Overlap
<1>4. AirInv'
  BY <1>2 DEF AirInv, AirCount
<1>5. BadMeansCollided'
  BY <1>2, <1>3 DEF BadMeansCollided
<1> QED
  BY <1>1, <1>4, <1>5

\* So do they keep the reports, where no radio gets a packet.
LEMMA ReportsKept ==
    ASSUME IInv, DeliveryInv, UNCHANGED <<sent, reported>>,
           \A r \in Radios : current_packet'[r] \in {current_packet[r], NoPacket}
    PROVE  /\ \A d \in reported' : Delivered(d)'
           /\ ReportsAreClean'
           /\ OneReportPerWindow'
<1> USE DEF IInv, TypeInv, TypeOK, DeliveryInv, ReportInv
<1>1. \A d \in reported : /\ d.transmission \in Packet /\ d.window \in Packet
                          /\ d.transmission.physical_layer \in Radios
                          /\ d.window.physical_layer \in Radios
                          /\ d.transmission # NoPacket /\ d.window # NoPacket
  BY ConstantsAssumption DEF Packet
<1>2. \A d \in reported' : Delivered(d)'
  BY <1>1 DEF Delivered
<1>3. ReportsAreClean'
  BY DEF ReportsAreClean, Collided, Overlap
<1>4. OneReportPerWindow'
  BY DEF OneReportPerWindow
<1> QED
  BY <1>2, <1>3, <1>4

LEMMA DeliverySocketThread == IInv /\ DeliveryInv /\ SocketThread => DeliveryInv'
<1> SUFFICES ASSUME IInv, DeliveryInv, SocketThread PROVE DeliveryInv'
  OBVIOUS
<1> USE DEF IInv, TypeInv, TypeOK
<1>1. /\ UNCHANGED <<stage, listVars, physical_clock, time_until_next_event, airVars>>
      /\ \A r \in Radios : current_packet'[r] = current_packet[r]
  <2>1. PICK r \in Radios : \/ PhysicalLayerConstructor(r)
                            \/ mk_active(r)
                            \/ set_delete_pending(r)
                            \/ PhysicalLayerDestructor(r)
    BY DEF SocketThread
  <2> QED
    BY <2>1 DEF PhysicalLayerConstructor, mk_active, set_delete_pending,
                PhysicalLayerDestructor, Owned
<1>2. \A t \in sent \cup ordered_receivers : t.physical_layer \in Radios
  BY DEF Packet
<1>3. SentInv' /\ AirInv' /\ BadMeansCollided'
  BY <1>1, <1>2, AirKept DEF airVars
<1>4. ReportInv'
  BY <1>1, <1>2, ReportsKept DEF ReportInv, DeliveryInv, airVars, listVars
<1> QED
  BY <1>3, <1>4 DEF DeliveryInv

LEMMA DeliveryGather == IInv /\ DeliveryInv /\ Gather => DeliveryInv'
<1> SUFFICES ASSUME IInv, DeliveryInv, Gather PROVE DeliveryInv'
  OBVIOUS
<1> USE DEF IInv, TypeInv, TypeOK
<1>1. \A t \in sent \cup ordered_receivers : t.physical_layer \in Radios /\ t # NoPacket
  BY ConstantsAssumption DEF Packet
<1>2. CASE BeginRound
  <2>1. SentInv' /\ AirInv' /\ BadMeansCollided'
    BY <1>1, <1>2, AirKept DEF BeginRound
  <2>2. ReportInv'
    BY <1>2 DEF BeginRound, ReportInv, ReportsAreClean, OneReportPerWindow
  <2> QED BY <2>1, <2>2 DEF DeliveryInv
<1>3. CASE Gathered
  <2>1. SentInv' /\ AirInv' /\ BadMeansCollided'
    BY <1>1, <1>3, AirKept DEF Gathered, airVars
  <2>2. ReportInv'
    BY <1>3, ReportsKept DEF Gathered, ReportInv, DeliveryInv, Listed, listVars, airVars
  <2> QED BY <2>1, <2>2 DEF DeliveryInv
<1>4. ASSUME NEW r \in unvisited, AtRadio(r),
             \A t \in sent : current_packet'[t.physical_layer] = t
                                <=> current_packet[t.physical_layer] = t
      PROVE  DeliveryInv'
  <2>1. SentInv' /\ AirInv' /\ BadMeansCollided'
    BY <1>4, AirKept DEF AtRadio, airVars
  <2>2. ReportInv'
    BY <1>4 DEF AtRadio, ReportInv, DeliveryInv, ReportsAreClean, OneReportPerWindow, airVars
  <2> QED BY <2>1, <2>2 DEF DeliveryInv
<1>5. ASSUME NEW r \in unvisited, VisitAny(r) PROVE DeliveryInv'
  <2>1. PICK p : Future(r, p) /\ VisitOffer(r, p)
    BY <1>5, OffersAreFuture
  <2>2. p \notin sent
    BY <2>1 DEF Future, SentBefore, Packet
  <2> QED
    BY <1>1, <1>4, <2>1, <2>2 DEF VisitOffer
<1>6. ASSUME NEW r \in unvisited,
             SkipInactive(r) \/ VisitBusy(r) \/ VisitSilent(r) \/ VisitDeleting(r)
      PROVE  DeliveryInv'
  BY <1>4, <1>6 DEF SkipInactive, VisitBusy, VisitSilent, VisitDeleting
<1> QED
  BY <1>2, <1>3, <1>5, <1>6 DEF Gather

LEMMA DeliveryReceivers == IInv /\ DeliveryInv /\ StepReceivers => DeliveryInv'
<1> SUFFICES ASSUME IInv, DeliveryInv, StepReceivers PROVE DeliveryInv'
  OBVIOUS
<1> USE DEF IInv, TypeInv, TypeOK
<1>1. ASSUME NEW w \in ordered_receivers, AtReceiver(w),
             \/ UNCHANGED current_packet
             \/ current_packet' = [current_packet EXCEPT ![w.physical_layer] = NoPacket]
      PROVE  DeliveryInv'
  <2>1. \A r \in Radios : current_packet'[r] \in {current_packet[r], NoPacket}
    BY <1>1
  <2>2. \A t \in sent : current_packet'[t.physical_layer] = t
                           <=> current_packet[t.physical_layer] = t
    <3>1. ~w.is_tx /\ current_packet[w.physical_layer] \in {w, NoPacket}
      BY DEF Listed
    <3>2. \A t \in sent : t.is_tx /\ t.physical_layer \in Radios /\ t # NoPacket
      BY ConstantsAssumption DEF SentBefore, Packet
    <3> QED BY <1>1, <3>1, <3>2
  <2>3. SentInv' /\ AirInv' /\ BadMeansCollided'
    BY <1>1, <2>2, AirKept DEF AtReceiver, airVars
  <2>4. ReportInv'
    BY <1>1, <2>1, ReportsKept DEF AtReceiver, ReportInv, airVars
  <2> QED BY <2>3, <2>4 DEF DeliveryInv
<1>2. CASE Advance
  <2>1. SentInv' /\ AirInv' /\ BadMeansCollided'
    BY <1>2, AirKept DEF Advance, airVars
  <2>2. ReportInv'
    BY <1>2, ReportsKept DEF Advance, ReportInv, airVars
  <2> QED BY <2>1, <2>2 DEF DeliveryInv
<1> QED
  BY <1>1, <1>2 DEF StepReceivers, EndReception, StayListening, StartReception,
                    AwaitReception, PassReception

-----------------------------------------------------------------------------
\* At the transmitter whose turn it is, nothing that is in the air can have
\* been over before it starts: enders come before starters in start order.
LEMMA StillInAir ==
    ASSUME IInv, SentInv, NEW p \in ordered_transmitters, AtTransmitter(p),
           p.start_time = physical_clock,
           NEW c \in Channels, NEW t \in OnAir(c)
    PROVE  t.end_time > physical_clock
<1> USE DEF IInv, TypeInv, TypeOK
<1>1. /\ t \in sent /\ t \in Packet /\ t.physical_layer \in Radios
      /\ t # NoPacket /\ t.is_tx
      /\ current_packet[t.physical_layer] = t
      /\ t.start_time \in Int /\ t.end_time \in Int
      /\ t.start_time < t.end_time
  BY ConstantsAssumption DEF OnAir, Packet, SentBefore, SentInv
<1>2. p.start_time \in Int /\ stage = "transmitters"
  BY DEF Packet, AtTransmitter
<1>3. CASE t \in ordered_transmitters
  <2>1. Waiting(t)
    BY <1>1, <1>3 DEF Timed, Passed
  <2>2. t.start_time < physical_clock
    BY <1>1, <2>1 DEF Waiting
  <2>3. p.start_time <= t.start_time
    BY <1>3 DEF AtTransmitter, Earliest
  <2> QED BY <1>1, <1>2, <2>2, <2>3
<1>4. CASE t \notin ordered_transmitters
  <2>1. t \notin ordered_receivers
    BY <1>1 DEF Listed
  <2>2. Stepped(t)
    BY <1>1, <1>2, <1>4, <2>1 DEF Timed, Passed
  <2>3. t.start_time <= physical_clock
    BY <1>1, <2>2 DEF Stepped
  <2> QED BY <1>1, <2>2, <2>3 DEF Stepped
<1> QED BY <1>3, <1>4

\* A transmission starts: alone on its channel, or colliding with all there is.
LEMMA DeliveryStart ==
    ASSUME IInv, DeliveryInv, NEW p \in ordered_transmitters, StartTransmission(p)
    PROVE  DeliveryInv'
<1> USE DEF IInv, TypeInv, TypeOK, DeliveryInv
<1> DEFINE c == p.channel
<1>1. /\ AtTransmitter(p) /\ p.start_time = physical_clock /\ p.end_time # physical_clock
      /\ transmitting' = [transmitting EXCEPT ![c] = @ + 1]
      /\ bad_transmission' = [bad_transmission EXCEPT ![c] = @ \/ transmitting'[c] >= 2]
      /\ sent' = sent \cup {p}
      /\ UNCHANGED <<current_packet, reported>>
      /\ stage = "transmitters"
      /\ UNCHANGED <<stage, physical_clock, ordered_receivers>>
  BY DEF StartTransmission, AtTransmitter
<1>2. /\ p \in Packet /\ c \in Channels /\ p.physical_layer \in Radios /\ p # NoPacket
      /\ p.start_time \in Int /\ p.end_time \in Int
      /\ current_packet[p.physical_layer] = p
      /\ p.is_tx
      /\ p.start_time < p.end_time
  BY ConstantsAssumption DEF Packet, Listed, Owned
<1>3. p \notin sent
  <2>1. Waiting(p)
    BY <1>2 DEF Timed, Passed
  <2> QED BY <1>1, <1>2, <2>1 DEF Waiting
<1>4. /\ OnAir(c)' = OnAir(c) \cup {p}
      /\ p \notin OnAir(c)
      /\ \A d \in Channels : d # c => OnAir(d)' = OnAir(d)
  BY <1>1, <1>2, <1>3 DEF OnAir
<1>5. SentInv'
  BY <1>1, <1>2 DEF SentInv
<1>6. AirInv'
  <2>1. IsFiniteSet(OnAir(c)) /\ transmitting[c] = Cardinality(OnAir(c))
    BY <1>2 DEF AirInv, AirCount
  <2>2. /\ IsFiniteSet(OnAir(c) \cup {p})
        /\ Cardinality(OnAir(c) \cup {p}) = Cardinality(OnAir(c)) + 1
    BY <1>4, <2>1, FS_AddElement
  <2>3. transmitting'[c] = Cardinality(OnAir(c) \cup {p})
    BY <1>1, <1>2, <2>1, <2>2
  <2>4. ASSUME NEW d \in Channels
        PROVE  IsFiniteSet(OnAir(d)') /\ transmitting'[d] = Cardinality(OnAir(d)')
    <3>1. CASE d = c
      BY <3>1, <1>4, <2>2, <2>3
    <3>2. CASE d # c
      BY <3>2, <1>1, <1>4 DEF AirInv, AirCount
    <3> QED BY <3>1, <3>2
  <2> QED BY <2>4 DEF AirInv, AirCount
\* p collides with everything in the air, and with nothing that is over.
<1>7. \A t \in OnAir(c) : Overlap(t, p) /\ Overlap(p, t)
  <2>1. ASSUME NEW t \in OnAir(c) PROVE Overlap(t, p) /\ Overlap(p, t)
    <3>1. t.end_time > physical_clock
      BY <1>1, <1>2, StillInAir
    <3>2. t \in sent /\ t.channel = c /\ t \in Packet /\ t.start_time <= physical_clock
      BY DEF OnAir, SentBefore
    <3> QED BY <1>1, <1>2, <1>3, <3>1, <3>2 DEF Overlap, Packet
  <2> QED BY <2>1
<1>8. \A u \in sent : Overlap(p, u) => u \in OnAir(c)
  BY <1>1, <1>2 DEF SentInv, OnAir, Overlap, Packet
<1>9. \A t \in sent : Collided(t)' <=> Collided(t) \/ Overlap(t, p)
  BY <1>1 DEF Collided, Overlap
<1>10. Collided(p)' <=> \E u \in sent : Overlap(p, u)
  BY <1>1 DEF Collided, Overlap
<1>11. BadMeansCollided'
  <2>1. \A d \in Channels : d # c =>
           \A t \in OnAir(d) : /\ Collided(t)' <=> Collided(t)
    BY <1>9 DEF OnAir, Overlap
  <2>2. ASSUME NEW d \in Channels, d # c
        PROVE  /\ bad_transmission'[d] => OnAir(d)' # {}
               /\ \A t \in OnAir(d)' : bad_transmission'[d] <=> Collided(t)'
    <3>1. bad_transmission'[d] = bad_transmission[d] /\ OnAir(d)' = OnAir(d)
      BY <1>1, <1>4, <2>2
    <3> QED BY <2>1, <2>2, <3>1 DEF BadMeansCollided
  <2>3. /\ bad_transmission'[c] => OnAir(c)' # {}
        /\ \A t \in OnAir(c)' : bad_transmission'[c] <=> Collided(t)'
    <3>1. CASE OnAir(c) = {}
      <4>1. transmitting[c] = 0 /\ ~bad_transmission[c]
        BY <3>1, <1>2, FS_EmptySet DEF AirInv, AirCount, BadMeansCollided
      <4>2. ~bad_transmission'[c]
        BY <1>1, <1>2, <4>1
      <4>3. OnAir(c)' = {p} /\ ~Collided(p)'
        BY <3>1, <1>4, <1>8, <1>10
      <4> QED BY <4>2, <4>3
    <3>2. CASE OnAir(c) # {}
      <4>1. Cardinality(OnAir(c)) >= 1
        <5>1. IsFiniteSet(OnAir(c))
          BY <1>2 DEF AirInv
        <5>2. Cardinality(OnAir(c)) \in Nat
          BY <5>1, FS_CardinalityType
        <5>3. Cardinality(OnAir(c)) # 0
          BY <3>2, <5>1, FS_EmptySet
        <5> QED BY <5>2, <5>3
      <4>2. bad_transmission'[c] = TRUE
        <5>1. transmitting[c] \in Int /\ transmitting[c] >= 1
          BY <1>2, <4>1 DEF AirInv, AirCount
        <5>2. transmitting'[c] >= 2
          BY <1>1, <1>2, <5>1
        <5> QED BY <1>1, <1>2, <5>2
      <4>3. \A t \in OnAir(c) : Collided(t)'
        BY <1>7, <1>9 DEF OnAir
      <4>4. Collided(p)'
        BY <3>2, <1>7, <1>10 DEF OnAir
      <4> QED BY <4>2, <4>3, <4>4, <1>4
    <3> QED BY <3>1, <3>2
  <2>4. ASSUME NEW d \in Channels
        PROVE  (/\ bad_transmission[d] => OnAir(d) # {}
                /\ \A t \in OnAir(d) : bad_transmission[d] <=> Collided(t))'
    BY <2>2, <2>3
  <2> QED BY <2>4 DEF BadMeansCollided
<1>12. ReportInv'
  <2>1. \A d \in reported : Delivered(d)'
    BY <1>1 DEF ReportInv, Delivered
  <2>2. ReportsAreClean'
    <3>1. ASSUME NEW d \in reported PROVE ~Collided(d.transmission)'
      <4>1. d.transmission \in sent /\ ~Collided(d.transmission)
        BY DEF ReportInv, Delivered, ReportsAreClean
      <4>2. d.transmission.end_time = physical_clock
        BY <1>1 DEF ReportInv
      <4>3. ~Overlap(d.transmission, p)
        BY <4>2, <1>1, <1>2 DEF Overlap
      <4> QED BY <4>1, <4>3, <1>9
    <3> QED BY <3>1, <1>1 DEF ReportInv, ReportsAreClean
  <2>3. OneReportPerWindow'
    BY <1>1 DEF ReportInv, OneReportPerWindow
  <2> QED BY <2>1, <2>2, <2>3, <1>1 DEF ReportInv
<1> QED BY <1>5, <1>6, <1>11, <1>12

\* A transmission ends: its receivers are those that listened, if it was
\* alone, and none of them has been served in this round.
LEMMA DeliveryEnd ==
    ASSUME IInv, DeliveryInv, NEW p \in ordered_transmitters, EndTransmission(p)
    PROVE  DeliveryInv'
<1> USE DEF IInv, TypeInv, TypeOK, DeliveryInv
<1> DEFINE c == p.channel
           delivered == {[window |-> w, transmission |-> p] : w \in Receivers(p)}
<1>1. /\ AtTransmitter(p) /\ p.end_time = physical_clock
      /\ transmitting' = [transmitting EXCEPT ![c] = @ - 1]
      /\ bad_transmission' = ClearBad(c)
      /\ sent' = sent
      /\ reported' = reported \cup delivered
      /\ stage = "transmitters"
      /\ UNCHANGED <<stage, physical_clock, ordered_receivers>>
  BY DEF EndTransmission, AtTransmitter, GiveBack
<1>2. /\ p \in Packet /\ c \in Channels /\ p.physical_layer \in Radios /\ p # NoPacket
      /\ p.start_time \in Int /\ p.end_time \in Int
      /\ current_packet[p.physical_layer] = p
      /\ p.is_tx
      /\ p.start_time < p.end_time
  BY ConstantsAssumption DEF Packet, Listed, Owned
<1>3. p \in sent /\ p \in OnAir(c)
  <2>1. Waiting(p)
    BY <1>2 DEF Timed, Passed
  <2> QED BY <1>1, <1>2, <2>1 DEF Waiting, OnAir
<1>4. \A w \in Receivers(p) :
         /\ w \in ordered_receivers /\ w \in Packet
         /\ w.physical_layer \in Radios /\ w # NoPacket /\ ~w.is_tx
         /\ Listening(w, p) /\ ~bad_transmission[c]
  BY ConstantsAssumption DEF Receivers, Listed, Packet
\* Were a receiver served before in this round, its transmission would have
\* ended at this moment too, and the two would have collided.
<1>5. \A w \in Receivers(p) : current_packet[w.physical_layer] = w
  <2> SUFFICES ASSUME NEW w \in Receivers(p), current_packet[w.physical_layer] # w
               PROVE  FALSE
    OBVIOUS
  <2>1. PICK d \in reported : d.window = w
    BY <1>1, <1>4 DEF ReportInv
  <2>2. /\ d.transmission \in sent
        /\ current_packet[d.transmission.physical_layer] # d.transmission
        /\ d.transmission.channel = w.channel
        /\ d.transmission.end_time = physical_clock
    BY <1>1, <2>1 DEF ReportInv, Delivered
  <2>3. Overlap(p, d.transmission)
    BY <1>1, <1>2, <1>4, <2>2 DEF Overlap, SentInv, Listening, Packet
  <2>4. Collided(p)
    BY <2>2, <2>3 DEF Collided
  <2>5. bad_transmission[c]
    BY <1>2, <1>3, <2>4 DEF BadMeansCollided
  <2> QED BY <1>4, <2>5
\* What current_packet becomes.
<1>6. /\ current_packet'[p.physical_layer] = NoPacket
      /\ \A w \in Receivers(p) : current_packet'[w.physical_layer] = NoPacket
      /\ \A r \in Radios : current_packet'[r] \in {current_packet[r], NoPacket}
      /\ \A r \in Radios : current_packet[r].is_tx /\ r # p.physical_layer
            => current_packet'[r] = current_packet[r]
      /\ \A r \in Radios : current_packet'[r] # current_packet[r] =>
            r = p.physical_layer \/ \E w \in Receivers(p) : r = w.physical_layer
  BY <1>2, <1>4, <1>5 DEF EndTransmission
<1>7. \A t \in sent : t # p =>
         (current_packet'[t.physical_layer] = t <=> current_packet[t.physical_layer] = t)
  <2>1. \A t \in sent : t \in Packet /\ t.physical_layer \in Radios /\ t # NoPacket /\ t.is_tx
    BY ConstantsAssumption DEF Packet, SentBefore
  <2> QED BY <1>2, <1>6, <2>1
<1>8. /\ OnAir(c)' = OnAir(c) \ {p}
      /\ \A d \in Channels : d # c => OnAir(d)' = OnAir(d)
  BY <1>1, <1>2, <1>6, <1>7 DEF OnAir
<1>9. \A t : Collided(t)' <=> Collided(t)
  BY <1>1 DEF Collided, Overlap
<1>10. SentInv'
  BY <1>1, <1>2, <1>7 DEF SentInv
<1>11. IsFiniteSet(OnAir(c)) /\ transmitting[c] = Cardinality(OnAir(c))
  BY <1>2 DEF AirInv, AirCount
<1>12. /\ IsFiniteSet(OnAir(c) \ {p})
       /\ Cardinality(OnAir(c) \ {p}) = Cardinality(OnAir(c)) - 1
  BY <1>3, <1>11, FS_RemoveElement
<1>13. AirInv'
  <2>1. transmitting'[c] = Cardinality(OnAir(c) \ {p})
    BY <1>1, <1>2, <1>11, <1>12
  <2>2. ASSUME NEW d \in Channels
        PROVE  IsFiniteSet(OnAir(d)') /\ transmitting'[d] = Cardinality(OnAir(d)')
    <3>1. CASE d = c
      BY <3>1, <1>8, <1>12, <2>1
    <3>2. CASE d # c
      BY <3>2, <1>1, <1>8 DEF AirInv, AirCount
    <3> QED BY <3>1, <3>2
  <2> QED BY <2>2 DEF AirInv, AirCount
<1>14. BadMeansCollided'
  <2>1. ASSUME NEW d \in Channels, d # c
        PROVE  /\ bad_transmission'[d] => OnAir(d)' # {}
               /\ \A t \in OnAir(d)' : bad_transmission'[d] <=> Collided(t)'
    <3>1. bad_transmission'[d] = bad_transmission[d] /\ OnAir(d)' = OnAir(d)
      BY <1>1, <1>8, <2>1 DEF ClearBad
    <3> QED BY <3>1, <1>9 DEF BadMeansCollided
  <2>2. /\ bad_transmission'[c] => OnAir(c)' # {}
        /\ \A t \in OnAir(c)' : bad_transmission'[c] <=> Collided(t)'
    <3>1. bad_transmission'[c] <=> bad_transmission[c] /\ transmitting[c] # 1
      BY <1>1, <1>2 DEF ClearBad
    <3>2. transmitting[c] = 1 <=> OnAir(c)' = {}
      <4>1. transmitting[c] = Cardinality(OnAir(c) \ {p}) + 1
            /\ Cardinality(OnAir(c) \ {p}) \in Nat
        BY <1>11, <1>12, FS_CardinalityType
      <4>2. Cardinality(OnAir(c) \ {p}) = 0 <=> OnAir(c) \ {p} = {}
        BY <1>12, FS_EmptySet
      <4> QED BY <4>1, <4>2, <1>8
    <3>3. \A t \in OnAir(c) : bad_transmission[c] <=> Collided(t)
      BY <1>2 DEF BadMeansCollided
    <3> QED BY <3>1, <3>2, <3>3, <1>8, <1>9
  <2>3. ASSUME NEW d \in Channels
        PROVE  (/\ bad_transmission[d] => OnAir(d) # {}
                /\ \A t \in OnAir(d) : bad_transmission[d] <=> Collided(t))'
    BY <2>1, <2>2
  <2> QED BY <2>3 DEF BadMeansCollided
<1>15. ReportInv'
  <2>1. \A d \in reported : Delivered(d)'
    <3>1. \A d \in reported : /\ d.transmission \in Packet /\ d.window \in Packet
                              /\ d.transmission.physical_layer \in Radios
                              /\ d.window.physical_layer \in Radios
                              /\ d.transmission # NoPacket /\ d.window # NoPacket
      BY ConstantsAssumption DEF Packet
    <3> QED BY <1>1, <1>6, <3>1 DEF ReportInv, Delivered
  <2>2. \A d \in delivered : Delivered(d)'
    BY <1>1, <1>2, <1>3, <1>4, <1>6 DEF Delivered, Listening
  <2>3. \A d \in delivered : d.transmission.end_time = physical_clock
    BY <1>1
  <2>4. \A w \in ordered_receivers :
           current_packet'[w.physical_layer] = w \/ \E d \in reported' : d.window = w
    <3> SUFFICES ASSUME NEW w \in ordered_receivers, current_packet'[w.physical_layer] # w
                 PROVE  \E d \in reported' : d.window = w
      OBVIOUS
    <3>0. w \in Packet /\ w.physical_layer \in Radios /\ ~w.is_tx
      BY DEF Listed, Packet
    <3>1. CASE current_packet[w.physical_layer] # w
      BY <1>1, <3>1 DEF ReportInv
    <3>2. CASE current_packet[w.physical_layer] = w
      <4>1. w.physical_layer # p.physical_layer
        BY <1>2, <3>0, <3>2
      <4>2. PICK v \in Receivers(p) : w.physical_layer = v.physical_layer
        BY <1>6, <3>0, <3>2, <4>1
      <4>3. v = w
        BY <1>5, <3>2, <4>2
      <4>4. [window |-> w, transmission |-> p] \in reported'
        BY <1>1, <4>3
      <4> QED BY <4>4
    <3> QED BY <3>1, <3>2
  <2>5. ReportsAreClean'
    <3>1. ASSUME NEW w \in Receivers(p)
          PROVE  ~Collided(p) /\ p.end_time <= w.end_time
      <4>1. ~Collided(p)
        BY <1>2, <1>3, <1>4 DEF BadMeansCollided
      <4>2. Waiting(w)
        BY <1>1, <1>4, <1>5 DEF Timed, Passed
      <4>3. /\ w.start_time <= p.start_time
            /\ w.end_time >= p.start_time + SyncTime
            /\ w.start_time \in Int /\ w.end_time \in Int
        BY <1>4 DEF Listening, Packet
      <4>4. w.start_time < w.end_time
        BY <4>3, <1>2, ConstantsAssumption
      <4> QED BY <4>1, <4>2, <4>4, <1>1 DEF Waiting
    <3>2. \A d \in delivered : /\ ~Collided(d.transmission)
                               /\ d.window.channel = d.transmission.channel
                               /\ d.window.start_time <= d.transmission.start_time
                               /\ d.transmission.end_time <= d.window.end_time
      BY <3>1, <1>4 DEF Listening
    <3> QED BY <3>2, <1>1, <1>9 DEF ReportInv, ReportsAreClean
  <2>6. OneReportPerWindow'
    <3>1. \A d \in reported : current_packet[d.window.physical_layer] # d.window
      BY DEF ReportInv, Delivered
    <3>2. \A d \in delivered : current_packet[d.window.physical_layer] = d.window
      BY <1>5
    <3>3. \A d \in delivered : d.transmission = p
      OBVIOUS
    <3> QED BY <3>1, <3>2, <3>3, <1>1 DEF ReportInv, OneReportPerWindow
  <2>7. /\ \A d \in reported' : Delivered(d)'
        /\ \A d \in reported' : d.transmission.end_time = physical_clock
    BY <2>1, <2>2, <2>3, <1>1 DEF ReportInv
  <2> QED BY <2>4, <2>5, <2>6, <2>7, <1>1 DEF ReportInv
<1> QED BY <1>10, <1>13, <1>14, <1>15

LEMMA DeliveryTransmitters == IInv /\ DeliveryInv /\ StepTransmitters => DeliveryInv'
<1> SUFFICES ASSUME IInv, DeliveryInv, StepTransmitters PROVE DeliveryInv'
  OBVIOUS
<1> USE DEF IInv, TypeInv, TypeOK
<1>1. ASSUME NEW p \in ordered_transmitters, StayOnAir(p) \/ AwaitTransmission(p)
      PROVE  DeliveryInv'
  <2>1. /\ UNCHANGED <<current_packet, transmitting, bad_transmission, sent, reported,
                       stage, physical_clock, ordered_receivers>>
    BY <1>1 DEF StayOnAir, AwaitTransmission, AtTransmitter, airVars
  <2>2. SentInv' /\ AirInv' /\ BadMeansCollided'
    BY <2>1, AirKept
  <2>3. ReportInv'
    BY <2>1, ReportsKept DEF ReportInv, DeliveryInv
  <2> QED BY <2>2, <2>3 DEF DeliveryInv
<1>2. CASE TransmittersDone
  <2>1. SentInv' /\ AirInv' /\ BadMeansCollided'
    BY <1>2, AirKept DEF TransmittersDone, airVars
  <2>2. ReportInv'
    BY <1>2, ReportsKept DEF TransmittersDone, ReportInv, airVars
  <2> QED BY <2>1, <2>2 DEF DeliveryInv
<1> QED
  BY <1>1, <1>2, DeliveryStart, DeliveryEnd DEF StepTransmitters

LEMMA DeliveryHolds == Spec => [](IInv /\ DeliveryInv)
<1>1. IInv /\ DeliveryInv /\ [Next]_vars => DeliveryInv'
  <2>1. IInv /\ DeliveryInv /\ UNCHANGED vars => DeliveryInv'
    BY DEF vars, airVars, listVars, radioVars, DeliveryInv, SentInv, AirInv, AirCount,
           OnAir, BadMeansCollided, Collided, Overlap, ReportInv, Delivered,
           ReportsAreClean, OneReportPerWindow
  <2> QED
    BY <2>1, DeliverySocketThread, DeliveryGather, DeliveryTransmitters,
       DeliveryReceivers
    DEF Next, physical_layer_simulation_thread
<1> QED
  BY IInvInit, IInvNext, DeliveryInit, <1>1, PTL DEF Spec

(***************************************************************************)
(* transmitting[c] is the number of transmissions in the air on c: none is *)
(* counted twice and none stays counted, however radios come and go.       *)
(***************************************************************************)
THEOREM CountersAreRight == Spec => []AirCount
<1>1. DeliveryInv => AirCount
  BY DEF DeliveryInv, AirInv
<1> QED
  BY DeliveryHolds, <1>1, PTL

(***************************************************************************)
(* bad_transmission, which one flag per channel keeps, is right for every  *)
(* transmission in the air: it is set exactly if that one has collided.    *)
(***************************************************************************)
THEOREM CollisionsAreKnown == Spec => []BadMeansCollided
<1>1. DeliveryInv => BadMeansCollided
  BY DEF DeliveryInv
<1> QED
  BY DeliveryHolds, <1>1, PTL

(***************************************************************************)
(* What a radio is given did not collide with anything and lies wholly     *)
(* inside the window in which it listened, on the window's channel.        *)
(***************************************************************************)
THEOREM DeliveriesAreClean == Spec => []ReportsAreClean
<1>1. DeliveryInv => ReportsAreClean
  BY DEF DeliveryInv, ReportInv
<1> QED
  BY DeliveryHolds, <1>1, PTL

(***************************************************************************)
(* Two transmissions that end at once never are both given to one window.  *)
(***************************************************************************)
THEOREM OneDeliveryPerWindow == Spec => []OneReportPerWindow
<1>1. DeliveryInv => OneReportPerWindow
  BY DEF DeliveryInv, ReportInv
<1> QED
  BY DeliveryHolds, <1>1, PTL
-----------------------------------------------------------------------------
(***************************************************************************)
(* NothingMissed: a window still open has met, so far, only transmissions  *)
(* that collided or that it does not contain.                              *)
(***************************************************************************)

\* A packet of the air is as long as its preamble and access address at least,
\* to which set_pdu adds a checksum and the data.
AirtimesCoverSync == \A length \in Airtimes : length >= SyncTime

\* Transmission t went by, and was whole within window w.
WentBy(t, w) ==
    /\ current_packet[t.physical_layer] # t
    /\ t.channel = w.channel
    /\ w.start_time <= t.start_time
    /\ t.end_time <= w.end_time

MissInv ==
    \A r \in Radios : current_packet[r] # NoPacket =>
        /\ current_packet[r].is_tx =>
              current_packet[r].start_time + SyncTime <= current_packet[r].end_time
        /\ ~current_packet[r].is_tx =>
              /\ stage = "transmitters" => current_packet[r] \in ordered_receivers
              /\ \A t \in sent : WentBy(t, current_packet[r]) => Collided(t)

\* No transmission that is handed over is too short.
LEMMA OffersAreLong ==
    ASSUME AirtimesCoverSync, NEW r \in Radios, NEW p, physical_clock \in Int, VisitAny(r),
           VisitOffer(r, p), current_packet \in [Radios -> Packet \cup {NoPacket}], p.is_tx
    PROVE  p.start_time + SyncTime <= p.end_time
<1>1. PICK c \in Channels, tag \in Tags, lead \in Leads :
        \/ \E length \in Airtimes :
              VisitOffer(r, PacketOf(r, TRUE, c, tag, physical_clock + lead, length))
        \/ \E length \in Windows :
              VisitOffer(r, PacketOf(r, FALSE, c, tag, physical_clock + lead, length))
  BY DEF VisitAny
<1>2. \A q : VisitOffer(r, q) => q = p
  <2>1. \A q : VisitOffer(r, q) => current_packet'[r] = q
    BY DEF VisitOffer
  <2> QED BY <2>1
<1>3. PICK length \in Airtimes : p = PacketOf(r, TRUE, c, tag, physical_clock + lead, length)
  <2>1. \A length : ~PacketOf(r, FALSE, c, tag, physical_clock + lead, length).is_tx
    BY DEF PacketOf
  <2> QED BY <1>1, <1>2, <2>1
<1>4. lead \in Nat /\ length \in Nat /\ SyncTime \in Nat /\ length >= SyncTime
  BY ConstantsAssumption DEF AirtimesCoverSync
<1> QED
  BY <1>3, <1>4 DEF PacketOf

\* A step that ends no transmission and opens no window.
LEMMA MissKept ==
    ASSUME IInv, MissInv,
           \A r \in Radios : current_packet'[r] \in {current_packet[r], NoPacket},
           stage' = "transmitters" =>
              stage = "transmitters" \/ (stage = "gather" /\ unvisited = {}),
           stage' = "transmitters" => UNCHANGED ordered_receivers,
           sent \subseteq sent',
           \A t \in sent' \ sent : current_packet'[t.physical_layer] = t,
           \A t \in sent : current_packet[t.physical_layer] = t =>
                               current_packet'[t.physical_layer] = t
    PROVE  MissInv'
<1>1. \A t \in sent : Collided(t) => Collided(t)'
  BY DEF Collided, Overlap
<1> SUFFICES ASSUME NEW r \in Radios, current_packet'[r] # NoPacket
             PROVE  /\ current_packet'[r].is_tx =>
                          current_packet'[r].start_time + SyncTime <= current_packet'[r].end_time
                    /\ ~current_packet'[r].is_tx =>
                          /\ stage' = "transmitters" => current_packet'[r] \in ordered_receivers'
                          /\ \A t \in sent' : WentBy(t, current_packet[r])' => Collided(t)'
  BY DEF MissInv
<1>2. current_packet'[r] = current_packet[r]
  OBVIOUS
<1>3. \A t \in sent' : WentBy(t, current_packet[r])' => t \in sent /\ WentBy(t, current_packet[r])
  BY <1>2 DEF WentBy
<1>4. ~current_packet[r].is_tx /\ stage' = "transmitters" => current_packet[r] \in ordered_receivers'
  BY <1>2 DEF IInv, Listed, MissInv
<1> QED
  BY <1>1, <1>2, <1>3, <1>4 DEF MissInv

\* get_next_packet opens a window that is still to come.
LEMMA MissOffer ==
    ASSUME AirtimesCoverSync, IInv, MissInv, NEW s \in unvisited, VisitAny(s)
    PROVE  MissInv'
<1> USE DEF IInv, TypeInv, TypeOK
<1>1. PICK p : Future(s, p) /\ VisitOffer(s, p)
  BY OffersAreFuture
<1>2. /\ s \in Radios /\ p \in Packet /\ p # NoPacket /\ p.physical_layer = s
      /\ p.start_time > physical_clock /\ p.start_time \in Int
      /\ current_packet[s] = NoPacket
      /\ current_packet' = [current_packet EXCEPT ![s] = p]
      /\ sent' = sent /\ stage' = "gather"
  BY <1>1, ConstantsAssumption DEF Future, Packet, VisitOffer, AtRadio, airVars
<1>3. p.is_tx => p.start_time + SyncTime <= p.end_time
  BY <1>1, OffersAreLong
<1>4. \A t \in sent : /\ t.start_time <= physical_clock /\ t.start_time \in Int
                      /\ t.physical_layer \in Radios /\ t # NoPacket
  BY ConstantsAssumption DEF SentBefore, Packet
<1>5. \A t \in sent : Collided(t)' <=> Collided(t)
  BY <1>2 DEF Collided, Overlap
<1> SUFFICES ASSUME NEW r \in Radios, current_packet'[r] # NoPacket
             PROVE  /\ current_packet'[r].is_tx =>
                          current_packet'[r].start_time + SyncTime <= current_packet'[r].end_time
                    /\ ~current_packet'[r].is_tx =>
                          /\ stage' = "transmitters" => current_packet'[r] \in ordered_receivers'
                          /\ \A t \in sent' : WentBy(t, current_packet[r])' => Collided(t)'
  BY DEF MissInv
<1>6. CASE r = s
  <2>1. \A t \in sent : ~WentBy(t, current_packet[r])'
    BY <1>2, <1>4, <1>6 DEF WentBy
  <2> QED BY <2>1, <1>2, <1>3, <1>6
<1>7. CASE r # s
  <2>1. current_packet'[r] = current_packet[r]
    BY <1>2, <1>7
  <2>2. \A t \in sent : WentBy(t, current_packet[r])' => WentBy(t, current_packet[r])
    BY <2>1, <1>2, <1>4 DEF WentBy
  <2> QED BY <2>1, <2>2, <1>2, <1>5 DEF MissInv
<1> QED BY <1>6, <1>7

\* A transmission ends: what is alone is given to every window that contains it.
LEMMA MissEnd ==
    ASSUME IInv, DeliveryInv, MissInv, NEW p \in ordered_transmitters, EndTransmission(p)
    PROVE  MissInv'
<1> USE DEF IInv, TypeInv, TypeOK
<1>1. /\ stage = "transmitters" /\ p.end_time = physical_clock /\ sent' = sent
      /\ UNCHANGED ordered_receivers
      /\ current_packet' =
           [r \in Radios |-> IF r \in {q.physical_layer : q \in Receivers(p) \cup {p}}
                             THEN NoPacket
                             ELSE current_packet[r]]
  BY DEF EndTransmission, AtTransmitter
<1>2. /\ p \in Packet /\ p.physical_layer \in Radios /\ p # NoPacket /\ p.is_tx
      /\ p.start_time \in Int /\ p.end_time \in Int /\ p.channel \in Channels
      /\ current_packet[p.physical_layer] = p
  BY ConstantsAssumption DEF Packet, Listed
<1>3. p.start_time < p.end_time /\ p.start_time + SyncTime <= p.end_time
  BY <1>2 DEF Owned, MissInv
<1>4. p \in OnAir(p.channel)
  <2>1. Waiting(p)
    BY <1>2 DEF Timed, Passed
  <2> QED BY <1>1, <1>2, <1>3, <2>1 DEF Waiting, OnAir
<1>5. bad_transmission[p.channel] => Collided(p)
  BY <1>2, <1>4 DEF DeliveryInv, BadMeansCollided
<1>6. \A t \in sent : Collided(t)' <=> Collided(t)
  BY <1>1 DEF Collided, Overlap
<1>7. \A t \in sent : t.physical_layer \in Radios
  BY DEF Packet
<1> SUFFICES ASSUME NEW r \in Radios, current_packet'[r] # NoPacket
             PROVE  /\ current_packet'[r].is_tx =>
                          current_packet'[r].start_time + SyncTime <= current_packet'[r].end_time
                    /\ ~current_packet'[r].is_tx =>
                          /\ stage' = "transmitters" => current_packet'[r] \in ordered_receivers'
                          /\ \A t \in sent' : WentBy(t, current_packet[r])' => Collided(t)'
  BY DEF MissInv
<1>8. current_packet'[r] = current_packet[r] /\ current_packet[r] # NoPacket
      /\ r \notin {q.physical_layer : q \in Receivers(p) \cup {p}}
  BY <1>1
<1>9. ASSUME ~current_packet[r].is_tx, NEW t \in sent, WentBy(t, current_packet[r])'
      PROVE  Collided(t)
  <2> DEFINE w == current_packet[r]
  <2>1. /\ t.channel = w.channel /\ w.start_time <= t.start_time /\ t.end_time <= w.end_time
    BY <1>8, <1>9 DEF WentBy
  <2>2. CASE t = p
    <3>1. w \in Packet /\ w.physical_layer = r /\ w.end_time \in Int /\ w.start_time \in Int
      BY <1>8 DEF Owned, Packet
    <3>2. w.end_time >= p.start_time + SyncTime
      BY <2>1, <2>2, <3>1, <1>2, <1>3, ConstantsAssumption
    <3>3. Listening(w, p)
      BY <2>1, <2>2, <3>2 DEF Listening
    <3>4. w \notin Receivers(p)
      BY <1>8, <3>1
    <3>5. w \in ordered_receivers
      BY <1>1, <1>8, <1>9 DEF MissInv
    <3> QED BY <2>2, <3>3, <3>4, <3>5, <1>5 DEF Receivers
  <2>3. CASE t # p
    <3>1. current_packet[t.physical_layer] # t
      <4>1. t \in Packet /\ t.is_tx /\ t # NoPacket
        BY ConstantsAssumption DEF SentBefore
      <4>2. \A q \in Receivers(p) \cup {p} : current_packet[q.physical_layer] # t
        BY <2>3, <4>1, <1>2 DEF Receivers, Listed
      <4>3. current_packet'[t.physical_layer] # t
        BY <1>9 DEF WentBy
      <4> QED BY <4>2, <4>3, <1>1, <1>7
    <3> QED BY <3>1, <2>1, <1>8, <1>9 DEF WentBy, MissInv
  <2> QED BY <2>2, <2>3
<1>10. ~current_packet[r].is_tx => current_packet[r] \in ordered_receivers'
  BY <1>1, <1>8 DEF MissInv
<1> QED BY <1>1, <1>6, <1>8, <1>9, <1>10 DEF MissInv

LEMMA MissNext ==
    ASSUME AirtimesCoverSync, IInv, DeliveryInv, MissInv, [Next]_vars
    PROVE  MissInv'
<1> USE DEF IInv, TypeInv, TypeOK
<1>1. \A t \in sent \cup ordered_receivers \cup ordered_transmitters :
         t.physical_layer \in Radios /\ t # NoPacket
  BY ConstantsAssumption DEF Packet
<1>2. CASE SocketThread
  <2>1. /\ UNCHANGED <<stage, listVars, airVars>>
        /\ \A r \in Radios : current_packet'[r] = current_packet[r]
    <3>1. PICK r \in Radios : \/ PhysicalLayerConstructor(r)
                              \/ mk_active(r)
                              \/ set_delete_pending(r)
                              \/ PhysicalLayerDestructor(r)
      BY <1>2 DEF SocketThread
    <3> QED
      BY <3>1 DEF PhysicalLayerConstructor, mk_active, set_delete_pending,
                  PhysicalLayerDestructor, Owned
  <2> QED BY <2>1, <1>1, MissKept DEF listVars, airVars
<1>3. CASE BeginRound \/ Gathered \/ TransmittersDone \/ Advance \/ UNCHANGED vars
  <2>1. /\ UNCHANGED <<current_packet, sent>>
        /\ stage' = "transmitters" =>
              UNCHANGED ordered_receivers /\ (stage = "transmitters" \/ (stage = "gather" /\ unvisited = {}))
    BY <1>3 DEF BeginRound, Gathered, TransmittersDone, Advance, vars, listVars, airVars
  <2> QED BY <2>1, MissKept
<1>4. ASSUME NEW r \in unvisited,
             SkipInactive(r) \/ VisitBusy(r) \/ VisitSilent(r) \/ VisitDeleting(r)
      PROVE  MissInv'
  <2>1. UNCHANGED <<current_packet, sent>> /\ stage' = "gather"
    BY <1>4 DEF SkipInactive, VisitBusy, VisitSilent, VisitDeleting, AtRadio, airVars
  <2> QED BY <2>1, MissKept
<1>5. ASSUME NEW r \in unvisited, VisitAny(r) PROVE MissInv'
  BY <1>5, MissOffer
<1>6. ASSUME NEW p \in ordered_transmitters, EndTransmission(p) PROVE MissInv'
  BY <1>6, MissEnd
<1>7. ASSUME NEW p \in ordered_transmitters, StayOnAir(p) \/ AwaitTransmission(p)
      PROVE  MissInv'
  <2>1. UNCHANGED <<current_packet, sent, stage, ordered_receivers>> /\ stage = "transmitters"
    BY <1>7 DEF StayOnAir, AwaitTransmission, AtTransmitter, airVars
  <2> QED BY <2>1, MissKept
<1>8. ASSUME NEW p \in ordered_transmitters, StartTransmission(p) PROVE MissInv'
  <2>1. /\ UNCHANGED <<current_packet, stage, ordered_receivers>> /\ stage = "transmitters"
        /\ sent' = sent \cup {p} /\ current_packet[p.physical_layer] = p
    BY <1>8 DEF StartTransmission, AtTransmitter, Listed
  <2> QED BY <2>1, MissKept
<1>9. ASSUME NEW w \in ordered_receivers,
             \/ EndReception(w) \/ StayListening(w) \/ StartReception(w)
             \/ AwaitReception(w) \/ PassReception(w)
      PROVE  MissInv'
  <2>1. /\ UNCHANGED <<stage, sent>> /\ stage = "receivers"
        /\ \/ UNCHANGED current_packet
           \/ current_packet' = [current_packet EXCEPT ![w.physical_layer] = NoPacket]
    BY <1>9 DEF EndReception, StayListening, StartReception, AwaitReception, PassReception,
                AtReceiver, airVars
  <2>2. ~w.is_tx /\ current_packet[w.physical_layer] \in {w, NoPacket}
    BY DEF Listed
  <2>3. \A t \in sent : t.is_tx
    BY DEF SentBefore
  <2>4. \A t \in sent : current_packet[t.physical_layer] = t => current_packet'[t.physical_layer] = t
    BY <2>1, <2>2, <2>3, <1>1
  <2>5. \A r \in Radios : current_packet'[r] \in {current_packet[r], NoPacket}
    BY <2>1
  <2> QED BY <2>1, <2>4, <2>5, MissKept
<1> QED
  BY <1>2, <1>3, <1>4, <1>5, <1>6, <1>7, <1>8, <1>9
  DEF Next, physical_layer_simulation_thread, Gather, StepTransmitters, StepReceivers

LEMMA MissHolds ==
    ASSUME AirtimesCoverSync
    PROVE  Spec => [](IInv /\ DeliveryInv /\ MissInv)
<1>1. Init => MissInv
  BY DEF Init, MissInv
<1>2. IInv /\ DeliveryInv /\ MissInv /\ [Next]_vars => MissInv'
  BY MissNext
<1> QED
  BY <1>1, <1>2, DeliveryHolds, PTL DEF Spec

\* Only the loop over the receivers closes a window that was given nothing, and
\* it does so at the window's end.
LEMMA ClosesAtItsEnd ==
    ASSUME IInv, Next, NEW r \in all_radios, ClosesEmpty(r)
    PROVE  /\ stage = "receivers"
           /\ current_packet[r].end_time = physical_clock
<1> USE DEF IInv, TypeInv, TypeOK
<1>1. current_packet[r] # NoPacket /\ current_packet'[r] = NoPacket /\ r \in Radios
      /\ ~current_packet[r].is_tx /\ \A d \in reported' : d.window # current_packet[r]
  BY DEF ClosesEmpty
<1>2. ~SocketThread
  BY <1>1 DEF SocketThread, PhysicalLayerConstructor, mk_active, set_delete_pending,
              PhysicalLayerDestructor
<1>3. ~Gather
  <2>1. ~BeginRound /\ ~Gathered
    BY <1>1 DEF BeginRound, Gathered
  <2>2. ASSUME NEW s \in unvisited, VisitAny(s) PROVE FALSE
    <3>1. PICK p : Future(s, p) /\ VisitOffer(s, p)
      BY <2>2, OffersAreFuture
    <3> QED BY <3>1, <1>1, ConstantsAssumption DEF VisitOffer, Future
  <2> QED
    BY <2>1, <2>2, <1>1 DEF Gather, SkipInactive, VisitBusy, VisitSilent, VisitDeleting
<1>4. ~StepTransmitters
  <2>1. ASSUME NEW p \in ordered_transmitters, EndTransmission(p) PROVE FALSE
    <3>1. PICK q \in Receivers(p) \cup {p} : q.physical_layer = r
      BY <2>1, <1>1 DEF EndTransmission
    <3>2. q \in ordered_receivers \cup {p} /\ (q = p => q.is_tx)
      BY DEF Receivers, Listed
    <3>3. current_packet[r] = q /\ q # p
      BY <3>1, <3>2, <1>1 DEF Listed
    <3>4. [window |-> q, transmission |-> p] \in reported'
      BY <2>1, <3>3 DEF EndTransmission
    <3>5. [window |-> q, transmission |-> p].window = q
      OBVIOUS
    <3> QED BY <3>3, <3>4, <3>5, <1>1
  <2> QED
    BY <2>1, <1>1 DEF StepTransmitters, StayOnAir, StartTransmission, AwaitTransmission,
                      TransmittersDone
<1>5. PICK w \in ordered_receivers : EndReception(w)
  BY <1>1, <1>2, <1>3, <1>4
  DEF Next, physical_layer_simulation_thread, StepReceivers, StayListening, StartReception,
      AwaitReception, PassReception, Advance
<1>6. w \in Packet /\ w.physical_layer \in Radios /\ w.physical_layer = r
  BY <1>1, <1>5 DEF EndReception, Packet
<1>7. current_packet[r] = w
  BY <1>1, <1>6 DEF Listed
<1> QED BY <1>5, <1>7 DEF EndReception, AtReceiver

(***************************************************************************)
(* A window that closes without having delivered anything missed nothing:  *)
(* every transmission that lay wholly inside it on its channel collided.   *)
(***************************************************************************)
THEOREM NothingIsMissed ==
    ASSUME AirtimesCoverSync
    PROVE  Spec => NothingMissed
<1>1. ASSUME IInv, DeliveryInv, MissInv, Next, NEW r \in all_radios, ClosesEmpty(r),
             NEW t \in sent, t.channel = current_packet[r].channel,
             current_packet[r].start_time <= t.start_time,
             t.end_time <= current_packet[r].end_time
      PROVE  Collided(t)
  <2> USE DEF IInv, TypeInv, TypeOK
  <2>1. stage = "receivers" /\ current_packet[r].end_time = physical_clock
    BY <1>1, ClosesAtItsEnd
  <2>2. /\ t \in Packet /\ t.physical_layer \in Radios /\ t # NoPacket /\ t.is_tx
        /\ t.end_time \in Int /\ t.start_time \in Int /\ t.start_time < t.end_time
    BY <1>1, ConstantsAssumption DEF Packet, SentBefore, DeliveryInv, SentInv
  <2>3. current_packet[t.physical_layer] # t
    <3> SUFFICES ASSUME current_packet[t.physical_layer] = t PROVE FALSE
      OBVIOUS
    <3>1. Passed(t)
      BY <1>1, <2>1, <2>2 DEF Passed, Phases, Listed
    <3>2. Stepped(t)
      BY <1>1, <3>1, <2>2 DEF Timed
    <3>3. t.start_time <= physical_clock
      BY <1>1 DEF SentBefore
    <3>4. t.end_time >= physical_clock + time_until_next_event
      BY <3>2, <3>3, <2>2 DEF Stepped
    <3> QED BY <3>4, <2>1, <2>2, <1>1
  <2>4. WentBy(t, current_packet[r])
    BY <2>3, <1>1 DEF WentBy
  <2>5. r \in Radios /\ current_packet[r] # NoPacket /\ ~current_packet[r].is_tx
    BY <1>1 DEF ClosesEmpty
  <2> QED BY <2>4, <2>5, <1>1 DEF MissInv
<1>2. IInv /\ DeliveryInv /\ MissInv /\ [Next]_vars =>
         [\A r \in all_radios :
             ClosesEmpty(r) =>
                \A t \in sent :
                    ~ /\ t.channel = current_packet[r].channel
                      /\ current_packet[r].start_time <= t.start_time
                      /\ t.end_time <= current_packet[r].end_time
                      /\ ~Collided(t)]_vars
  BY <1>1
<1> QED
  BY MissHolds, <1>2, PTL DEF Spec, NothingMissed
=============================================================================
