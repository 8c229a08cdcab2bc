------------------------ MODULE PhysicalLayerProofs ------------------------
(***************************************************************************)
(* Theorems about PhysicalLayer, for every set of radios, every channel and*)
(* all packet lengths, with the proofs TLAPS checks.                       *)
(***************************************************************************)
EXTENDS PhysicalLayer, FiniteSetTheorems, TLAPS

(***************************************************************************)
(* TypeOK needs to know that a radio is only destroyed when the gathering  *)
(* loop is not at work.                                                    *)
(***************************************************************************)
TypeInv == TypeOK /\ (stage # "gather" => unvisited = {})

\* What get_next_packet hands over is a packet of the radio, in the future.
Future(r, p) ==
    /\ p \in Packet
    /\ p.physical_layer = r
    /\ p.start_time > physical_clock
    /\ p.is_tx => p.start_time < p.end_time

LEMMA OffersAreFuture ==
    ASSUME NEW r \in Radios, physical_clock \in Int, VisitAny(r)
    PROVE  \E p : Future(r, p) /\ VisitOffer(r, p)
<1>1. PICK c \in Channels, tag \in Tags, lead \in Leads :
        \/ \E length \in Airtimes :
              VisitOffer(r, PacketOf(r, TRUE, c, tag, physical_clock + lead, length))
        \/ \E length \in Windows :
              VisitOffer(r, PacketOf(r, FALSE, c, tag, physical_clock + lead, length))
  BY DEF VisitAny
<1>2. lead \in Nat \ {0}
  BY ConstantsAssumption
<1>3. ASSUME NEW length \in Airtimes
      PROVE  Future(r, PacketOf(r, TRUE, c, tag, physical_clock + lead, length))
  <2>1. length \in Nat \ {0}
    BY ConstantsAssumption
  <2> QED BY <1>2, <2>1 DEF Future, Packet, PacketOf
<1>4. ASSUME NEW length \in Windows
      PROVE  Future(r, PacketOf(r, FALSE, c, tag, physical_clock + lead, length))
  <2>1. length \in Int
    BY ConstantsAssumption
  <2> QED BY <1>2, <2>1 DEF Future, Packet, PacketOf
<1> QED
  BY <1>1, <1>3, <1>4

\* time_until_next_event never grows within a loop, never reaches 0 and is at
\* most the distance of the boundary it has been told of.
LEMMA SoonerBounds ==
    ASSUME time_until_next_event \in Nat \ {0}, NEW d \in Int, d # 0
    PROVE  /\ Sooner(d) \in Nat \ {0}
           /\ Sooner(d) <= time_until_next_event
           /\ d > 0 => Sooner(d) <= d
  BY DEF Sooner

LEMMA TypeInvInit == Init => TypeInv
  BY ConstantsAssumption DEF Init, TypeInv, TypeOK, Stages

LEMMA TypeInvNext == TypeInv /\ [Next]_vars => TypeInv'
<1> SUFFICES ASSUME TypeInv, [Next]_vars PROVE TypeInv'
  OBVIOUS
<1> USE DEF TypeInv, TypeOK
<1>1. CASE SocketThread
  <2>1. PICK r \in Radios : \/ PhysicalLayerConstructor(r)
                            \/ mk_active(r)
                            \/ set_delete_pending(r)
                            \/ PhysicalLayerDestructor(r)
    BY <1>1 DEF SocketThread
  <2>2. CASE PhysicalLayerConstructor(r)
    BY <2>2 DEF PhysicalLayerConstructor, listVars, airVars
  <2>3. CASE mk_active(r)
    BY <2>3 DEF mk_active, listVars, airVars
  <2>4. CASE set_delete_pending(r)
    BY <2>4 DEF set_delete_pending, listVars, airVars
  <2>5. CASE PhysicalLayerDestructor(r)
    BY <2>5 DEF PhysicalLayerDestructor, listVars, airVars
  <2> QED BY <2>1, <2>2, <2>3, <2>4, <2>5
<1>2. CASE Gather
  <2>1. CASE BeginRound
    BY <2>1 DEF BeginRound, radioVars, Stages
  <2>2. CASE Gathered
    BY <2>2, ConstantsAssumption DEF Gathered, radioVars, listVars, airVars, Stages
  <2>3. ASSUME NEW r \in unvisited, SkipInactive(r) PROVE TypeInv'
    BY <2>3 DEF SkipInactive, AtRadio, airVars
  <2>4. ASSUME NEW r \in unvisited, VisitBusy(r) PROVE TypeInv'
    <3>1. current_packet[r] \in Packet
      BY <2>4 DEF VisitBusy
    <3> QED
      BY <3>1, <2>4 DEF VisitBusy, AtRadio, insert_into, airVars
  <2>5. ASSUME NEW r \in unvisited, VisitAny(r) PROVE TypeInv'
    <3>1. PICK p : p \in Packet /\ VisitOffer(r, p)
      BY <2>5, OffersAreFuture DEF Future
    <3> QED
      BY <3>1 DEF VisitOffer, AtRadio, insert_into, airVars
  <2>6. ASSUME NEW r \in unvisited, VisitSilent(r) PROVE TypeInv'
    BY <2>6 DEF VisitSilent, AtRadio, airVars
  <2>7. ASSUME NEW r \in unvisited, VisitDeleting(r) PROVE TypeInv'
    BY <2>7 DEF VisitDeleting, AtRadio, airVars
  <2> QED
    BY <1>2, <2>1, <2>2, <2>3, <2>4, <2>5, <2>6, <2>7 DEF Gather
<1>3. CASE StepTransmitters
  <2>1. ASSUME NEW p \in ordered_transmitters, EndTransmission(p) PROVE TypeInv'
    <3>1. /\ p \in Packet
          /\ p.channel \in Channels
      BY DEF Packet
    <3>2. reported' \subseteq [window : Packet, transmission : Packet]
      BY <3>1, <2>1 DEF EndTransmission, Receivers
    <3>3. current_packet' \in [Radios -> Packet \cup {NoPacket}]
      BY <2>1 DEF EndTransmission
    <3>4. transmitting' \in [Channels -> Int]
      BY <3>1, <2>1 DEF EndTransmission, GiveBack
    <3>5. bad_transmission' \in [Channels -> BOOLEAN]
      BY <3>1, <2>1 DEF EndTransmission, ClearBad
    <3>6. time_until_next_event' \in Nat \ {0}
      BY <2>1, SoonerBounds DEF EndTransmission
    <3> QED
      BY <3>2, <3>3, <3>4, <3>5, <3>6, <2>1
      DEF EndTransmission, AtTransmitter, radioVars
  <2>2. ASSUME NEW p \in ordered_transmitters, StayOnAir(p) PROVE TypeInv'
    <3>1. p.end_time \in Int
      BY DEF Packet
    <3>2. time_until_next_event' \in Nat \ {0}
      BY <3>1, <2>2, SoonerBounds DEF StayOnAir
    <3> QED
      BY <3>2, <2>2 DEF StayOnAir, AtTransmitter, radioVars, airVars
  <2>3. ASSUME NEW p \in ordered_transmitters, StartTransmission(p) PROVE TypeInv'
    <3>1. p \in Packet /\ p.end_time \in Int /\ p.channel \in Channels
      BY DEF Packet
    <3>2. time_until_next_event' \in Nat \ {0}
      BY <3>1, <2>3, SoonerBounds DEF StartTransmission
    <3>3. transmitting' \in [Channels -> Int]
      BY <3>1, <2>3 DEF StartTransmission
    <3>4. bad_transmission' \in [Channels -> BOOLEAN]
      BY <3>1, <2>3 DEF StartTransmission
    <3>5. sent' \subseteq Packet
      BY <3>1, <2>3 DEF StartTransmission
    <3> QED
      BY <3>2, <3>3, <3>4, <3>5, <2>3 DEF StartTransmission, AtTransmitter, radioVars
  <2>4. ASSUME NEW p \in ordered_transmitters, AwaitTransmission(p) PROVE TypeInv'
    <3>1. p.start_time \in Int
      BY DEF Packet
    <3>2. time_until_next_event' \in Nat \ {0}
      BY <3>1, <2>4, SoonerBounds DEF AwaitTransmission
    <3> QED
      BY <3>2, <2>4 DEF AwaitTransmission, AtTransmitter, radioVars, airVars
  <2>5. CASE TransmittersDone
    BY <2>5 DEF TransmittersDone, radioVars, listVars, airVars, Stages
  <2> QED
    BY <1>3, <2>1, <2>2, <2>3, <2>4, <2>5 DEF StepTransmitters
<1>4. CASE StepReceivers
  <2>1. ASSUME NEW w \in ordered_receivers, EndReception(w) PROVE TypeInv'
    <3>1. time_until_next_event' \in Nat \ {0}
      BY <2>1, SoonerBounds DEF EndReception
    <3> QED
      BY <3>1, <2>1 DEF EndReception, AtReceiver, radioVars, airVars
  <2>2. ASSUME NEW w \in ordered_receivers, NEW d \in Int, d # 0,
               AtReceiver(w),
               time_until_next_event' = Sooner(d),
               UNCHANGED current_packet
        PROVE  TypeInv'
    <3>1. time_until_next_event' \in Nat \ {0}
      BY <2>2, SoonerBounds
    <3> QED
      BY <3>1, <2>2 DEF AtReceiver, radioVars, airVars
  <2>3. ASSUME NEW w \in ordered_receivers,
               StayListening(w) \/ StartReception(w) \/ AwaitReception(w)
        PROVE  TypeInv'
    <3>1. w.start_time \in Int /\ w.end_time \in Int
      BY DEF Packet
    <3> DEFINE e == w.end_time - physical_clock
               s == w.start_time - physical_clock
    <3>2. e \in Int /\ s \in Int
      BY <3>1
    <3>3. CASE StayListening(w)
      <4>1. e # 0
        BY <3>1, <3>3 DEF StayListening
      <4> HIDE DEF e
      <4> QED BY <3>2, <3>3, <4>1, <2>2 DEF StayListening, e
    <3>4. CASE StartReception(w)
      <4>1. e # 0
        BY <3>1, <3>4 DEF StartReception
      <4> QED BY <3>2, <3>4, <4>1, <2>2 DEF StartReception
    <3>5. CASE AwaitReception(w)
      <4>1. s # 0
        BY <3>1, <3>5 DEF AwaitReception
      <4> QED BY <3>2, <3>5, <4>1, <2>2 DEF AwaitReception
    <3> QED BY <2>3, <3>3, <3>4, <3>5
  <2>4. ASSUME NEW w \in ordered_receivers, PassReception(w) PROVE TypeInv'
    BY <2>4 DEF PassReception, AtReceiver, radioVars, airVars
  <2>5. CASE Advance
    BY <2>5 DEF Advance, radioVars, listVars, airVars, Stages
  <2> QED
    BY <1>4, <2>1, <2>3, <2>4, <2>5 DEF StepReceivers
<1>5. CASE UNCHANGED vars
  BY <1>5 DEF vars, radioVars, listVars, airVars
<1> QED
  BY <1>1, <1>2, <1>3, <1>4, <1>5 DEF Next, physical_layer_simulation_thread

(***************************************************************************)
(* The flags, lists, counters and packets keep their types, whatever the   *)
(* socket thread does between and during rounds; in particular a round     *)
(* never moves the clock by 0 or backwards.                                *)
(***************************************************************************)
THEOREM TypeCorrect == Spec => []TypeOK
<1>1. TypeInv => TypeOK
  BY DEF TypeInv
<1> QED
  BY TypeInvInit, TypeInvNext, <1>1, PTL DEF Spec
-----------------------------------------------------------------------------
(***************************************************************************)
(* NoBoundaryMissed is about the state between rounds only.  Its inductive *)
(* form says what holds at every point of a round: what is still in the    *)
(* lists has not been stepped in this round, and what has been stepped has *)
(* its next boundary no sooner than the clock will be moved.               *)
(***************************************************************************)
Phases ==
    /\ stage # "gather" => unvisited = {}
    /\ stage \in {"asleep", "receivers"} => ordered_transmitters = {}
    /\ stage = "asleep" => ordered_receivers = {}

Owned ==
    \A r \in Radios : current_packet[r] # NoPacket =>
        /\ r \in active
        /\ r \notin delete_ready
        /\ current_packet[r].physical_layer = r
        /\ current_packet[r].is_tx =>
              current_packet[r].start_time < current_packet[r].end_time

Listed ==
    /\ \A p \in ordered_transmitters :
          p.is_tx /\ current_packet[p.physical_layer] = p
    /\ \A p \in ordered_receivers :
          ~p.is_tx /\ current_packet[p.physical_layer] \in {p, NoPacket}
    /\ stage = "gather" =>
          /\ \A p \in ordered_receivers : current_packet[p.physical_layer] = p
          /\ \A r \in Radios : current_packet[r] # NoPacket =>
                \/ r \in unvisited
                \/ current_packet[r] \in ordered_transmitters \cup ordered_receivers

\* A packet the round has not come to yet, and one that it has stepped.
Waiting(p) ==
    /\ p.start_time < p.end_time => physical_clock <= p.end_time
    /\ p.is_tx => (p \in sent <=> p.start_time < physical_clock)

Stepped(p) ==
    LET next == physical_clock + time_until_next_event
    IN  /\ p.start_time > physical_clock => p.start_time >= next
        /\ p.start_time <= physical_clock /\ p.start_time < p.end_time
             => p.end_time >= next
        /\ p.is_tx => (p \in sent <=> p.start_time <= physical_clock)

Passed(p) ==
    /\ stage \in {"transmitters", "receivers"}
    /\ p \notin ordered_transmitters \cup ordered_receivers

Timed ==
    \A r \in Radios : current_packet[r] # NoPacket =>
        /\ ~Passed(current_packet[r]) => Waiting(current_packet[r])
        /\ Passed(current_packet[r]) => Stepped(current_packet[r])

SentBefore == \A t \in sent : t.is_tx /\ t.start_time <= physical_clock

IInv == TypeInv /\ Phases /\ Owned /\ Listed /\ Timed /\ SentBefore

LEMMA IInvInit == Init => IInv
<1> SUFFICES ASSUME Init PROVE IInv
  OBVIOUS
<1>1. TypeInv
  BY TypeInvInit
<1> QED
  BY <1>1 DEF Init, IInv, Phases, Owned, Listed, Timed, SentBefore

\* Steps of the socket thread touch no packet of a radio that has one.
LEMMA IInvSocketThread == IInv /\ SocketThread /\ TypeInv' => IInv'
<1> SUFFICES ASSUME IInv, SocketThread, TypeInv' PROVE IInv'
  OBVIOUS
<1> USE DEF IInv, TypeInv, TypeOK
<1>1. /\ UNCHANGED <<stage, listVars, physical_clock, time_until_next_event, airVars>>
      /\ \A r \in Radios : current_packet'[r] # NoPacket =>
            /\ current_packet'[r] = current_packet[r]
            /\ r \in active'
            /\ r \notin delete_ready'
      /\ \A r \in Radios : current_packet[r] # NoPacket =>
            current_packet'[r] = current_packet[r]
  <2>1. PICK r \in Radios : \/ PhysicalLayerConstructor(r)
                            \/ mk_active(r)
                            \/ set_delete_pending(r)
                            \/ PhysicalLayerDestructor(r)
    BY DEF SocketThread
  <2> QED
    BY <2>1 DEF PhysicalLayerConstructor, mk_active, set_delete_pending,
                PhysicalLayerDestructor, Owned
<1>2. Phases'
  BY <1>1 DEF Phases, listVars
<1>3. Owned'
  BY <1>1 DEF Owned
<1>4. Listed'
  BY <1>1 DEF Listed, listVars, Packet
<1>5. Timed'
  BY <1>1 DEF Timed, Passed, Waiting, Stepped, listVars, airVars
<1>6. SentBefore'
  BY <1>1 DEF SentBefore, airVars
<1> QED
  BY <1>2, <1>3, <1>4, <1>5, <1>6

LEMMA IInvGather == IInv /\ Gather /\ TypeInv' => IInv'
<1> SUFFICES ASSUME IInv, Gather, TypeInv' PROVE IInv'
  OBVIOUS
<1> USE DEF IInv, TypeInv, TypeOK
<1>1. CASE BeginRound
  <2>1. Phases' /\ Owned' /\ SentBefore'
    BY <1>1 DEF BeginRound, Phases, Owned, SentBefore, radioVars
  <2>2. Listed'
    <3>1. \A r \in Radios : current_packet[r] # NoPacket => r \in all_radios
      BY DEF Owned
    <3> QED
      BY <1>1, <3>1 DEF BeginRound, Listed, radioVars
  <2>3. Timed'
    BY <1>1 DEF BeginRound, Timed, Passed, Waiting, radioVars
  <2> QED BY <2>1, <2>2, <2>3
<1>2. CASE Gathered
  <2>1. Phases' /\ Owned' /\ SentBefore' /\ Listed'
    BY <1>2 DEF Gathered, Phases, Owned, Listed, SentBefore, radioVars, listVars, airVars
  <2>2. Timed'
    BY <1>2 DEF Gathered, Timed, Passed, Waiting, Listed, radioVars, listVars, airVars
  <2> QED BY <2>1, <2>2
<1>3. ASSUME NEW r \in unvisited, AtRadio(r), UNCHANGED current_packet,
             UNCHANGED <<ordered_transmitters, ordered_receivers>>,
             \A s \in Radios : s \in delete_ready' \ delete_ready => current_packet[s] = NoPacket,
             current_packet[r] = NoPacket
      PROVE  IInv'
  <2>1. Phases' /\ Owned' /\ SentBefore'
    BY <1>3 DEF AtRadio, Phases, Owned, SentBefore, airVars
  <2>2. Listed'
    BY <1>3 DEF AtRadio, Listed
  <2>3. Timed'
    BY <1>3 DEF AtRadio, Timed, Passed, Waiting, Stepped, airVars
  <2> QED BY <2>1, <2>2, <2>3
<1>4. ASSUME NEW r \in unvisited, SkipInactive(r) PROVE IInv'
  BY <1>3, <1>4 DEF SkipInactive, Owned
<1>5. ASSUME NEW r \in unvisited, VisitBusy(r) PROVE IInv'
  <2> DEFINE p == current_packet[r]
  <2>1. r \in Radios /\ p \in Packet /\ p.physical_layer = r /\ p.is_tx \in BOOLEAN
    BY <1>5 DEF VisitBusy, Owned, Packet
  <2>2. Phases' /\ Owned' /\ SentBefore'
    BY <1>5 DEF VisitBusy, AtRadio, Phases, Owned, SentBefore, airVars
  <2>3. Listed'
    BY <1>5, <2>1 DEF VisitBusy, AtRadio, insert_into, Listed
  <2>4. Timed'
    BY <1>5 DEF VisitBusy, AtRadio, Timed, Passed, Waiting, airVars
  <2> QED BY <2>2, <2>3, <2>4
<1>6. ASSUME NEW r \in unvisited, VisitAny(r) PROVE IInv'
  <2>1. PICK p : Future(r, p) /\ VisitOffer(r, p)
    BY <1>6, OffersAreFuture
  <2>2. p # NoPacket /\ p.is_tx \in BOOLEAN
    BY <2>1, ConstantsAssumption DEF Future, Packet
  <2>3. p \notin sent
    <3>1. \A t \in sent : t.start_time \in Int
      BY DEF Packet
    <3> QED BY <2>1, <3>1 DEF Future, SentBefore, Packet
  <2>4. Phases' /\ SentBefore'
    BY <2>1 DEF VisitOffer, AtRadio, Phases, SentBefore, airVars
  <2>5. Owned'
    BY <2>1 DEF VisitOffer, AtRadio, Future, Owned
  <2>6. Listed'
    <3>1. \A q \in ordered_transmitters \cup ordered_receivers : q \in Packet
      OBVIOUS
    <3>2. \A q \in ordered_transmitters : q.physical_layer # r
      BY <2>1, <3>1, ConstantsAssumption DEF Listed, VisitOffer
    <3>3. \A q \in ordered_receivers : q.physical_layer # r
      BY <2>1, <3>1, ConstantsAssumption DEF Listed, VisitOffer, AtRadio
    <3> QED
      BY <2>1, <2>2, <3>2, <3>3 DEF VisitOffer, AtRadio, insert_into, Future, Listed
  <2>7. Timed'
    BY <2>1, <2>2, <2>3
    DEF VisitOffer, AtRadio, Future, Timed, Passed, Waiting, Packet, airVars
  <2> QED BY <2>4, <2>5, <2>6, <2>7
<1>7. ASSUME NEW r \in unvisited, VisitSilent(r) PROVE IInv'
  BY <1>3, <1>7 DEF VisitSilent
<1>8. ASSUME NEW r \in unvisited, VisitDeleting(r) PROVE IInv'
  BY <1>3, <1>8 DEF VisitDeleting
<1> QED
  BY <1>1, <1>2, <1>4, <1>5, <1>6, <1>7, <1>8 DEF Gather

\* Shortening time_until_next_event keeps what was stepped within bounds.
LEMMA ShorterStep ==
    ASSUME NEW t \in Nat, t <= time_until_next_event,
           time_until_next_event \in Nat, physical_clock \in Int,
           time_until_next_event' = t, physical_clock' = physical_clock,
           NEW p \in Packet, Stepped(p),
           p.is_tx => (p \in sent' <=> p \in sent)
    PROVE  Stepped(p)'
  BY DEF Stepped, Packet

\* What a step of either loop does to the packets other than the one it is at.
LEMMA OthersKept ==
    ASSUME IInv, NEW p \in Packet,
           stage \in {"transmitters", "receivers"},
           UNCHANGED <<stage, physical_clock, active, delete_ready>>,
           time_until_next_event' \in Nat \ {0},
           time_until_next_event' <= time_until_next_event,
           \A r \in Radios : current_packet'[r] \in {current_packet[r], NoPacket},
           ordered_transmitters' \cup ordered_receivers' =
              (ordered_transmitters \cup ordered_receivers) \ {p},
           sent \subseteq sent',
           sent' \subseteq sent \cup {p},
           p \in ordered_transmitters \cup ordered_receivers,
           current_packet'[p.physical_layer] = p => Stepped(p)'
    PROVE  Owned' /\ Timed'
<1> USE DEF IInv, TypeInv, TypeOK
<1>1. Owned'
  BY DEF Owned
<1>2. ASSUME NEW r \in Radios, current_packet'[r] # NoPacket
      PROVE  /\ (~Passed(current_packet[r]) => Waiting(current_packet[r]))'
             /\ (Passed(current_packet[r]) => Stepped(current_packet[r]))'
  <2>1. PICK q \in Packet : /\ q = current_packet[r]
                            /\ q = current_packet'[r]
                            /\ q.physical_layer = r
                            /\ q # NoPacket
    BY <1>2 DEF Owned
  <2>2. CASE q = p
    <3>1. Stepped(p)' /\ Passed(p)'
      BY <2>1, <2>2 DEF Passed
    <3> QED BY <3>1, <2>1, <2>2
  <2>3. CASE q # p
    <3>1. q \in sent' <=> q \in sent
      BY <2>3
    <3>2. Passed(q)' <=> Passed(q)
      BY <2>3 DEF Passed
    <3>3. Waiting(q) => Waiting(q)'
      BY <3>1 DEF Waiting
    <3>4. Stepped(q) => Stepped(q)'
      BY <3>1, <2>1, ShorterStep
    <3>5. (~Passed(q) => Waiting(q)) /\ (Passed(q) => Stepped(q))
      BY <2>1 DEF Timed
    <3> QED BY <2>1, <3>2, <3>3, <3>4, <3>5
  <2> QED BY <2>2, <2>3
<1> QED
  BY <1>1, <1>2 DEF Timed

LEMMA IInvTransmitters == IInv /\ StepTransmitters /\ TypeInv' => IInv'
<1> SUFFICES ASSUME IInv, StepTransmitters, TypeInv' PROVE IInv'
  OBVIOUS
<1> USE DEF IInv, TypeInv, TypeOK
\* What every branch of the loop has in common.
<1>1. ASSUME NEW p \in ordered_transmitters, AtTransmitter(p)
      PROVE  /\ p \in Packet /\ p.physical_layer \in Radios
             /\ p.is_tx /\ current_packet[p.physical_layer] = p /\ p # NoPacket
             /\ p.start_time \in Int /\ p.end_time \in Int
             /\ p.start_time < p.end_time
             /\ p \notin ordered_receivers
             /\ physical_clock <= p.end_time
             /\ p \in sent <=> p.start_time < physical_clock
             /\ Phases'
             /\ ordered_transmitters' \cup ordered_receivers' =
                   (ordered_transmitters \cup ordered_receivers) \ {p}
  <2>1. p \in Packet /\ p.physical_layer \in Radios /\ p # NoPacket
        /\ p.start_time \in Int /\ p.end_time \in Int
    BY ConstantsAssumption DEF Packet
  <2>2. p.is_tx /\ current_packet[p.physical_layer] = p
    BY DEF Listed
  <2>3. p.start_time < p.end_time
    BY <2>1, <2>2 DEF Owned
  <2>4. p \notin ordered_receivers
    BY <2>2 DEF Listed
  <2>5. ~Passed(p)
    BY DEF Passed
  <2>6. Waiting(p)
    BY <2>1, <2>2, <2>5 DEF Timed
  <2>7. Phases'
    BY <1>1 DEF AtTransmitter, Phases, radioVars
  <2> QED
    BY <1>1, <2>1, <2>2, <2>3, <2>4, <2>6, <2>7 DEF Waiting, AtTransmitter
\* The branches that leave the packet in progress.
<1>2. ASSUME NEW p \in ordered_transmitters, AtTransmitter(p),
             UNCHANGED current_packet,
             sent' = IF p.start_time = physical_clock THEN sent \cup {p} ELSE sent,
             NEW d \in Int, d > 0, time_until_next_event' = Sooner(d),
             p.start_time > physical_clock => d = p.start_time - physical_clock,
             p.start_time <= physical_clock => d = p.end_time - physical_clock
      PROVE  IInv'
  <2>1. /\ time_until_next_event' \in Nat \ {0}
        /\ time_until_next_event' <= time_until_next_event
        /\ time_until_next_event' <= d
    BY <1>2, SoonerBounds
  <2>2. UNCHANGED <<stage, physical_clock, active, delete_ready, unvisited, ordered_receivers>>
        /\ stage = "transmitters"
        /\ ordered_transmitters' = ordered_transmitters \ {p}
    BY <1>2 DEF AtTransmitter, radioVars
  <2>3. Stepped(p)'
    BY <1>1, <1>2, <2>1, <2>2 DEF Stepped
  <2>4. Owned' /\ Timed'
    BY <1>1, <1>2, <2>1, <2>2, <2>3, OthersKept
  <2>5. Listed'
    BY <1>2, <2>2 DEF Listed
  <2>6. SentBefore'
    BY <1>1, <1>2, <2>2 DEF SentBefore
  <2>7. Phases'
    BY <1>1, <1>2
  <2> QED BY <2>4, <2>5, <2>6, <2>7
<1>3. ASSUME NEW p \in ordered_transmitters, EndTransmission(p) PROVE IInv'
  <2>1. AtTransmitter(p)
    BY <1>3 DEF EndTransmission
  <2>2. /\ time_until_next_event' \in Nat \ {0}
        /\ time_until_next_event' <= time_until_next_event
    BY <1>3, SoonerBounds DEF EndTransmission
  <2>3. UNCHANGED <<stage, physical_clock, active, delete_ready, unvisited, ordered_receivers>>
        /\ stage = "transmitters"
        /\ ordered_transmitters' = ordered_transmitters \ {p}
        /\ sent' = sent
    BY <1>3, <2>1 DEF AtTransmitter, radioVars, EndTransmission
  <2>4. \A r \in Radios : current_packet'[r] \in {current_packet[r], NoPacket}
    BY <1>3 DEF EndTransmission
  <2>5. current_packet'[p.physical_layer] = NoPacket
    BY <1>3, <1>1, <2>1 DEF EndTransmission
  <2>6. Owned' /\ Timed'
    BY <1>1, <2>1, <2>2, <2>3, <2>4, <2>5, OthersKept
  <2>7. Listed'
    <3>1. ASSUME NEW q \in ordered_transmitters, q # p
          PROVE  current_packet'[q.physical_layer] = q
      <4>1. q \in Packet /\ q.physical_layer \in Radios /\ q # NoPacket
        BY ConstantsAssumption DEF Packet
      <4>2. q.is_tx /\ current_packet[q.physical_layer] = q
        BY DEF Listed
      <4>3. q.physical_layer # p.physical_layer
        BY <3>1, <4>2, <1>1, <2>1
      <4>4. ASSUME NEW w \in Receivers(p) PROVE w.physical_layer # q.physical_layer
        <5>1. w \in ordered_receivers
          BY DEF Receivers
        <5>2. ~w.is_tx /\ current_packet[w.physical_layer] \in {w, NoPacket}
          BY <5>1 DEF Listed
        <5> QED BY <5>2, <4>1, <4>2
      <4> QED BY <1>3, <4>1, <4>2, <4>3, <4>4 DEF EndTransmission
    <3>2. \A w \in ordered_receivers : w.physical_layer \in Radios
      BY DEF Packet
    <3> QED BY <3>1, <3>2, <2>3, <2>4 DEF Listed
  <2>8. SentBefore'
    BY <2>3 DEF SentBefore
  <2>9. Phases'
    BY <1>1, <2>1
  <2> QED BY <2>6, <2>7, <2>8, <2>9
<1>4. ASSUME NEW p \in ordered_transmitters, StayOnAir(p) PROVE IInv'
  <2>1. AtTransmitter(p)
    BY <1>4 DEF StayOnAir
  <2> DEFINE d == p.end_time - physical_clock
  <2>2. /\ d \in Int /\ d > 0 /\ time_until_next_event' = Sooner(d)
        /\ p.start_time < physical_clock
        /\ UNCHANGED <<current_packet, sent>>
    BY <1>1, <1>4, <2>1 DEF StayOnAir, airVars
  <2> QED BY <1>1, <1>2, <2>1, <2>2
<1>5. ASSUME NEW p \in ordered_transmitters, StartTransmission(p) PROVE IInv'
  <2>1. AtTransmitter(p)
    BY <1>5 DEF StartTransmission
  <2> DEFINE d == p.end_time - physical_clock
  <2>2. /\ d \in Int /\ d > 0 /\ time_until_next_event' = Sooner(d)
        /\ p.start_time = physical_clock
        /\ sent' = sent \cup {p}
        /\ UNCHANGED current_packet
    BY <1>1, <1>5, <2>1 DEF StartTransmission
  <2> QED BY <1>1, <1>2, <2>1, <2>2
<1>6. ASSUME NEW p \in ordered_transmitters, AwaitTransmission(p) PROVE IInv'
  <2>1. AtTransmitter(p)
    BY <1>6 DEF AwaitTransmission
  <2> DEFINE d == p.start_time - physical_clock
  <2>2. /\ d \in Int /\ d > 0 /\ time_until_next_event' = Sooner(d)
        /\ p.start_time > physical_clock
        /\ UNCHANGED <<current_packet, sent>>
    BY <1>1, <1>6, <2>1 DEF AwaitTransmission, airVars
  <2> QED BY <1>1, <1>2, <2>1, <2>2
<1>7. CASE TransmittersDone
  <2>1. Phases' /\ Owned' /\ Listed' /\ SentBefore'
    BY <1>7 DEF TransmittersDone, Phases, Owned, Listed, SentBefore, radioVars, listVars, airVars
  <2>2. Timed'
    BY <1>7 DEF TransmittersDone, Timed, Passed, Waiting, Stepped, radioVars, listVars, airVars
  <2> QED BY <2>1, <2>2
<1> QED
  BY <1>3, <1>4, <1>5, <1>6, <1>7 DEF StepTransmitters

LEMMA IInvReceivers == IInv /\ StepReceivers /\ TypeInv' => IInv'
<1> SUFFICES ASSUME IInv, StepReceivers, TypeInv' PROVE IInv'
  OBVIOUS
<1> USE DEF IInv, TypeInv, TypeOK
<1>1. ASSUME NEW w \in ordered_receivers
      PROVE  /\ w \in Packet /\ w.physical_layer \in Radios /\ w # NoPacket
             /\ w.start_time \in Int /\ w.end_time \in Int
             /\ ~w.is_tx
             /\ current_packet[w.physical_layer] = w =>
                   (w.start_time < w.end_time => physical_clock <= w.end_time)
  <2>1. w \in Packet /\ w.physical_layer \in Radios /\ w # NoPacket
        /\ w.start_time \in Int /\ w.end_time \in Int
    BY ConstantsAssumption DEF Packet
  <2>2. ~w.is_tx
    BY DEF Listed
  <2>3. current_packet[w.physical_layer] = w => Waiting(w)
    BY <2>1 DEF Timed, Passed
  <2> QED BY <2>1, <2>2, <2>3 DEF Waiting
\* What every branch of the loop has in common.
<1>2. ASSUME NEW w \in ordered_receivers, AtReceiver(w),
             \A r \in Radios : current_packet'[r] \in {current_packet[r], NoPacket},
             time_until_next_event' \in Nat \ {0},
             time_until_next_event' <= time_until_next_event,
             current_packet'[w.physical_layer] = w => Stepped(w)'
      PROVE  IInv'
  <2>1. UNCHANGED <<stage, physical_clock, active, delete_ready, unvisited,
                    ordered_transmitters, sent>>
        /\ stage = "receivers"
        /\ ordered_receivers' = ordered_receivers \ {w}
    BY <1>2 DEF AtReceiver, radioVars, airVars
  <2>2. ordered_transmitters = {}
    BY <2>1 DEF Phases
  <2>3. ordered_transmitters' \cup ordered_receivers' =
           (ordered_transmitters \cup ordered_receivers) \ {w}
    BY <2>1, <2>2
  <2>4. Owned' /\ Timed'
    BY <1>1, <1>2, <2>1, <2>3, OthersKept
  <2>5. Phases' /\ SentBefore'
    BY <2>1 DEF Phases, SentBefore
  <2>6. Listed'
    <3>1. \A v \in ordered_receivers : v.physical_layer \in Radios
      BY <1>1
    <3> QED BY <3>1, <1>2, <2>1, <2>2 DEF Listed
  <2> QED BY <2>4, <2>5, <2>6
<1>3. ASSUME NEW w \in ordered_receivers, EndReception(w) PROVE IInv'
  <2>1. AtReceiver(w) /\ current_packet'[w.physical_layer] = NoPacket
    BY <1>1, <1>3 DEF EndReception
  <2>2. \A r \in Radios : current_packet'[r] \in {current_packet[r], NoPacket}
    BY <1>3 DEF EndReception
  <2>3. /\ time_until_next_event' \in Nat \ {0}
        /\ time_until_next_event' <= time_until_next_event
    BY <1>3, SoonerBounds DEF EndReception
  <2> QED BY <1>1, <1>2, <2>1, <2>2, <2>3
<1>4. ASSUME NEW w \in ordered_receivers, AtReceiver(w), UNCHANGED current_packet,
             NEW d \in Int, d # 0, time_until_next_event' = Sooner(d),
             w.start_time > physical_clock => d = w.start_time - physical_clock,
             w.start_time <= physical_clock => d = w.end_time - physical_clock
      PROVE  IInv'
  <2>1. /\ time_until_next_event' \in Nat \ {0}
        /\ time_until_next_event' <= time_until_next_event
        /\ d > 0 => time_until_next_event' <= d
    BY <1>4, SoonerBounds
  <2>2. UNCHANGED <<stage, physical_clock>>
    BY <1>4 DEF AtReceiver
  <2>3. current_packet'[w.physical_layer] = w => Stepped(w)'
    <3> SUFFICES ASSUME current_packet'[w.physical_layer] = w PROVE Stepped(w)'
      OBVIOUS
    <3>1. w.start_time < w.end_time => physical_clock <= w.end_time
      BY <1>1, <1>4
    <3> QED BY <1>1, <1>4, <2>1, <2>2, <3>1 DEF Stepped
  <2> QED BY <1>2, <1>4, <2>1, <2>3
<1>5. ASSUME NEW w \in ordered_receivers, StayListening(w) PROVE IInv'
  <2> DEFINE d == w.end_time - physical_clock
  <2>1. /\ AtReceiver(w) /\ UNCHANGED current_packet
        /\ d \in Int /\ d # 0 /\ time_until_next_event' = Sooner(d)
        /\ w.start_time < physical_clock
    BY <1>1, <1>5 DEF StayListening
  <2> QED BY <1>1, <1>4, <2>1
<1>6. ASSUME NEW w \in ordered_receivers, StartReception(w) PROVE IInv'
  <2> DEFINE d == w.end_time - physical_clock
  <2>1. /\ AtReceiver(w) /\ UNCHANGED current_packet
        /\ d \in Int /\ d # 0 /\ time_until_next_event' = Sooner(d)
        /\ w.start_time = physical_clock
    BY <1>1, <1>6 DEF StartReception
  <2> QED BY <1>1, <1>4, <2>1
<1>7. ASSUME NEW w \in ordered_receivers, AwaitReception(w) PROVE IInv'
  <2> DEFINE d == w.start_time - physical_clock
  <2>1. /\ AtReceiver(w) /\ UNCHANGED current_packet
        /\ d \in Int /\ d # 0 /\ time_until_next_event' = Sooner(d)
        /\ w.start_time > physical_clock
    BY <1>1, <1>7 DEF AwaitReception
  <2> QED BY <1>1, <1>4, <2>1
<1>8. ASSUME NEW w \in ordered_receivers, PassReception(w) PROVE IInv'
  <2>1. UNCHANGED <<stage, physical_clock, time_until_next_event, current_packet>>
        /\ AtReceiver(w)
    BY <1>8 DEF PassReception, AtReceiver
  <2>2. current_packet'[w.physical_layer] = w => Stepped(w)'
    BY <1>1, <1>8, <2>1 DEF PassReception, Stepped
  <2> QED BY <1>2, <2>1, <2>2
<1>9. CASE Advance
  <2>1. Phases' /\ Owned'
    BY <1>9 DEF Advance, Phases, Owned, radioVars, listVars
  <2>2. Listed'
    BY <1>9 DEF Advance, Listed, Phases, listVars
  <2>3. SentBefore'
    BY <1>9 DEF Advance, SentBefore, Packet, airVars
  <2>4. Timed'
    <3>1. ASSUME NEW r \in Radios, current_packet[r] # NoPacket
          PROVE  Waiting(current_packet[r])' /\ ~Passed(current_packet[r])'
      <4>1. PICK q \in Packet : q = current_packet[r] /\ q = current_packet'[r]
        BY <1>9, <3>1 DEF Advance
      <4>2. Stepped(q)
        BY <1>9, <3>1, <4>1 DEF Timed, Advance, Passed, Phases
      <4>3. Waiting(q)'
        BY <1>9, <4>2 DEF Stepped, Waiting, Advance, airVars, Packet
      <4> QED BY <4>1, <4>3, <1>9 DEF Passed, Advance
    <3> QED BY <3>1, <1>9 DEF Timed, Advance
  <2> QED BY <2>1, <2>2, <2>3, <2>4
<1> QED
  BY <1>3, <1>5, <1>6, <1>7, <1>8, <1>9 DEF StepReceivers

LEMMA IInvNext == IInv /\ [Next]_vars => IInv'
<1> SUFFICES ASSUME IInv, [Next]_vars PROVE IInv'
  OBVIOUS
<1>1. TypeInv'
  BY TypeInvNext DEF IInv
<1>2. CASE UNCHANGED vars
  BY <1>2 DEF vars, radioVars, listVars, airVars, IInv, TypeInv, TypeOK, Phases,
              Owned, Listed, Timed, Passed, Waiting, Stepped, SentBefore
<1> QED
  BY <1>1, <1>2, IInvSocketThread, IInvGather, IInvTransmitters, IInvReceivers
  DEF Next, physical_layer_simulation_thread

LEMMA IInvHolds == Spec => []IInv
  BY IInvInit, IInvNext, PTL DEF Spec

(***************************************************************************)
(* The loops move the clock to the nearest boundary of the packets in      *)
(* progress: between rounds no start and no end has been passed over, for  *)
(* any number of radios, any packet lengths, and whatever windows that end *)
(* before they start are in the lists too.                                 *)
(***************************************************************************)
THEOREM NoBoundaryIsMissed == Spec => []NoBoundaryMissed
<1>1. IInv => NoBoundaryMissed
  BY DEF IInv, TypeInv, TypeOK, Timed, Passed, Waiting, NoBoundaryMissed, InProgress
<1> QED
  BY IInvHolds, <1>1, PTL

(***************************************************************************)
(* A radio is unlinked only when it has nothing in the air or listening,   *)
(* because only get_next_packet, which a packet in progress keeps from     *)
(* being called, sets delete_ready.                                        *)
(***************************************************************************)
THEOREM LeavesOnlyOffAir == Spec => LeavesOffAir
<1>1. ASSUME IInv, Next, NEW r \in all_radios \ all_radios'
      PROVE  current_packet[r] = NoPacket
  <2> USE DEF IInv, TypeInv, TypeOK
  <2>1. ASSUME NEW s \in Radios, PhysicalLayerDestructor(s)
        PROVE  current_packet[r] = NoPacket
    <3>1. r = s /\ s \in delete_ready
      BY <1>1, <2>1 DEF PhysicalLayerDestructor
    <3> QED BY <1>1, <3>1 DEF Owned
  <2>2. SocketThread => \E s \in Radios : PhysicalLayerDestructor(s)
    BY <1>1 DEF SocketThread, PhysicalLayerConstructor, mk_active, set_delete_pending
  <2>3. ~Gather
    <3>1. ~BeginRound /\ ~Gathered
      BY <1>1 DEF BeginRound, Gathered, radioVars
    <3>2. \A s : ~AtRadio(s)
      BY <1>1 DEF AtRadio
    <3>3. \A s : ~VisitAny(s)
      BY <3>2 DEF VisitAny, VisitOffer
    <3> QED
      BY <3>1, <3>2, <3>3 DEF Gather, SkipInactive, VisitBusy, VisitSilent, VisitDeleting
  <2>4. ~StepTransmitters
    BY <1>1 DEF StepTransmitters, EndTransmission, StayOnAir, StartTransmission,
                AwaitTransmission, TransmittersDone, AtTransmitter, radioVars
  <2>5. ~StepReceivers
    BY <1>1 DEF StepReceivers, EndReception, StayListening, StartReception,
                AwaitReception, PassReception, AtReceiver, Advance, radioVars
  <2> QED
    BY <1>1, <2>1, <2>2, <2>3, <2>4, <2>5 DEF Next, physical_layer_simulation_thread
<1>2. IInv /\ [Next]_vars => [\A r \in all_radios \ all_radios' : current_packet[r] = NoPacket]_vars
  BY <1>1
<1> QED
  BY IInvHolds, <1>2, PTL DEF Spec, LeavesOffAir
=============================================================================
