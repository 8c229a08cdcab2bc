--------------------------- MODULE UpperHCIProofs -----------------------------
(***************************************************************************)
(* Proofs about UpperHCI, for any program, any timer and any callbacks:    *)
(* that the two threads which share the credit without a lock never have   *)
(* two commands under way, and that an answer runs the callback of its     *)
(* command, although answers and callbacks are matched by order alone and  *)
(* reports come in between.  Then, under what the program and its callbacks*)
(* must be like, that what a callback queues is sent next, and that cm_done*)
(* ends the client only when everything is answered.                       *)
(***************************************************************************)
EXTENDS UpperHCI, SequenceTheorems, TLAPS

\* What the server has sent and the client has not taken.
Unread == input_buffer \o stream

\* The pieces of events follow each other.
Whole(s) ==
    /\ s # <<>> => s[1].piece = 1 /\ s[Len(s)].piece = 3
    /\ \A i \in 1 .. Len(s) : i # Len(s) =>
          /\ s[i].piece = 3 => s[i + 1].piece = 1
          /\ s[i].piece # 3 =>
                s[i + 1].piece = s[i].piece + 1 /\ s[i + 1].event = s[i].event

\* Where a command may be under way.
Sending == sender \in {"register", "sendall"}
Sent == answered < Len(sent)
Coming == AnswersIn(Unread) # {}
AtHand == loop = "callback" \/ (loop = "event" /\ event # Report)

\* The credit is spent from the debit to the grant.
CreditInv ==
    /\ sender \in {"get", "debit"} => num_hci_commands = 1
    /\ Sending \/ Sent \/ Coming \/ AtHand => num_hci_commands = 0
    /\ connected /\ num_hci_commands = 0 => Sending \/ Sent \/ Coming \/ AtHand

\* A command is in one place.
PlaceInv ==
    /\ sender \in {"debit", "register", "sendall"} => command \in Commands
    /\ Len(sent) <= answered + 1
    /\ \A i, j \in AnswersIn(Unread) : i = j
    /\ Sending => ~Sent /\ ~Coming /\ ~AtHand
    /\ Sent => ~Coming /\ ~AtHand
    /\ Coming => ~AtHand

\* The callback of the command under way, if it has one, waits, and no other.
CallbackOf(c) == IF c \in DOMAIN Then THEN <<c>> ELSE <<>>

CallbackInv ==
    /\ num_hci_commands = 1 \/ sender = "register" \/ loop = "callback" => callback_queue = <<>>
    /\ sender = "sendall" => callback_queue = CallbackOf(command)
    /\ Sent => callback_queue = CallbackOf(sent[answered + 1])
    /\ \A i \in AnswersIn(Unread) : callback_queue = CallbackOf(Unread[i].event)
    /\ loop = "event" /\ event # Report => callback_queue = CallbackOf(event)

IInv == TypeOK /\ Whole(Unread) /\ CreditInv /\ PlaceInv /\ CallbackInv
-----------------------------------------------------------------------------
(* Lemmas about streams of events.                                         *)

\* The library's fact, for any set of elements.
Grouped(x, y, z) == (x \o y) \o z = x \o (y \o z)

LEMMA Regrouped == \A S : \A x, y, z \in Seq(S) : Grouped(x, y, z)
BY ConcatAssociative, Zenon DEF Grouped

\* An event that is sent comes behind the others, and is an answer exactly if it
\* is no report.
LEMMA EventIsAdded ==
    ASSUME NEW s \in Seq(EventPieces), Whole(s), NEW e \in Commands \cup {Report}
    PROVE  LET t == s \o Pieces(e)
           IN  /\ t \in Seq(EventPieces) /\ Whole(t)
               /\ AnswersIn(t) = AnswersIn(s) \cup {i \in {Len(s) + 3} : e # Report}
               /\ \A i \in AnswersIn(s) : t[i] = s[i]
               /\ t[Len(s) + 3].event = e
<1> DEFINE p == Pieces(e)
           t == s \o p
           n == Len(s)
<1>1. /\ p \in Seq(EventPieces) /\ Len(p) = 3
      /\ p[1] = [event |-> e, piece |-> 1] /\ p[2] = [event |-> e, piece |-> 2]
      /\ p[3] = [event |-> e, piece |-> 3]
  BY DEF Pieces, EventPieces
<1> HIDE DEF p
<1>2. /\ t \in Seq(EventPieces) /\ Len(t) = Len(s) + Len(p)
      /\ \A i \in 1 .. Len(s) + Len(p) : t[i] = IF i <= Len(s) THEN s[i] ELSE p[i - Len(s)]
  BY <1>1, ConcatProperties, Zenon
<1>3. n \in Nat /\ Len(t) = n + 3 /\ Len(t) \in Nat
  BY <1>1, <1>2
<1> HIDE DEF t, n
<1>4. /\ \A i \in 1 .. n : t[i] = s[i]
      /\ t[n + 1] = p[1] /\ t[n + 2] = p[2] /\ t[n + 3] = p[3]
  <2>1. \A i \in 1 .. n + 3 : t[i] = IF i <= n THEN s[i] ELSE p[i - n]
    BY <1>1, <1>2 DEF n
  <2>2. \A i \in 1 .. n : i \in 1 .. n + 3 /\ i <= n
    BY <1>3
  <2>3. \A k \in 1 .. 3 : n + k \in 1 .. n + 3 /\ ~(n + k <= n) /\ (n + k) - n = k
    BY <1>3
  <2>4. \A k \in 1 .. 3 : t[n + k] = p[k]
    BY <2>1, <2>3
  <2> QED
    BY <2>1, <2>2, <2>4
<1>5. /\ t[n + 1].event = e /\ t[n + 2].event = e /\ t[n + 3].event = e
      /\ t[n + 1].piece = 1 /\ t[n + 2].piece = 2 /\ t[n + 3].piece = 3
  BY <1>1, <1>4
<1>6. \A i \in 1 .. n + 3 : i \in 1 .. n \/ i = n + 1 \/ i = n + 2 \/ i = n + 3
  BY <1>3
<1>7. Whole(t)
  <2>1. Len(<<>>) = 0
    OBVIOUS
  <2>2. n = 0 => s = <<>>
    BY DEF n
  <2>3. t[1].piece = 1
    BY <1>3, <1>4, <1>5, <2>1, <2>2 DEF Whole, n
  <2>4. ASSUME NEW i \in 1 .. n + 3, i # n + 3
        PROVE  /\ t[i].piece = 3 => t[i + 1].piece = 1
               /\ t[i].piece # 3 =>
                     t[i + 1].piece = t[i].piece + 1 /\ t[i + 1].event = t[i].event
    <3>1. CASE i \in 1 .. n /\ i # n
      <4>1. i + 1 \in 1 .. n
        BY <3>1, <1>3
      <4> QED
        BY <3>1, <4>1, <1>4 DEF Whole, n
    <3>2. CASE i = n
      <4>1. s # <<>> /\ n \in 1 .. n
        BY <3>2, <1>3, <2>1 DEF n
      <4>2. t[i].piece = 3
        BY <3>2, <4>1, <1>4 DEF Whole, n
      <4> QED
        BY <3>2, <4>2, <1>5
    <3>3. CASE i = n + 1
      BY <3>3, <1>3, <1>5
    <3>4. CASE i = n + 2
      BY <3>4, <1>3, <1>5
    <3> QED
      BY <3>1, <3>2, <3>3, <3>4, <1>6, <2>4
  <2> QED
    BY <1>3, <1>5, <2>3, <2>4 DEF Whole
<1>8. AnswersIn(t) = AnswersIn(s) \cup {i \in {n + 3} : e # Report}
  <2>1. \A i \in 1 .. n : i \in 1 .. n + 3
    BY <1>3
  <2>2. n + 3 \in 1 .. n + 3 /\ n + 3 \notin 1 .. n
    BY <1>3
  <2>3. \A i \in 1 .. n : i \in AnswersIn(t) <=> i \in AnswersIn(s)
    BY <1>3, <1>4, <2>1 DEF AnswersIn, n
  <2>4. n + 1 \notin AnswersIn(t) /\ n + 2 \notin AnswersIn(t)
    BY <1>5 DEF AnswersIn
  <2>5. n + 3 \in AnswersIn(t) <=> e # Report
    BY <1>3, <1>5, <2>2 DEF AnswersIn
  <2>6. AnswersIn(t) \subseteq 1 .. n + 3 /\ AnswersIn(s) \subseteq 1 .. n
    BY <1>3 DEF AnswersIn, n
  <2> QED
    BY <1>6, <2>2, <2>3, <2>4, <2>5, <2>6
<1> QED
  BY <1>2, <1>4, <1>5, <1>7, <1>8 DEF t, n, p, AnswersIn

\* The length of what is left.
LEMMA RestLength ==
    ASSUME NEW S, NEW t \in Seq(S), Len(t) >= 3
    PROVE  Len(SubSeq(t, 4, Len(t))) = Len(t) - 3
<1>1. \A m \in 1 .. Len(t) : Len(SubSeq(t, m + 1, Len(t))) = Len(t) - m
  OBVIOUS
<1>2. 3 \in 1 .. Len(t) /\ 3 + 1 = 4
  OBVIOUS
<1> QED
  BY <1>1, <1>2

\* An event that is taken is the first three pieces, which belong together.
LEMMA EventIsTaken ==
    ASSUME NEW s \in Seq(EventPieces), Whole(s), Len(s) >= 3,
           NEW t \in Seq(EventPieces), Len(t) = Len(s) - 3,
           \A i \in 1 .. Len(t) : t[i] = s[i + 3]
    PROVE  /\ Whole(t)
           /\ \A i \in AnswersIn(s) : i > 3 => i - 3 \in AnswersIn(t)
           /\ \A i \in AnswersIn(t) : i + 3 \in AnswersIn(s) /\ t[i] = s[i + 3]
           /\ \A i \in AnswersIn(s) : i <= 3 => i = 3
           /\ s[3].event = s[1].event /\ s[3].piece = 3 /\ s[1].event \in Commands \cup {Report}
<1>1. Len(s) \in Nat /\ Len(t) \in Nat /\ 1 \in 1 .. Len(s) /\ 2 \in 1 .. Len(s) /\ 3 \in 1 .. Len(s)
  OBVIOUS
<1>2. s # <<>> /\ s[1] \in EventPieces
  BY <1>1
<1>3. s[1].piece = 1 /\ s[1].event \in Commands \cup {Report}
  BY <1>2 DEF Whole, EventPieces
<1>4. 1 # Len(s) /\ 2 # Len(s)
  <2> DEFINE l == Len(s)
  <2>1. l \in Nat /\ l >= 3
    BY <1>1
  <2> HIDE DEF l
  <2>2. 1 # l /\ 2 # l
    BY <2>1
  <2> QED
    BY <2>2 DEF l
<1>5. s[2].piece = 2 /\ s[2].event = s[1].event
  BY <1>1, <1>3, <1>4 DEF Whole
<1>6. s[3].piece = 3 /\ s[3].event = s[1].event
  <2>1. 2 # 3 /\ 2 + 1 = 3
    OBVIOUS
  <2>2. s[2].piece # 3 => s[2 + 1].piece = s[2].piece + 1 /\ s[2 + 1].event = s[2].event
    BY <1>1, <1>4, Zenon DEF Whole
  <2> QED
    BY <2>1, <2>2, <1>5
<1>7. \A i \in 1 .. Len(t) : i + 3 \in 1 .. Len(s) /\ (i # Len(t) => i + 3 # Len(s) /\ i + 1 \in 1 .. Len(t))
  BY <1>1
<1>8. Whole(t)
  <2>1. ASSUME t # <<>> PROVE t[1].piece = 1 /\ t[Len(t)].piece = 3
    <3>1. 1 \in 1 .. Len(t) /\ Len(t) \in 1 .. Len(t) /\ Len(t) + 3 = Len(s) /\ 3 # Len(s)
      <4> DEFINE l == Len(s)
                 k == Len(t)
      <4>1. l \in Nat /\ k \in Nat /\ k = l - 3 /\ k # 0
        BY <2>1, <1>1, EmptySeq
      <4> HIDE DEF l, k
      <4>2. 1 \in 1 .. k /\ k \in 1 .. k /\ k + 3 = l /\ 3 # l
        BY <4>1
      <4> QED
        BY <4>2 DEF l, k
    <3>2. t[1] = s[4] /\ t[Len(t)] = s[Len(s)]
      BY <3>1
    <3>3. s[4].piece = 1
      BY <3>1, <1>1, <1>6 DEF Whole
    <3> QED
      BY <3>2, <3>3, <1>2 DEF Whole
  <2>2. ASSUME NEW i \in 1 .. Len(t), i # Len(t)
        PROVE  /\ t[i].piece = 3 => t[i + 1].piece = 1
               /\ t[i].piece # 3 =>
                     t[i + 1].piece = t[i].piece + 1 /\ t[i + 1].event = t[i].event
    <3>1. i + 3 \in 1 .. Len(s) /\ i + 3 # Len(s) /\ (i + 1) + 3 = (i + 3) + 1
      BY <2>2, <1>7
    <3>2. t[i] = s[i + 3] /\ t[i + 1] = s[(i + 3) + 1]
      BY <2>2, <3>1, <1>7
    <3> QED
      BY <3>1, <3>2 DEF Whole
  <2> QED
    BY <2>1, <2>2 DEF Whole
<1>9. \A i \in AnswersIn(s) : i > 3 => i - 3 \in AnswersIn(t)
  <2> SUFFICES ASSUME NEW i \in AnswersIn(s), i > 3 PROVE i - 3 \in AnswersIn(t)
    OBVIOUS
  <2>1. i \in 1 .. Len(s) /\ s[i].piece = 3 /\ s[i].event # Report
    BY DEF AnswersIn
  <2>2. i - 3 \in 1 .. Len(t) /\ (i - 3) + 3 = i
    BY <2>1, <1>1
  <2>3. t[i - 3] = s[i]
    BY <2>2
  <2> QED
    BY <2>1, <2>2, <2>3 DEF AnswersIn
<1>10. \A i \in AnswersIn(t) : i + 3 \in AnswersIn(s) /\ t[i] = s[i + 3]
  BY <1>7 DEF AnswersIn
<1>11. \A i \in AnswersIn(s) : i <= 3 => i = 3
  <2> SUFFICES ASSUME NEW i \in AnswersIn(s), i <= 3 PROVE i = 3
    OBVIOUS
  <2>1. i \in 1 .. Len(s) /\ s[i].piece = 3
    BY DEF AnswersIn
  <2>2. i = 1 \/ i = 2 \/ i = 3
    BY <2>1, <1>1
  <2> QED
    BY <2>1, <2>2, <1>3, <1>5
<1> QED
  BY <1>3, <1>6, <1>8, <1>9, <1>10, <1>11

\* What recv moves from one buffer to the other stays where it is in Unread.
LEMMA ReceiveKeeps ==
    ASSUME TypeOK, NEW n \in 1 .. Len(stream),
           input_buffer' = input_buffer \o SubSeq(stream, 1, n),
           stream' = SubSeq(stream, n + 1, Len(stream))
    PROVE  /\ Unread' = Unread
           /\ input_buffer' \in Seq(EventPieces) /\ stream' \in Seq(EventPieces)
<1> DEFINE a == SubSeq(stream, 1, n)
           b == SubSeq(stream, n + 1, Len(stream))
<1>1. input_buffer \in Seq(EventPieces) /\ stream \in Seq(EventPieces)
  BY DEF TypeOK
<1>2. a \in Seq(EventPieces) /\ b \in Seq(EventPieces) /\ a \o b = stream
  <2>1. a \in Seq(EventPieces) /\ b \in Seq(EventPieces)
    BY <1>1
  <2>2. Len(a) = n /\ Len(b) = Len(stream) - n /\ Len(stream) \in Nat
    BY <1>1
  <2>3. \A i \in 1 .. n : a[i] = stream[i]
    BY <1>1
  <2>4. \A i \in 1 .. Len(stream) - n : b[i] = stream[i + n]
    BY <1>1
  <2> HIDE DEF a, b
  <2>5. /\ a \o b \in Seq(EventPieces) /\ Len(a \o b) = Len(a) + Len(b)
        /\ \A i \in 1 .. Len(a) + Len(b) : (a \o b)[i] = IF i <= Len(a) THEN a[i] ELSE b[i - Len(a)]
    BY <2>1, ConcatProperties, Zenon
  <2>6. Len(a \o b) = Len(stream)
    BY <2>2, <2>5
  <2>7. \A i \in 1 .. Len(stream) : (a \o b)[i] = stream[i]
    BY <2>2, <2>3, <2>4, <2>5
  <2> QED
    BY <1>1, <2>1, <2>5, <2>6, <2>7, SeqEqual
<1> HIDE DEF a, b
<1>3. (input_buffer \o a) \o b = input_buffer \o (a \o b)
  <2>1. Grouped(input_buffer, a, b)
    BY <1>1, <1>2, Regrouped, Zenon
  <2> QED
    BY <2>1 DEF Grouped
<1>4. input_buffer \o a \in Seq(EventPieces)
  BY <1>1, <1>2
<1> QED
  BY <1>2, <1>3, <1>4 DEF Unread, a, b
-----------------------------------------------------------------------------
(* The steps that leave the streams alone.                                 *)

\* What is queued is not yet under way.
LEMMA QueueSteps ==
    ASSUME IInv, MainQueues \/ TimerQueues \/ CallbackQueues \/ Run
    PROVE  IInv'
<1> USE DEF hostVars, queueVars, creditVars, senderVars, loopVars, serverVars
<1>1. CASE MainQueues
  <2>1. Unread' = Unread
    BY <1>1 DEF Unread, MainQueues, Queue, put, Entries
  <2>2. TypeOK'
    <3>1. /\ program' \in Seq(Entries) /\ Head(program) \in Entries
          /\ command_queue \in [{0, 1} -> Seq(Entries)]
      BY <1>1 DEF IInv, TypeOK, MainQueues
    <3>2. Append(command_queue[0], Head(program)) \in Seq(Entries)
      BY <3>1
    <3>3. command_queue' \in [{0, 1} -> Seq(Entries)] /\ command_event' = TRUE
      BY <3>1, <3>2, <1>1 DEF MainQueues, Queue, put
    <3> QED
      BY <3>1, <3>3, <1>1 DEF IInv, TypeOK, MainQueues
  <2>3. CreditInv' /\ PlaceInv' /\ CallbackInv'
    BY <1>1, <2>1 DEF IInv, TypeOK, CreditInv, PlaceInv, CallbackInv, Sending, Sent, Coming, AtHand, MainQueues, Queue, put, Entries
  <2> QED
    BY <2>1, <2>2, <2>3 DEF IInv
<1>2. CASE TimerQueues
  <2>1. Unread' = Unread
    BY <1>2 DEF Unread, TimerQueues, Queue, put, Entries
  <2>2. TypeOK'
    <3>1. /\ timer' \in Seq(Entries) /\ Head(timer) \in Entries
          /\ command_queue \in [{0, 1} -> Seq(Entries)]
      BY <1>2 DEF IInv, TypeOK, TimerQueues
    <3>2. Append(command_queue[0], Head(timer)) \in Seq(Entries)
      BY <3>1
    <3>3. command_queue' \in [{0, 1} -> Seq(Entries)] /\ command_event' = TRUE
      BY <3>1, <3>2, <1>2 DEF TimerQueues, Queue, put
    <3> QED
      BY <3>1, <3>3, <1>2 DEF IInv, TypeOK, TimerQueues
  <2>3. CreditInv' /\ PlaceInv' /\ CallbackInv'
    BY <1>2, <2>1 DEF IInv, TypeOK, CreditInv, PlaceInv, CallbackInv, Sending, Sent, Coming, AtHand, TimerQueues, Queue, put, Entries
  <2> QED
    BY <2>1, <2>2, <2>3 DEF IInv
<1>3. CASE CallbackQueues
  <2>1. Unread' = Unread
    BY <1>3 DEF Unread, CallbackQueues, Queue, put, Entries
  <2>2. TypeOK'
    <3>1. /\ follow_ups' \in Seq(Commands) /\ Head(follow_ups) \in Entries
          /\ command_queue \in [{0, 1} -> Seq(Entries)]
      BY <1>3 DEF IInv, TypeOK, CallbackQueues, Entries
    <3>2. Append(command_queue[1], Head(follow_ups)) \in Seq(Entries)
      BY <3>1
    <3>3. command_queue' \in [{0, 1} -> Seq(Entries)] /\ command_event' = TRUE
      BY <3>1, <3>2, <1>3 DEF CallbackQueues, Queue, put
    <3> QED
      BY <3>1, <3>3, <1>3 DEF IInv, TypeOK, CallbackQueues
  <2>3. CreditInv' /\ PlaceInv' /\ CallbackInv'
    BY <1>3, <2>1 DEF IInv, TypeOK, CreditInv, PlaceInv, CallbackInv, Sending, Sent, Coming, AtHand, CallbackQueues, Queue, put, Entries
  <2> QED
    BY <2>1, <2>2, <2>3 DEF IInv
<1>4. CASE Run
  <2>1. Unread' = Unread
    BY <1>4 DEF Unread, Run
  <2>2. TypeOK'
    BY <1>4 DEF IInv, TypeOK, Run
  <2>3. CreditInv' /\ PlaceInv' /\ CallbackInv'
    BY <1>4, <2>1 DEF IInv, TypeOK, CreditInv, PlaceInv, CallbackInv, Sending, Sent, Coming, AtHand, Run
  <2> QED
    BY <2>1, <2>2, <2>3 DEF IInv
<1> QED
  BY <1>1, <1>2, <1>3, <1>4

\* The daemon thread up to the sending.
LEMMA SenderSteps ==
    ASSUME IInv, HasCredit \/ Wait \/ Debit \/ Register
    PROVE  IInv'
<1> USE DEF hostVars, queueVars, creditVars, senderVars, loopVars, serverVars
<1>1. CASE HasCredit
  <2>1. Unread' = Unread
    BY <1>1 DEF Unread, HasCredit, SenderAt
  <2>2. TypeOK'
    BY <1>1 DEF IInv, TypeOK, HasCredit, SenderAt
  <2>3. CreditInv' /\ PlaceInv' /\ CallbackInv'
    BY <1>1, <2>1 DEF IInv, TypeOK, CreditInv, PlaceInv, CallbackInv, Sending, Sent, Coming, AtHand, HasCredit, SenderAt
  <2> QED
    BY <2>1, <2>2, <2>3 DEF IInv
<1>2. CASE Wait
  <2>1. Unread' = Unread
    BY <1>2 DEF Unread, Wait, SenderAt
  <2>2. TypeOK'
    BY <1>2 DEF IInv, TypeOK, Wait, SenderAt
  <2>3. CreditInv' /\ PlaceInv' /\ CallbackInv'
    BY <1>2, <2>1 DEF IInv, TypeOK, CreditInv, PlaceInv, CallbackInv, Sending, Sent, Coming, AtHand, Wait, SenderAt
  <2> QED
    BY <2>1, <2>2, <2>3 DEF IInv
<1>3. CASE Debit
  <2>1. Unread' = Unread
    BY <1>3 DEF Unread, Debit, SenderAt
  <2>2. TypeOK'
    BY <1>3 DEF IInv, TypeOK, CreditInv, Debit, SenderAt
  <2>3. CreditInv' /\ PlaceInv' /\ CallbackInv'
    BY <1>3, <2>1 DEF IInv, TypeOK, CreditInv, PlaceInv, CallbackInv, Sending, Sent, Coming, AtHand, Debit, SenderAt
  <2> QED
    BY <2>1, <2>2, <2>3 DEF IInv
<1>4. CASE Register
  <2>1. Unread' = Unread
    BY <1>4 DEF Unread, Register, SenderAt, CallbackOf, Entries
  <2>2. TypeOK'
    <3>1. callback_queue' \in Seq(DOMAIN Then)
      <4>1. callback_queue \in Seq(DOMAIN Then)
        BY DEF IInv, TypeOK
      <4>2. CASE command \in DOMAIN Then
        <5>1. Append(callback_queue, command) \in Seq(DOMAIN Then)
          BY <4>1, <4>2
        <5> QED
          BY <5>1, <4>2, <1>4 DEF Register
      <4>3. CASE command \notin DOMAIN Then
        BY <4>1, <4>3, <1>4 DEF Register
      <4> QED
        BY <4>2, <4>3
    <3> QED
      BY <3>1, <1>4 DEF IInv, TypeOK, Register, SenderAt
  <2>3. CreditInv' /\ PlaceInv' /\ CallbackInv'
    BY <1>4, <2>1 DEF IInv, TypeOK, CreditInv, PlaceInv, CallbackInv, Sending, Sent, Coming, AtHand, Register, SenderAt, CallbackOf, Entries
  <2> QED
    BY <2>1, <2>2, <2>3 DEF IInv
<1> QED
  BY <1>1, <1>2, <1>3, <1>4

\* The main thread between events, the grant, and the loss of the connection.
LEMMA LoopSteps ==
    ASSUME IInv, HandleClose \/ Ended \/ NoMoreInput \/ Reported \/ Grant \/ ServerLost
    PROVE  IInv'
<1> USE DEF hostVars, queueVars, creditVars, senderVars, loopVars, serverVars
<1>1. CASE HandleClose
  <2>1. Unread' = Unread
    BY <1>1 DEF Unread, HandleClose
  <2>2. TypeOK'
    BY <1>1 DEF IInv, TypeOK, HandleClose
  <2>3. CreditInv' /\ PlaceInv' /\ CallbackInv'
    BY <1>1, <2>1 DEF IInv, TypeOK, CreditInv, PlaceInv, CallbackInv, Sending, Sent, Coming, AtHand, HandleClose
  <2> QED
    BY <2>1, <2>2, <2>3 DEF IInv
<1>2. CASE Ended
  <2>1. Unread' = Unread
    BY <1>2 DEF Unread, Ended
  <2>2. TypeOK'
    BY <1>2 DEF IInv, TypeOK, Ended
  <2>3. CreditInv' /\ PlaceInv' /\ CallbackInv'
    BY <1>2, <2>1 DEF IInv, TypeOK, CreditInv, PlaceInv, CallbackInv, Sending, Sent, Coming, AtHand, Ended
  <2> QED
    BY <2>1, <2>2, <2>3 DEF IInv
<1>3. CASE NoMoreInput
  <2>1. Unread' = Unread
    BY <1>3 DEF Unread, NoMoreInput
  <2>2. TypeOK'
    BY <1>3 DEF IInv, TypeOK, NoMoreInput
  <2>3. CreditInv' /\ PlaceInv' /\ CallbackInv'
    BY <1>3, <2>1 DEF IInv, TypeOK, CreditInv, PlaceInv, CallbackInv, Sending, Sent, Coming, AtHand, NoMoreInput
  <2> QED
    BY <2>1, <2>2, <2>3 DEF IInv
<1>4. CASE Reported
  <2>1. Unread' = Unread
    BY <1>4 DEF Unread, Reported
  <2>2. TypeOK'
    BY <1>4 DEF IInv, TypeOK, Reported
  <2>3. CreditInv' /\ PlaceInv' /\ CallbackInv'
    BY <1>4, <2>1 DEF IInv, TypeOK, CreditInv, PlaceInv, CallbackInv, Sending, Sent, Coming, AtHand, Reported
  <2> QED
    BY <2>1, <2>2, <2>3 DEF IInv
<1>5. CASE Grant
  <2>1. Unread' = Unread
    BY <1>5 DEF Unread, Grant
  <2>2. TypeOK'
    BY <1>5 DEF IInv, TypeOK, Grant
  <2>3. CreditInv' /\ PlaceInv' /\ CallbackInv'
    BY <1>5, <2>1 DEF IInv, TypeOK, CreditInv, PlaceInv, CallbackInv, Sending, Sent, Coming, AtHand, Grant
  <2> QED
    BY <2>1, <2>2, <2>3 DEF IInv
<1>6. CASE ServerLost
  <2>1. Unread' = Unread
    BY <1>6 DEF Unread, ServerLost
  <2>2. TypeOK'
    BY <1>6 DEF IInv, TypeOK, ServerLost
  <2>3. CreditInv' /\ PlaceInv' /\ CallbackInv'
    BY <1>6, <2>1 DEF IInv, TypeOK, CreditInv, PlaceInv, CallbackInv, Sending, Sent, Coming, AtHand, ServerLost
  <2> QED
    BY <2>1, <2>2, <2>3 DEF IInv
<1> QED
  BY <1>1, <1>2, <1>3, <1>4, <1>5, <1>6

\* The daemon thread takes an entry of the queue.
LEMMA GetStep ==
    ASSUME IInv, NEW p \in {0, 1}, get(p)
    PROVE  IInv'
<1> USE DEF hostVars, queueVars, creditVars, senderVars, loopVars, serverVars
<1> DEFINE q == command_queue[p]
<1>1. q \in Seq(Entries) /\ q # <<>> /\ sender = "get"
  BY DEF get, First, SenderAt, IInv, TypeOK
<1>2. Head(q) \in Entries /\ Tail(q) \in Seq(Entries)
  BY <1>1
<1>3. /\ command_queue' = [command_queue EXCEPT ![p] = Tail(q)]
      /\ UNCHANGED <<hostVars, command_event, creditVars, loopVars, sent, serverVars>>
      /\ \/ running' = FALSE /\ sender' = "check" /\ UNCHANGED command
         \/ Head(q) # Done /\ command' = Head(q) /\ sender' = "debit" /\ UNCHANGED running
  BY DEF get
<1> HIDE DEF q
<1>4. command_queue' \in [{0, 1} -> Seq(Entries)]
  BY <1>2, <1>3 DEF IInv, TypeOK
<1>5. Unread' = Unread
  BY <1>3 DEF Unread
<1>6. TypeOK'
  BY <1>2, <1>3, <1>4 DEF IInv, TypeOK
<1>7. sender' = "debit" => command' \in Commands
  BY <1>2, <1>3 DEF Entries
<1>8. CreditInv' /\ PlaceInv' /\ CallbackInv'
  BY <1>1, <1>3, <1>5, <1>7 DEF IInv, TypeOK, CreditInv, PlaceInv, CallbackInv, Sending, Sent, Coming, AtHand
<1> QED
  BY <1>5, <1>6, <1>8 DEF IInv

\* A command is sent, or lost with the connection.
LEMMA SendAllStep ==
    ASSUME IInv, SendAll
    PROVE  IInv'
<1> USE DEF hostVars, queueVars, creditVars, senderVars, loopVars, serverVars
<1>1. /\ sender = "sendall" /\ sender' = "check"
      /\ UNCHANGED <<hostVars, queueVars, creditVars, command, loopVars, running, serverVars>>
  BY DEF SendAll, SenderAt
<1>2. Unread' = Unread
  BY <1>1 DEF Unread
<1>3. /\ Sending /\ ~Sent /\ ~Coming /\ ~AtHand /\ num_hci_commands = 0
      /\ command \in Commands /\ callback_queue = CallbackOf(command)
      /\ sent \in Seq(Commands) /\ answered \in 0 .. Len(sent)
  BY <1>1 DEF IInv, TypeOK, CreditInv, PlaceInv, CallbackInv, Sending
<1>4. answered = Len(sent) /\ Len(sent) \in Nat
  BY <1>3 DEF Sent
<1>5. CASE connected
  <2>1. sent' = Append(sent, command)
    BY <1>5 DEF SendAll
  <2>2. /\ sent' \in Seq(Commands) /\ Len(sent') = Len(sent) + 1
        /\ sent'[Len(sent) + 1] = command
    BY <2>1, <1>3
  <2>3. Sent' /\ answered' = answered /\ Len(sent') = answered' + 1
        /\ sent'[answered' + 1] = command
    BY <1>1, <1>4, <2>2 DEF Sent
  <2>4. ~Sending' /\ ~Coming' /\ ~AtHand'
    BY <1>1, <1>2, <1>3 DEF Sending, Coming, AtHand
  <2>5. TypeOK'
    BY <1>1, <1>4, <2>2 DEF IInv, TypeOK
  <2>6. CreditInv' /\ PlaceInv'
    BY <1>1, <1>2, <1>3, <1>4, <2>2, <2>3, <2>4 DEF IInv, CreditInv, PlaceInv
  <2>7. CallbackInv'
    BY <1>1, <1>2, <1>3, <2>3, <2>4 DEF IInv, CallbackInv, Coming, AtHand
  <2> QED
    BY <1>2, <2>5, <2>6, <2>7 DEF IInv
<1>6. CASE ~connected
  <2>1. sent' = sent
    BY <1>6 DEF SendAll
  <2>2. ~Sent' /\ ~Sending' /\ ~Coming' /\ ~AtHand'
    BY <1>1, <1>2, <1>3, <2>1 DEF Sending, Sent, Coming, AtHand
  <2>3. TypeOK'
    BY <1>1, <2>1 DEF IInv, TypeOK
  <2>4. CreditInv' /\ PlaceInv'
    BY <1>1, <1>2, <1>3, <1>6, <2>1, <2>2 DEF IInv, CreditInv, PlaceInv
  <2>5. CallbackInv'
    BY <1>1, <1>2, <1>3, <2>1, <2>2 DEF IInv, CallbackInv, Coming, AtHand
  <2> QED
    BY <1>2, <2>3, <2>4, <2>5 DEF IInv
<1> QED
  BY <1>5, <1>6

\* recv takes what has come.
LEMMA ReceiveStep ==
    ASSUME IInv, NEW n \in 1 .. Len(stream), Receive(n)
    PROVE  IInv'
<1> USE DEF hostVars, queueVars, creditVars, senderVars, loopVars, serverVars
<1>1. /\ input_buffer' = input_buffer \o SubSeq(stream, 1, n)
      /\ stream' = SubSeq(stream, n + 1, Len(stream))
      /\ loop = "select" /\ loop' = "input"
      /\ UNCHANGED <<hostVars, queueVars, creditVars, senderVars, event, running, sent,
                     answered, reports, connected>>
  BY DEF Receive
<1>2. /\ Unread' = Unread
      /\ input_buffer' \in Seq(EventPieces) /\ stream' \in Seq(EventPieces)
  BY <1>1, ReceiveKeeps DEF IInv
<1>3. TypeOK'
  BY <1>1, <1>2 DEF IInv, TypeOK
<1>4. CreditInv' /\ PlaceInv' /\ CallbackInv'
  BY <1>1, <1>2 DEF IInv, TypeOK, CreditInv, PlaceInv, CallbackInv, Sending, Sent, Coming, AtHand
<1> QED
  BY <1>2, <1>3, <1>4 DEF IInv

\* The callback of the command that is answered is the one that waits.
LEMMA AnsweredStep ==
    ASSUME IInv, Answered
    PROVE  IInv'
<1> USE DEF hostVars, queueVars, creditVars, senderVars, loopVars, serverVars
<1>1. /\ loop = "event" /\ event # Report /\ loop' = "callback"
      /\ UNCHANGED <<program, timer, queueVars, num_hci_commands, senderVars, event,
                     input_buffer, running, sent, serverVars>>
  BY DEF Answered
<1>2. Unread' = Unread
  BY <1>1 DEF Unread
<1>3. callback_queue = CallbackOf(event)
  BY <1>1 DEF IInv, CallbackInv
<1>4. callback_queue' = <<>> /\ follow_ups' \in Seq(Commands)
  <2>1. CASE event \in DOMAIN Then
    <3>1. callback_queue = <<event>> /\ callback_queue # <<>>
      BY <2>1, <1>3 DEF CallbackOf
    <3>2. Head(callback_queue) = event /\ Tail(callback_queue) = <<>>
      BY <3>1
    <3> QED
      BY <2>1, <3>1, <3>2, ClientAssumption DEF Answered
  <2>2. CASE event \notin DOMAIN Then
    BY <2>2, <1>3 DEF CallbackOf, Answered, IInv, TypeOK
  <2> QED
    BY <2>1, <2>2
<1>5. TypeOK'
  BY <1>1, <1>4 DEF IInv, TypeOK
<1>6. AtHand /\ AtHand'
  BY <1>1 DEF AtHand
<1>7. ~Sending /\ ~Sent /\ ~Coming /\ num_hci_commands = 0
  BY <1>6 DEF IInv, PlaceInv, CreditInv
<1>8. ~Sending' /\ ~Sent' /\ ~Coming'
  BY <1>1, <1>2, <1>7 DEF Sending, Sent, Coming
<1>9. CreditInv' /\ PlaceInv'
  BY <1>1, <1>2, <1>6, <1>7, <1>8 DEF IInv, PlaceInv, CreditInv
<1>10. CallbackInv'
  BY <1>1, <1>2, <1>4, <1>7, <1>8 DEF CallbackInv, Coming, Sending
<1> QED
  BY <1>2, <1>5, <1>9, <1>10 DEF IInv

\* handle_input takes the first event: an answer, which is then the only one and
\* at hand, or a report, and the answers behind it stay.
LEMMA TakeEventStep ==
    ASSUME IInv, TakeEvent
    PROVE  IInv'
<1> USE DEF hostVars, queueVars, creditVars, senderVars, loopVars, serverVars
<1> DEFINE s == Unread
           k == Len(input_buffer)
<1>1. /\ loop = "input" /\ loop' = "event" /\ k >= 3
      /\ event' = input_buffer[1].event
      /\ input_buffer' = SubSeq(input_buffer, 4, k)
      /\ UNCHANGED <<hostVars, queueVars, creditVars, senderVars, running, sent, serverVars>>
  BY DEF TakeEvent
<1>2. input_buffer \in Seq(EventPieces) /\ stream \in Seq(EventPieces) /\ k \in Nat
  BY DEF IInv, TypeOK
<1>3. /\ input_buffer' \in Seq(EventPieces) /\ Len(input_buffer') = k - 3
      /\ \A i \in 1 .. k - 3 : input_buffer'[i] = input_buffer[i + 3]
  <2> DEFINE b == SubSeq(input_buffer, 4, k)
  <2>1. b \in Seq(EventPieces)
    BY <1>1, <1>2
  <2>2. Len(b) = k - 3
    BY <1>1, <1>2, RestLength
  <2>3. \A i \in 1 .. k - 3 : b[i] = input_buffer[i + 3]
    BY <1>1, <1>2
  <2> QED
    BY <2>1, <2>2, <2>3, <1>1
<1>4. /\ s \in Seq(EventPieces) /\ Len(s) = k + Len(stream)
      /\ \A i \in 1 .. k + Len(stream) :
            s[i] = IF i <= k THEN input_buffer[i] ELSE stream[i - k]
  BY <1>2, ConcatProperties, Zenon DEF Unread
<1>5. /\ s' \in Seq(EventPieces) /\ Len(s') = (k - 3) + Len(stream)
      /\ \A i \in 1 .. (k - 3) + Len(stream) :
            s'[i] = IF i <= k - 3 THEN input_buffer'[i] ELSE stream[i - (k - 3)]
  <2>1. s' = input_buffer' \o stream
    BY <1>1 DEF Unread
  <2>2. PICK x \in Seq(EventPieces) : x = input_buffer'
    BY <1>3
  <2>3. /\ x \o stream \in Seq(EventPieces) /\ Len(x \o stream) = Len(x) + Len(stream)
        /\ \A i \in 1 .. Len(x) + Len(stream) :
              (x \o stream)[i] = IF i <= Len(x) THEN x[i] ELSE stream[i - Len(x)]
    BY <1>2, ConcatProperties, Zenon
  <2>4. s' = x \o stream /\ Len(x) = k - 3
    BY <2>1, <2>2, <1>3
  <2> HIDE DEF s, k
  <2>5. Len(s') = (k - 3) + Len(stream) /\ s' \in Seq(EventPieces)
    BY <2>3, <2>4
  <2>6. \A i \in 1 .. (k - 3) + Len(stream) :
            s'[i] = IF i <= k - 3 THEN x[i] ELSE stream[i - (k - 3)]
    BY <2>3, <2>4
  <2> QED
    BY <2>2, <2>5, <2>6
<1> HIDE DEF s
<1>6. Len(s) >= 3 /\ Len(s') = Len(s) - 3 /\ s[1] = input_buffer[1]
  BY <1>1, <1>2, <1>4, <1>5
<1>7. \A i \in 1 .. Len(s') : s'[i] = s[i + 3]
  <2> SUFFICES ASSUME NEW i \in 1 .. Len(s') PROVE s'[i] = s[i + 3]
    OBVIOUS
  <2>1. i \in 1 .. (k - 3) + Len(stream) /\ i + 3 \in 1 .. k + Len(stream) /\ Len(stream) \in Nat
    BY <1>2, <1>5
  <2>2. CASE i <= k - 3
    BY <2>1, <2>2, <1>2, <1>3, <1>4, <1>5
  <2>3. CASE ~(i <= k - 3)
    <3>1. ~(i + 3 <= k) /\ i - (k - 3) = (i + 3) - k
      BY <2>1, <2>3, <1>2
    <3> QED
      BY <2>1, <2>3, <3>1, <1>4, <1>5
  <2> QED
    BY <2>2, <2>3
<1>8. Whole(s)
  BY DEF IInv, s
<1>9. /\ Whole(s')
      /\ \A i \in AnswersIn(s) : i > 3 => i - 3 \in AnswersIn(s')
      /\ \A i \in AnswersIn(s') : i + 3 \in AnswersIn(s) /\ s'[i] = s[i + 3]
      /\ \A i \in AnswersIn(s) : i <= 3 => i = 3
      /\ s[3].event = s[1].event /\ s[3].piece = 3 /\ s[1].event \in Commands \cup {Report}
  BY <1>4, <1>5, <1>6, <1>7, <1>8, EventIsTaken
<1>10. event' = s[3].event /\ event' \in Commands \cup {Report}
  BY <1>1, <1>6, <1>9
<1>11. TypeOK'
  BY <1>1, <1>3, <1>10 DEF IInv, TypeOK
<1>12. (3 \in AnswersIn(s)) <=> event' # Report
  <2>1. 3 \in 1 .. Len(s)
    BY <1>4, <1>6
  <2> QED
    BY <2>1, <1>9, <1>10 DEF AnswersIn
<1>13. /\ \A i, j \in AnswersIn(s) : i = j
       /\ \A i \in AnswersIn(s) : callback_queue = CallbackOf(s[i].event)
  BY DEF IInv, PlaceInv, CallbackInv, s
<1>14. AnswersIn(s) \subseteq Int /\ \A i \in AnswersIn(s') : i \in Int /\ i > 0
  BY <1>4, <1>5 DEF AnswersIn
<1>15. ~AtHand /\ (Sending' <=> Sending) /\ (Sent' <=> Sent)
  BY <1>1 DEF AtHand, Sending, Sent
<1>16. (AtHand' <=> event' # Report) /\ (Coming <=> AnswersIn(s) # {}) /\ (Coming' <=> AnswersIn(s') # {})
  BY <1>1 DEF AtHand, Coming, s
<1>17. CASE event' # Report
  <2>1. AnswersIn(s') = {}
    <3> SUFFICES ASSUME NEW i \in AnswersIn(s') PROVE FALSE
      OBVIOUS
    <3>1. i + 3 = 3
      BY <1>9, <1>12, <1>13, <1>17
    <3> QED
      BY <3>1, <1>14
  <2>2. Coming /\ ~Coming' /\ AtHand'
    BY <2>1, <1>12, <1>16, <1>17
  <2>3. ~Sending /\ ~Sent /\ num_hci_commands = 0
    BY <2>2 DEF IInv, PlaceInv, CreditInv
  <2>4. CreditInv' /\ PlaceInv'
    BY <2>1, <2>2, <2>3, <1>1, <1>15 DEF IInv, PlaceInv, CreditInv, s
  <2>5. callback_queue' = CallbackOf(event')
    BY <1>1, <1>10, <1>12, <1>13, <1>17
  <2>6. CallbackInv'
    BY <2>1, <2>3, <2>5, <1>1, <1>15 DEF CallbackInv, s, Sending
  <2> QED
    BY <2>4, <2>6, <1>9, <1>11 DEF IInv, s
<1>18. CASE event' = Report
  <2>1. Coming <=> Coming'
    <3>1. ASSUME NEW i \in AnswersIn(s) PROVE i - 3 \in AnswersIn(s')
      <4>1. i # 3
        BY <1>12, <1>18
      <4>2. i > 3
        BY <4>1, <1>9, <1>14
      <4> QED
        BY <4>2, <1>9
    <3> QED
      BY <3>1, <1>9, <1>16
  <2>2. ASSUME NEW i \in AnswersIn(s'), NEW j \in AnswersIn(s') PROVE i = j
    <3>1. i + 3 = j + 3
      BY <1>9, <1>13
    <3> QED
      BY <3>1, <1>14
  <2>3. \A i \in AnswersIn(s') : callback_queue' = CallbackOf(s'[i].event)
    BY <1>1, <1>9, <1>13
  <2>4. CreditInv' /\ PlaceInv'
    BY <2>1, <2>2, <1>1, <1>15, <1>16, <1>18 DEF IInv, PlaceInv, CreditInv, s
  <2>5. CallbackInv'
    BY <2>3, <1>1, <1>15, <1>18 DEF IInv, CallbackInv, s, Sent
  <2> QED
    BY <2>4, <2>5, <1>9, <1>11 DEF IInv, s
<1> QED
  BY <1>17, <1>18

\* The server sends an event, which answers the command that was sent or none.
LEMMA ServerSteps ==
    ASSUME IInv, ServerAnswers \/ ServerReports
    PROVE  IInv'
<1> USE DEF hostVars, queueVars, creditVars, senderVars, loopVars, serverVars
<1> DEFINE e == IF ServerAnswers THEN sent[answered + 1] ELSE Report
           s == Unread
           m == Len(s) + 3
<1>1. input_buffer \in Seq(EventPieces) /\ stream \in Seq(EventPieces)
      /\ sent \in Seq(Commands) /\ answered \in 0 .. Len(sent)
  BY DEF IInv, TypeOK
<1>2. ServerAnswers => Sent /\ answered + 1 \in 1 .. Len(sent) /\ sent[answered + 1] \in Commands
  BY <1>1 DEF ServerAnswers, Sent
<1>3. e \in Commands \cup {Report} /\ (e # Report <=> ServerAnswers)
  BY <1>2, ClientAssumption
<1>4. /\ stream' = stream \o Pieces(e)
      /\ UNCHANGED <<hostVars, queueVars, creditVars, senderVars, loopVars, running, sent, connected>>
  BY DEF ServerAnswers, ServerReports
<1>5. /\ ServerAnswers => answered' = answered + 1 /\ reports' = reports
      /\ ~ServerAnswers => answered' = answered /\ reports' \in 0 .. MaxReports
  <2>1. ServerAnswers => answered' = answered + 1 /\ reports' = reports
    BY DEF ServerAnswers
  <2>2. ServerReports => answered' = answered /\ reports' = reports + 1 /\ reports < MaxReports
    BY DEF ServerReports
  <2>3. reports \in 0 .. MaxReports /\ MaxReports \in Nat
    BY ClientAssumption DEF IInv, TypeOK
  <2> QED
    BY <2>1, <2>2, <2>3
<1> HIDE DEF e
<1>6. Pieces(e) \in Seq(EventPieces)
  BY <1>3 DEF Pieces, EventPieces
<1>7. stream' \in Seq(EventPieces)
  BY <1>1, <1>4, <1>6
<1>8. s \in Seq(EventPieces) /\ s' = s \o Pieces(e)
  <2> DEFINE t == Pieces(e)
  <2>2. t \in Seq(EventPieces) /\ stream' = stream \o t /\ input_buffer' = input_buffer
    BY <1>4, <1>6
  <2> HIDE DEF t
  <2>1. Grouped(input_buffer, stream, t)
    BY <2>2, <1>1, Regrouped, Zenon
  <2>3. input_buffer \o (stream \o t) = (input_buffer \o stream) \o t
    BY <2>1, Zenon DEF Grouped
  <2>4. input_buffer \o stream \in Seq(EventPieces)
    BY <1>1
  <2> QED
    BY <2>2, <2>3, <2>4, Zenon DEF Unread, t
<1> HIDE DEF s
<1>9. Whole(s)
  BY DEF IInv, s
<1>10. /\ s' \in Seq(EventPieces) /\ Whole(s')
       /\ AnswersIn(s') = AnswersIn(s) \cup {i \in {m} : e # Report}
       /\ \A i \in AnswersIn(s) : s'[i] = s[i]
       /\ s'[m].event = e
  BY <1>3, <1>8, <1>9, EventIsAdded
<1> HIDE DEF m
<1>11. TypeOK'
  <2>1. answered' \in 0 .. Len(sent')
    BY <1>1, <1>2, <1>4, <1>5
  <2>2. reports' \in 0 .. MaxReports
    BY <1>5 DEF IInv, TypeOK
  <2> QED
    BY <2>1, <2>2, <1>4, <1>7 DEF IInv, TypeOK
<1>12. /\ (Coming <=> AnswersIn(s) # {}) /\ (Coming' <=> AnswersIn(s') # {})
       /\ (Sending' <=> Sending) /\ (AtHand' <=> AtHand)
  BY <1>4 DEF Coming, s, Sending, AtHand
<1>13. CASE ServerAnswers
  <2>1. Sent /\ ~Sending /\ ~Coming /\ ~AtHand /\ num_hci_commands = 0
    BY <1>2, <1>13 DEF IInv, PlaceInv, CreditInv
  <2>2. AnswersIn(s') = {m} /\ Coming'
    BY <2>1, <1>3, <1>10, <1>12, <1>13
  <2>3. ~Sent' /\ Len(sent') <= answered' + 1
    <3>1. Len(sent) <= answered + 1 /\ Len(sent) \in Nat
      BY <1>1 DEF IInv, PlaceInv
    <3> QED
      BY <3>1, <1>1, <1>4, <1>5, <1>13 DEF Sent
  <2>4. CreditInv' /\ PlaceInv'
    BY <2>1, <2>2, <2>3, <1>4, <1>12 DEF IInv, CreditInv, PlaceInv, s
  <2>5. callback_queue' = CallbackOf(s'[m].event)
    <3>1. callback_queue = CallbackOf(sent[answered + 1]) /\ e = sent[answered + 1]
      BY <2>1, <1>13 DEF IInv, CallbackInv, e
    <3> QED
      BY <3>1, <1>4, <1>10
  <2>6. CallbackInv'
    BY <2>1, <2>2, <2>3, <2>5, <1>4 DEF IInv, CallbackInv, s
  <2> QED
    BY <2>4, <2>6, <1>10, <1>11 DEF IInv, s
<1>14. CASE ~ServerAnswers
  <2>1. AnswersIn(s') = AnswersIn(s)
    BY <1>3, <1>10, <1>14
  <2>2. (Coming' <=> Coming) /\ (Sent' <=> Sent)
    BY <2>1, <1>4, <1>5, <1>12, <1>14 DEF Sent
  <2>3. CreditInv' /\ PlaceInv'
    BY <2>1, <2>2, <1>4, <1>5, <1>12, <1>14 DEF IInv, CreditInv, PlaceInv, s
  <2>4. CallbackInv'
    BY <2>1, <2>2, <1>4, <1>5, <1>10, <1>14 DEF IInv, CallbackInv, s
  <2> QED
    BY <2>3, <2>4, <1>10, <1>11 DEF IInv, s
<1> QED
  BY <1>13, <1>14
-----------------------------------------------------------------------------
\* Nothing is under way in the beginning.
LEMMA InvInit == Init => IInv
<1> SUFFICES ASSUME Init PROVE IInv
  OBVIOUS
<1> USE DEF Init
<1>1. Unread = <<>>
  BY DEF Unread
<1>2. TypeOK
  <2>1. command_queue \in [{0, 1} -> Seq(Entries)]
    OBVIOUS
  <2>2. program \in Seq(Entries) /\ timer \in Seq(Entries) /\ command \in Entries
    BY ClientAssumption DEF Entries
  <2>3. command_event \in BOOLEAN /\ running \in BOOLEAN /\ connected \in BOOLEAN
    BY Zenon
  <2>4. /\ callback_queue \in Seq(DOMAIN Then) /\ follow_ups \in Seq(Commands)
        /\ input_buffer \in Seq(EventPieces) /\ stream \in Seq(EventPieces)
        /\ sent \in Seq(Commands) /\ answered \in 0 .. Len(sent)
        /\ reports \in 0 .. MaxReports /\ num_hci_commands \in {0, 1}
    BY ClientAssumption
  <2> QED
    BY <2>1, <2>2, <2>3, <2>4 DEF TypeOK
<1>3. Whole(Unread) /\ AnswersIn(Unread) = {}
  BY <1>1 DEF Whole, AnswersIn
<1>4. CreditInv /\ PlaceInv /\ CallbackInv
  BY <1>3 DEF CreditInv, PlaceInv, CallbackInv, Sending, Sent, Coming, AtHand
<1> QED
  BY <1>2, <1>3, <1>4 DEF IInv

\* Every step preserves the invariant.
LEMMA InvNext == IInv /\ [Next]_vars => IInv'
<1> SUFFICES ASSUME IInv, [Next]_vars PROVE IInv'
  OBVIOUS
<1>1. CASE run
  <2>1. CASE MainQueues \/ Run \/ CallbackQueues
    BY <2>1, QueueSteps
  <2>2. ASSUME NEW n \in 1 .. Len(stream), Receive(n) PROVE IInv'
    BY <2>2, ReceiveStep
  <2>3. CASE HandleClose \/ Ended \/ NoMoreInput \/ Reported \/ Grant
    BY <2>3, LoopSteps
  <2>4. CASE TakeEvent
    BY <2>4, TakeEventStep
  <2>5. CASE Answered
    BY <2>5, AnsweredStep
  <2> QED
    BY <1>1, <2>1, <2>2, <2>3, <2>4, <2>5 DEF run
<1>2. CASE process_command_queue
  <2>1. CASE HasCredit \/ Wait \/ Debit \/ Register
    BY <2>1, SenderSteps
  <2>2. ASSUME NEW p \in {0, 1}, get(p) PROVE IInv'
    BY <2>2, GetStep
  <2>3. CASE SendAll
    BY <2>3, SendAllStep
  <2> QED
    BY <1>2, <2>1, <2>2, <2>3 DEF process_command_queue
<1>3. CASE TimerQueues
  BY <1>3, QueueSteps
<1>4. CASE ServerAnswers \/ ServerReports
  BY <1>4, ServerSteps
<1>5. CASE ServerLost
  BY <1>5, LoopSteps
<1>6. CASE UNCHANGED vars
  <2>1. Unread' = Unread
    BY <1>6 DEF vars, loopVars, serverVars, Unread
  <2> QED
    BY <2>1, <1>6 DEF vars, hostVars, queueVars, creditVars, senderVars, loopVars, serverVars,
       IInv, TypeOK, CreditInv, PlaceInv, CallbackInv, Sending, Sent, Coming, AtHand
<1> QED
  BY <1>1, <1>2, <1>3, <1>4, <1>5, <1>6 DEF Next

\* The invariant holds always.
THEOREM Invariance == Spec => []IInv
<1> QED
  BY InvInit, InvNext, PTL DEF Spec

\* Every variable has its type: among others the credit is 0 or 1, although two
\* threads change it without a lock.
THEOREM TypeCorrect == Spec => []TypeOK
<1>1. IInv => TypeOK
  BY DEF IInv
<1> QED
  BY <1>1, Invariance, PTL

\* At most one command is under way between the daemon thread's debit and the main
\* thread's grant, and as long as the connection holds the credit is spent exactly
\* as long as one is.
THEOREM OneAtATime == Spec => []OneCommandAtATime
<1>1. IInv => OneCommandAtATime
  <2> SUFFICES ASSUME IInv PROVE OneCommandAtATime
    OBVIOUS
  <2> DEFINE a == {<<"sending", i>> : i \in {j \in {1} : sender \in {"register", "sendall"}}}
             b == {<<"sent", i>> : i \in answered + 1 .. Len(sent)}
             c == {<<"coming", i>> : i \in AnswersIn(stream)}
             d == {<<"received", i>> : i \in AnswersIn(input_buffer)}
             e == {<<"at hand", i>> : i \in {j \in {1} :
                        loop = "callback" \/ (loop = "event" /\ event # Report)}}
             k == Len(input_buffer)
  <2>1. UnderWay = a \cup b \cup c \cup d \cup e
    BY DEF UnderWay
  <2>2. input_buffer \in Seq(EventPieces) /\ stream \in Seq(EventPieces) /\ k \in Nat
        /\ sent \in Seq(Commands) /\ answered \in 0 .. Len(sent) /\ num_hci_commands \in {0, 1}
    BY DEF IInv, TypeOK
  <2>3. /\ Unread \in Seq(EventPieces) /\ Len(Unread) = k + Len(stream)
        /\ \A i \in 1 .. k + Len(stream) :
              Unread[i] = IF i <= k THEN input_buffer[i] ELSE stream[i - k]
    BY <2>2, ConcatProperties, Zenon DEF Unread
  <2>4. \A i \in AnswersIn(input_buffer) : i \in AnswersIn(Unread) /\ i \in 1 .. k
    BY <2>2, <2>3 DEF AnswersIn
  <2>5. ASSUME NEW i \in AnswersIn(stream) PROVE k + i \in AnswersIn(Unread) /\ i \in Nat \ {0}
    <3>1. i \in 1 .. Len(stream) /\ Len(stream) \in Nat
      BY <2>2 DEF AnswersIn
    <3>2. k + i \in 1 .. k + Len(stream) /\ ~(k + i <= k) /\ (k + i) - k = i
      BY <3>1, <2>2
    <3>3. Unread[k + i] = stream[i]
      BY <3>2, <2>3
    <3> QED
      BY <3>1, <3>2, <3>3, <2>3 DEF AnswersIn
  <2>6. ASSUME NEW i \in AnswersIn(Unread)
        PROVE  i \in AnswersIn(input_buffer) \/ i - k \in AnswersIn(stream)
    <3>1. i \in 1 .. k + Len(stream) /\ Len(stream) \in Nat
      BY <2>2, <2>3 DEF AnswersIn
    <3>2. CASE i <= k
      BY <3>1, <3>2, <2>2, <2>3 DEF AnswersIn
    <3>3. CASE ~(i <= k)
      <4>1. i - k \in 1 .. Len(stream) /\ Unread[i] = stream[i - k]
        BY <3>1, <3>3, <2>2, <2>3
      <4> QED
        BY <4>1 DEF AnswersIn
    <3> QED
      BY <3>2, <3>3
  <2>7. (a # {} <=> Sending) /\ \A x, y \in a : x = y
    BY DEF Sending
  <2>8. (b # {} <=> Sent) /\ \A x, y \in b : x = y
    <3>1. Len(sent) <= answered + 1 /\ Len(sent) \in Nat
      BY <2>2 DEF IInv, PlaceInv
    <3>2. \A i \in answered + 1 .. Len(sent) : i = answered + 1
      BY <3>1, <2>2
    <3>3. Sent <=> answered + 1 \in answered + 1 .. Len(sent)
      BY <3>1, <2>2 DEF Sent
    <3> QED
      BY <3>2, <3>3
  <2>9. (e # {} <=> AtHand) /\ \A x, y \in e : x = y
    BY DEF AtHand
  <2>10. (c \cup d # {} <=> Coming) /\ \A x, y \in c \cup d : x = y
    <3>1. \A i, j \in AnswersIn(Unread) : i = j
      BY DEF IInv, PlaceInv
    <3>2. \A i, j \in AnswersIn(input_buffer) : i = j
      BY <3>1, <2>4
    <3>3. ASSUME NEW i \in AnswersIn(stream), NEW j \in AnswersIn(stream) PROVE i = j
      <4>1. k + i = k + j
        BY <3>1, <2>5
      <4> QED
        BY <4>1, <2>2, <2>5
    <3>4. ASSUME NEW i \in AnswersIn(stream), NEW j \in AnswersIn(input_buffer) PROVE FALSE
      <4>1. k + i = j
        BY <3>1, <2>4, <2>5
      <4> QED
        BY <4>1, <2>2, <2>4, <2>5
    <3>5. \A x, y \in c \cup d : x = y
      BY <3>2, <3>3, <3>4
    <3>6. c \cup d # {} <=> AnswersIn(stream) \cup AnswersIn(input_buffer) # {}
      OBVIOUS
    <3>7. AnswersIn(stream) \cup AnswersIn(input_buffer) # {} <=> AnswersIn(Unread) # {}
      BY <2>4, <2>5, <2>6
    <3> QED
      BY <3>5, <3>6, <3>7 DEF Coming
  <2> HIDE DEF a, b, c, d, e
  <2>11. /\ Sending => ~Sent /\ ~Coming /\ ~AtHand
         /\ Sent => ~Coming /\ ~AtHand
         /\ Coming => ~AtHand
    BY DEF IInv, PlaceInv
  <2>12. \A x, y \in UnderWay : x = y
    BY <2>1, <2>7, <2>8, <2>9, <2>10, <2>11
  <2>13. UnderWay # {} <=> Sending \/ Sent \/ Coming \/ AtHand
    BY <2>1, <2>7, <2>8, <2>9, <2>10
  <2>14. connected => (num_hci_commands = 0 <=> UnderWay # {})
    BY <2>13 DEF IInv, CreditInv
  <2> QED
    BY <2>12, <2>14 DEF OneCommandAtATime
<1> QED
  BY <1>1, Invariance, PTL

\* When an answer is taken from the stream, the callback at the head of the queue
\* is the one of the command it answers, and there is one if the command has one.
THEOREM CallbacksMatch == Spec => []CallbackGetsItsEvent
<1>1. IInv => CallbackGetsItsEvent
  <2> SUFFICES ASSUME IInv, loop = "event", event # Report
               PROVE  /\ callback_queue # <<>> => Head(callback_queue) = event
                      /\ event \in DOMAIN Then => callback_queue # <<>>
    BY DEF CallbackGetsItsEvent
  <2>1. callback_queue = CallbackOf(event)
    BY DEF IInv, CallbackInv
  <2> QED
    BY <2>1 DEF CallbackOf
<1> QED
  BY <1>1, Invariance, PTL
-----------------------------------------------------------------------------
(* What the threads queue, and in which order it is taken.                 *)

\* A command is sent and its callback has not been run.
Awaiting == num_hci_commands = 0 /\ ~Sending /\ loop # "callback"

\* Only callbacks queue urgently, only one of them runs, and what it queues
\* follows the command that was sent last.
ThreadInv ==
    /\ command_queue[1] \in Seq(Commands)
    /\ loop # "callback" => follow_ups = <<>>
    /\ loop # "program" => program = <<>>
    /\ connected /\ Awaiting => sent # <<>> /\ callback_queue = CallbackOf(sent[Len(sent)])

\* What the host has still to have taken, in its order.
Queued == (command_queue[0] \o program) \o timer

\* cm_done's entry is behind all else, and is taken when nothing is under way.
EndInv ==
    /\ \A i \in 1 .. Len(Queued) : Queued[i] = Done => i = Len(Queued)
    /\ ~running /\ connected =>
          /\ \A p \in {0, 1} : command_queue[p] = <<>>
          /\ program = <<>> /\ timer = <<>> /\ num_hci_commands = 1
          /\ sender \in {"check", "wait", "get"}

\* Not all that the callback of the i-th command queues is sent.
Owes(i) == sent[i] \in DOMAIN Then /\ Len(sent) < i + Len(Then[sent[i]])
Rest(i) == SubSeq(Then[sent[i]], Len(sent) - i + 1, Len(Then[sent[i]]))

\* The follow-ups between the callback that queues them and the socket.
Taken == IF sender \in {"debit", "register", "sendall"} THEN <<command>> ELSE <<>>
Left == (Taken \o command_queue[1]) \o follow_ups

\* What a command owes is what is left, in its order, once its callback runs;
\* until then, and when no command owes anything, nothing urgent is queued.
OwedInv ==
    /\ FollowUpsComeNext
    /\ connected =>
          /\ \A i \in 1 .. Len(sent) : Owes(i) =>
                IF Awaiting /\ i = Len(sent) THEN command_queue[1] = <<>> /\ follow_ups = <<>>
                ELSE Left = Rest(i)
          /\ (\A i \in 1 .. Len(sent) : ~Owes(i)) =>
                command_queue[1] = <<>> /\ follow_ups = <<>>

\* What the host queues holds cm_done's entry once, at its end, or not at all.
DoneIsQueuedLast ==
    \A i \in 1 .. Len(Program \o OnTimer) :
        (Program \o OnTimer)[i] = Done => i = Len(Program \o OnTimer)

\* A callback that has its commands followed up by further ones does so only for
\* the last of them, as in cm_got_actxp, whose commands have no callbacks.
FollowUpsChainLast ==
    \A c \in DOMAIN Then : \A j \in 1 .. Len(Then[c]) :
        j < Len(Then[c]) /\ Then[c][j] \in DOMAIN Then => Then[Then[c][j]] = <<>>
-----------------------------------------------------------------------------
(* Lemmas about sequences.                                                 *)

\* What one thread moves from the head of its sequence to the end of the queue
\* before it stays in its place.
LEMMA QueueingKeeps ==
    ASSUME NEW S, NEW q \in Seq(S), NEW f \in Seq(S), f # <<>>
    PROVE  Append(q, Head(f)) \o Tail(f) = q \o f
<1> DEFINE h == <<Head(f)>>
           r == Tail(f)
<1>1. h \in Seq(S) /\ r \in Seq(S) /\ f = h \o r
  <2>1. h \in Seq(S) /\ r \in Seq(S) /\ Len(h) = 1 /\ h[1] = f[1] /\ Len(f) \in Nat /\ Len(f) > 0
    OBVIOUS
  <2>2. Len(r) = Len(f) - 1 /\ \A i \in 1 .. Len(r) : r[i] = f[i + 1]
    OBVIOUS
  <2> HIDE DEF h, r
  <2>3. /\ h \o r \in Seq(S) /\ Len(h \o r) = Len(h) + Len(r)
        /\ \A i \in 1 .. Len(h) + Len(r) : (h \o r)[i] = IF i <= Len(h) THEN h[i] ELSE r[i - Len(h)]
    BY <2>1, ConcatProperties, Zenon
  <2>4. Len(h \o r) = Len(f)
    BY <2>1, <2>2, <2>3
  <2>5. \A i \in 1 .. Len(f) : (h \o r)[i] = f[i]
    BY <2>1, <2>2, <2>3
  <2> QED
    BY <2>1, <2>3, <2>4, <2>5, SeqEqual
<1>2. Append(q, Head(f)) = q \o h
  OBVIOUS
<1> HIDE DEF h, r
<1>3. Grouped(q, h, r)
  BY <1>1, Regrouped, Zenon
<1> QED
  BY <1>1, <1>2, <1>3, Zenon DEF r, Grouped

\* The first of what is left is the next of the follow-ups.
LEMMA FirstOfRest ==
    ASSUME NEW S, NEW t \in Seq(S), NEW q \in Seq(S), NEW c \in S, NEW k \in Nat, k < Len(t),
           <<c>> \o q = SubSeq(t, k + 1, Len(t))
    PROVE  /\ c = t[k + 1]
           /\ q = SubSeq(t, k + 2, Len(t))
           /\ k + 1 = Len(t) => q = <<>>
<1> DEFINE r == SubSeq(t, k + 1, Len(t))
           u == SubSeq(t, k + 2, Len(t))
           h == <<c>>
           n == Len(t)
<1>1. n \in Nat /\ k + 1 \in 1 .. n
  OBVIOUS
<1>2. r \in Seq(S) /\ Len(r) = n - k /\ \A i \in 1 .. n - k : r[i] = t[k + i]
  OBVIOUS
<1>3. u \in Seq(S) /\ Len(u) = (n - k) - 1 /\ \A i \in 1 .. (n - k) - 1 : u[i] = t[k + 1 + i]
  OBVIOUS
<1>4. h \in Seq(S) /\ Len(h) = 1 /\ h[1] = c
  OBVIOUS
<1>5. Len(q) \in Nat
  OBVIOUS
<1> HIDE DEF r, u, h, n
<1>6. /\ Len(h \o q) = Len(h) + Len(q)
      /\ \A i \in 1 .. Len(h) + Len(q) : (h \o q)[i] = IF i <= Len(h) THEN h[i] ELSE q[i - Len(h)]
  BY <1>4, ConcatProperties, Zenon
<1>7. h \o q = r
  BY DEF h, r
<1>8. Len(q) = (n - k) - 1
  <2>1. n - k = 1 + Len(q)
    BY <1>2, <1>4, <1>6, <1>7, Zenon
  <2> QED
    BY <2>1, <1>1, <1>5
<1>9. r[1] = c
  BY <1>4, <1>5, <1>6, <1>7
<1>10. \A i \in 1 .. Len(q) : q[i] = r[i + 1]
  BY <1>4, <1>5, <1>6, <1>7
<1>11. c = t[k + 1]
  BY <1>1, <1>2, <1>9
<1>12. \A i \in 1 .. Len(q) : q[i] = u[i]
  BY <1>1, <1>2, <1>3, <1>8, <1>10
<1>13. q = u
  BY <1>3, <1>8, <1>12, SeqEqual
<1>14. k + 1 = n => q = <<>>
  BY <1>1, <1>5, <1>8
<1> QED
  BY <1>11, <1>13, <1>14 DEF u, n
-----------------------------------------------------------------------------
(* The threads keep to their queues.                                       *)

\* Every step preserves ThreadInv.
LEMMA ThreadNext ==
    ASSUME IInv, ThreadInv, [Next]_vars
    PROVE  ThreadInv'
<1> USE DEF hostVars, queueVars, creditVars, senderVars, loopVars, serverVars
<1>1. /\ command_queue \in [{0, 1} -> Seq(Entries)] /\ follow_ups \in Seq(Commands)
      /\ sent \in Seq(Commands) /\ callback_queue \in Seq(DOMAIN Then)
      /\ num_hci_commands \in {0, 1}
  BY DEF IInv, TypeOK
<1>2. /\ sender \in {"get", "debit"} => num_hci_commands = 1
      /\ Sending \/ AtHand => num_hci_commands = 0
      /\ AtHand => ~Sending
  BY DEF IInv, CreditInv, PlaceInv
<1>3. CASE MainQueues \/ TimerQueues
  <2>1. /\ UNCHANGED <<follow_ups, creditVars, senderVars, loopVars, running, sent, serverVars>>
        /\ loop # "program" => UNCHANGED program
        /\ \E e : command_queue' = [command_queue EXCEPT ![0] = Append(@, e)]
    BY <1>3 DEF MainQueues, TimerQueues, Queue, put
  <2>2. command_queue'[1] = command_queue[1]
    BY <2>1, <1>1
  <2> QED
    BY <2>1, <2>2 DEF ThreadInv, Awaiting, Sending
<1>4. CASE CallbackQueues
  <2>1. /\ loop = "callback" /\ Head(follow_ups) \in Commands
        /\ UNCHANGED <<program, creditVars, senderVars, loopVars, running, sent, serverVars>>
        /\ command_queue' = [command_queue EXCEPT ![1] = Append(@, Head(follow_ups))]
    BY <1>1, <1>4 DEF CallbackQueues, Queue, put
  <2>2. command_queue'[1] \in Seq(Commands)
    BY <2>1, <1>1 DEF ThreadInv
  <2> QED
    BY <2>1, <2>2 DEF ThreadInv, Awaiting, Sending
<1>5. CASE Run
  BY <1>5 DEF ThreadInv, Awaiting, Sending, Run
<1>6. ASSUME NEW n \in 1 .. Len(stream), Receive(n) PROVE ThreadInv'
  BY <1>6 DEF ThreadInv, Awaiting, Sending, Receive
<1>7. CASE HandleClose \/ Ended \/ TakeEvent \/ NoMoreInput \/ Reported
  BY <1>7 DEF ThreadInv, Awaiting, Sending, HandleClose, Ended, TakeEvent, NoMoreInput, Reported
<1>8. CASE Answered
  BY <1>8 DEF ThreadInv, Awaiting, Sending, Answered
<1>9. CASE Grant
  BY <1>9 DEF ThreadInv, Awaiting, Sending, Grant
<1>10. CASE HasCredit \/ Wait
  BY <1>10 DEF ThreadInv, Awaiting, Sending, HasCredit, Wait, SenderAt
<1>11. ASSUME NEW p \in {0, 1}, get(p) PROVE ThreadInv'
  <2>1. /\ sender = "get" /\ sender' \in {"check", "debit"} /\ command_queue[p] # <<>>
        /\ UNCHANGED <<hostVars, command_event, creditVars, loopVars, sent, serverVars>>
        /\ command_queue' = [command_queue EXCEPT ![p] = Tail(@)]
    BY <1>11 DEF get, SenderAt, First
  <2>2. command_queue'[1] \in Seq(Commands)
    <3>1. CASE p = 1
      <4>1. command_queue[1] \in Seq(Commands) /\ command_queue[1] # <<>>
        BY <2>1, <3>1 DEF ThreadInv
      <4>2. Tail(command_queue[1]) \in Seq(Commands)
        BY <4>1
      <4> QED
        BY <4>2, <3>1, <2>1, <1>1
    <3>2. CASE p = 0
      BY <3>2, <2>1, <1>1 DEF ThreadInv
    <3> QED
      BY <3>1, <3>2
  <2>3. ~Awaiting'
    BY <2>1, <1>2 DEF Awaiting
  <2> QED
    BY <2>1, <2>2, <2>3 DEF ThreadInv
<1>12. CASE Debit
  BY <1>12 DEF ThreadInv, Awaiting, Sending, Debit, SenderAt
<1>13. CASE Register
  BY <1>13 DEF ThreadInv, Awaiting, Sending, Register, SenderAt
<1>14. CASE SendAll
  <2>1. /\ sender = "sendall" /\ UNCHANGED <<hostVars, queueVars, creditVars, loopVars, serverVars>>
        /\ connected => sent' = Append(sent, command)
        /\ command \in Commands /\ callback_queue = CallbackOf(command)
    BY <1>14 DEF SendAll, SenderAt, IInv, PlaceInv, CallbackInv
  <2>2. ASSUME connected PROVE sent' # <<>> /\ sent'[Len(sent')] = command
    BY <2>1, <2>2, <1>1
  <2> QED
    BY <2>1, <2>2 DEF ThreadInv, CallbackOf
<1>15. CASE ServerAnswers \/ ServerReports \/ ServerLost
  BY <1>15 DEF ThreadInv, Awaiting, Sending, ServerAnswers, ServerReports, ServerLost
<1>16. CASE UNCHANGED vars
  BY <1>16 DEF ThreadInv, Awaiting, Sending, vars
<1> QED
  BY <1>3, <1>4, <1>5, <1>6, <1>7, <1>8, <1>9, <1>10, <1>11, <1>12, <1>13, <1>14, <1>15, <1>16
     DEF Next, run, process_command_queue

\* What is left of three sequences when the head of the first is taken.
LEMMA TakingFirst ==
    ASSUME NEW S, NEW s \in Seq(S), NEW t \in Seq(S), NEW u \in Seq(S), s # <<>>
    PROVE  LET w == (s \o t) \o u
               v == (Tail(s) \o t) \o u
           IN  /\ Len(v) \in Nat /\ Len(w) = Len(v) + 1
               /\ w[1] = Head(s)
               /\ \A i \in 1 .. Len(v) : v[i] = w[i + 1]
               /\ Len(v) = 0 => Tail(s) = <<>> /\ t = <<>> /\ u = <<>>
<1> DEFINE r == Tail(s)
           h == <<Head(s)>>
           v == (r \o t) \o u
           w == (s \o t) \o u
<1>1. r \in Seq(S) /\ h \in Seq(S) /\ Len(h) = 1 /\ h[1] = Head(s)
  OBVIOUS
<1>2. <<>> \in Seq(S) /\ <<>> \o s = s /\ Append(<<>>, Head(s)) = h
  BY ConcatEmptySeq
<1>3. h \o r = s
  BY <1>2, QueueingKeeps
<1> HIDE DEF r, h
<1>5. r \o t \in Seq(S) /\ v \in Seq(S)
  BY <1>1
<1>6. w = h \o v
  <2>1. Grouped(h, r, t)
    BY <1>1, Regrouped, Zenon
  <2>2. Grouped(h, r \o t, u)
    BY <1>1, <1>5, Regrouped, Zenon
  <2> QED
    BY <1>3, <2>1, <2>2, Zenon DEF Grouped
<1>7. Len(r \o t) = Len(r) + Len(t) /\ Len(v) = Len(r \o t) + Len(u)
  BY <1>1, <1>5, ConcatProperties, Zenon
<1> HIDE DEF v, w
<1>8. /\ Len(h \o v) = Len(h) + Len(v)
      /\ \A i \in 1 .. Len(h) + Len(v) : (h \o v)[i] = IF i <= Len(h) THEN h[i] ELSE v[i - Len(h)]
  BY <1>1, <1>5, ConcatProperties, Zenon
<1>9. Len(v) \in Nat /\ Len(r) \in Nat /\ Len(t) \in Nat /\ Len(u) \in Nat
  BY <1>1, <1>5
<1>10. Len(w) = 1 + Len(v) /\ w[1] = Head(s)
  BY <1>1, <1>6, <1>8, <1>9
<1>11. \A i \in 1 .. Len(v) : v[i] = w[i + 1]
  BY <1>1, <1>6, <1>8, <1>9
<1>12. Len(v) = 0 => Len(r) = 0 /\ Len(t) = 0 /\ Len(u) = 0
  <2>1. Len(v) = (Len(r) + Len(t)) + Len(u)
    BY <1>7, Zenon
  <2>2. \A i, j, k \in Nat : (i + j) + k = 0 => i = 0 /\ j = 0 /\ k = 0
    OBVIOUS
  <2> QED
    BY <2>1, <2>2, <1>9, Zenon
<1>13. Len(v) = 0 => r = <<>> /\ t = <<>> /\ u = <<>>
  BY <1>1, <1>12
<1> QED
  BY <1>9, <1>10, <1>11, <1>13 DEF v, w, r

\* What the host has still to have taken changes only when something is taken.
LEMMA QueuedKeeps ==
    ASSUME IInv, ThreadInv, MainQueues \/ TimerQueues
    PROVE  Queued' = Queued
<1> USE DEF hostVars
<1>1. /\ command_queue \in [{0, 1} -> Seq(Entries)] /\ command_queue[0] \in Seq(Entries)
      /\ program \in Seq(Entries) /\ timer \in Seq(Entries)
  BY DEF IInv, TypeOK
<1>2. CASE MainQueues
  <2>1. /\ program # <<>> /\ program' = Tail(program) /\ timer' = timer
        /\ command_queue' = [command_queue EXCEPT ![0] = Append(@, Head(program))]
    BY <1>2 DEF MainQueues, Queue, put
  <2>2. command_queue'[0] = Append(command_queue[0], Head(program))
    BY <2>1, <1>1
  <2>3. command_queue'[0] \o program' = command_queue[0] \o program
    BY <2>1, <2>2, <1>1, QueueingKeeps
  <2> QED
    BY <2>1, <2>3 DEF Queued
<1>3. CASE TimerQueues
  <2>1. /\ timer # <<>> /\ timer' = Tail(timer) /\ program' = program /\ program = <<>>
        /\ command_queue' = [command_queue EXCEPT ![0] = Append(@, Head(timer))]
    BY <1>3 DEF TimerQueues, Queue, put, ThreadInv
  <2>2. command_queue'[0] = Append(command_queue[0], Head(timer))
    BY <2>1, <1>1
  <2>3. command_queue'[0] \o timer' = command_queue[0] \o timer
    BY <2>1, <2>2, <1>1, QueueingKeeps
  <2>4. Append(command_queue[0], Head(timer)) \in Seq(Entries)
    BY <2>1, <1>1
  <2>5. command_queue[0] \o program = command_queue[0]
        /\ Append(command_queue[0], Head(timer)) \o <<>> = Append(command_queue[0], Head(timer))
    BY <2>1, <2>4, <1>1, ConcatEmptySeq
  <2> QED
    BY <2>1, <2>2, <2>3, <2>5 DEF Queued
<1> QED
  BY <1>2, <1>3

\* Every step preserves EndInv.
LEMMA EndNext ==
    ASSUME IInv, ThreadInv, EndInv, [Next]_vars
    PROVE  EndInv'
<1> USE DEF hostVars, queueVars, creditVars, senderVars, loopVars, serverVars
<1> DEFINE Last == \A i \in 1 .. Len(Queued) : Queued[i] = Done => i = Len(Queued)
           Over == ~running /\ connected
           Ended1 == /\ \A p \in {0, 1} : command_queue[p] = <<>>
                     /\ program = <<>> /\ timer = <<>> /\ num_hci_commands = 1
                     /\ sender \in {"check", "wait", "get"}
<1>1. EndInv <=> Last /\ (Over => Ended1)
  BY DEF EndInv
<1>2. EndInv' <=> Last' /\ (Over' => Ended1')
  BY DEF EndInv
<1>3. /\ command_queue \in [{0, 1} -> Seq(Entries)] /\ command_queue[0] \in Seq(Entries)
      /\ program \in Seq(Entries) /\ timer \in Seq(Entries)
      /\ (AtHand => num_hci_commands = 0)
      /\ sender \in {"get", "debit"} => num_hci_commands = 1
  BY DEF IInv, TypeOK, CreditInv
<1>4. ASSUME UNCHANGED <<program, timer, command_queue>> PROVE Last'
  <2>1. Queued' = Queued
    BY <1>4 DEF Queued
  <2> QED
    BY <2>1, <1>1
<1>5. CASE MainQueues \/ TimerQueues
  <2>1. Last'
    BY <1>5, <1>1, QueuedKeeps
  <2>2. ~Over /\ (Over' <=> Over)
    BY <1>5, <1>1 DEF MainQueues, TimerQueues
  <2> QED
    BY <2>1, <2>2, <1>2
<1>6. CASE CallbackQueues
  <2>1. command_queue'[0] = command_queue[0] /\ UNCHANGED <<program, timer, running, connected>>
    BY <1>3, <1>6 DEF CallbackQueues, Queue, put
  <2>2. Queued' = Queued
    BY <2>1 DEF Queued
  <2>3. ~Over
    BY <1>1, <1>3, <1>6 DEF CallbackQueues, AtHand
  <2> QED
    BY <2>1, <2>2, <2>3, <1>1, <1>2
<1>7. CASE Run \/ Ended \/ TakeEvent \/ NoMoreInput \/ Reported \/ HasCredit \/ Wait
           \/ ServerAnswers \/ ServerReports \/ ServerLost \/ UNCHANGED vars
  <2>1. /\ UNCHANGED <<program, timer, command_queue, running, num_hci_commands>>
        /\ connected' => connected
        /\ sender' = sender \/ sender' \in {"check", "wait", "get"}
    BY <1>7 DEF Run, Ended, TakeEvent, NoMoreInput, Reported, HasCredit, Wait, SenderAt,
       ServerAnswers, ServerReports, ServerLost, vars
  <2> QED
    BY <2>1, <1>1, <1>2, <1>4
<1>8. CASE \/ HandleClose \/ Answered \/ Grant \/ Debit \/ Register \/ SendAll
           \/ \E n \in 1 .. Len(stream) : Receive(n)
  <2>1. UNCHANGED <<program, timer, command_queue, connected>>
    BY <1>8 DEF HandleClose, Answered, Grant, Debit, Register, SendAll, Receive
  <2>2. ~Over'
    <3>1. CASE HandleClose
      BY <3>1 DEF HandleClose
    <3>2. CASE Answered \/ Grant \/ \E n \in 1 .. Len(stream) : Receive(n)
      <4>1. running' = running /\ (AtHand \/ running)
        BY <3>2 DEF Answered, Grant, Receive, AtHand
      <4> QED
        BY <4>1, <2>1, <1>1, <1>3
    <3>3. CASE Debit \/ Register \/ SendAll
      <4>1. running' = running /\ sender \notin {"check", "wait", "get"}
        BY <3>3 DEF Debit, Register, SendAll, SenderAt
      <4> QED
        BY <4>1, <2>1, <1>1
    <3> QED
      BY <3>1, <3>2, <3>3, <1>8
  <2> QED
    BY <2>1, <2>2, <1>2, <1>4
<1>9. ASSUME NEW p \in {0, 1}, get(p) PROVE EndInv'
  <2> DEFINE q == command_queue[p]
  <2>1. /\ q # <<>> /\ sender = "get" /\ num_hci_commands = 1
        /\ command_queue' = [command_queue EXCEPT ![p] = Tail(q)]
        /\ p = 0 => command_queue[1] = <<>>
        /\ UNCHANGED <<hostVars, command_event, creditVars, loopVars, sent, serverVars>>
        /\ \/ Head(q) = Done /\ sender' = "check"
           \/ running' = running
    BY <1>3, <1>9 DEF get, SenderAt, First
  <2>2. running \/ ~connected
    BY <2>1, <1>1
  <2>3. CASE p = 1
    <3>1. command_queue'[0] = command_queue[0]
      BY <2>1, <2>3, <1>3
    <3>2. Queued' = Queued
      BY <2>1, <3>1 DEF Queued
    <3>3. Head(q) # Done
      <4>1. q \in Seq(Commands) /\ q # <<>>
        BY <2>1, <2>3 DEF ThreadInv
      <4>2. Head(q) \in Commands
        BY <4>1
      <4> QED
        BY <4>2 DEF Commands
    <3> QED
      BY <2>1, <2>2, <3>2, <3>3, <1>1, <1>2
  <2>4. CASE p = 0
    <3>1. command_queue'[0] = Tail(q) /\ command_queue'[1] = <<>>
      BY <2>1, <2>4, <1>3
    <3>2. q \in Seq(Entries)
      BY <2>4, <1>3
    <3>3. /\ Len(Queued') \in Nat /\ Len(Queued) = Len(Queued') + 1
          /\ Queued[1] = Head(q)
          /\ \A i \in 1 .. Len(Queued') : Queued'[i] = Queued[i + 1]
          /\ Len(Queued') = 0 => Tail(q) = <<>> /\ program = <<>> /\ timer = <<>>
      <4>1. Queued' = (Tail(q) \o program) \o timer /\ Queued = (q \o program) \o timer
        BY <2>1, <2>4, <3>1 DEF Queued
      <4> HIDE DEF q
      <4>2. /\ Len((Tail(q) \o program) \o timer) \in Nat
            /\ Len((q \o program) \o timer) = Len((Tail(q) \o program) \o timer) + 1
            /\ ((q \o program) \o timer)[1] = Head(q)
            /\ \A i \in 1 .. Len((Tail(q) \o program) \o timer) :
                  ((Tail(q) \o program) \o timer)[i] = ((q \o program) \o timer)[i + 1]
            /\ Len((Tail(q) \o program) \o timer) = 0 =>
                  Tail(q) = <<>> /\ program = <<>> /\ timer = <<>>
        <5>1. q # <<>> /\ q \in Seq(Entries) /\ program \in Seq(Entries) /\ timer \in Seq(Entries)
          BY <2>1, <3>2, <1>3
        <5> QED
          BY <5>1, TakingFirst, SMTT(90)
      <4> QED
        BY <4>1, <4>2, Zenon
    <3> HIDE DEF q
    <3>4. Last'
      <4> SUFFICES ASSUME NEW i \in 1 .. Len(Queued'), Queued'[i] = Done PROVE i = Len(Queued')
        BY Zenon
      <4>1. i + 1 \in 1 .. Len(Queued) /\ Queued[i + 1] = Done
        BY <3>3
      <4>2. i + 1 = Len(Queued)
        BY <4>1, <1>1
      <4> QED
        BY <4>2, <3>3
    <3>5. ASSUME Head(q) = Done PROVE Ended1'
      <4>1. 1 \in 1 .. Len(Queued)
        BY <3>3
      <4>2. Len(Queued) = 1
        BY <4>1, <3>3, <3>5, <1>1
      <4>3. Len(Queued') = 0
        <5>1. Len(Queued') \in Nat /\ Len(Queued') + 1 = 1
          BY <4>2, <3>3, Zenon
        <5> QED
          BY <5>1
      <4>4. Tail(q) = <<>> /\ program = <<>> /\ timer = <<>>
        BY <4>3, <3>3
      <4>5. sender' \in {"check", "wait", "get"} /\ num_hci_commands' = 1
        BY <2>1, <3>5, <1>9 DEF get, q
      <4> QED
        BY <4>4, <4>5, <2>1, <3>1
    <3> QED
      BY <2>1, <2>2, <3>4, <3>5, <1>2
  <2> QED
    BY <2>3, <2>4
<1> HIDE DEF Last, Over, Ended1
<1> QED
  BY <1>5, <1>6, <1>7, <1>8, <1>9 DEF Next, run, process_command_queue
-----------------------------------------------------------------------------
(* What a callback queues comes next.                                      *)

\* At most one command has follow-ups that are not sent.
LEMMA OneOwes ==
    ASSUME IInv, FollowUpsComeNext, FollowUpsChainLast,
           NEW i \in 1 .. Len(sent), NEW k \in 1 .. Len(sent), Owes(i), Owes(k)
    PROVE  i = k
<1>1. ASSUME NEW a \in 1 .. Len(sent), NEW b \in 1 .. Len(sent), Owes(a), Owes(b), a < b
      PROVE  FALSE
  <2> DEFINE t == Then[sent[a]]
             j == b - a
  <2>1. sent \in Seq(Commands) /\ t \in Seq(Commands) /\ sent[a] \in DOMAIN Then
        /\ sent[b] \in DOMAIN Then
    BY <1>1, ClientAssumption DEF IInv, TypeOK, Owes
  <2>2. Len(sent) \in Nat /\ Len(t) \in Nat
    BY <2>1
  <2>3. Len(sent) < a + Len(t) /\ Len(sent) < b + Len(Then[sent[b]])
    BY <1>1 DEF Owes
  <2> HIDE DEF t
  <2>4. j \in 1 .. Len(t) /\ j < Len(t) /\ a + j = b
    BY <1>1, <2>2, <2>3
  <2>5. sent[b] = t[j]
    <3>1. \A m \in 1 .. Len(t) : a + m <= Len(sent) => sent[a + m] = t[m]
      BY <2>1, Zenon DEF FollowUpsComeNext, t
    <3>2. a + j <= Len(sent)
      BY <2>4, <2>2
    <3> HIDE DEF j
    <3> QED
      BY <3>1, <3>2, <2>4
  <2>6. Then[t[j]] = <<>>
    BY <2>1, <2>4, <2>5 DEF FollowUpsChainLast, t
  <2>7. Len(Then[sent[b]]) = 0
    BY <2>5, <2>6
  <2> QED
    BY <2>2, <2>3, <2>7
<1>2. i \in Int /\ k \in Int
  OBVIOUS
<1> QED
  BY <1>1, <1>2

\* A step that moves no follow-up.
LEMMA OwedSame ==
    ASSUME OwedInv, sent' = sent, command_queue'[1] = command_queue[1],
           follow_ups' = follow_ups, Taken' = Taken,
           connected' => connected /\ (Awaiting' <=> Awaiting)
    PROVE  OwedInv'
<1>1. Left' = Left /\ \A i : Rest(i)' = Rest(i) /\ (Owes(i)' <=> Owes(i))
  BY DEF Left, Rest, Owes
<1>2. FollowUpsComeNext'
  BY DEF OwedInv, FollowUpsComeNext
<1> QED
  BY <1>1, <1>2 DEF OwedInv

\* What is left is a sequence of commands.
LEMMA LeftType ==
    ASSUME IInv, ThreadInv
    PROVE  /\ Taken \in Seq(Commands) /\ command_queue[1] \in Seq(Commands)
           /\ follow_ups \in Seq(Commands)
           /\ \A q \in Seq(Commands) : <<>> \o q = q /\ q \o <<>> = q
           /\ \A i \in 1 .. Len(sent) : Owes(i) =>
                 Then[sent[i]] \in Seq(Commands) /\ Rest(i) \in Seq(Commands) /\ Rest(i) # <<>>
<1>1. Taken \in Seq(Commands)
  BY DEF Taken, IInv, PlaceInv
<1>2. \A q \in Seq(Commands) : <<>> \o q = q /\ q \o <<>> = q
  BY ConcatEmptySeq
<1>3. ASSUME NEW i \in 1 .. Len(sent), Owes(i)
      PROVE  Then[sent[i]] \in Seq(Commands) /\ Rest(i) \in Seq(Commands) /\ Rest(i) # <<>>
  <2> DEFINE t == Then[sent[i]]
  <2>1. t \in Seq(Commands) /\ sent \in Seq(Commands) /\ Len(sent) < i + Len(t)
    BY <1>3, ClientAssumption DEF Owes, IInv, TypeOK
  <2>2. Len(sent) \in Nat /\ Len(t) \in Nat
    BY <2>1
  <2> HIDE DEF t
  <2>3. Len(sent) - i + 1 \in 1 .. Len(t)
    BY <2>1, <2>2
  <2>4. \A m \in 1 .. Len(t) : SubSeq(t, m, Len(t)) \in Seq(Commands) /\ SubSeq(t, m, Len(t)) # <<>>
    <3> SUFFICES ASSUME NEW m \in 1 .. Len(t)
                 PROVE  SubSeq(t, m, Len(t)) \in Seq(Commands) /\ SubSeq(t, m, Len(t)) # <<>>
      OBVIOUS
    <3>1. SubSeq(t, m, Len(t)) \in Seq(Commands)
      BY <2>1, <2>2
    <3>2. Len(SubSeq(t, m, Len(t))) = Len(t) - m + 1
      BY <2>1, <2>2
    <3>3. Len(<<>>) = 0 /\ Len(t) - m + 1 # 0
      BY <2>2
    <3> QED
      BY <3>1, <3>2, <3>3, Zenon
  <2> QED
    BY <2>1, <2>3, <2>4 DEF Rest, t
<1> QED
  BY <1>1, <1>2, <1>3 DEF IInv, TypeOK, ThreadInv

\* The daemon thread takes an entry: what is left first, if anything is.
LEMMA OwedGet ==
    ASSUME IInv, ThreadInv, OwedInv, NEW p \in {0, 1}, get(p)
    PROVE  OwedInv'
<1> USE DEF hostVars, queueVars, creditVars, senderVars, loopVars, serverVars
<1> DEFINE q == command_queue[p]
<1>1. /\ q # <<>> /\ sender = "get"
      /\ command_queue' = [command_queue EXCEPT ![p] = Tail(q)]
      /\ p = 0 => command_queue[1] = <<>>
      /\ UNCHANGED <<follow_ups, num_hci_commands, loop, sent, connected>>
      /\ \/ Head(q) = Done /\ sender' = "check"
         \/ Head(q) # Done /\ sender' = "debit" /\ command' = Head(q)
  BY DEF get, SenderAt, First
<1>2. num_hci_commands = 1 /\ loop # "callback" /\ follow_ups = <<>>
  BY <1>1 DEF IInv, CreditInv, AtHand, ThreadInv
<1>3. ~Awaiting /\ ~Awaiting' /\ Taken = <<>> /\ command_queue \in [{0, 1} -> Seq(Entries)]
  BY <1>1, <1>2 DEF Awaiting, Taken, IInv, TypeOK
<1>4. \A i : Rest(i)' = Rest(i) /\ (Owes(i)' <=> Owes(i))
  BY <1>1 DEF Rest, Owes
<1>5. FollowUpsComeNext'
  BY <1>1 DEF OwedInv, FollowUpsComeNext
<1>6. CASE p = 0
  <2>1. command_queue[1] = <<>> /\ command_queue'[1] = <<>> /\ follow_ups' = <<>>
    BY <1>1, <1>2, <1>3, <1>6
  <2>2. ASSUME connected, NEW i \in 1 .. Len(sent), Owes(i) PROVE FALSE
    <3>1. Left = Rest(i)
      BY <2>2, <1>3 DEF OwedInv
    <3>2. Left = <<>>
      BY <2>1, <1>2, <1>3 DEF Left
    <3> QED
      BY <3>1, <3>2, <2>2, LeftType
  <2> QED
    BY <2>1, <2>2, <1>1, <1>4, <1>5 DEF OwedInv
<1>7. CASE p = 1
  <2>1. q \in Seq(Commands) /\ Head(q) \in Commands /\ Tail(q) \in Seq(Commands)
    <3>1. q \in Seq(Commands)
      BY <1>7, LeftType
    <3> QED
      BY <3>1, <1>1
  <2>2. Head(q) # Done
    BY <2>1 DEF Commands
  <2>3. command_queue'[1] = Tail(q)
    BY <1>1, <1>3, <1>7
  <2>4. Left = q
    BY <2>1, <1>2, <1>3, <1>7, LeftType DEF Left
  <2>5. Left' = q
    <3>1. Taken' = <<Head(q)>> /\ follow_ups' = <<>>
      BY <2>2, <1>1, <1>2 DEF Taken
    <3>2. <<Head(q)>> \o Tail(q) = q
      <4>1. Append(<<>>, Head(q)) \o Tail(q) = <<>> \o q
        BY <2>1, <1>1, QueueingKeeps
      <4>2. Append(<<>>, Head(q)) = <<Head(q)>>
        OBVIOUS
      <4>3. <<>> \o q = q
        BY <2>1, LeftType
      <4> QED
        BY <4>1, <4>2, <4>3
    <3>3. Left' = q \o <<>>
      BY <3>1, <3>2, <2>3 DEF Left
    <3> QED
      BY <3>3, <2>1, LeftType
  <2>6. connected => ~(\A i \in 1 .. Len(sent) : ~Owes(i))
    BY <1>1, <1>7 DEF OwedInv
  <2> HIDE DEF q
  <2> QED
    BY <2>4, <2>5, <2>6, <1>1, <1>3, <1>4, <1>5 DEF OwedInv
<1> QED
  BY <1>6, <1>7

\* A callback queues the next of its commands.
LEMMA OwedCallbackQueues ==
    ASSUME IInv, ThreadInv, OwedInv, CallbackQueues
    PROVE  OwedInv'
<1> USE DEF hostVars, queueVars, creditVars, senderVars, loopVars, serverVars
<1> DEFINE q == command_queue[1]
<1>1. /\ loop = "callback" /\ follow_ups # <<>> /\ follow_ups' = Tail(follow_ups)
      /\ command_queue' = [command_queue EXCEPT ![1] = Append(q, Head(follow_ups))]
      /\ UNCHANGED <<creditVars, senderVars, loopVars, sent, serverVars>>
  BY DEF CallbackQueues, Queue, put
<1>2. command_queue'[1] = Append(q, Head(follow_ups))
  BY <1>1 DEF IInv, TypeOK
<1>3. ~Awaiting /\ ~Awaiting' /\ Taken' = Taken
  BY <1>1 DEF Awaiting, Taken
<1>4. \A i : Rest(i)' = Rest(i) /\ (Owes(i)' <=> Owes(i))
  BY <1>1 DEF Rest, Owes
<1>5. FollowUpsComeNext'
  BY <1>1 DEF OwedInv, FollowUpsComeNext
<1>6. Taken = <<>>
  <2>1. ~Sending /\ num_hci_commands = 0
    BY <1>1 DEF IInv, CreditInv, PlaceInv, AtHand
  <2> QED
    BY <2>1 DEF Taken, Sending, IInv, CreditInv
<1>7. q \in Seq(Commands) /\ follow_ups \in Seq(Commands)
      /\ Head(follow_ups) \in Commands /\ Append(q, Head(follow_ups)) \in Seq(Commands)
  <2>1. q \in Seq(Commands) /\ follow_ups \in Seq(Commands)
    BY LeftType
  <2> QED
    BY <2>1, <1>1
<1>8. Left' = Left
  <2>1. Left = q \o follow_ups
    BY <1>6, <1>7, LeftType DEF Left
  <2>2. Left' = Append(q, Head(follow_ups)) \o Tail(follow_ups)
    BY <1>1, <1>2, <1>3, <1>6, <1>7, LeftType DEF Left
  <2> QED
    BY <2>1, <2>2, <1>1, <1>7, QueueingKeeps
<1>9. connected => ~(\A i \in 1 .. Len(sent) : ~Owes(i))
  BY <1>1 DEF OwedInv
<1> QED
  BY <1>1, <1>3, <1>4, <1>5, <1>8, <1>9 DEF OwedInv

\* A command is sent: the next of what is owed, or one that nothing precedes.
LEMMA OwedSendAll ==
    ASSUME IInv, ThreadInv, OwedInv, FollowUpsChainLast, SendAll, connected
    PROVE  OwedInv'
<1> USE DEF hostVars, queueVars, creditVars, senderVars, loopVars, serverVars
<1>0. PICK n : n = Len(sent)
  OBVIOUS
<1> DEFINE q == command_queue[1]
           s == Append(sent, command)
           T(i) == Then[sent[i]]
<1>1. /\ sender = "sendall" /\ sender' = "check" /\ sent' = s
      /\ UNCHANGED <<hostVars, queueVars, creditVars, command, loopVars, serverVars>>
  BY DEF SendAll, SenderAt
<1>2. /\ sent \in Seq(Commands) /\ command \in Commands /\ q \in Seq(Commands) /\ n \in Nat
      /\ \A i \in 1 .. n : sent[i] \in DOMAIN Then => T(i) \in Seq(Commands) /\ Len(T(i)) \in Nat
  <2>1. sent \in Seq(Commands) /\ command \in Commands /\ q \in Seq(Commands)
    BY <1>1, LeftType DEF IInv, TypeOK, PlaceInv
  <2>2. \A c \in DOMAIN Then : Then[c] \in Seq(Commands) /\ Len(Then[c]) \in Nat
    BY ClientAssumption
  <2> QED
    BY <2>1, <2>2, <1>0
<1>3. /\ Len(s) = n + 1 /\ s[n + 1] = command
      /\ \A i \in 1 .. n : s[i] = sent[i]
  BY <1>0, <1>2
<1>4. follow_ups = <<>> /\ ~Awaiting /\ Taken = <<command>>
  BY <1>1 DEF IInv, PlaceInv, ThreadInv, Awaiting, Sending, AtHand, Taken
<1>5. Awaiting' /\ Taken' = <<>> /\ Left = <<command>> \o q /\ Left' = q
  <2>1. num_hci_commands = 0 /\ loop # "callback"
    BY <1>1 DEF IInv, CreditInv, PlaceInv, Sending, AtHand
  <2>2. Awaiting' /\ Taken' = <<>>
    BY <2>1, <1>1 DEF Awaiting, Sending, Taken
  <2>3. Left = (<<command>> \o q) \o <<>> /\ Left' = (<<>> \o q) \o <<>>
    BY <2>2, <1>1, <1>4 DEF Left
  <2>4. <<command>> \in Seq(Commands)
    BY <1>2
  <2>5. <<command>> \o q \in Seq(Commands)
    BY <2>4, <1>2
  <2> QED
    BY <2>2, <2>3, <2>5, <1>2, LeftType
<1> HIDE DEF q, s
<1>6. ASSUME NEW i \in 1 .. n, Owes(i)
      PROVE  /\ n - i + 1 \in 1 .. Len(T(i)) /\ command = T(i)[n - i + 1]
             /\ q = SubSeq(T(i), n - i + 2, Len(T(i)))
             /\ n - i + 1 = Len(T(i)) => q = <<>>
             /\ T(i) \in Seq(Commands) /\ Len(T(i)) \in Nat /\ sent[i] \in DOMAIN Then
  <2>1. sent[i] \in DOMAIN Then /\ n < i + Len(T(i)) /\ T(i) \in Seq(Commands) /\ Len(T(i)) \in Nat
    BY <1>2, <1>6, <1>0 DEF Owes
  <2>2. Left = Rest(i)
    BY <1>4, <1>6, <1>0 DEF OwedInv
  <2>3. <<command>> \o q = SubSeq(T(i), n - i + 1, Len(T(i)))
    BY <2>2, <1>5, <1>0 DEF Rest
  <2>4. n - i \in Nat /\ n - i < Len(T(i)) /\ n - i + 1 \in 1 .. Len(T(i))
    BY <2>1, <1>2
  <2> HIDE DEF T
  <2>5. PICK k \in Nat : k = n - i
    BY <2>4
  <2>6. PICK t \in Seq(Commands) : t = T(i)
    BY <2>1
  <2>7. <<command>> \o q = SubSeq(t, k + 1, Len(t)) /\ k < Len(t)
    BY <2>3, <2>4, <2>5, <2>6
  <2>8. /\ command = t[k + 1]
        /\ q = SubSeq(t, k + 2, Len(t))
        /\ k + 1 = Len(t) => q = <<>>
    <3>1. q \in Seq(Commands) /\ command \in Commands
      BY <1>2
    <3> QED
      BY <2>7, <3>1, FirstOfRest
  <2> QED
    BY <2>1, <2>4, <2>5, <2>6, <2>8
<1>7. FollowUpsComeNext'
  <2> SUFFICES ASSUME NEW i \in 1 .. n + 1, s[i] \in DOMAIN Then,
                      NEW j \in 1 .. Len(Then[s[i]]), i + j <= n + 1
               PROVE  s[i + j] = Then[s[i]][j]
    BY <1>1, <1>3 DEF FollowUpsComeNext
  <2>1. Len(Then[s[i]]) \in Nat
    BY ClientAssumption
  <2>2. j \in Nat /\ j >= 1 /\ j <= Len(Then[s[i]])
    BY <2>1
  <2>3. i \in 1 .. n
    BY <2>2, <1>2
  <2>4. s[i] = sent[i]
    BY <2>3, <1>3
  <2>5. CASE i + j <= n
    <3>1. i + j \in 1 .. n
      BY <2>2, <2>3, <2>5
    <3>2. \A m \in 1 .. Len(Then[sent[i]]) :
              i + m <= n => sent[i + m] = Then[sent[i]][m]
      BY <2>3, <2>4, Zenon, <1>0 DEF OwedInv, FollowUpsComeNext
    <3>3. sent[i + j] = Then[sent[i]][j]
      BY <3>2, <2>4, <2>5
    <3> QED
      BY <3>1, <3>3, <2>4, <1>3
  <2>6. CASE i + j = n + 1
    <3>1. n < i + Len(T(i))
      BY <2>2, <2>3, <2>4, <2>6, <1>2
    <3>2. Owes(i)
      BY <3>1, <2>4, <1>0 DEF Owes
    <3>3. command = T(i)[n - i + 1]
      BY <3>2, <2>3, <1>6
    <3>4. n - i + 1 = j
      BY <2>2, <2>3, <2>6, <1>2
    <3> QED
      BY <3>3, <3>4, <2>4, <2>6, <1>3
  <2>7. i + j <= n \/ i + j = n + 1
    BY <2>2, <2>3, <1>2
  <2> QED
    BY <2>5, <2>6, <2>7
<1>8. \A i \in 1 .. n + 1 : Owes(i)' <=> s[i] \in DOMAIN Then /\ n + 1 < i + Len(Then[s[i]])
  BY <1>1, <1>3, <1>0 DEF Owes
<1>9. ASSUME NEW i \in 1 .. n, Owes(i)' PROVE Owes(i) /\ Left' = Rest(i)'
  <2>1. s[i] = sent[i] /\ i \in 1 .. n + 1
    BY <1>2, <1>3
  <2>2. sent[i] \in DOMAIN Then /\ n + 1 < i + Len(T(i))
    BY <2>1, <1>8, <1>9
  <2>3. n < i + Len(T(i))
    BY <2>2, <1>2
  <2>4. Owes(i)
    BY <2>2, <2>3, <1>0 DEF Owes
  <2>5. Rest(i)' = SubSeq(T(i), (n + 1) - i + 1, Len(T(i)))
    BY <2>1, <1>1, <1>3, <1>0 DEF Rest
  <2>6. (n + 1) - i + 1 = n - i + 2
    BY <1>2
  <2>7. Rest(i)' = q
    BY <2>4, <2>5, <2>6, <1>6
  <2> QED
    BY <2>4, <2>7, <1>5
<1>10. ASSUME Owes(n + 1)' PROVE q = <<>>
  <2>1. n + 1 \in 1 .. n + 1
    BY <1>2
  <2>2. command \in DOMAIN Then /\ n + 1 < (n + 1) + Len(Then[command])
    BY <2>1, <1>3, <1>8, <1>10
  <2>3. Then[command] # <<>>
    <3>1. Len(<<>>) = 0
      OBVIOUS
    <3> QED
      BY <3>1, <2>2, <1>2
  <2>4. CASE \A i \in 1 .. n : ~Owes(i)
    BY <2>4, <1>0 DEF OwedInv, q
  <2>5. ASSUME NEW i \in 1 .. n, Owes(i) PROVE q = <<>>
    <3>1. /\ n - i + 1 \in 1 .. Len(T(i)) /\ T(i)[n - i + 1] = command
          /\ sent[i] \in DOMAIN Then /\ Len(T(i)) \in Nat
          /\ n - i + 1 = Len(T(i)) => q = <<>>
      BY <2>5, <1>6
    <3>2. ~(n - i + 1 < Len(T(i)))
      BY <3>1, <2>2, <2>3 DEF FollowUpsChainLast
    <3>3. PICK l \in Nat : l = Len(T(i))
      BY <3>1
    <3>4. n - i + 1 = l
      <4>1. n - i + 1 \in 1 .. l /\ ~(n - i + 1 < l)
        BY <3>1, <3>2, <3>3, Zenon
      <4> QED
        BY <4>1, <1>2
    <3> QED
      BY <3>1, <3>3, <3>4
  <2> QED
    BY <2>4, <2>5
<1>11. (\A i \in 1 .. n + 1 : ~Owes(i)') => q = <<>>
  <2> SUFFICES ASSUME \A i \in 1 .. n + 1 : ~Owes(i)' PROVE q = <<>>
    OBVIOUS
  <2>1. CASE \A i \in 1 .. n : ~Owes(i)
    BY <2>1, <1>0 DEF OwedInv, q
  <2>2. ASSUME NEW i \in 1 .. n, Owes(i) PROVE q = <<>>
    <3>1. i \in 1 .. n + 1 /\ s[i] = sent[i]
      BY <1>2, <1>3
    <3>2. /\ n - i + 1 \in 1 .. Len(T(i)) /\ Len(T(i)) \in Nat /\ sent[i] \in DOMAIN Then
          /\ n - i + 1 = Len(T(i)) => q = <<>>
      BY <2>2, <1>6
    <3>3. ~(n + 1 < i + Len(T(i)))
      BY <3>1, <3>2, <1>2, <1>8
    <3>4. PICK l \in Nat : l = Len(T(i))
      BY <3>2
    <3>5. n - i + 1 = l
      <4>1. n - i + 1 \in 1 .. l /\ ~(n + 1 < i + l)
        BY <3>2, <3>3, <3>4, Zenon
      <4> QED
        BY <4>1, <1>2
    <3> QED
      BY <3>2, <3>4, <3>5
  <2> QED
    BY <2>1, <2>2
<1>12. command_queue'[1] = q /\ follow_ups' = <<>> /\ Len(sent') = n + 1
  BY <1>1, <1>3, <1>4 DEF q
<1>13. \A i \in 1 .. n + 1 : i = n + 1 \/ (i \in 1 .. n /\ i # n + 1)
  BY <1>2
<1> HIDE DEF T
<1>14. ASSUME NEW i \in 1 .. n + 1, Owes(i)'
       PROVE  IF Awaiting' /\ i = Len(sent') THEN command_queue'[1] = <<>> /\ follow_ups' = <<>>
              ELSE Left' = Rest(i)'
  BY <1>5, <1>9, <1>10, <1>12, <1>13, <1>14
<1> QED
  BY <1>7, <1>11, <1>12, <1>14, <1>0 DEF OwedInv

\* The callback of the command that was sent last is run: what the command owes
\* is at hand.
LEMMA OwedAnswered ==
    ASSUME IInv, ThreadInv, OwedInv, FollowUpsChainLast, Answered
    PROVE  OwedInv'
<1> USE DEF hostVars, queueVars, creditVars, senderVars, loopVars, serverVars
<1>1. /\ loop = "event" /\ event # Report /\ loop' = "callback"
      /\ UNCHANGED <<queueVars, num_hci_commands, senderVars, sent, serverVars>>
      /\ callback_queue # <<>> => follow_ups' = Then[Head(callback_queue)]
      /\ callback_queue = <<>> => follow_ups' = follow_ups
  BY DEF Answered
<1>2. num_hci_commands = 0 /\ ~Sending
  BY <1>1 DEF IInv, CreditInv, PlaceInv, AtHand
<1>3. Awaiting /\ ~Awaiting' /\ Taken = <<>> /\ Taken' = <<>> /\ follow_ups = <<>>
  BY <1>1, <1>2 DEF Awaiting, Sending, Taken, ThreadInv, IInv, CreditInv
<1>4. /\ \A i : Rest(i)' = Rest(i) /\ (Owes(i)' <=> Owes(i))
      /\ command_queue'[1] = command_queue[1] /\ connected' = connected /\ sent' = sent
  BY <1>1 DEF Rest, Owes
<1>5. FollowUpsComeNext'
  BY <1>1 DEF OwedInv, FollowUpsComeNext
<1>6. CASE ~connected
  BY <1>4, <1>5, <1>6 DEF OwedInv
<1>7. ASSUME connected PROVE OwedInv'
  <2>1. PICK n : n = Len(sent)
    OBVIOUS
  <2>2. n \in 1 .. Len(sent) /\ n \in Nat /\ callback_queue = CallbackOf(sent[n])
    <3>1. sent \in Seq(Commands) /\ sent # <<>> /\ callback_queue = CallbackOf(sent[n])
      BY <2>1, <1>3, <1>7 DEF ThreadInv, IInv, TypeOK
    <3> QED
      BY <3>1, <2>1
  <2>3. CASE Owes(n)
    <3> DEFINE t == Then[sent[n]]
    <3>1. sent[n] \in DOMAIN Then /\ t \in Seq(Commands)
      BY <2>3, ClientAssumption DEF Owes
    <3>2. callback_queue = <<sent[n]>>
      BY <3>1, <2>2 DEF CallbackOf
    <3>3. follow_ups' = t
      BY <3>2, <1>1
    <3>4. command_queue[1] = <<>>
      BY <2>1, <2>2, <2>3, <1>3, <1>7 DEF OwedInv
    <3>5. Left' = t
      <4>1. Left' = (<<>> \o <<>>) \o t
        BY <3>3, <3>4, <1>3, <1>4 DEF Left
      <4>2. <<>> \in Seq(Commands)
        OBVIOUS
      <4> QED
        BY <4>1, <4>2, <3>1, LeftType
    <3>6. Rest(n) = t
      <4>1. Rest(n) = SubSeq(t, n - n + 1, Len(t))
        BY <2>1 DEF Rest
      <4>2. n - n + 1 = 1
        BY <2>2
      <4>3. SubSeq(t, 1, Len(t)) = t
        BY <3>1
      <4> QED
        BY <4>1, <4>2, <4>3
    <3>7. \A i \in 1 .. Len(sent) : Owes(i) => i = n
      BY <2>2, <2>3, OneOwes DEF OwedInv
    <3> QED
      BY <3>5, <3>6, <3>7, <2>2, <2>3, <1>3, <1>4, <1>5 DEF OwedInv
  <2>4. CASE ~Owes(n)
    <3>1. follow_ups' = <<>>
      <4>1. CASE sent[n] \in DOMAIN Then
        <5>1. callback_queue = <<sent[n]>>
          BY <4>1, <2>2 DEF CallbackOf
        <5>2. follow_ups' = Then[sent[n]]
          BY <5>1, <1>1
        <5>3. Then[sent[n]] \in Seq(Commands) /\ ~(n < n + Len(Then[sent[n]]))
          BY <4>1, <2>1, <2>4, ClientAssumption DEF Owes
        <5>4. Len(Then[sent[n]]) = 0
          BY <5>3, <2>2
        <5> QED
          BY <5>2, <5>3, <5>4
      <4>2. CASE sent[n] \notin DOMAIN Then
        BY <4>2, <2>2, <1>1, <1>3 DEF CallbackOf
      <4> QED
        BY <4>1, <4>2
    <3>2. Left' = Left
      BY <3>1, <1>3, <1>4 DEF Left
    <3>3. \A i \in 1 .. Len(sent) : Owes(i) => i # n /\ Left = Rest(i)
      BY <2>1, <2>4, <1>7 DEF OwedInv
    <3> QED
      BY <3>1, <3>2, <3>3, <1>3, <1>4, <1>5 DEF OwedInv
  <2> QED
    BY <2>3, <2>4
<1> QED
  BY <1>6, <1>7

\* Every step preserves OwedInv.
LEMMA OwedNext ==
    ASSUME IInv, ThreadInv, OwedInv, FollowUpsChainLast, [Next]_vars
    PROVE  OwedInv'
<1> USE DEF hostVars, queueVars, creditVars, senderVars, loopVars, serverVars
<1> DEFINE Same == /\ sent' = sent /\ command_queue'[1] = command_queue[1]
                   /\ follow_ups' = follow_ups /\ Taken' = Taken
                   /\ connected' => connected /\ (Awaiting' <=> Awaiting)
<1>1. Same => OwedInv'
  BY OwedSame
<1>2. CASE MainQueues \/ TimerQueues
  <2>1. /\ UNCHANGED <<follow_ups, creditVars, senderVars, loopVars, sent, serverVars>>
        /\ \E e : command_queue' = [command_queue EXCEPT ![0] = Append(@, e)]
    BY <1>2 DEF MainQueues, TimerQueues, Queue, put
  <2>2. command_queue'[1] = command_queue[1]
    BY <2>1 DEF IInv, TypeOK
  <2> QED
    BY <2>1, <2>2, <1>1 DEF Taken, Awaiting, Sending
<1>3. CASE \/ Run \/ HandleClose \/ Ended \/ TakeEvent \/ NoMoreInput \/ Reported
           \/ \E n \in 1 .. Len(stream) : Receive(n)
  <2>1. /\ UNCHANGED <<command_queue, follow_ups, num_hci_commands, senderVars, sent, connected>>
        /\ loop # "callback" /\ loop' # "callback"
    BY <1>3 DEF Run, HandleClose, Ended, TakeEvent, NoMoreInput, Reported, Receive
  <2> QED
    BY <2>1, <1>1 DEF Taken, Awaiting, Sending
<1>4. CASE Grant
  <2>1. /\ UNCHANGED <<command_queue, follow_ups, senderVars, sent, connected>>
        /\ loop = "callback" /\ num_hci_commands' = 1
    BY <1>4 DEF Grant
  <2> QED
    BY <2>1, <1>1 DEF Taken, Awaiting
<1>5. CASE HasCredit \/ Wait \/ ServerAnswers \/ ServerReports \/ ServerLost \/ UNCHANGED vars
  <2>1. /\ UNCHANGED <<command_queue, follow_ups, num_hci_commands, command, loop, sent>>
        /\ connected' => connected
        /\ \/ sender' = sender
           \/ sender \in {"check", "wait"} /\ sender' \in {"check", "wait", "get"}
    BY <1>5 DEF HasCredit, Wait, SenderAt, ServerAnswers, ServerReports, ServerLost, vars
  <2> QED
    BY <2>1, <1>1 DEF Taken, Awaiting, Sending
<1>6. CASE Debit \/ Register
  <2>1. /\ UNCHANGED <<command_queue, follow_ups, command, loop, sent, connected>>
        /\ \/ sender = "debit" /\ sender' = "register"
           \/ sender = "register" /\ sender' = "sendall"
    BY <1>6 DEF Debit, Register, SenderAt
  <2>2. sender = "debit" => num_hci_commands = 1
    BY DEF IInv, CreditInv
  <2> QED
    BY <2>1, <2>2, <1>1 DEF Taken, Awaiting, Sending
<1>7. CASE SendAll
  <2>1. CASE connected
    BY <2>1, <1>7, OwedSendAll
  <2>2. CASE ~connected
    <3>1. sent' = sent /\ ~connected'
      BY <2>2, <1>7 DEF SendAll
    <3> QED
      BY <3>1 DEF OwedInv, FollowUpsComeNext
  <2> QED
    BY <2>1, <2>2
<1>8. CASE Answered
  BY <1>8, OwedAnswered
<1>9. CASE CallbackQueues
  BY <1>9, OwedCallbackQueues
<1>10. ASSUME NEW p \in {0, 1}, get(p) PROVE OwedInv'
  BY <1>10, OwedGet
<1> HIDE DEF Same
<1> QED
  BY <1>2, <1>3, <1>4, <1>5, <1>6, <1>7, <1>8, <1>9, <1>10 DEF Next, run, process_command_queue

\* The threads keep to their queues always.
LEMMA ThreadInvariance == Spec => []ThreadInv
<1>1. Init => ThreadInv
  BY DEF Init, ThreadInv, Awaiting
<1> QED
  BY <1>1, ThreadNext, Invariance, PTL DEF Spec

\* What a callback queues is sent next and in its order, whatever the main thread
\* and the timer queue meanwhile and wherever the daemon thread is, if callbacks
\* chain only from the last of their commands.
THEOREM UrgentComeNext ==
    ASSUME FollowUpsChainLast
    PROVE  Spec => []FollowUpsComeNext
<1>1. Init => OwedInv
  BY DEF Init, OwedInv, FollowUpsComeNext
<1>2. IInv /\ ThreadInv /\ OwedInv /\ [Next]_vars => OwedInv'
  BY OwedNext
<1>3. OwedInv => FollowUpsComeNext
  BY DEF OwedInv
<1> QED
  BY <1>1, <1>2, <1>3, ThreadInvariance, Invariance, PTL DEF Spec

\* cm_done, queued behind all else, ends the client only when everything that the
\* host and its callbacks have queued is answered.
THEOREM EndsWhenDone ==
    ASSUME DoneIsQueuedLast
    PROVE  Spec => []DoneIsLast
<1>1. Init => EndInv
  <2> SUFFICES ASSUME Init PROVE EndInv
    OBVIOUS
  <2>1. command_queue[0] \o program = program
    <3>1. Program \in Seq(Entries)
      BY ClientAssumption DEF Entries
    <3>2. command_queue[0] = <<>> /\ program = Program
      BY DEF Init
    <3> QED
      BY <3>1, <3>2, ConcatEmptySeq
  <2>2. Queued = Program \o OnTimer /\ running
    BY <2>1 DEF Queued, Init
  <2> QED
    BY <2>2 DEF EndInv, DoneIsQueuedLast
<1>2. IInv /\ ThreadInv /\ EndInv /\ [Next]_vars => EndInv'
  BY EndNext
<1>3. IInv /\ EndInv /\ OneCommandAtATime => DoneIsLast
  BY DEF EndInv, OneCommandAtATime, DoneIsLast
<1> QED
  BY <1>1, <1>2, <1>3, ThreadInvariance, Invariance, OneAtATime, PTL DEF Spec
=============================================================================
