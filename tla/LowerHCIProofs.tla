--------------------------- MODULE LowerHCIProofs ---------------------------
(***************************************************************************)
(* Proofs about LowerHCI: the dialogue between a host and its controller.  *)
(*                                                                         *)
(* The argument follows the answers that the host has not read.  A bound   *)
(* function at says where they stand among the events, and a function h    *)
(* what the controller's roles and report mask were after each of the      *)
(* commands they answer: h[0] is what the host knows, the last value what  *)
(* the controller has.  A command that is carried out adds a value at the  *)
(* end, an answer that is read takes one from the front, and with nothing  *)
(* outstanding the two ends meet.                                          *)
(***************************************************************************)
EXTENDS LowerHCI, SequenceTheorems, TLAPS

\* What decides whether reports are sent: the roles, and the bit of the mask.
Scope(r, mask) == r \cup (mask \cap {"LE_Meta"})

Scopes == SUBSET (Roles \cup {"LE_Meta"})

\* What a command that succeeds does to the scope.
Effect(c, s) ==
    IF c.opcode = "Reset" THEN {}
    ELSE IF c.opcode \in {"LE_Set_Advertise_Enable", "LE_Set_Scan_Enable"}
    THEN IF c.enable = 0 THEN s \ {RoleOf(c.opcode)} ELSE s \cup {RoleOf(c.opcode)}
    ELSE IF c.opcode = "Set_Event_Mask"
    THEN (s \ {"LE_Meta"}) \cup (c.mask \cap {"LE_Meta"})
    ELSE s

EffectOf(a, c, s) == IF a.status = "Success" THEN Effect(c, s) ELSE s

\* The answers that were given: n among the events, then the one to be sent.
Given(n, at, k) == IF k <= n THEN events[at[k]] ELSE answer[1]

\* The commands that were carried out are the first that the host waits for,
\* and each has its answer; the others are those still on their way.
Lined(n, at) ==
    /\ AnswersAre(n, at)
    /\ \A j, k \in 1 .. n : j < k => at[k] - at[j] >= k - j
    /\ n + Len(answer) + Len(commands) = Len(unanswered)
    /\ \A k \in 1 .. n + Len(answer) : Given(n, at, k).opcode = unanswered[k].opcode
    /\ \A k \in 1 .. Len(commands) : commands[k] = unanswered[n + Len(answer) + k]

\* h leads from what the host knows to what the controller has.
Leads(n, at, h) ==
    /\ h[0] = Scope(believed, wants)
    /\ h[n + Len(answer)] = Scope(roles, hci_event_mask)
    /\ \A k \in 1 .. n + Len(answer) :
          h[k] = EffectOf(Given(n, at, k), unanswered[k], h[k - 1])

\* Reports that the simulation thread has begun and will write.
ToWrite ==
    IF reporting = "Writing" \/ (reporting = "Scanning" /\ "LE_Meta" \in hci_event_mask)
    THEN 1 ELSE 0

Quiet == ~({"Scanning", "LE_Meta"} \subseteq Scope(roles, hci_event_mask))

\* In a scope without reports at most one comes after the last answer.
FewReports(n, at) ==
    Quiet /\ answer = <<>> =>
        /\ n > 0 => Len(events) - at[n] + ToWrite <= 1
        /\ unanswered = <<>> => stale + Len(events) + ToWrite <= 1

AnswerEvents == {"Command_Complete", "Command_Status"}

\* What the invariant says without the answers on their way.
Settled ==
    /\ TypeOK
    /\ AnswerEvents \subseteq hci_event_mask
    /\ answer # <<>> => answer[1].event \in AnswerEvents
    /\ stale <= 1

Dialogue(n, at, h) == Lined(n, at) /\ Leads(n, at, h) /\ FewReports(n, at)

InDialogue ==
    \E n \in 0 .. Len(events) : \E at \in [1 .. n -> 1 .. Len(events)] :
        \E h \in [0 .. n + Len(answer) -> Scopes] : Dialogue(n, at, h)

IInv == Settled /\ InDialogue
-----------------------------------------------------------------------------
(* The commands.                                                           *)

\* There is at most one answer to be sent.
LEMMA AtMostOne ==
    ASSUME NEW l \in Nat, l <= 1
    PROVE  l \in 0 .. 1 /\ (l # 0 => l = 1)
OBVIOUS

LEMMA AtMostOneMore ==
    ASSUME NEW n \in Nat, NEW l \in 0 .. 1, NEW k \in 1 .. n + l, ~(k <= n)
    PROVE  k - n = 1
OBVIOUS

\* The fields of the commands that hosts send.
LEMMA CommandFields ==
    ASSUME NEW c \in Commands
    PROVE  /\ c.opcode \in Opcodes
           /\ c.accepted \in BOOLEAN
           /\ c.enable \in Nat
           /\ c.opcode = "Set_Event_Mask" => c.mask \subseteq Events
           /\ c.opcode = "LE_Set_Event_Mask" => c.mask \subseteq SubEvents
<1>1. PICK o \in Opcodes : c \in CommandsOf(o)
  BY DEF Commands
<1>2. /\ c.opcode = o
      /\ c.accepted \in BOOLEAN
      /\ c.enable \in EnableValues \cup {0}
      /\ c.mask \in MasksOf(o)
  BY <1>1 DEF CommandsOf
<1>3. c.enable \in Nat
  <2>1. EnableValues \subseteq Nat
    BY ParametersAssumption
  <2>2. CASE c.enable \in EnableValues
    BY <2>1, <2>2, Zenon
  <2>3. CASE c.enable = 0
    BY <2>3
  <2> QED
    BY <1>2, <2>2, <2>3
<1>4. o = "Set_Event_Mask" => c.mask \subseteq Events
  BY <1>2, ParametersAssumption DEF MasksOf
<1>5. o = "LE_Set_Event_Mask" => c.mask \subseteq SubEvents
  BY <1>2, ParametersAssumption DEF MasksOf
<1> QED
  BY <1>2, <1>3, <1>4, <1>5

\* What every handler of process_command does: it takes the first command,
\* and its answer says truly whether the command had its effect.
Executes(c, a) ==
    /\ answer = <<>>
    /\ commands # <<>>
    /\ c = Head(commands)
    /\ commands' = Tail(commands)
    /\ answer' = <<a>>
    /\ a \in Answers
    /\ a.event \in AnswerEvents
    /\ a.opcode = c.opcode
    /\ Scope(roles', hci_event_mask') = EffectOf(a, c, Scope(roles, hci_event_mask))
    /\ AnswerEvents \subseteq hci_event_mask'
    /\ hci_event_mask' \subseteq Events
    /\ hci_le_event_mask' \subseteq SubEvents
    /\ enabled' \in [Roles -> Nat]
    /\ roles' \subseteq Roles
    /\ UNCHANGED <<reporting, events, hostVars>>

\* The answers that the handlers give are of the type and carry the opcode.
LEMMA AnswersOfHandlers ==
    ASSUME NEW o \in Opcodes, NEW b \in BOOLEAN
    PROVE  /\ CommandComplete(o, b) \in Answers
           /\ CommandComplete(o, b).event \in AnswerEvents
           /\ CommandComplete(o, b).opcode = o
           /\ CommandComplete(o, b).status = "Success" <=> b
           /\ CommandStatus(o) \in Answers
           /\ CommandStatus(o).event \in AnswerEvents
           /\ CommandStatus(o).opcode = o
           /\ CommandStatus(o).status # "Success"
BY DEF CommandComplete, CommandStatus, Answer, Answers, AnswerEvents, Events

LEMMA HandlersExecute ==
    ASSUME Settled, process_command
    PROVE  \E c \in Commands : \E a \in Answers : Executes(c, a)
<1> USE DEF AnswerEvents
<1>1. PICK i \in 1 .. Len(commands) :
          \/ hci_set_event_mask_command(commands[i])
          \/ hci_reset_command(commands[i])
          \/ hci_le_set_event_mask_command(commands[i])
          \/ hci_le_set_enable_command(commands[i])
          \/ hci_set_command(commands[i])
          \/ hci_read_command(commands[i])
          \/ hci_unsupported_command(commands[i])
  BY DEF process_command
<1> DEFINE c == commands[i]
<1>2. c \in Commands
  BY ElementOfSeq DEF Settled, TypeOK
<1> HIDE DEF c
<1>3. /\ c.opcode \in Opcodes
      /\ c.accepted \in BOOLEAN
      /\ c.enable \in Nat
      /\ c.opcode = "Set_Event_Mask" => c.mask \subseteq Events
  BY <1>2, CommandFields
<1>4. CASE hci_set_event_mask_command(c)
  <2> DEFINE a == CommandComplete(c.opcode, c.accepted)
  <2>1. /\ a \in Answers /\ a.event \in AnswerEvents /\ a.opcode = c.opcode
        /\ a.status = "Success" <=> c.accepted
    BY <1>3, AnswersOfHandlers
  <2>2. answer' = <<a>>
    BY <1>4 DEF hci_set_event_mask_command
  <2> HIDE DEF a
  <2>3. Scope(roles', hci_event_mask') = EffectOf(a, c, Scope(roles, hci_event_mask))
    BY <1>4, <1>3, <2>1 DEF hci_set_event_mask_command, Scope, EffectOf, Effect,
       Settled, TypeOK, Roles, ForcedMask, Events
  <2>4. AnswerEvents \subseteq hci_event_mask' /\ hci_event_mask' \subseteq Events
    BY <1>4, <1>3 DEF hci_set_event_mask_command, Settled, TypeOK, ForcedMask, Events
  <2>5. Executes(c, a)
    BY <1>4, <2>1, <2>2, <2>3, <2>4 DEF hci_set_event_mask_command, Executes, Taking,
       Settled, TypeOK
  <2> QED
    BY <1>2, <2>1, <2>5
<1>5. CASE hci_reset_command(c)
  <2> DEFINE a == CommandComplete(c.opcode, TRUE)
  <2>1. /\ a \in Answers /\ a.event \in AnswerEvents /\ a.opcode = c.opcode
        /\ a.status = "Success"
    BY <1>3, AnswersOfHandlers
  <2>2. answer' = <<a>>
    BY <1>5 DEF hci_reset_command
  <2> HIDE DEF a
  <2>3. Scope(roles', hci_event_mask') = EffectOf(a, c, Scope(roles, hci_event_mask))
    BY <1>5, <2>1 DEF hci_reset_command, Scope, EffectOf, Effect, DefaultEventMask
  <2>4. AnswerEvents \subseteq hci_event_mask' /\ hci_event_mask' \subseteq Events
    BY <1>5 DEF hci_reset_command, DefaultEventMask, Events
  <2>5. enabled' \in [Roles -> Nat] /\ hci_le_event_mask' \subseteq SubEvents
    BY <1>5 DEF hci_reset_command, Settled, TypeOK, DefaultLEEventMask
  <2>6. Executes(c, a)
    BY <1>5, <2>1, <2>2, <2>3, <2>4, <2>5 DEF hci_reset_command, Executes, Taking
  <2> QED
    BY <1>2, <2>1, <2>6
<1>6. CASE hci_le_set_enable_command(c)
  <2> DEFINE role == RoleOf(c.opcode)
             start == c.enable # 0 /\ enabled[role] = 0
             stop == c.enable = 0 /\ enabled[role] = 1 /\ role \in roles
             a == CommandComplete(c.opcode, start \/ stop)
  <2>1. /\ a \in Answers /\ a.event \in AnswerEvents /\ a.opcode = c.opcode
        /\ a.status = "Success" <=> (start \/ stop)
    <3>1. (start \/ stop) \in BOOLEAN
      OBVIOUS
    <3> HIDE DEF start, stop
    <3> QED
      BY <3>1, <1>3, AnswersOfHandlers
  <2>2. answer' = <<a>>
    BY <1>6 DEF hci_le_set_enable_command
  <2>3. role \in Roles
    BY DEF RoleOf, Roles
  <2>4. c.opcode \in {"LE_Set_Advertise_Enable", "LE_Set_Scan_Enable"}
    BY <1>6 DEF hci_le_set_enable_command
  <2>5. roles' = IF start THEN roles \cup {role} ELSE IF stop THEN roles \ {role} ELSE roles
    BY <1>6 DEF hci_le_set_enable_command
  <2>6. enabled' = IF start \/ stop THEN [enabled EXCEPT ![role] = c.enable] ELSE enabled
    BY <1>6 DEF hci_le_set_enable_command
  <2>7. hci_event_mask' = hci_event_mask /\ hci_le_event_mask' = hci_le_event_mask
    BY <1>6 DEF hci_le_set_enable_command
  <2>8. Taking(c)
    BY <1>6 DEF hci_le_set_enable_command
  <2>9. start => c.enable # 0
    OBVIOUS
  <2>10. stop => c.enable = 0
    OBVIOUS
  <2> HIDE DEF a, start, stop
  <2>11. Scope(roles', hci_event_mask') = EffectOf(a, c, Scope(roles, hci_event_mask))
    <3>1. role # "LE_Meta"
      BY <2>3 DEF Roles
    <3>2. EffectOf(a, c, Scope(roles, hci_event_mask)) =
             IF start \/ stop
             THEN IF c.enable = 0 THEN Scope(roles, hci_event_mask) \ {role}
                                  ELSE Scope(roles, hci_event_mask) \cup {role}
             ELSE Scope(roles, hci_event_mask)
      BY <2>1, <2>4 DEF EffectOf, Effect
    <3> HIDE DEF role
    <3>3. CASE start
      BY <3>3, <3>1, <3>2, <2>5, <2>7, <2>9 DEF Scope
    <3>4. CASE ~start /\ stop
      BY <3>4, <3>1, <3>2, <2>5, <2>7, <2>10 DEF Scope
    <3>5. CASE ~start /\ ~stop
      BY <3>5, <3>2, <2>5, <2>7
    <3> QED
      BY <3>3, <3>4, <3>5
  <2> HIDE DEF role
  <2>12. enabled' \in [Roles -> Nat]
    BY <2>6, <2>3, <1>3 DEF Settled, TypeOK
  <2>13. roles' \subseteq Roles
    BY <2>5, <2>3 DEF Settled, TypeOK
  <2>14. Executes(c, a)
    BY <2>1, <2>2, <2>7, <2>8, <2>11, <2>12, <2>13 DEF Executes, Taking, Settled, TypeOK
  <2> QED
    BY <1>2, <2>1, <2>14
<1>7. CASE \/ hci_le_set_event_mask_command(c)
           \/ hci_set_command(c)
           \/ hci_read_command(c)
           \/ hci_unsupported_command(c)
  <2>1. \E a \in Answers : /\ answer' = <<a>>
                          /\ a.event \in AnswerEvents
                          /\ a.opcode = c.opcode
    <3>1. CASE hci_le_set_event_mask_command(c)
      BY <3>1, <1>3, AnswersOfHandlers DEF hci_le_set_event_mask_command
    <3>2. CASE hci_set_command(c)
      BY <3>2, <1>3, AnswersOfHandlers DEF hci_set_command
    <3>3. CASE hci_read_command(c)
      BY <3>3, <1>3, AnswersOfHandlers, Zenon DEF hci_read_command
    <3>4. CASE hci_unsupported_command(c)
      BY <3>4, <1>3, AnswersOfHandlers, Zenon DEF hci_unsupported_command
    <3> QED
      BY <1>7, <3>1, <3>2, <3>3, <3>4
  <2>2. PICK a \in Answers : answer' = <<a>> /\ a.event \in AnswerEvents /\ a.opcode = c.opcode
    BY <2>1
  <2>3. Taking(c) /\ UNCHANGED controllerVars
    BY <1>7 DEF hci_le_set_event_mask_command, hci_set_command,
       hci_read_command, hci_unsupported_command
  <2>4. c.opcode \notin {"Reset", "Set_Event_Mask", "LE_Set_Advertise_Enable", "LE_Set_Scan_Enable"}
    BY <1>7 DEF hci_le_set_event_mask_command, hci_set_command,
       hci_read_command, hci_unsupported_command, Setters, Readers, Handled
  <2>5. EffectOf(a, c, Scope(roles, hci_event_mask)) = Scope(roles, hci_event_mask)
    BY <2>4 DEF EffectOf, Effect
  <2>6. Executes(c, a)
    BY <2>2, <2>3, <2>5 DEF Executes, Taking, controllerVars, Settled, TypeOK
  <2> QED
    BY <1>2, <2>6
<1> QED
  BY <1>1, <1>4, <1>5, <1>6, <1>7 DEF c
-----------------------------------------------------------------------------
(* The dialogue, step by step.                                             *)

\* A command that is carried out adds its answer and the new scope.
LEMMA ExecutingKeepsDialogue ==
    ASSUME Settled, NEW c, NEW a \in Answers, Executes(c, a),
           NEW n \in Nat, n <= Len(events), NEW at \in [1 .. n -> 1 .. Len(events)],
           NEW h \in [0 .. n + Len(answer) -> Scopes], Dialogue(n, at, h)
    PROVE  \E g \in [0 .. n + Len(answer)' -> Scopes] : Dialogue(n, at, g)'
<1> DEFINE scope == Scope(roles', hci_event_mask')
<1>1. /\ Len(answer) = 0
      /\ Len(answer') = 1 /\ answer'[1] = a
      /\ events' = events /\ unanswered' = unanswered
      /\ believed' = believed /\ wants' = wants
  BY DEF Executes, hostVars
<1>2. /\ c = commands[1]
      /\ Len(commands) \in Nat \ {0} /\ Len(commands') = Len(commands) - 1
      /\ \A k \in 1 .. Len(commands') : commands'[k] = commands[k + 1]
  BY DEF Executes, Settled, TypeOK
<1>3. AnswersAre(n, at)'
  BY <1>1 DEF AnswersAre, Dialogue, Lined
<1>4. /\ n + Len(commands) = Len(unanswered)
      /\ \A k \in 1 .. n : events[at[k]].opcode = unanswered[k].opcode
      /\ \A k \in 1 .. Len(commands) : commands[k] = unanswered[n + k]
  BY <1>1 DEF Dialogue, Lined, Given
<1>5. /\ \A k \in 1 .. n : Given(n, at, k)' = events[at[k]]
      /\ Given(n, at, n + 1)' = a
  BY <1>1 DEF Given
<1>6. c = unanswered[n + 1]
  BY <1>2, <1>4
<1>7. Lined(n, at)'
  <2>1. n + Len(answer') + Len(commands') = Len(unanswered')
    <3> DEFINE u == Len(commands)
               v == Len(unanswered)
    <3>1. u \in Nat /\ n + u = v
      BY <1>2, <1>4
    <3>2. Len(answer') = 1 /\ Len(commands') = u - 1 /\ Len(unanswered') = v
      BY <1>1, <1>2
    <3> HIDE DEF u, v
    <3>3. n + 1 + (u - 1) = v
      BY <3>1
    <3> QED
      BY <3>2, <3>3, Zenon
  <2>2. ASSUME NEW k \in 1 .. n + 1
        PROVE  Given(n, at, k)'.opcode = unanswered[k].opcode
    <3>1. CASE k = n + 1
      BY <3>1, <1>5, <1>6 DEF Executes
    <3>2. CASE k # n + 1
      <4>1. k \in 1 .. n
        BY <3>2
      <4> QED
        BY <4>1, <1>4, <1>5
    <3> QED
      BY <3>1, <3>2
  <2>3. ASSUME NEW k \in 1 .. Len(commands')
        PROVE  commands'[k] = unanswered[n + 1 + k]
    <3>1. k + 1 \in 1 .. Len(commands) /\ n + (k + 1) = n + 1 + k
      BY <1>2
    <3> QED
      BY <3>1, <1>2, <1>4
  <2> QED
    BY <1>1, <1>3, <2>1, <2>2, <2>3 DEF Lined, Dialogue
<1>8. scope \in Scopes
  BY DEF Executes, Scope, Scopes
<1>9. h \in [0 .. n -> Scopes] /\ h[0] = Scope(believed, wants)
      /\ h[n] = Scope(roles, hci_event_mask)
      /\ \A k \in 1 .. n : h[k] = EffectOf(events[at[k]], unanswered[k], h[k - 1])
  BY <1>1 DEF Dialogue, Leads, Given
<1>10. scope = EffectOf(a, c, h[n])
  BY <1>9 DEF Executes
<1> HIDE DEF scope
<1>11. \E g \in [0 .. n + 1 -> Scopes] : g[n + 1] = scope /\ \A k \in 0 .. n : g[k] = h[k]
  <2> DEFINE f == [k \in 0 .. n + 1 |-> IF k = n + 1 THEN scope ELSE h[k]]
  <2>1. f \in [0 .. n + 1 -> Scopes]
    BY <1>8, <1>9
  <2>2. f[n + 1] = scope /\ \A k \in 0 .. n : f[k] = h[k]
    OBVIOUS
  <2> QED
    BY <2>1, <2>2, Zenon
<1>12. PICK g \in [0 .. n + 1 -> Scopes] :
          g[n + 1] = scope /\ \A k \in 0 .. n : g[k] = h[k]
  BY <1>11
<1>13. ASSUME NEW k \in 1 .. n + 1
       PROVE  g[k] = EffectOf(Given(n, at, k)', unanswered[k], g[k - 1])
  <2>1. CASE k = n + 1
    BY <2>1, <1>5, <1>6, <1>10, <1>12
  <2>2. CASE k # n + 1
    <3>1. k \in 1 .. n /\ k - 1 \in 0 .. n /\ k \in 0 .. n
      BY <2>2
    <3> QED
      BY <3>1, <1>5, <1>9, <1>12
  <2> QED
    BY <2>1, <2>2
<1>14. Leads(n, at, g)'
  <2>1. g[0] = Scope(believed, wants)'
    BY <1>1, <1>9, <1>12 DEF Scope
  <2>2. g[n + Len(answer')] = Scope(roles, hci_event_mask)'
    BY <1>1, <1>12 DEF scope, Scope
  <2>3. \A k \in 1 .. n + Len(answer') :
           g[k] = EffectOf(Given(n, at, k)', unanswered'[k], g[k - 1])
    BY <1>1, <1>13
  <2> QED
    BY <2>1, <2>2, <2>3 DEF Leads
<1>15. FewReports(n, at)'
  BY <1>1 DEF FewReports
<1>16. g \in [0 .. n + Len(answer)' -> Scopes]
  BY <1>1
<1> QED
  BY <1>7, <1>14, <1>15, <1>16 DEF Dialogue

\* An answer that is sent is the last of the events.
LEMMA SendingKeepsDialogue ==
    ASSUME Settled, send_command_complete_event,
           NEW n \in Nat, n <= Len(events), NEW at \in [1 .. n -> 1 .. Len(events)],
           NEW h \in [0 .. n + Len(answer) -> Scopes], Dialogue(n, at, h)
    PROVE  InDialogue'
<1>1. /\ answer \in Seq(Answers) /\ Len(answer) = 1
      /\ events \in Seq(Answers)
  <2>1. answer \in Seq(Answers) /\ Len(answer) <= 1 /\ events \in Seq(Answers)
    BY DEF Settled, TypeOK
  <2>2. answer # <<>>
    BY DEF send_command_complete_event
  <2>3. Len(answer) # 0
    BY <2>1, <2>2, EmptySeq
  <2>4. Len(answer) \in Nat
    BY <2>1, LenProperties
  <2>5. Len(answer) <= 1
    BY <2>1
  <2>6. Len(answer) = 1
    BY <2>3, <2>4, <2>5, AtMostOne
  <2> QED
    BY <2>1, <2>6
<1>2. answer' = <<>> /\ Len(answer') = 0
  BY DEF send_command_complete_event
<1>3. events' = events \o answer
  <2>1. Head(answer) = answer[1]
    BY <1>1
  <2> QED
    BY <2>1 DEF send_command_complete_event, Settled
<1>4. /\ Len(events) \in Nat /\ Len(events') = Len(events) + 1
      /\ \A i \in 1 .. Len(events) : events'[i] = events[i]
      /\ events'[Len(events) + 1] = answer[1]
  <2> DEFINE l == Len(events)
  <2>1. /\ Len(events \o answer) = Len(events) + Len(answer)
        /\ \A i \in 1 .. Len(events) + Len(answer) : (events \o answer)[i] =
              IF i <= Len(events) THEN events[i] ELSE answer[i - Len(events)]
    BY <1>1, ConcatProperties, Zenon
  <2>2. l \in Nat
    BY <1>1
  <2>3. /\ Len(events') = l + 1
        /\ \A i \in 1 .. l + 1 : events'[i] = IF i <= l THEN events[i] ELSE answer[i - l]
    BY <2>1, <1>1, <1>3, Zenon
  <2> HIDE DEF l
  <2>4. /\ \A i \in 1 .. l : i \in 1 .. l + 1 /\ i <= l
        /\ l + 1 \in 1 .. l + 1 /\ ~(l + 1 <= l) /\ (l + 1) - l = 1
    BY <2>2
  <2>5. (\A i \in 1 .. l : events'[i] = events[i]) /\ events'[l + 1] = answer[1]
    BY <2>3, <2>4, Zenon
  <2> QED
    BY <2>2, <2>3, <2>5, Zenon DEF l
<1>5. /\ commands' = commands /\ unanswered' = unanswered /\ stale' = stale
      /\ reporting' = reporting /\ hci_event_mask' = hci_event_mask
      /\ roles' = roles /\ believed' = believed /\ wants' = wants
  BY DEF send_command_complete_event, controllerVars, hostVars
<1>6. IsAnswer(answer[1])
  BY <1>1, <1>2 DEF send_command_complete_event, Settled, AnswerEvents, IsAnswer
<1> DEFINE L == Len(events)
           to == [k \in 1 .. n + 1 |-> IF k = n + 1 THEN L + 1 ELSE at[k]]
<1>7. PICK q \in [1 .. n + 1 -> 1 .. L + 1] :
         /\ q[n + 1] = L + 1
         /\ \A k \in 1 .. n : q[k] = at[k] /\ q[k] \in 1 .. L
  <2>1. to \in [1 .. n + 1 -> 1 .. L + 1]
    BY <1>4
  <2>2. to[n + 1] = L + 1 /\ \A k \in 1 .. n : to[k] = at[k] /\ to[k] \in 1 .. L
    OBVIOUS
  <2> QED
    BY <2>1, <2>2, Zenon
<1>8. /\ \A k \in 1 .. n : events'[q[k]] = events[at[k]]
      /\ events'[q[n + 1]] = answer[1]
  BY <1>4, <1>7
<1>9. AnswersAre(n, at)
  BY DEF Dialogue, Lined
<1>10. AnswersAre(n + 1, q)'
  <2>1. ASSUME NEW k \in 1 .. n + 1
        PROVE  IsAnswer(events'[q[k]])
    <3>1. CASE k = n + 1
      BY <3>1, <1>6, <1>8
    <3>2. CASE k \in 1 .. n
      BY <3>2, <1>8, <1>9 DEF AnswersAre
    <3> QED
      BY <3>1, <3>2
  <2>2. ASSUME NEW j \in 1 .. n + 1, NEW k \in 1 .. n + 1, j < k
        PROVE  q[j] < q[k]
    <3>1. j \in 1 .. n
      BY <2>2
    <3>2. CASE k = n + 1
      BY <3>1, <3>2, <1>4, <1>7
    <3>3. CASE k \in 1 .. n
      BY <2>2, <3>1, <3>3, <1>7, <1>9 DEF AnswersAre
    <3> QED
      BY <3>2, <3>3
  <2>3. ASSUME NEW i \in 1 .. Len(events'), IsAnswer(events'[i])
        PROVE  \E k \in 1 .. n + 1 : q[k] = i
    <3>1. CASE i = L + 1
      BY <3>1, <1>7
    <3>2. CASE i \in 1 .. L
      <4>1. PICK k \in 1 .. n : at[k] = i
        BY <2>3, <3>2, <1>4, <1>9 DEF AnswersAre
      <4> QED
        BY <4>1, <1>7
    <3> QED
      BY <3>1, <3>2, <1>4
  <2> QED
    BY <2>1, <2>2, <2>3 DEF AnswersAre
<1>11. /\ n + 1 + Len(commands) = Len(unanswered)
       /\ \A k \in 1 .. n + 1 : Given(n, at, k).opcode = unanswered[k].opcode
       /\ \A k \in 1 .. Len(commands) : commands[k] = unanswered[n + 1 + k]
  BY <1>1 DEF Dialogue, Lined
<1>12. \A k \in 1 .. n + 1 : Given(n + 1, q, k)' = Given(n, at, k)
  <2> TAKE k \in 1 .. n + 1
  <2>1. CASE k = n + 1
    BY <2>1, <1>8 DEF Given
  <2>2. CASE k \in 1 .. n
    BY <2>2, <1>8 DEF Given
  <2> QED
    BY <2>1, <2>2
<1>13. Lined(n + 1, q)'
  <2>1. /\ n + 1 + Len(answer') + Len(commands') = Len(unanswered')
        /\ n + 1 + Len(answer') = n + 1
    BY <1>2, <1>5, <1>11
  <2>2. \A k \in 1 .. n + 1 : Given(n + 1, q, k)'.opcode = unanswered'[k].opcode
    BY <1>5, <1>11, <1>12
  <2>3. ASSUME NEW j \in 1 .. n + 1, NEW k \in 1 .. n + 1, j < k
        PROVE  q[k] - q[j] >= k - j
    <3>1. j \in 1 .. n /\ q[j] = at[j] /\ at[j] \in 1 .. L
      BY <2>3, <1>7
    <3>2. \A m \in 1 .. n : j < m => at[m] - at[j] >= m - j
      BY <3>1 DEF Lined, Dialogue
    <3>3. CASE k \in 1 .. n
      BY <2>3, <3>1, <3>2, <3>3, <1>7
    <3>4. CASE k = n + 1
      <4>1. n \in 1 .. n /\ at[n] \in 1 .. L
        BY <3>1
      <4>2. CASE j = n
        BY <3>1, <3>4, <4>1, <4>2, <1>4, <1>7
      <4>3. CASE j < n
        <5> DEFINE x == at[j]
                   y == at[n]
                   l == L
        <5>1. x \in Int /\ y \in Int /\ l \in Nat /\ y <= l /\ n - j <= y - x
          BY <3>1, <3>2, <4>1, <4>3, <1>4
        <5>2. q[j] = x /\ q[k] = l + 1
          BY <3>1, <3>4, <1>7
        <5> HIDE DEF x, y, l
        <5>3. (l + 1) - x >= (n + 1) - j
          BY <5>1
        <5> QED
          BY <3>4, <5>2, <5>3
      <4> QED
        BY <3>1, <4>2, <4>3
    <3> QED
      BY <3>3, <3>4
  <2> QED
    BY <2>1, <2>2, <2>3, <1>5, <1>10, <1>11 DEF Lined
<1>14. /\ h[0] = Scope(believed, wants)
       /\ h[n + 1] = Scope(roles, hci_event_mask)
       /\ \A k \in 1 .. n + 1 : h[k] = EffectOf(Given(n, at, k), unanswered[k], h[k - 1])
  BY <1>1 DEF Dialogue, Leads
<1>15. Leads(n + 1, q, h)'
  <2>1. n + 1 + Len(answer') = n + 1
    BY <1>2
  <2>2. \A k \in 1 .. n + 1 :
           h[k] = EffectOf(Given(n + 1, q, k)', unanswered'[k], h[k - 1])
    BY <1>5, <1>12, <1>14
  <2>3. h[0] = Scope(believed', wants') /\ h[n + 1] = Scope(roles', hci_event_mask')
    BY <1>5, <1>14
  <2> QED
    BY <2>1, <2>2, <2>3 DEF Leads
<1>16. FewReports(n + 1, q)'
  <2>1. ToWrite' \in {0, 1}
    BY DEF ToWrite
  <2>2. unanswered' # <<>>
    <3>1. Len(unanswered') # 0
      BY <1>5, <1>11, LenProperties DEF Settled, TypeOK
    <3> QED
      BY <3>1
  <2> QED
    BY <2>1, <2>2, <1>4, <1>7 DEF FewReports
<1>17. /\ n + 1 \in 0 .. Len(events')
       /\ q \in [1 .. n + 1 -> 1 .. Len(events')]
       /\ h \in [0 .. n + 1 + Len(answer') -> Scopes]
  BY <1>1, <1>2, <1>4, <1>7
<1> QED
  BY <1>13, <1>15, <1>16, <1>17 DEF InDialogue, Dialogue

\* A command that is sent waits for its answer behind the others.
LEMMA HostSendsKeepsDialogue ==
    ASSUME Settled, HostSends,
           NEW n \in Nat, n <= Len(events), NEW at \in [1 .. n -> 1 .. Len(events)],
           NEW h \in [0 .. n + Len(answer) -> Scopes], Dialogue(n, at, h)
    PROVE  InDialogue'
<1>1. PICK c \in Commands : /\ commands' = Append(commands, c)
                          /\ unanswered' = Append(unanswered, c)
  BY DEF HostSends, Commands
<1>2. /\ answer' = answer /\ events' = events /\ reporting' = reporting
      /\ hci_event_mask' = hci_event_mask /\ roles' = roles
      /\ believed' = believed /\ wants' = wants
  BY DEF HostSends, controllerVars
<1>3. /\ commands \in Seq(Commands) /\ unanswered \in Seq(Commands)
      /\ Len(answer) \in Nat
  BY LenProperties DEF Settled, TypeOK
<1>4. /\ Len(commands) \in Nat /\ Len(commands') = Len(commands) + 1
      /\ \A k \in 1 .. Len(commands) : commands'[k] = commands[k]
      /\ commands'[Len(commands) + 1] = c
  BY <1>1, <1>3
<1>5. /\ Len(unanswered) \in Nat /\ Len(unanswered') = Len(unanswered) + 1
      /\ \A k \in 1 .. Len(unanswered) : unanswered'[k] = unanswered[k]
      /\ unanswered'[Len(unanswered) + 1] = c
  BY <1>1, <1>3
<1> DEFINE d == n + Len(answer)
<1>6. /\ d \in Nat
      /\ d + Len(commands) = Len(unanswered)
      /\ \A k \in 1 .. d : Given(n, at, k).opcode = unanswered[k].opcode
      /\ \A k \in 1 .. Len(commands) : commands[k] = unanswered[d + k]
      /\ \A k \in 1 .. d : h[k] = EffectOf(Given(n, at, k), unanswered[k], h[k - 1])
  BY <1>3 DEF Dialogue, Lined, Leads
<1>7. \A k \in 1 .. d : unanswered'[k] = unanswered[k]
  BY <1>3, <1>4, <1>5, <1>6
<1>8. \A k \in 1 .. d : Given(n, at, k)' = Given(n, at, k)
  BY <1>2 DEF Given
<1>9. d' = d /\ AnswersAre(n, at)'
  BY <1>2 DEF AnswersAre, Dialogue, Lined
<1> HIDE DEF d
<1>15. /\ d \in Nat /\ Len(commands) \in Nat /\ Len(unanswered) \in Nat
       /\ d + Len(commands) = Len(unanswered)
       /\ Len(commands') = Len(commands) + 1
       /\ Len(unanswered') = Len(unanswered) + 1
  BY <1>4, <1>5, <1>6, Zenon
<1>10. \A k \in 1 .. Len(commands') : commands'[k] = unanswered'[d + k]
  <2> TAKE k \in 1 .. Len(commands')
  <2>1. CASE k = Len(commands) + 1
    <3>1. d + k = Len(unanswered) + 1
      BY <2>1, <1>15
    <3> QED
      BY <2>1, <3>1, <1>4, <1>5
  <2>2. CASE k \in 1 .. Len(commands)
    <3>1. d + k \in 1 .. Len(unanswered)
      BY <2>2, <1>4, <1>6
    <3> QED
      BY <2>2, <3>1, <1>4, <1>5, <1>6
  <2> QED
    BY <2>1, <2>2, <1>4
<1>11. Lined(n, at)'
  <2>1. d + Len(commands') = Len(unanswered')
    <3> DEFINE u == Len(commands)
               v == Len(unanswered)
    <3>1. d \in Nat /\ u \in Nat /\ d + u = v
      BY <1>15
    <3>2. Len(commands') = u + 1 /\ Len(unanswered') = v + 1
      BY <1>15
    <3> HIDE DEF u, v
    <3>3. d + (u + 1) = v + 1
      BY <3>1
    <3> QED
      BY <3>2, <3>3, Zenon
  <2>2. \A k \in 1 .. d : Given(n, at, k)'.opcode = unanswered'[k].opcode
    BY <1>6, <1>7, <1>8
  <2>3. n + Len(answer') = d
    BY <1>2 DEF d
  <2> QED
    BY <2>1, <2>2, <2>3, <1>9, <1>10 DEF Lined, Dialogue
<1>12. Leads(n, at, h)'
  <2>1. n + Len(answer') = d
    BY <1>2 DEF d
  <2>2. \A k \in 1 .. d : h[k] = EffectOf(Given(n, at, k)', unanswered'[k], h[k - 1])
    BY <1>6, <1>7, <1>8
  <2>3. h[0] = Scope(believed', wants') /\ h[d] = Scope(roles', hci_event_mask')
    BY <1>2 DEF Dialogue, Leads, d
  <2> QED
    BY <2>1, <2>2, <2>3 DEF Leads
<1>13. FewReports(n, at)'
  <2>1. unanswered' # <<>>
    BY <1>5
  <2> QED
    BY <2>1, <1>2 DEF FewReports, Dialogue, Quiet, ToWrite
<1>14. /\ n \in 0 .. Len(events')
       /\ at \in [1 .. n -> 1 .. Len(events')]
       /\ h \in [0 .. n + Len(answer') -> Scopes]
  <2>1. Len(events) \in Nat
    BY LenProperties DEF Settled, TypeOK
  <2> QED
    BY <2>1, <1>2
<1> QED
  BY <1>11, <1>12, <1>13, <1>14 DEF InDialogue, Dialogue

\* An answer that is read is the first of the events and answers the command
\* that has waited longest; what it says is how the scope changed then.
LEMMA HostReadsAnswerKeepsDialogue ==
    ASSUME Settled, HostReadsAnswer,
           NEW n \in Nat, n <= Len(events), NEW at \in [1 .. n -> 1 .. Len(events)],
           NEW h \in [0 .. n + Len(answer) -> Scopes], Dialogue(n, at, h)
    PROVE  InDialogue'
<1>1. /\ answer' = answer /\ commands' = commands /\ reporting' = reporting
      /\ hci_event_mask' = hci_event_mask /\ roles' = roles
      /\ events' = Tail(events) /\ stale' = 0
  BY DEF HostReadsAnswer, controllerVars
<1>2. /\ events \in Seq(Answers) /\ events # <<>>
      /\ commands \in Seq(Commands) /\ unanswered \in Seq(Commands)
      /\ Len(answer) \in 0 .. 1
  <2>1. answer \in Seq(Answers) /\ Len(answer) <= 1
    BY DEF Settled, TypeOK
  <2>2. Len(answer) \in Nat
    BY <2>1, LenProperties
  <2>4. Len(answer) <= 1
    BY <2>1
  <2>3. Len(answer) \in 0 .. 1
    BY <2>2, <2>4, AtMostOne
  <2> QED
    BY <2>3 DEF Settled, TypeOK, HostReadsAnswer
<1> DEFINE L == Len(events)
<1>3. /\ L \in Nat \ {0} /\ Len(events') = L - 1 /\ Head(events) = events[1]
      /\ \A i \in 1 .. L - 1 : events'[i] = events[i + 1]
  BY <1>1, <1>2
<1>4. AnswersAre(n, at) /\ IsAnswer(events[1])
  BY <1>3 DEF Dialogue, Lined, HostReadsAnswer, IsAnswer
<1>5. PICK k1 \in 1 .. n : at[k1] = 1
  BY <1>3, <1>4 DEF AnswersAre
<1>6. n >= 1 /\ at[1] = 1
  <2>1. CASE k1 = 1
    BY <2>1, <1>5
  <2>2. CASE k1 # 1
    <3>1. 1 \in 1 .. n /\ 1 < k1
      BY <2>2
    <3>2. at[1] < at[k1]
      BY <3>1, <1>4 DEF AnswersAre
    <3>3. at[1] \in 1 .. L
      BY <3>1
    <3> QED
      BY <3>2, <3>3, <1>5
  <2> QED
    BY <2>1, <2>2
<1>7. \A k \in 1 .. n - 1 : at[k + 1] \in 2 .. L
  <2> TAKE k \in 1 .. n - 1
  <2>1. 1 \in 1 .. n /\ k + 1 \in 1 .. n /\ 1 < k + 1
    BY <1>6
  <2>2. at[1] < at[k + 1]
    BY <2>1, <1>4 DEF AnswersAre
  <2>3. at[k + 1] \in 1 .. L
    BY <2>1
  <2> QED
    BY <2>2, <2>3, <1>6
<1> DEFINE back == [k \in 1 .. n - 1 |-> at[k + 1] - 1]
<1>8. PICK q \in [1 .. n - 1 -> 1 .. L - 1] :
         \A k \in 1 .. n - 1 : q[k] = at[k + 1] - 1
  <2>1. \A k \in 1 .. n - 1 : at[k + 1] - 1 \in 1 .. L - 1
    BY <1>3, <1>7
  <2>2. back \in [1 .. n - 1 -> 1 .. L - 1]
    BY <2>1
  <2>3. \A k \in 1 .. n - 1 : back[k] = at[k + 1] - 1
    OBVIOUS
  <2> QED
    BY <2>2, <2>3, Zenon
<1>9. \A k \in 1 .. n - 1 : events'[q[k]] = events[at[k + 1]]
  <2> TAKE k \in 1 .. n - 1
  <2>1. q[k] \in 1 .. L - 1 /\ q[k] + 1 = at[k + 1]
    BY <1>7, <1>8
  <2> QED
    BY <2>1, <1>3
<1>10. AnswersAre(n - 1, q)'
  <2>1. \A k \in 1 .. n - 1 : IsAnswer(events'[q[k]])
    <3> TAKE k \in 1 .. n - 1
    <3>1. k + 1 \in 1 .. n
      OBVIOUS
    <3> QED
      BY <3>1, <1>4, <1>9 DEF AnswersAre
  <2>2. ASSUME NEW j \in 1 .. n - 1, NEW k \in 1 .. n - 1, j < k
        PROVE  q[j] < q[k]
    <3>1. j + 1 \in 1 .. n /\ k + 1 \in 1 .. n /\ j + 1 < k + 1
      BY <2>2
    <3>2. at[j + 1] < at[k + 1]
      BY <3>1, <1>4 DEF AnswersAre
    <3>3. q[j] = at[j + 1] - 1 /\ q[k] = at[k + 1] - 1
      BY <1>8
    <3>4. at[j + 1] \in Int /\ at[k + 1] \in Int
      BY <1>7
    <3> DEFINE x == at[j + 1]
               y == at[k + 1]
    <3>5. x < y /\ x \in Int /\ y \in Int
      BY <3>2, <3>4
    <3> HIDE DEF x, y
    <3>6. x - 1 < y - 1
      BY <3>5
    <3> QED
      BY <3>3, <3>6, Zenon DEF x, y
  <2>3. ASSUME NEW i \in 1 .. Len(events'), IsAnswer(events'[i])
        PROVE  \E k \in 1 .. n - 1 : q[k] = i
    <3>1. i + 1 \in 1 .. L /\ IsAnswer(events[i + 1])
      BY <2>3, <1>3
    <3>2. PICK k \in 1 .. n : at[k] = i + 1
      BY <3>1, <1>4 DEF AnswersAre
    <3>3. k # 1
      BY <3>2, <1>6
    <3>4. k - 1 \in 1 .. n - 1 /\ (k - 1) + 1 = k
      BY <3>3
    <3>5. q[k - 1] = i
      BY <3>2, <3>4, <1>8
    <3> QED
      BY <3>4, <3>5
  <2> QED
    BY <2>1, <2>2, <2>3 DEF AnswersAre
<1> DEFINE d == n + Len(answer)
<1>11. /\ d \in Nat
       /\ d + Len(commands) = Len(unanswered)
       /\ \A k \in 1 .. d : Given(n, at, k).opcode = unanswered[k].opcode
       /\ \A k \in 1 .. Len(commands) : commands[k] = unanswered[d + k]
       /\ \A k \in 1 .. d : h[k] = EffectOf(Given(n, at, k), unanswered[k], h[k - 1])
       /\ h[0] = Scope(believed, wants) /\ h[d] = Scope(roles, hci_event_mask)
  <2>1. d \in Nat
    BY <1>2
  <2>2. /\ d + Len(commands) = Len(unanswered)
        /\ \A k \in 1 .. d : Given(n, at, k).opcode = unanswered[k].opcode
        /\ \A k \in 1 .. Len(commands) : commands[k] = unanswered[d + k]
    BY Zenon DEF Dialogue, Lined
  <2>3. /\ \A k \in 1 .. d : h[k] = EffectOf(Given(n, at, k), unanswered[k], h[k - 1])
        /\ h[0] = Scope(believed, wants) /\ h[d] = Scope(roles, hci_event_mask)
    BY Zenon DEF Dialogue, Leads
  <2> QED
    BY <2>1, <2>2, <2>3
<1>12. unanswered # <<>> /\ Len(unanswered) \in Nat /\ Len(commands) \in Nat
       /\ d >= 1 /\ Len(unanswered) >= 1
  <2>1. Len(unanswered) \in Nat /\ Len(commands) \in Nat
    BY <1>2
  <2>2. d >= 1 /\ Len(unanswered) >= 1
    BY <2>1, <1>2, <1>6, <1>11
  <2> QED
    BY <2>1, <2>2
<1>13. /\ unanswered' = Tail(unanswered)
       /\ Head(unanswered) = unanswered[1]
       /\ Len(unanswered') = Len(unanswered) - 1
       /\ \A k \in 1 .. Len(unanswered) - 1 : unanswered'[k] = unanswered[k + 1]
  BY <1>2, <1>12 DEF HostReadsAnswer
<1>14. \A k \in 1 .. d - 1 : Given(n - 1, q, k)' = Given(n, at, k + 1)
  <2> TAKE k \in 1 .. d - 1
  <2>1. CASE k <= n - 1
    <3>1. k \in 1 .. n - 1 /\ k + 1 <= n
      BY <2>1
    <3> QED
      BY <3>1, <1>9 DEF Given
  <2>2. CASE ~(k <= n - 1)
    <3>1. ~(k + 1 <= n)
      BY <2>2
    <3> QED
      BY <3>1, <2>2, <1>1 DEF Given
  <2> QED
    BY <2>1, <2>2
<1>15. n - 1 + Len(answer') = d - 1
  BY <1>1, <1>2
<1>16. Given(n, at, 1) = events[1]
  BY <1>6 DEF Given
<1> HIDE DEF d
<1>17. Lined(n - 1, q)'
  <2>1. d - 1 + Len(commands') = Len(unanswered')
    BY <1>1, <1>11, <1>12, <1>13
  <2>2. \A k \in 1 .. d - 1 : Given(n - 1, q, k)'.opcode = unanswered'[k].opcode
    <3> TAKE k \in 1 .. d - 1
    <3>1. k + 1 \in 1 .. d /\ k \in 1 .. Len(unanswered) - 1
      BY <1>11, <1>12
    <3> QED
      BY <3>1, <1>11, <1>13, <1>14
  <2>3. \A k \in 1 .. Len(commands') : commands'[k] = unanswered'[d - 1 + k]
    <3> TAKE k \in 1 .. Len(commands')
    <3>1. k \in 1 .. Len(commands) /\ d - 1 + k \in 1 .. Len(unanswered) - 1
          /\ (d - 1 + k) + 1 = d + k
      BY <1>1, <1>11, <1>12
    <3> QED
      BY <3>1, <1>1, <1>11, <1>13
  <2>4. ASSUME NEW j \in 1 .. n - 1, NEW k \in 1 .. n - 1, j < k
        PROVE  q[k] - q[j] >= k - j
    <3>1. j + 1 \in 1 .. n /\ k + 1 \in 1 .. n /\ j + 1 < k + 1
      BY <2>4
    <3>2. at[k + 1] - at[j + 1] >= (k + 1) - (j + 1)
      BY <3>1 DEF Lined, Dialogue
    <3>3. q[j] = at[j + 1] - 1 /\ q[k] = at[k + 1] - 1
      BY <1>8
    <3>4. at[j + 1] \in Int /\ at[k + 1] \in Int
      BY <1>7
    <3> DEFINE x == at[j + 1]
               y == at[k + 1]
    <3>5. y - x >= (k + 1) - (j + 1) /\ x \in Int /\ y \in Int
      BY <3>2, <3>4
    <3> HIDE DEF x, y
    <3>6. (y - 1) - (x - 1) >= k - j
      BY <3>5
    <3> QED
      BY <3>3, <3>6, Zenon DEF x, y
  <2> QED
    BY <2>1, <2>2, <2>3, <2>4, <1>10, <1>15 DEF Lined
<1>18. Scope(believed', wants') = h[1]
  <2> DEFINE c == unanswered[1]
  <2>1. c \in Commands
    BY <1>2, <1>12
  <2>2. h[1] = EffectOf(events[1], c, Scope(believed, wants))
    BY <1>11, <1>12, <1>16
  <2>3. /\ c.opcode = "Set_Event_Mask" => c.mask \subseteq Events
        /\ c.opcode = "LE_Set_Event_Mask" => c.mask \subseteq SubEvents
    BY <2>1, CommandFields
  <2>4. believed \subseteq Roles
    BY DEF Settled, TypeOK
  <2>5. CASE events[1].status = "Success"
    <3>1. believed' = Believing(c) /\ wants' = Wanting(c)
      BY <2>5, <1>3, <1>12, <1>13 DEF HostReadsAnswer
    <3> HIDE DEF c
    <3>2. Scope(Believing(c), Wanting(c)) = Effect(c, Scope(believed, wants))
      <4>1. CASE c.opcode = "Reset"
        BY <4>1 DEF Scope, Believing, Wanting, Effect, DefaultEventMask, DefaultLEEventMask,
           SubEvents
      <4>2. CASE c.opcode \in {"LE_Set_Advertise_Enable", "LE_Set_Scan_Enable"}
        BY <4>2 DEF Scope, Believing, Wanting, Effect, RoleOf
      <4>3. CASE c.opcode = "Set_Event_Mask"
        BY <4>3, <2>4 DEF Scope, Believing, Wanting, Effect, Events, Roles
      <4>4. CASE c.opcode = "LE_Set_Event_Mask"
        BY <4>4, <2>3 DEF Scope, Believing, Wanting, Effect, SubEvents
      <4>5. CASE c.opcode \notin {"Reset", "LE_Set_Advertise_Enable", "LE_Set_Scan_Enable",
                                 "Set_Event_Mask", "LE_Set_Event_Mask"}
        BY <4>5 DEF Scope, Believing, Wanting, Effect
      <4> QED
        BY <4>1, <4>2, <4>3, <4>4, <4>5
    <3> QED
      BY <2>2, <2>5, <3>1, <3>2 DEF EffectOf
  <2>6. CASE events[1].status # "Success"
    <3>1. believed' = believed /\ wants' = wants
      BY <2>6, <1>3 DEF HostReadsAnswer
    <3> QED
      BY <2>2, <2>6, <3>1 DEF EffectOf
  <2> QED
    BY <2>5, <2>6
<1>19. PICK g \in [0 .. d - 1 -> Scopes] : \A k \in 0 .. d - 1 : g[k] = h[k + 1]
  <2> DEFINE f == [k \in 0 .. d - 1 |-> h[k + 1]]
  <2>0. h \in [0 .. d -> Scopes]
    BY DEF d
  <2>1. f \in [0 .. d - 1 -> Scopes]
    <3>1. \A k \in 0 .. d - 1 : k + 1 \in 0 .. d
      BY <1>11
    <3> QED
      BY <2>0, <3>1
  <2>2. \A k \in 0 .. d - 1 : f[k] = h[k + 1]
    OBVIOUS
  <2> QED
    BY <2>1, <2>2, Zenon
<1>20. Leads(n - 1, q, g)'
  <2>1. g[0] = Scope(believed', wants')
    BY <1>11, <1>12, <1>18, <1>19
  <2>2. g[d - 1] = Scope(roles', hci_event_mask')
    <3>1. d - 1 \in 0 .. d - 1 /\ (d - 1) + 1 = d
      BY <1>11, <1>12
    <3> QED
      BY <3>1, <1>1, <1>11, <1>19
  <2>3. \A k \in 1 .. d - 1 :
           g[k] = EffectOf(Given(n - 1, q, k)', unanswered'[k], g[k - 1])
    <3> TAKE k \in 1 .. d - 1
    <3>1. k + 1 \in 1 .. d /\ k \in 0 .. d - 1 /\ k - 1 \in 0 .. d - 1
          /\ k \in 1 .. Len(unanswered) - 1 /\ (k + 1) - 1 = (k - 1) + 1
      BY <1>2, <1>11, <1>12
    <3>2. g[k] = h[k + 1] /\ g[k - 1] = h[(k + 1) - 1]
      BY <3>1, <1>19
    <3>3. unanswered'[k] = unanswered[k + 1] /\ Given(n - 1, q, k)' = Given(n, at, k + 1)
      BY <3>1, <1>13, <1>14
    <3> QED
      BY <3>1, <3>2, <3>3, <1>11
  <2> QED
    BY <2>1, <2>2, <2>3, <1>15 DEF Leads
<1>21. FewReports(n - 1, q)'
  <2>1. ToWrite' = ToWrite /\ Quiet' = Quiet
    BY <1>1 DEF ToWrite, Quiet, Scope
  <2>2. ToWrite \in {0, 1}
    BY DEF ToWrite
  <2> SUFFICES ASSUME Quiet, answer = <<>>
               PROVE  /\ n - 1 > 0 => Len(events') - q[n - 1] + ToWrite <= 1
                      /\ unanswered' = <<>> => 0 + Len(events') + ToWrite <= 1
    BY <2>1, <1>1 DEF FewReports
  <2>3. L - at[n] + ToWrite <= 1
    BY <1>6 DEF FewReports, Dialogue
  <2>4. ASSUME n - 1 > 0
        PROVE  Len(events') - q[n - 1] + ToWrite <= 1
    <3>1. n - 1 \in 1 .. n - 1 /\ (n - 1) + 1 = n
      BY <2>4
    <3>2. q[n - 1] = at[n] - 1 /\ at[n] \in 2 .. L
      BY <3>1, <1>7, <1>8
    <3> QED
      BY <2>2, <2>3, <3>2, <1>3
  <2>5. ASSUME unanswered' = <<>>
        PROVE  0 + Len(events') + ToWrite <= 1
    <3>1. Len(unanswered) = 1
      BY <2>5, <1>12, <1>13
    <3>2. n = 1
      BY <3>1, <1>2, <1>6, <1>11, <1>12 DEF d
    <3> QED
      BY <3>2, <2>2, <2>3, <1>3, <1>6
  <2> QED
    BY <2>4, <2>5
<1>22. /\ n - 1 \in 0 .. Len(events')
       /\ q \in [1 .. n - 1 -> 1 .. Len(events')]
       /\ g \in [0 .. n - 1 + Len(answer') -> Scopes]
  BY <1>3, <1>6, <1>15
<1> QED
  BY <1>17, <1>20, <1>21, <1>22 DEF InDialogue, Dialogue

\* With nothing outstanding the host and the controller agree on the scope.
LEMMA ScopeAgreed ==
    ASSUME IInv, unanswered = <<>>
    PROVE  /\ Scope(believed, wants) = Scope(roles, hci_event_mask)
           /\ answer = <<>>
           /\ Quiet => stale + Len(events) + ToWrite <= 1
<1>0. PICK n \in 0 .. Len(events) : \E at \in [1 .. n -> 1 .. Len(events)] :
         \E h \in [0 .. n + Len(answer) -> Scopes] : Dialogue(n, at, h)
  BY DEF IInv, InDialogue
<1>1. PICK at \in [1 .. n -> 1 .. Len(events)] :
         \E h \in [0 .. n + Len(answer) -> Scopes] : Dialogue(n, at, h)
  BY <1>0
<1>2. PICK h \in [0 .. n + Len(answer) -> Scopes] : Dialogue(n, at, h)
  BY <1>1
<1>3. answer \in Seq(Answers) /\ commands \in Seq(Commands)
  BY DEF IInv, Settled, TypeOK
<1>4. Len(answer) \in Nat /\ Len(commands) \in Nat
  BY <1>3, LenProperties
<1>5. n + Len(answer) + Len(commands) = 0
  <2>1. Len(<<>>) = 0
    OBVIOUS
  <2> QED
    BY <1>2, <2>1 DEF Dialogue, Lined
<1>6. n = 0 /\ Len(answer) = 0
  BY <1>4, <1>5
<1>7. answer = <<>>
  BY <1>3, <1>6, EmptySeq
<1>8. h[0] = Scope(believed, wants) /\ h[0] = Scope(roles, hci_event_mask)
  BY <1>2, <1>6 DEF Dialogue, Leads
<1> QED
  BY <1>2, <1>7, <1>8 DEF Dialogue, FewReports

\* A report that is read moves the answers forward.
LEMMA HostReadsReportKeepsDialogue ==
    ASSUME Settled, HostReadsReport,
           NEW n \in Nat, n <= Len(events), NEW at \in [1 .. n -> 1 .. Len(events)],
           NEW h \in [0 .. n + Len(answer) -> Scopes], Dialogue(n, at, h)
    PROVE  InDialogue'
<1>1. /\ answer' = answer /\ commands' = commands /\ reporting' = reporting
      /\ hci_event_mask' = hci_event_mask /\ roles' = roles
      /\ unanswered' = unanswered /\ believed' = believed /\ wants' = wants
      /\ events' = Tail(events)
  BY DEF HostReadsReport, controllerVars
<1>2. events \in Seq(Answers) /\ events # <<>>
  BY DEF Settled, TypeOK, HostReadsReport
<1> DEFINE L == Len(events)
<1>3. /\ L \in Nat \ {0} /\ Len(events') = L - 1 /\ Head(events) = events[1]
      /\ \A i \in 1 .. L - 1 : events'[i] = events[i + 1]
  BY <1>1, <1>2
<1>4. AnswersAre(n, at) /\ ~IsAnswer(events[1])
  BY <1>3 DEF Dialogue, Lined, HostReadsReport, IsAnswer
<1>5. \A k \in 1 .. n : at[k] \in 2 .. L
  <2> TAKE k \in 1 .. n
  <2>1. at[k] \in 1 .. L /\ at[k] # 1
    BY <1>4 DEF AnswersAre
  <2> QED
    BY <2>1
<1>6. PICK q \in [1 .. n -> 1 .. L - 1] : \A k \in 1 .. n : q[k] = at[k] - 1
  <2> DEFINE back == [k \in 1 .. n |-> at[k] - 1]
  <2>1. \A k \in 1 .. n : at[k] - 1 \in 1 .. L - 1
    BY <1>3, <1>5
  <2>2. back \in [1 .. n -> 1 .. L - 1]
    BY <2>1
  <2>3. \A k \in 1 .. n : back[k] = at[k] - 1
    OBVIOUS
  <2> QED
    BY <2>2, <2>3, Zenon
<1>7. \A k \in 1 .. n : events'[q[k]] = events[at[k]]
  <2> TAKE k \in 1 .. n
  <2>1. q[k] \in 1 .. L - 1 /\ q[k] + 1 = at[k]
    BY <1>5, <1>6
  <2> QED
    BY <2>1, <1>3
<1>8. AnswersAre(n, q)'
  <2>1. \A k \in 1 .. n : IsAnswer(events'[q[k]])
    BY <1>4, <1>7 DEF AnswersAre
  <2>2. ASSUME NEW j \in 1 .. n, NEW k \in 1 .. n, j < k
        PROVE  q[j] < q[k]
    <3>1. at[j] < at[k]
      BY <2>2, <1>4 DEF AnswersAre
    <3> QED
      BY <3>1, <1>5, <1>6
  <2>3. ASSUME NEW i \in 1 .. Len(events'), IsAnswer(events'[i])
        PROVE  \E k \in 1 .. n : q[k] = i
    <3>0. i \in 1 .. L - 1 /\ i + 1 \in 1 .. L
      BY <1>3
    <3>1. i + 1 \in 1 .. L /\ IsAnswer(events[i + 1])
      BY <3>0, <2>3, <1>3, Zenon
    <3>2. PICK k \in 1 .. n : at[k] = i + 1
      BY <3>1, <1>4 DEF AnswersAre
    <3> QED
      BY <3>2, <1>6
  <2> QED
    BY <2>1, <2>2, <2>3 DEF AnswersAre
<1>9. \A k \in 1 .. n + Len(answer) : Given(n, q, k)' = Given(n, at, k)
  <2>1. answer \in Seq(Answers)
    BY DEF Settled, TypeOK
  <2>2. n + Len(answer) \in Nat
    BY <2>1, LenProperties
  <2> TAKE k \in 1 .. n + Len(answer)
  <2>3. k <= n => k \in 1 .. n
    BY <2>2
  <2> QED
    BY <2>3, <1>1, <1>7 DEF Given
<1>10. Lined(n, q)'
  <2>1. ASSUME NEW j \in 1 .. n, NEW k \in 1 .. n, j < k
        PROVE  q[k] - q[j] >= k - j
    <3>1. at[k] - at[j] >= k - j
      BY <2>1 DEF Lined, Dialogue
    <3> QED
      BY <3>1, <1>5, <1>6
  <2> QED
    BY <2>1, <1>1, <1>8, <1>9 DEF Lined, Dialogue
<1>11. Leads(n, q, h)'
  <2>1. \A k \in 1 .. n + Len(answer') :
           h[k] = EffectOf(Given(n, q, k)', unanswered'[k], h[k - 1])
    BY <1>1, <1>9 DEF Leads, Dialogue
  <2>2. h[0] = Scope(believed', wants') /\ h[n + Len(answer')] = Scope(roles', hci_event_mask')
    BY <1>1 DEF Leads, Dialogue
  <2> QED
    BY <2>1, <2>2 DEF Leads
<1>12. FewReports(n, q)'
  <2>1. ToWrite' = ToWrite /\ Quiet' = Quiet
    BY <1>1 DEF ToWrite, Quiet, Scope
  <2>2. ToWrite \in {0, 1}
    BY DEF ToWrite
  <2> SUFFICES ASSUME Quiet, answer = <<>>
               PROVE  /\ n > 0 => Len(events') - q[n] + ToWrite <= 1
                      /\ unanswered = <<>> => stale' + Len(events') + ToWrite <= 1
    BY <2>1, <1>1 DEF FewReports
  <2>3. ASSUME n > 0
        PROVE  Len(events') - q[n] + ToWrite <= 1
    <3>1. L - at[n] + ToWrite <= 1
      BY <2>3 DEF FewReports, Dialogue
    <3>2. q[n] = at[n] - 1 /\ at[n] \in 2 .. L
      BY <2>3, <1>5, <1>6
    <3> QED
      BY <2>2, <3>1, <3>2, <1>3
  <2>4. ASSUME unanswered = <<>>
        PROVE  stale' + Len(events') + ToWrite <= 1
    <3>1. stale + L + ToWrite <= 1
      BY <2>4 DEF FewReports, Dialogue
    <3>2. stale \in 0 .. 2
      BY DEF Settled, TypeOK
    <3>3. stale' = stale \/ stale' = stale + 1
      BY DEF HostReadsReport
    <3> QED
      BY <2>2, <3>1, <3>2, <3>3, <1>3
  <2> QED
    BY <2>3, <2>4
<1>13. /\ n \in 0 .. Len(events')
       /\ q \in [1 .. n -> 1 .. Len(events')]
       /\ h \in [0 .. n + Len(answer') -> Scopes]
  <2>1. n <= L - 1
    <3>1. CASE n = 0
      BY <3>1, <1>3
    <3>2. CASE n = 1
      BY <3>2, <1>3, <1>5
    <3>3. CASE n > 1
      <4>1. 1 \in 1 .. n /\ n \in 1 .. n /\ 1 < n
        BY <3>3
      <4>2. at[n] - at[1] >= n - 1
        BY <4>1 DEF Lined, Dialogue
      <4>3. at[1] \in 2 .. L /\ at[n] \in 2 .. L
        BY <4>1, <1>5
      <4> QED
        BY <4>2, <4>3, <1>3
    <3> QED
      BY <3>1, <3>2, <3>3
  <2> QED
    BY <2>1, <1>1, <1>3
<1> QED
  BY <1>10, <1>11, <1>12, <1>13 DEF InDialogue, Dialogue

\* The steps of the simulation thread that write nothing begin a report only
\* in a scope with reports, and go on with it only if the mask lets it pass.
LEMMA LookingKeepsDialogue ==
    ASSUME Settled, end_of_packet \/ FilterReport,
           NEW n \in Nat, n <= Len(events), NEW at \in [1 .. n -> 1 .. Len(events)],
           NEW h \in [0 .. n + Len(answer) -> Scopes], Dialogue(n, at, h)
    PROVE  InDialogue'
<1>1. /\ answer' = answer /\ commands' = commands /\ events' = events
      /\ hci_event_mask' = hci_event_mask /\ roles' = roles
      /\ unanswered' = unanswered /\ believed' = believed /\ wants' = wants /\ stale' = stale
  BY DEF end_of_packet, FilterReport, controllerVars, hostVars
<1>2. AnswersAre(n, at)' /\ \A k : Given(n, at, k)' = Given(n, at, k)
  BY <1>1 DEF AnswersAre, Given, Dialogue, Lined
<1>3. Lined(n, at)'
  BY <1>1, <1>2 DEF Dialogue, Lined
<1>4. Leads(n, at, h)'
  <2>1. \A k \in 1 .. n + Len(answer') :
           h[k] = EffectOf(Given(n, at, k)', unanswered'[k], h[k - 1])
    BY <1>1, <1>2 DEF Leads, Dialogue
  <2>2. h[0] = Scope(believed', wants') /\ h[n + Len(answer')] = Scope(roles', hci_event_mask')
    BY <1>1 DEF Leads, Dialogue
  <2> QED
    BY <2>1, <2>2 DEF Leads
<1>5. Quiet' = Quiet /\ (Quiet => ToWrite' <= ToWrite)
  <2>1. Quiet' = Quiet
    BY <1>1 DEF Quiet, Scope
  <2>2. CASE end_of_packet
    <3>1. Quiet => "LE_Meta" \notin hci_event_mask
      BY <2>2 DEF end_of_packet, Quiet, Scope
    <3>2. reporting = "No" /\ reporting' = "Scanning"
      BY <2>2 DEF end_of_packet
    <3> QED
      BY <1>1, <2>1, <3>1, <3>2 DEF ToWrite
  <2>3. CASE FilterReport
    <3>1. /\ reporting = "Scanning"
          /\ reporting' = IF "LE_Meta" \in hci_event_mask THEN "Writing" ELSE "No"
      BY <2>3 DEF FilterReport
    <3> QED
      BY <1>1, <2>1, <3>1 DEF ToWrite
  <2> QED
    BY <2>2, <2>3
<1>6. ToWrite \in {0, 1} /\ ToWrite' \in {0, 1}
  BY DEF ToWrite
<1>7. FewReports(n, at)'
  <2> SUFFICES ASSUME Quiet, answer = <<>>
               PROVE  /\ n > 0 => Len(events) - at[n] + ToWrite' <= 1
                      /\ unanswered = <<>> => stale + Len(events) + ToWrite' <= 1
    BY <1>1, <1>5 DEF FewReports
  <2>1. Len(events) \in Nat /\ stale \in 0 .. 2
    BY LenProperties DEF Settled, TypeOK
  <2>2. n > 0 => Len(events) - at[n] + ToWrite <= 1 /\ at[n] \in 1 .. Len(events)
    BY DEF FewReports, Dialogue
  <2>3. unanswered = <<>> => stale + Len(events) + ToWrite <= 1
    BY DEF FewReports, Dialogue
  <2>4. ToWrite' <= ToWrite
    BY <1>5
  <2>5. n > 0 => Len(events) - at[n] + ToWrite' <= 1
    BY <1>6, <2>1, <2>2, <2>4
  <2>6. unanswered = <<>> => stale + Len(events) + ToWrite' <= 1
    BY <1>6, <2>1, <2>3, <2>4
  <2> QED
    BY <2>5, <2>6
<1>8. /\ n \in 0 .. Len(events')
      /\ at \in [1 .. n -> 1 .. Len(events')]
      /\ h \in [0 .. n + Len(answer') -> Scopes]
  <2>1. Len(events) \in Nat
    BY LenProperties DEF Settled, TypeOK
  <2> QED
    BY <2>1, <1>1
<1> QED
  BY <1>3, <1>4, <1>7, <1>8 DEF InDialogue, Dialogue

\* A report that is written comes after the answers.
LEMMA WriteReportKeepsDialogue ==
    ASSUME Settled, WriteReport,
           NEW n \in Nat, n <= Len(events), NEW at \in [1 .. n -> 1 .. Len(events)],
           NEW h \in [0 .. n + Len(answer) -> Scopes], Dialogue(n, at, h)
    PROVE  InDialogue'
<1>1. /\ answer' = answer /\ commands' = commands
      /\ hci_event_mask' = hci_event_mask /\ roles' = roles
      /\ unanswered' = unanswered /\ believed' = believed /\ wants' = wants /\ stale' = stale
      /\ reporting = "Writing" /\ reporting' = "No"
      /\ events' = Append(events, Report)
  BY DEF WriteReport, controllerVars, hostVars
<1>2. events \in Seq(Answers)
  BY DEF Settled, TypeOK
<1> DEFINE L == Len(events)
<1>3. /\ L \in Nat /\ Len(events') = L + 1
      /\ \A i \in 1 .. L : events'[i] = events[i]
      /\ events'[L + 1] = Report
  BY <1>1, <1>2
<1>4. ~IsAnswer(Report)
  BY DEF IsAnswer, Report, Answer
<1>5. AnswersAre(n, at)
  BY DEF Dialogue, Lined
<1>6. \A k \in 1 .. n : events'[at[k]] = events[at[k]]
  BY <1>3
<1>7. AnswersAre(n, at)'
  <2>1. ASSUME NEW i \in 1 .. Len(events'), IsAnswer(events'[i])
        PROVE  \E k \in 1 .. n : at[k] = i
    <3>1. i # L + 1
      BY <2>1, <1>3, <1>4
    <3>2. i \in 1 .. L
      BY <3>1, <1>3
    <3> QED
      BY <2>1, <3>2, <1>3, <1>5 DEF AnswersAre
  <2> QED
    BY <2>1, <1>5, <1>6 DEF AnswersAre
<1>8. \A k \in 1 .. n + Len(answer) : Given(n, at, k)' = Given(n, at, k)
  <2>1. answer \in Seq(Answers)
    BY DEF Settled, TypeOK
  <2>2. n + Len(answer) \in Nat
    BY <2>1, LenProperties
  <2> TAKE k \in 1 .. n + Len(answer)
  <2>3. k <= n => k \in 1 .. n
    BY <2>2
  <2> QED
    BY <2>3, <1>1, <1>6 DEF Given
<1>9. Lined(n, at)'
  BY <1>1, <1>7, <1>8 DEF Dialogue, Lined
<1>10. Leads(n, at, h)'
  <2>1. \A k \in 1 .. n + Len(answer') :
           h[k] = EffectOf(Given(n, at, k)', unanswered'[k], h[k - 1])
    BY <1>1, <1>8 DEF Leads, Dialogue
  <2>2. h[0] = Scope(believed', wants') /\ h[n + Len(answer')] = Scope(roles', hci_event_mask')
    BY <1>1 DEF Leads, Dialogue
  <2> QED
    BY <2>1, <2>2 DEF Leads
<1>11. FewReports(n, at)'
  <2>1. Quiet' = Quiet /\ ToWrite = 1 /\ ToWrite' = 0
    BY <1>1 DEF Quiet, Scope, ToWrite
  <2> SUFFICES ASSUME Quiet, answer = <<>>
               PROVE  /\ n > 0 => Len(events') - at[n] + 0 <= 1
                      /\ unanswered = <<>> => stale + Len(events') + 0 <= 1
    BY <1>1, <2>1 DEF FewReports
  <2>2. stale \in 0 .. 2
    BY DEF Settled, TypeOK
  <2>3. n > 0 => L - at[n] + 1 <= 1 /\ at[n] \in 1 .. L
    BY <2>1 DEF FewReports, Dialogue
  <2>4. unanswered = <<>> => stale + L + 1 <= 1
    BY <2>1 DEF FewReports, Dialogue
  <2> QED
    BY <2>2, <2>3, <2>4, <1>3
<1>12. /\ n \in 0 .. Len(events')
       /\ at \in [1 .. n -> 1 .. Len(events')]
       /\ h \in [0 .. n + Len(answer') -> Scopes]
  BY <1>1, <1>3
<1> QED
  BY <1>9, <1>10, <1>11, <1>12 DEF InDialogue, Dialogue
-----------------------------------------------------------------------------
(* The invariant.                                                          *)

LEMMA DialogueNext ==
    ASSUME IInv, Next
    PROVE  InDialogue'
<1>0. PICK n \in 0 .. Len(events) : \E at \in [1 .. n -> 1 .. Len(events)] :
         \E h \in [0 .. n + Len(answer) -> Scopes] : Dialogue(n, at, h)
  BY DEF IInv, InDialogue
<1>1. PICK at \in [1 .. n -> 1 .. Len(events)] :
         \E h \in [0 .. n + Len(answer) -> Scopes] : Dialogue(n, at, h)
  BY <1>0
<1>2. PICK h \in [0 .. n + Len(answer) -> Scopes] : Dialogue(n, at, h)
  BY <1>1
<1>3. Settled
  BY DEF IInv
<1>4. n \in Nat /\ n <= Len(events) /\ Len(events) \in Nat
  BY <1>3, LenProperties DEF Settled, TypeOK
<1>5. CASE process_command
  <2>1. PICK c \in Commands, a \in Answers : Executes(c, a)
    BY <1>3, <1>5, HandlersExecute
  <2>2. PICK g \in [0 .. n + Len(answer)' -> Scopes] : Dialogue(n, at, g)'
    BY <1>2, <1>3, <1>4, <2>1, ExecutingKeepsDialogue
  <2>3. events' = events
    BY <2>1 DEF Executes
  <2> QED
    BY <2>2, <2>3 DEF InDialogue
<1>6. CASE send_command_complete_event
  BY <1>2, <1>3, <1>4, <1>6, SendingKeepsDialogue
<1>7. CASE end_of_packet \/ FilterReport
  BY <1>2, <1>3, <1>4, <1>7, LookingKeepsDialogue
<1>8. CASE WriteReport
  BY <1>2, <1>3, <1>4, <1>8, WriteReportKeepsDialogue
<1>9. CASE HostSends
  BY <1>2, <1>3, <1>4, <1>9, HostSendsKeepsDialogue
<1>10. CASE HostReadsAnswer
  BY <1>2, <1>3, <1>4, <1>10, HostReadsAnswerKeepsDialogue
<1>11. CASE HostReadsReport
  BY <1>2, <1>3, <1>4, <1>11, HostReadsReportKeepsDialogue
<1> QED
  BY <1>5, <1>6, <1>7, <1>8, <1>9, <1>10, <1>11
     DEF Next, SocketThread, send_le_advertising_report_event, Host

\* What the host believes and wants stays of its type.
LEMMA HostLearns ==
    ASSUME NEW c \in Commands, TypeOK
    PROVE  Believing(c) \subseteq Roles /\ Wanting(c) \subseteq Events \cup SubEvents
<1>1. /\ c.opcode = "Set_Event_Mask" => c.mask \subseteq Events
      /\ c.opcode = "LE_Set_Event_Mask" => c.mask \subseteq SubEvents
  BY CommandFields
<1>2. Believing(c) \subseteq Roles
  BY DEF TypeOK, Believing, RoleOf, Roles
<1>3. Wanting(c) \subseteq Events \cup SubEvents
  <2>1. wants \subseteq Events \cup SubEvents
    BY DEF TypeOK
  <2>2. DefaultEventMask \cup DefaultLEEventMask \subseteq Events \cup SubEvents
    BY DEF DefaultEventMask, DefaultLEEventMask
  <2> QED
    BY <1>1, <2>1, <2>2 DEF Wanting
<1> QED
  BY <1>2, <1>3

\* The rest of the invariant; a report makes the count of stale ones exceed 1
\* only if there was one already and FewReports did not hold.
LEMMA SettledNext ==
    ASSUME IInv, Next
    PROVE  Settled'
<1>1. Settled /\ TypeOK
  BY DEF IInv, Settled
<1>2. CASE process_command
  <2>1. PICK c \in Commands, a \in Answers : Executes(c, a)
    BY <1>1, <1>2, HandlersExecute
  <2>2. answer' \in Seq(Answers) /\ Len(answer') = 1 /\ answer'[1] = a
    BY <2>1 DEF Executes
  <2>3. commands' \in Seq(Commands)
    BY <1>1, <2>1 DEF TypeOK, Executes
  <2>4. TypeOK'
    BY <1>1, <2>1, <2>2, <2>3 DEF TypeOK, Executes, hostVars, Answers, Commands
  <2> QED
    BY <1>1, <2>1, <2>2, <2>4 DEF Settled, Executes, hostVars
<1>3. CASE send_command_complete_event
  <2>1. answer \in Seq(Answers) /\ events \in Seq(Answers)
    BY <1>1 DEF TypeOK
  <2>2. events' \in Seq(Answers)
    BY <1>3, <2>1 DEF send_command_complete_event
  <2>3. answer' = <<>> /\ answer' \in Seq(Answers) /\ Len(answer') = 0
    BY <1>3 DEF send_command_complete_event
  <2>4. UNCHANGED <<controllerVars, reporting, commands, hostVars>>
    BY <1>3 DEF send_command_complete_event
  <2> QED
    BY <1>1, <2>2, <2>3, <2>4 DEF TypeOK, Settled, controllerVars, hostVars, Answers, Commands
<1>4. CASE end_of_packet \/ FilterReport
  <2>1. /\ UNCHANGED <<controllerVars, answer, commands, events, hostVars>>
        /\ reporting' \in {"No", "Scanning", "Writing"}
    BY <1>4 DEF end_of_packet, FilterReport
  <2> QED
    BY <1>1, <2>1 DEF TypeOK, Settled, controllerVars, hostVars, Answers, Commands
<1>5. CASE WriteReport
  <2>1. Report \in Answers
    BY DEF Report, Answer, Answers, Events
  <2>2. events' \in Seq(Answers)
    BY <1>1, <1>5, <2>1 DEF WriteReport, TypeOK
  <2>3. UNCHANGED <<controllerVars, answer, commands, hostVars>> /\ reporting' = "No"
    BY <1>5 DEF WriteReport
  <2> QED
    BY <1>1, <2>2, <2>3 DEF TypeOK, Settled, controllerVars, hostVars, Answers, Commands
<1>6. CASE HostSends
  <2>1. PICK c \in Commands : /\ commands' = Append(commands, c)
                            /\ unanswered' = Append(unanswered, c)
    BY <1>6 DEF HostSends, Commands
  <2>2. commands' \in Seq(Commands) /\ unanswered' \in Seq(Commands)
    BY <1>1, <2>1 DEF TypeOK
  <2>3. UNCHANGED <<controllerVars, answer, reporting, events, believed, wants>> /\ stale' = 0
    BY <1>6 DEF HostSends
  <2> QED
    BY <1>1, <2>2, <2>3 DEF TypeOK, Settled, controllerVars, Answers, Commands
<1>7. CASE HostReadsAnswer
  <2>1. events' \in Seq(Answers)
    BY <1>1, <1>7 DEF TypeOK, HostReadsAnswer
  <2>2. unanswered' \in Seq(Commands)
    BY <1>1, <1>7 DEF TypeOK, HostReadsAnswer
  <2>3. believed' \subseteq Roles /\ wants' \subseteq Events \cup SubEvents
    <3>1. CASE Head(events).status = "Success" /\ unanswered # <<>>
      <4>1. Head(unanswered) \in Commands
        BY <1>1, <3>1 DEF TypeOK
      <4>2. believed' = Believing(Head(unanswered)) /\ wants' = Wanting(Head(unanswered))
        BY <1>7, <3>1 DEF HostReadsAnswer
      <4> QED
        BY <1>1, <4>1, <4>2, HostLearns
    <3>2. CASE ~(Head(events).status = "Success" /\ unanswered # <<>>)
      BY <1>1, <1>7, <3>2 DEF TypeOK, HostReadsAnswer
    <3> QED
      BY <3>1, <3>2
  <2>4. UNCHANGED <<controllerVars, answer, reporting, commands>> /\ stale' = 0
    BY <1>7 DEF HostReadsAnswer
  <2> QED
    BY <1>1, <2>1, <2>2, <2>3, <2>4 DEF TypeOK, Settled, controllerVars, Answers, Commands
<1>8. CASE HostReadsReport
  <2>1. events' \in Seq(Answers)
    BY <1>1, <1>8 DEF TypeOK, HostReadsReport
  <2>2. UNCHANGED <<controllerVars, answer, reporting, commands, unanswered, believed, wants>>
    BY <1>8 DEF HostReadsReport
  <2>3. stale' \in 0 .. 1
    <3>1. stale \in 0 .. 2 /\ stale <= 1
      BY <1>1 DEF TypeOK, Settled
    <3>2. CASE unanswered = <<>> /\ ~("Scanning" \in believed /\ "LE_Meta" \in wants)
      <4>1. Scope(believed, wants) = Scope(roles, hci_event_mask)
            /\ (Quiet => stale + Len(events) + ToWrite <= 1)
        BY <3>2, ScopeAgreed
      <4>2. Quiet
        <5>1. "LE_Meta" \notin believed
          BY <1>1 DEF TypeOK, Roles
        <5> QED
          BY <3>2, <4>1, <5>1 DEF Quiet, Scope
      <4>3. Len(events) \in Nat \ {0}
        BY <1>1, <1>8, EmptySeq DEF TypeOK, HostReadsReport
      <4>4. ToWrite \in {0, 1}
        BY DEF ToWrite
      <4>5. stale = 0
        BY <3>1, <4>1, <4>2, <4>3, <4>4
      <4>6. stale' \in {stale, stale + 1}
        BY <1>8 DEF HostReadsReport
      <4> QED
        BY <4>5, <4>6
    <3>3. CASE ~(unanswered = <<>> /\ ~("Scanning" \in believed /\ "LE_Meta" \in wants))
      <4>1. stale' = stale
        BY <1>8, <3>3 DEF HostReadsReport
      <4> QED
        BY <3>1, <4>1
    <3> QED
      BY <3>2, <3>3
  <2>4. stale' \in 0 .. 2 /\ stale' <= 1
    BY <2>3
  <2> QED
    BY <1>1, <2>1, <2>2, <2>4 DEF TypeOK, Settled, controllerVars, Answers, Commands
<1> QED
  BY <1>2, <1>3, <1>4, <1>5, <1>6, <1>7, <1>8
     DEF Next, SocketThread, send_le_advertising_report_event, Host

LEMMA InvInit == Init => IInv
<1> SUFFICES ASSUME Init PROVE IInv
  OBVIOUS
<1>1. /\ Len(answer) = 0 /\ Len(commands) = 0 /\ Len(events) = 0 /\ Len(unanswered) = 0
      /\ answer \in Seq(Answers) /\ commands \in Seq(Commands)
      /\ events \in Seq(Answers) /\ unanswered \in Seq(Commands)
  BY DEF Init
<1>2. enabled \in [Roles -> Nat]
  <2>1. UnsetFlags \subseteq Nat
    BY ParametersAssumption
  <2>2. enabled \in [Roles -> UnsetFlags]
    BY DEF Init
  <2> QED
    BY <2>1, <2>2
<1>3. TypeOK
  BY <1>1, <1>2 DEF Init, TypeOK, DefaultEventMask, DefaultLEEventMask
<1>4. AnswerEvents \subseteq hci_event_mask
  BY DEF Init, AnswerEvents, DefaultEventMask, Events
<1>5. Settled
  BY <1>3, <1>4 DEF Settled, Init
<1>6. \E at : at \in [1 .. 0 -> 1 .. 0]
  <2> DEFINE f == [k \in 1 .. 0 |-> k]
  <2>1. f \in [1 .. 0 -> 1 .. 0]
    OBVIOUS
  <2> QED
    BY <2>1, Zenon
<1>7. PICK at \in [1 .. 0 -> 1 .. 0] : TRUE
  BY <1>6
<1>8. \E h \in [0 .. 0 -> Scopes] : h[0] = {}
  <2> DEFINE f == [k \in 0 .. 0 |-> {}]
  <2>1. f \in [0 .. 0 -> Scopes]
    BY DEF Scopes
  <2>2. f[0] = {}
    OBVIOUS
  <2> QED
    BY <2>1, <2>2, Zenon
<1>9. PICK h \in [0 .. 0 -> Scopes] : h[0] = {}
  BY <1>8
<1>10. Lined(0, at)
  BY <1>1 DEF Lined, AnswersAre
<1>11. Leads(0, at, h)
  <2>1. Scope(believed, wants) = {} /\ Scope(roles, hci_event_mask) = {}
    BY DEF Init, Scope, DefaultEventMask, DefaultLEEventMask, SubEvents
  <2> QED
    BY <1>1, <1>9, <2>1 DEF Leads
<1>12. FewReports(0, at)
  BY <1>1 DEF Init, FewReports, ToWrite
<1>13. Dialogue(0, at, h)
  BY <1>10, <1>11, <1>12 DEF Dialogue
<1> QED
  BY <1>1, <1>5, <1>13 DEF IInv, InDialogue

LEMMA InvNext == IInv /\ [Next]_vars => IInv'
<1>1. ASSUME IInv, Next
      PROVE  IInv'
  BY <1>1, DialogueNext, SettledNext DEF IInv
<1>2. ASSUME IInv, UNCHANGED vars
      PROVE  IInv'
  <2>1. Settled'
    BY <1>2 DEF IInv, Settled, TypeOK, Answers, Commands, vars, controllerVars, hostVars
  <2>2. InDialogue'
    <3>1. /\ answer' = answer /\ commands' = commands /\ events' = events
          /\ hci_event_mask' = hci_event_mask /\ roles' = roles /\ reporting' = reporting
          /\ unanswered' = unanswered /\ believed' = believed /\ wants' = wants /\ stale' = stale
      BY <1>2 DEF vars, controllerVars, hostVars
    <3>2. \A n, at : Lined(n, at) => Lined(n, at)'
      BY <3>1 DEF Lined, AnswersAre, Given
    <3>3. \A n, at, k : Given(n, at, k)' = Given(n, at, k)
      BY <3>1 DEF Given
    <3>4. \A n, at, h : Leads(n, at, h) => Leads(n, at, h)'
      BY <3>1, <3>3 DEF Leads
    <3>5. \A n, at : FewReports(n, at) => FewReports(n, at)'
      BY <3>1 DEF FewReports, Quiet, ToWrite, Scope
    <3>6. \A n, at, h : Dialogue(n, at, h) => Dialogue(n, at, h)'
      BY <3>2, <3>4, <3>5 DEF Dialogue
    <3> QED
      BY <1>2, <3>1, <3>6 DEF IInv, InDialogue
  <2> QED
    BY <2>1, <2>2 DEF IInv
<1> QED
  BY <1>1, <1>2

LEMMA Invariance == Spec => []IInv
BY InvInit, InvNext, PTL DEF Spec
-----------------------------------------------------------------------------
(* The properties of LowerHCI.                                             *)

\* Every variable has its type.
THEOREM LowerHCITypes == Spec => []TypeOK
<1>1. IInv => TypeOK
  BY DEF IInv, Settled
<1> QED
  BY <1>1, Invariance, PTL

\* The positions of the answers are those that AnswersInOrder asks for.
LEMMA InOrder ==
    ASSUME IInv
    PROVE  AnswersInOrder
<1>0. PICK n \in 0 .. Len(events) : \E at \in [1 .. n -> 1 .. Len(events)] :
         \E h \in [0 .. n + Len(answer) -> Scopes] : Dialogue(n, at, h)
  BY DEF IInv, InDialogue
<1>1. PICK at \in [1 .. n -> 1 .. Len(events)] :
         \E h \in [0 .. n + Len(answer) -> Scopes] : Dialogue(n, at, h)
  BY <1>0
<1>2. Lined(n, at)
  BY <1>1 DEF Dialogue
<1>3. /\ answer \in Seq(Answers) /\ commands \in Seq(Commands)
      /\ events \in Seq(Answers) /\ unanswered \in Seq(Commands) /\ Len(answer) <= 1
  BY DEF IInv, Settled, TypeOK
<1> DEFINE pending == [k \in 1 .. n |-> events[at[k]]]
           W == Answers \cup Commands
           all == pending \o answer \o commands
<1>4. n \in Nat /\ Len(answer) \in 0 .. 1 /\ Len(commands) \in Nat
  <2>1. Len(answer) \in Nat /\ Len(commands) \in Nat /\ Len(events) \in Nat
    BY <1>3, LenProperties
  <2>2. Len(answer) \in 0 .. 1
    BY <1>3, <2>1, AtMostOne
  <2> QED
    BY <2>1, <2>2
<1>5. /\ pending \in Seq(W) /\ Len(pending) = n
      /\ \A k \in 1 .. n : pending[k] = events[at[k]]
  <2>1. \A k \in 1 .. n : events[at[k]] \in W
    BY <1>3, ElementOfSeq
  <2> QED
    BY <1>4, <2>1, IsASeq
<1>6. answer \in Seq(W) /\ commands \in Seq(W)
  BY <1>3
<1> HIDE DEF pending, W
<1>7. /\ pending \o answer \in Seq(W)
      /\ Len(pending \o answer) = n + Len(answer)
      /\ \A k \in 1 .. n + Len(answer) :
            (pending \o answer)[k] = IF k <= n THEN pending[k] ELSE answer[k - n]
  BY <1>5, <1>6, ConcatProperties
<1>8. /\ all \in Seq(W)
      /\ Len(all) = n + Len(answer) + Len(commands)
      /\ \A k \in 1 .. n + Len(answer) + Len(commands) :
            all[k] = IF k <= n + Len(answer) THEN (pending \o answer)[k]
                     ELSE commands[k - (n + Len(answer))]
  <2>1. (pending \o answer) \o commands \in Seq(W)
        /\ Len((pending \o answer) \o commands) = Len(pending \o answer) + Len(commands)
        /\ \A k \in 1 .. Len(pending \o answer) + Len(commands) :
              ((pending \o answer) \o commands)[k] =
                 IF k <= Len(pending \o answer) THEN (pending \o answer)[k]
                 ELSE commands[k - Len(pending \o answer)]
    BY <1>6, <1>7, ConcatProperties, Zenon
  <2> QED
    BY <1>7, <2>1, Zenon
<1>9. \A k \in 1 .. n + Len(answer) : (pending \o answer)[k] = Given(n, at, k)
  <2> TAKE k \in 1 .. n + Len(answer)
  <2>1. CASE k <= n
    BY <2>1, <1>4, <1>5, <1>7 DEF Given
  <2>2. CASE ~(k <= n)
    <3>1. k - n = 1
      BY <2>2, <1>4, AtMostOneMore
    <3> QED
      BY <2>2, <3>1, <1>7 DEF Given
  <2> QED
    BY <2>1, <2>2
<1> HIDE DEF all
<1>10. Len(all) = Len(unanswered)
  BY <1>2, <1>8 DEF Lined
<1>11. \A k \in 1 .. Len(all) : all[k].opcode = unanswered[k].opcode
  <2> TAKE k \in 1 .. Len(all)
  <2>1. CASE k <= n + Len(answer)
    <3>1. k \in 1 .. n + Len(answer)
      BY <2>1, <1>4, <1>8
    <3>2. all[k] = Given(n, at, k)
      BY <2>1, <3>1, <1>8, <1>9
    <3> QED
      BY <3>1, <3>2, <1>2 DEF Lined
  <2>2. CASE ~(k <= n + Len(answer))
    <3> DEFINE j == k - (n + Len(answer))
    <3>1. j \in 1 .. Len(commands) /\ n + Len(answer) + j = k
      BY <2>2, <1>4, <1>8
    <3>2. all[k] = commands[j]
      BY <2>2, <1>8
    <3>3. commands[j] = unanswered[n + Len(answer) + j]
      BY <3>1, <1>2 DEF Lined
    <3> QED
      BY <3>1, <3>2, <3>3
  <2> QED
    BY <2>1, <2>2
<1>12. OpcodesIn(all) = OpcodesIn(unanswered)
  BY <1>10, <1>11 DEF OpcodesIn
<1>13. AnswersAre(n, at)
  BY <1>2 DEF Lined
<1> QED
  BY <1>12, <1>13 DEF AnswersInOrder, all, pending

\* Whatever event masks a host sets and however many commands it sends ahead,
\* every command is answered once and in order.
THEOREM AnswersComeInOrder == Spec => []AnswersInOrder
BY InOrder, Invariance, PTL

\* A host that goes by the answers knows its roles whenever it waits for none.
THEOREM HostsKnowTheirRoles == Spec => []HostKnowsRoles
<1>1. IInv => HostKnowsRoles
  <2> SUFFICES ASSUME IInv, unanswered = <<>>
               PROVE  believed = roles
    BY DEF HostKnowsRoles
  <2>1. Scope(believed, wants) = Scope(roles, hci_event_mask)
    BY ScopeAgreed
  <2>2. believed \subseteq Roles /\ roles \subseteq Roles
    BY DEF IInv, Settled, TypeOK
  <2> QED
    BY <2>1, <2>2 DEF Scope, Roles
<1> QED
  BY <1>1, Invariance, PTL

\* A host is sent one stale report at most after the answer that stops them.
THEOREM ReportsStop == Spec => []AtMostOneStaleReport
<1>1. IInv => AtMostOneStaleReport
  BY DEF IInv, Settled, AtMostOneStaleReport
<1> QED
  BY <1>1, Invariance, PTL
=============================================================================
