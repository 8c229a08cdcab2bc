------------------------ MODULE CommandStreamProofs -------------------------
(***************************************************************************)
(* Proofs about CommandStream: commands cut into bytes, and put together.  *)
(*                                                                         *)
(* What is on its way, the read buffer and then the bytes within TCP, is   *)
(* one sequence of whole commands: those from the first that was not       *)
(* processed to the last that was sent.  Being whole is said of every byte *)
(* (all bytes of its command stand around it, each at its place), so that  *)
(* neither an append nor a removal at the front needs an induction.        *)
(***************************************************************************)
EXTENDS CommandStream, SequenceTheorems, TLAPS

OnTheWay == read_buffer \o stream

\* Byte k of s is byte j of a command n of this length.
IsByte(s, k, n, j, length) ==
    /\ k \in 1 .. Len(s)
    /\ s[k].command = n /\ s[k].at = j /\ s[k].command_len = length

\* Every byte stands in its whole command.
WholeCommands(s) ==
    \A i \in 1 .. Len(s) :
        /\ s[i].at <= HeaderLength + s[i].command_len
        /\ \A j \in 1 .. HeaderLength + s[i].command_len :
              IsByte(s, i - s[i].at + j, s[i].command, j, s[i].command_len)

\* Commands come in their order, and bytes of one command side by side.
InOrder(s) ==
    \A i, j \in 1 .. Len(s) :
        /\ i < j => s[i].command <= s[j].command
        /\ s[i].command = s[j].command =>
              s[i].command_len = s[j].command_len /\ j - i = s[j].at - s[i].at

\* s is the commands after p, up to c.
Streamed(p, c, s) ==
    /\ WholeCommands(s)
    /\ InOrder(s)
    /\ \A i \in 1 .. Len(s) : s[i].command \in p + 1 .. c
    /\ \A n \in p + 1 .. c : \E i \in 1 .. Len(s) : s[i].command = n

\* The read buffer ends with a command, or where TCP may cut one.
EndsAtCut ==
    read_buffer # <<>> =>
        \/ LastOfCommand(read_buffer[Len(read_buffer)])
        \/ read_buffer[Len(read_buffer)].at \in Cuts

ProcessedTo(p) == \A n \in 1 .. MaxCommands : processed[n] = IF n <= p THEN 1 ELSE 0

StreamInv ==
    /\ TypeOK
    /\ EndsAtCut
    /\ \E p \in 0 .. count : ProcessedTo(p) /\ Streamed(p, count, OnTheWay)
-----------------------------------------------------------------------------
(* Sequences of whole commands.                                            *)

LEMMA LengthsAreNumbers ==
    /\ HeaderLength \in Nat /\ HeaderLength >= 1
    /\ MaxCommands \in Nat
    /\ \A length \in ParameterLengths : length \in Nat
<1>1. ParameterLengths \subseteq 0 .. 127
  BY StreamAssumption
<1>2. \A length \in ParameterLengths : length \in Nat
  BY <1>1
<1> QED
  BY <1>2, StreamAssumption

\* The library's fact, of bytes.
LEMMA Regrouped == \A x, y, z \in Seq(Bytes) : (x \o y) \o z = x \o (y \o z)
<1> DEFINE P(S) == \A x, y, z \in Seq(S) : (x \o y) \o z = x \o (y \o z)
<1>1. \A S : P(S)
  BY ConcatAssociative, Zenon
<1> HIDE DEF P
<1>2. P(Bytes)
  BY <1>1, Zenon
<1> QED
  BY <1>2 DEF P

LEMMA ByteFields ==
    ASSUME NEW s \in Seq(Bytes), NEW i \in 1 .. Len(s)
    PROVE  /\ s[i].command \in 1 .. MaxCommands /\ s[i].command \in Nat
           /\ s[i].at \in Nat /\ s[i].at >= 1
           /\ s[i].command_len \in ParameterLengths /\ s[i].command_len \in Nat
<1>1. s[i] \in Bytes
  BY ElementOfSeq
<1>2. /\ s[i].command \in 1 .. MaxCommands
      /\ s[i].at \in Nat \ {0}
      /\ s[i].command_len \in ParameterLengths
  BY <1>1 DEF Bytes
<1> QED
  BY <1>2, LengthsAreNumbers

\* t is s without its first m bytes.
Without(s, m, t) == Len(t) = Len(s) - m /\ \A i \in 1 .. Len(t) : t[i] = s[m + i]

\* A byte beyond the first m keeps its command and place without those.
LEMMA ByteAfter ==
    ASSUME NEW s, NEW t, NEW m \in Nat, Len(s) \in Nat, Without(s, m, t),
           NEW k, NEW n, NEW j, NEW length, IsByte(s, k, n, j, length), ~(k \in 1 .. m)
    PROVE  IsByte(t, k - m, n, j, length)
<1> DEFINE l == Len(s)
<1>1. l \in Nat /\ k \in 1 .. l
  BY DEF IsByte
<1> HIDE DEF l
<1>2. k - m \in 1 .. l - m /\ m + (k - m) = k
  BY <1>1
<1>3. t[k - m] = s[k] /\ k - m \in 1 .. Len(t)
  BY <1>2, Zenon DEF l, Without
<1> QED
  BY <1>3 DEF IsByte

\* The first command stands whole at the beginning.
LEMMA FirstCommand ==
    ASSUME NEW s \in Seq(Bytes), s # <<>>, NEW p \in Nat, NEW c \in Nat, Streamed(p, c, s),
           NEW length, length = s[1].command_len
    PROVE  /\ s[1].command = p + 1 /\ s[1].at = 1
           /\ \A j \in 1 .. HeaderLength + length : IsByte(s, j, p + 1, j, length)
<1>1. Len(s) \in Nat /\ Len(s) >= 1
  BY EmptySeq
<1>2. /\ s[1].command \in Nat /\ s[1].at \in Nat /\ s[1].at >= 1 /\ length \in Nat
  BY <1>1, ByteFields
<1>3. \A j \in 1 .. HeaderLength + length : IsByte(s, 1 - s[1].at + j, s[1].command, j, length)
  BY <1>1 DEF Streamed, WholeCommands
<1>4. s[1].at = 1
  <2>1. 1 \in 1 .. HeaderLength + length
    BY <1>2, LengthsAreNumbers
  <2>2. 1 - s[1].at + 1 \in 1 .. Len(s)
    BY <1>3, <2>1 DEF IsByte
  <2> QED
    BY <1>1, <1>2, <2>2
<1>5. s[1].command = p + 1
  <2>1. s[1].command \in p + 1 .. c
    BY <1>1 DEF Streamed
  <2>2. PICK i \in 1 .. Len(s) : s[i].command = p + 1
    BY <2>1 DEF Streamed
  <2>3. 1 < i => s[1].command <= s[i].command
    BY <1>1 DEF Streamed, InOrder
  <2> QED
    BY <2>1, <2>2, <2>3
<1> QED
  BY <1>3, <1>4, <1>5

\* The first command of s has m bytes.
FirstHas(s, m) == m = HeaderLength + s[1].command_len

\* Without its first command the sequence is the commands after that.
LEMMA DroppingTheFirst ==
    ASSUME NEW s \in Seq(Bytes), s # <<>>, NEW p \in Nat, NEW c \in Nat, Streamed(p, c, s),
           NEW m \in Nat, FirstHas(s, m),
           NEW t \in Seq(Bytes), Without(s, m, t)
    PROVE  Streamed(p + 1, c, t)
<1> DEFINE length == s[1].command_len
<1>1. Len(s) \in Nat /\ Len(s) >= 1 /\ Len(t) \in Nat
  BY EmptySeq, LenProperties
<1>2. /\ s[1].command = p + 1 /\ s[1].at = 1
      /\ \A j \in 1 .. m : IsByte(s, j, p + 1, j, length)
  BY FirstCommand DEF FirstHas
<1>3. \A i \in 1 .. Len(t) : m + i \in 1 .. Len(s) /\ t[i] = s[m + i]
  <2> SUFFICES ASSUME NEW i \in 1 .. Len(t) PROVE m + i \in 1 .. Len(s)
    BY DEF Without
  <2> DEFINE n == Len(t)
             l == Len(s)
  <2>1. n = l - m /\ n \in Nat /\ l \in Nat /\ i \in 1 .. n
    BY <1>1 DEF Without
  <2> HIDE DEF n, l
  <2>2. m + i \in 1 .. l
    BY <2>1
  <2> QED
    BY <2>2 DEF l
<1>4. \A i \in 1 .. m : s[i].command = p + 1
  BY <1>2 DEF IsByte
<1>5. ASSUME NEW i \in 1 .. Len(t)
      PROVE  s[m + i].command \in p + 2 .. c
  <2>1. m + i \in 1 .. Len(s) /\ 1 \in 1 .. Len(s)
    BY <1>1, <1>3
  <2>2. s[m + i].command \in p + 1 .. c
    BY <2>1 DEF Streamed
  <2>3. s[m + i].command # p + 1
    <3> SUFFICES ASSUME s[m + i].command = p + 1 PROVE FALSE
      OBVIOUS
    <3>1. /\ s[1].command_len = s[m + i].command_len
          /\ (m + i) - 1 = s[m + i].at - s[1].at
      <4>1. s[1].command = s[m + i].command
        BY <1>2
      <4>2. InOrder(s)
        BY DEF Streamed
      <4> QED
        BY <2>1, <4>1, <4>2, Zenon DEF InOrder
    <3>2. s[m + i].at <= HeaderLength + s[m + i].command_len
      BY <2>1 DEF Streamed, WholeCommands
    <3>3. s[m + i].at \in Nat
      BY <2>1, ByteFields
    <3>4. s[m + i].at <= m
      BY <3>1, <3>2 DEF FirstHas
    <3> DEFINE a == s[m + i].at
    <3>5. a \in Nat /\ a <= m /\ (m + i) - 1 = a - 1
      BY <3>1, <3>3, <3>4, <1>2
    <3>6. i \in Nat /\ i >= 1
      BY <1>1
    <3> HIDE DEF a
    <3>7. m + i > m
      BY <3>6
    <3>8. m + i = a
      BY <3>5, <3>6
    <3> QED
      BY <3>5, <3>7, <3>8
  <2> DEFINE x == s[m + i].command
  <2>4. x \in p + 1 .. c /\ x # p + 1
    BY <2>2, <2>3
  <2> HIDE DEF x
  <2>5. x \in p + 2 .. c
    BY <2>4
  <2> QED
    BY <2>5 DEF x
<1>6. WholeCommands(t)
  <2> SUFFICES ASSUME NEW i \in 1 .. Len(t)
               PROVE  /\ t[i].at <= HeaderLength + t[i].command_len
                      /\ \A j \in 1 .. HeaderLength + t[i].command_len :
                            IsByte(t, i - t[i].at + j, t[i].command, j, t[i].command_len)
    BY DEF WholeCommands
  <2>1. m + i \in 1 .. Len(s) /\ t[i] = s[m + i]
    BY <1>3
  <2>2. t[i].at <= HeaderLength + t[i].command_len
    BY <2>1 DEF Streamed, WholeCommands
  <2>3. ASSUME NEW j \in 1 .. HeaderLength + t[i].command_len
        PROVE  IsByte(t, i - t[i].at + j, t[i].command, j, t[i].command_len)
    <3> DEFINE k == (m + i) - t[i].at + j
    <3>1. IsByte(s, k, t[i].command, j, t[i].command_len)
      BY <2>1 DEF Streamed, WholeCommands
    <3>2. t[i].at \in Nat /\ t[i].command_len \in Nat
      BY ByteFields
    <3>3. k \in 1 .. Len(s) /\ s[k].command = t[i].command
      BY <3>1 DEF IsByte
    <3> HIDE DEF k
    <3>10. t[i].command \in p + 2 .. c
      BY <2>1, <1>5
    <3>11. t[i].command # p + 1
      BY <3>10
    <3>4. ~(k \in 1 .. m)
      BY <3>3, <3>11, <1>4
    <3>5. j \in Nat
      BY <3>2, LengthsAreNumbers
    <3>6. i \in Int
      OBVIOUS
    <3>7. i - t[i].at + j = ((m + i) - t[i].at + j) - m
      <4> DEFINE a == t[i].at
      <4>1. a \in Nat
        BY <3>2
      <4> HIDE DEF a
      <4>2. i - a + j = ((m + i) - a + j) - m
        BY <4>1, <3>5, <3>6
      <4> QED
        BY <4>2 DEF a
    <3>8. IsByte(t, k - m, t[i].command, j, t[i].command_len)
      BY <3>1, <3>3, <3>4, <1>1, ByteAfter DEF k
    <3> QED
      BY <3>7, <3>8 DEF k
  <2> QED
    BY <2>2, <2>3
<1>7. InOrder(t)
  <2> SUFFICES ASSUME NEW i \in 1 .. Len(t), NEW j \in 1 .. Len(t)
               PROVE  /\ i < j => t[i].command <= t[j].command
                      /\ t[i].command = t[j].command =>
                            t[i].command_len = t[j].command_len /\ j - i = t[j].at - t[i].at
    BY DEF InOrder
  <2>1. /\ m + i \in 1 .. Len(s) /\ t[i] = s[m + i]
        /\ m + j \in 1 .. Len(s) /\ t[j] = s[m + j]
    BY <1>3
  <2>2. /\ m + i < m + j => s[m + i].command <= s[m + j].command
        /\ s[m + i].command = s[m + j].command =>
              /\ s[m + i].command_len = s[m + j].command_len
              /\ (m + j) - (m + i) = s[m + j].at - s[m + i].at
    BY <2>1 DEF Streamed, InOrder
  <2>3. (i < j => m + i < m + j) /\ (m + j) - (m + i) = j - i
    OBVIOUS
  <2> QED
    BY <2>1, <2>2, <2>3
<1>8. \A i \in 1 .. Len(t) : t[i].command \in (p + 1) + 1 .. c
  <2>1. p + 2 = (p + 1) + 1
    OBVIOUS
  <2> QED
    BY <2>1, <1>3, <1>5, Zenon
<1>9. ASSUME NEW n \in (p + 1) + 1 .. c
      PROVE  \E i \in 1 .. Len(t) : t[i].command = n
  <2>1. PICK k \in 1 .. Len(s) : s[k].command = n
    BY DEF Streamed
  <2>2. ~(k \in 1 .. m)
    BY <2>1, <1>4
  <2>3. k - m \in 1 .. Len(t) /\ m + (k - m) = k
    BY <2>2, <1>1 DEF Without
  <2>4. t[k - m] = s[k]
    BY <2>3, <1>3
  <2> QED
    BY <2>1, <2>3, <2>4
<1> QED
  BY <1>6, <1>7, <1>8, <1>9 DEF Streamed

\* A command that is sent comes behind the others.
LEMMA AddingOne ==
    ASSUME NEW s \in Seq(Bytes), NEW p \in Nat, NEW c \in Nat, p <= c, Streamed(p, c, s),
           NEW length \in ParameterLengths,
           NEW t \in Seq(Bytes), Len(t) = Len(s) + (HeaderLength + length),
           \A i \in 1 .. Len(s) : t[i] = s[i],
           \A j \in 1 .. HeaderLength + length :
              IsByte(t, Len(s) + j, c + 1, j, length)
    PROVE  Streamed(p, c + 1, t)
<1> DEFINE L == Len(s)
           m == HeaderLength + length
<1>1. /\ L \in Nat /\ m \in Nat /\ m >= 1 /\ Len(t) = L + m /\ length \in Nat
  BY LenProperties, LengthsAreNumbers
<1>2. \A j \in 1 .. m : IsByte(t, L + j, c + 1, j, length)
  OBVIOUS
<1>3. \A i \in 1 .. L : t[i] = s[i] /\ i \in 1 .. Len(t)
  BY <1>1
<1>4. \A i \in 1 .. Len(t) : i \in 1 .. L \/ (i - L \in 1 .. m /\ L + (i - L) = i)
  BY <1>1
<1>5. ASSUME NEW i \in 1 .. Len(t), i - L \in 1 .. m, L + (i - L) = i
      PROVE  t[i].command = c + 1 /\ t[i].at = i - L /\ t[i].command_len = length
  BY <1>2, <1>5 DEF IsByte
<1> HIDE DEF L
<1>6. WholeCommands(t)
  <2> SUFFICES ASSUME NEW i \in 1 .. Len(t)
               PROVE  /\ t[i].at <= HeaderLength + t[i].command_len
                      /\ \A j \in 1 .. HeaderLength + t[i].command_len :
                            IsByte(t, i - t[i].at + j, t[i].command, j, t[i].command_len)
    BY DEF WholeCommands
  <2>1. CASE i \in 1 .. L
    <3>1. t[i] = s[i] /\ s[i].at <= HeaderLength + s[i].command_len
      BY <2>1, <1>3 DEF Streamed, WholeCommands, L
    <3>2. ASSUME NEW j \in 1 .. HeaderLength + t[i].command_len
          PROVE  IsByte(t, i - t[i].at + j, t[i].command, j, t[i].command_len)
      <4>1. IsByte(s, i - s[i].at + j, s[i].command, j, s[i].command_len)
        BY <2>1, <3>1 DEF Streamed, WholeCommands, L
      <4> DEFINE k == i - s[i].at + j
      <4>2. k \in 1 .. L
        BY <4>1 DEF IsByte, L
      <4> HIDE DEF k
      <4>3. t[k] = s[k] /\ k \in 1 .. Len(t)
        BY <4>2, <1>3
      <4>4. IsByte(s, k, s[i].command, j, s[i].command_len)
        BY <4>1 DEF k
      <4>5. IsByte(t, k, t[i].command, j, t[i].command_len)
        BY <4>3, <4>4, <3>1 DEF IsByte
      <4> QED
        BY <4>5, <3>1 DEF k
    <3> QED
      BY <3>1, <3>2
  <2>2. CASE i - L \in 1 .. m /\ L + (i - L) = i
    <3>1. t[i].command = c + 1 /\ t[i].at = i - L /\ t[i].command_len = length
      BY <2>2, <1>5
    <3>2. i - t[i].at = L
      BY <3>1, <1>1
    <3> QED
      BY <2>2, <3>1, <3>2, <1>1, <1>2
  <2> QED
    BY <2>1, <2>2, <1>4
<1>7. \A i \in 1 .. L : t[i].command \in p + 1 .. c /\ t[i].command < c + 1
  BY <1>3 DEF Streamed, L
<1>8. InOrder(t)
  <2> SUFFICES ASSUME NEW i \in 1 .. Len(t), NEW j \in 1 .. Len(t)
               PROVE  /\ i < j => t[i].command <= t[j].command
                      /\ t[i].command = t[j].command =>
                            t[i].command_len = t[j].command_len /\ j - i = t[j].at - t[i].at
    BY DEF InOrder
  <2>1. CASE i \in 1 .. L /\ j \in 1 .. L
    <3>1. t[i] = s[i] /\ t[j] = s[j]
      BY <2>1, <1>3
    <3>2. InOrder(s)
      BY DEF Streamed
    <3> QED
      BY <2>1, <3>1, <3>2, Zenon DEF InOrder, L
  <2>2. CASE i \in 1 .. L /\ j - L \in 1 .. m /\ L + (j - L) = j
    <3>1. t[i].command \in p + 1 .. c /\ t[j].command = c + 1
      BY <2>2, <1>5, <1>7
    <3> QED
      BY <3>1
  <2>3. CASE i - L \in 1 .. m /\ L + (i - L) = i /\ j \in 1 .. L
    <3>1. t[j].command \in p + 1 .. c /\ t[i].command = c + 1
      BY <2>3, <1>5, <1>7
    <3>2. PICK d \in 1 .. m : i = L + d
      BY <2>3, Zenon
    <3>3. ~(i < j)
      BY <2>3, <3>2, <1>1
    <3> QED
      BY <3>1, <3>3
  <2>4. CASE /\ i - L \in 1 .. m /\ L + (i - L) = i
             /\ j - L \in 1 .. m /\ L + (j - L) = j
    <3>1. /\ t[i].command = c + 1 /\ t[i].at = i - L /\ t[i].command_len = length
          /\ t[j].command = c + 1 /\ t[j].at = j - L /\ t[j].command_len = length
      BY <2>4, <1>5
    <3> QED
      BY <3>1, <1>1
  <2> QED
    BY <2>1, <2>2, <2>3, <2>4, <1>4
<1>9. \A i \in 1 .. Len(t) : t[i].command \in p + 1 .. c + 1
  <2> TAKE i \in 1 .. Len(t)
  <2>1. CASE i \in 1 .. L
    BY <2>1, <1>7
  <2>2. CASE i - L \in 1 .. m /\ L + (i - L) = i
    BY <2>2, <1>5
  <2> QED
    BY <2>1, <2>2, <1>4
<1>10. ASSUME NEW n \in p + 1 .. c + 1
       PROVE  \E i \in 1 .. Len(t) : t[i].command = n
  <2>1. CASE n \in p + 1 .. c
    <3>1. PICK i \in 1 .. L : s[i].command = n
      BY <2>1 DEF Streamed, L
    <3> QED
      BY <3>1, <1>3
  <2>2. CASE n = c + 1
    <3>1. 1 \in 1 .. m
      BY <1>1
    <3> QED
      BY <2>2, <3>1, <1>2 DEF IsByte
  <2> QED
    BY <2>1, <2>2
<1> QED
  BY <1>6, <1>8, <1>9, <1>10 DEF Streamed
-----------------------------------------------------------------------------
(* Type correctness.                                                       *)

LEMMA CommandBytesType ==
    ASSUME NEW n \in 1 .. MaxCommands, NEW length \in ParameterLengths
    PROVE  /\ CommandBytes(n, length) \in Seq(Bytes)
           /\ Len(CommandBytes(n, length)) = HeaderLength + length
           /\ \A k \in 1 .. HeaderLength + length :
                 IsByte(CommandBytes(n, length), k, n, k, length)
<1> DEFINE byte(k) == [command |-> n, at |-> k, command_len |-> length]
           m == HeaderLength + length
<1>1. m \in Nat
  BY LengthsAreNumbers
<1>2. \A k \in 1 .. m : byte(k) \in Bytes
  BY DEF Bytes
<1>3. CommandBytes(n, length) = [k \in 1 .. m |-> byte(k)]
  BY DEF CommandBytes
<1>4. \A k \in 1 .. m : /\ byte(k).command = n /\ byte(k).at = k
                        /\ byte(k).command_len = length
  OBVIOUS
<1> HIDE DEF byte, m
<1>5. /\ [k \in 1 .. m |-> byte(k)] \in Seq(Bytes)
      /\ Len([k \in 1 .. m |-> byte(k)]) = m
  BY <1>1, <1>2, IsASeq
<1>6. \A k \in 1 .. m : [i \in 1 .. m |-> byte(i)][k] = byte(k)
  OBVIOUS
<1> DEFINE b == CommandBytes(n, length)
<1>7. b \in Seq(Bytes) /\ Len(b) = m /\ \A k \in 1 .. m : b[k] = byte(k)
  BY <1>3, <1>5, <1>6, Zenon
<1> HIDE DEF b
<1>8. \A k \in 1 .. m : IsByte(b, k, n, k, length)
  BY <1>4, <1>7 DEF IsByte
<1> QED
  BY <1>7, <1>8 DEF b, m

LEMMA TypeInit == Init => TypeOK
<1> SUFFICES ASSUME Init PROVE TypeOK
  OBVIOUS
<1>1. count \in 0 .. MaxCommands
  BY LengthsAreNumbers DEF Init
<1>2. stream \in Seq(Bytes) /\ read_buffer \in Seq(Bytes)
      /\ Len(stream) = 0 /\ Len(read_buffer) = 0
  BY DEF Init
<1>3. \A s \in {stream, read_buffer} :
         \A i \in 1 .. Len(s) : s[i].command <= count /\ s[i].at <= HeaderLength + s[i].command_len
  <2>1. \A s \in {stream, read_buffer} : Len(s) = 0
    BY <1>2
  <2> QED
    BY <2>1
<1>4. processed \in [1 .. MaxCommands -> 0 .. 2]
  BY DEF Init
<1> QED
  BY <1>1, <1>2, <1>3, <1>4 DEF Init, TypeOK

\* The bytes of a sequence are of commands that were sent, within their bounds.
Sent(c, s) ==
    \A i \in 1 .. Len(s) : s[i].command <= c /\ s[i].at <= HeaderLength + s[i].command_len

\* That is so of the parts into which a sequence is cut, and of two together.
LEMMA SentParts ==
    ASSUME NEW c, NEW s \in Seq(Bytes), NEW t \in Seq(Bytes), Sent(c, s), Sent(c, t)
    PROVE  /\ s \o t \in Seq(Bytes) /\ Sent(c, s \o t)
           /\ \A m \in 0 .. Len(s) :
                 /\ SubSeq(s, 1, m) \in Seq(Bytes) /\ Sent(c, SubSeq(s, 1, m))
                 /\ SubSeq(s, m + 1, Len(s)) \in Seq(Bytes)
                 /\ Sent(c, SubSeq(s, m + 1, Len(s)))
<1>1. s \o t \in Seq(Bytes) /\ Sent(c, s \o t)
  <2>1. /\ s \o t \in Seq(Bytes)
        /\ Len(s \o t) = Len(s) + Len(t)
        /\ \A i \in 1 .. Len(s) + Len(t) :
              (s \o t)[i] = IF i <= Len(s) THEN s[i] ELSE t[i - Len(s)]
    BY ConcatProperties, Zenon
  <2>2. Len(s) \in Nat /\ Len(t) \in Nat
    BY LenProperties
  <2>3. ASSUME NEW i \in 1 .. Len(s) + Len(t)
        PROVE  /\ (s \o t)[i].command <= c
               /\ (s \o t)[i].at <= HeaderLength + (s \o t)[i].command_len
    <3>1. CASE i <= Len(s)
      <4>1. i \in 1 .. Len(s)
        BY <3>1, <2>2
      <4> QED
        BY <3>1, <4>1, <2>1, Zenon DEF Sent
    <3>2. CASE ~(i <= Len(s))
      <4>1. i - Len(s) \in 1 .. Len(t)
        BY <3>2, <2>2
      <4> QED
        BY <3>2, <4>1, <2>1, Zenon DEF Sent
    <3> QED
      BY <3>1, <3>2
  <2> QED
    BY <2>1, <2>3 DEF Sent
<1>2. ASSUME NEW m \in 0 .. Len(s)
      PROVE  /\ SubSeq(s, 1, m) \in Seq(Bytes) /\ Sent(c, SubSeq(s, 1, m))
             /\ SubSeq(s, m + 1, Len(s)) \in Seq(Bytes)
             /\ Sent(c, SubSeq(s, m + 1, Len(s)))
  <2>1. Len(s) \in Nat
    BY LenProperties
  <2>2. /\ SubSeq(s, 1, m) \in Seq(Bytes)
        /\ Len(SubSeq(s, 1, m)) = m
        /\ \A i \in 1 .. m : SubSeq(s, 1, m)[i] = s[i]
    BY <2>1
  <2>3. /\ SubSeq(s, m + 1, Len(s)) \in Seq(Bytes)
        /\ Len(SubSeq(s, m + 1, Len(s))) = Len(s) - m
        /\ \A i \in 1 .. Len(s) - m : SubSeq(s, m + 1, Len(s))[i] = s[m + i]
    BY <2>1
  <2>4. /\ \A i \in 1 .. m : i \in 1 .. Len(s)
        /\ \A i \in 1 .. Len(s) - m : m + i \in 1 .. Len(s)
    BY <2>1
  <2> QED
    BY <2>2, <2>3, <2>4, Zenon DEF Sent
<1> QED
  BY <1>1, <1>2

LEMMA TypeNext ==
    ASSUME TypeOK, Next
    PROVE  TypeOK'
<1>1. /\ count \in 0 .. MaxCommands /\ closed \in BOOLEAN /\ processing \in BOOLEAN
      /\ processed \in [1 .. MaxCommands -> 0 .. 2] /\ delete_pending \in BOOLEAN
      /\ stream \in Seq(Bytes) /\ read_buffer \in Seq(Bytes)
      /\ Sent(count, stream) /\ Sent(count, read_buffer)
  BY DEF TypeOK, Sent
<1> SUFFICES /\ count' \in 0 .. MaxCommands /\ closed' \in BOOLEAN /\ processing' \in BOOLEAN
             /\ processed' \in [1 .. MaxCommands -> 0 .. 2] /\ delete_pending' \in BOOLEAN
             /\ stream' \in Seq(Bytes) /\ read_buffer' \in Seq(Bytes)
             /\ Sent(count', stream') /\ Sent(count', read_buffer')
  BY DEF TypeOK, Sent, Bytes
<1>2. CASE HostSends
  <2>1. count' = count + 1 /\ count' \in 1 .. MaxCommands /\ count \in Nat
    BY <1>1, <1>2, LengthsAreNumbers DEF HostSends
  <2>2. PICK length \in ParameterLengths : stream' = stream \o CommandBytes(count + 1, length)
    BY <1>2 DEF HostSends
  <2> DEFINE new == CommandBytes(count + 1, length)
             n == count + 1
  <2>3. n \in 1 .. MaxCommands
    BY <2>1
  <2>4. new \in Seq(Bytes) /\ \A k \in 1 .. Len(new) : IsByte(new, k, n, k, length)
    <3> HIDE DEF n
    <3>1. /\ CommandBytes(n, length) \in Seq(Bytes)
          /\ \A k \in 1 .. Len(CommandBytes(n, length)) :
                IsByte(CommandBytes(n, length), k, n, k, length)
      BY <2>3, CommandBytesType
    <3> QED
      BY <3>1 DEF n
  <2>5. Sent(n, new)
    <3>1. length \in Nat
      BY LengthsAreNumbers
    <3>2. \A k \in 1 .. Len(new) : k <= HeaderLength + length
      BY <2>3, CommandBytesType
    <3>3. n <= n
      BY <2>3
    <3> HIDE DEF new, n
    <3> QED
      BY <2>4, <3>2, <3>3 DEF Sent, IsByte
  <2>6. Sent(n, stream) /\ Sent(n, read_buffer)
    <3>1. ASSUME NEW s \in Seq(Bytes), Sent(count, s)
          PROVE  Sent(n, s)
      <4>1. \A i \in 1 .. Len(s) : s[i].command \in Nat
        BY ByteFields
      <4>2. \A x \in Nat : x <= count => x <= n
        BY <2>1
      <4> HIDE DEF n
      <4> QED
        BY <3>1, <4>1, <4>2 DEF Sent
    <3> QED
      BY <1>1, <3>1
  <2>7. stream' \in Seq(Bytes) /\ Sent(n, stream')
    <3> HIDE DEF new, n
    <3>1. stream' = stream \o new
      BY <2>2 DEF new
    <3> QED
      BY <1>1, <2>4, <2>5, <2>6, <3>1, SentParts, Zenon
  <2> QED
    BY <1>1, <1>2, <2>1, <2>6, <2>7 DEF HostSends
<1>3. CASE HostCloses
  BY <1>1, <1>3 DEF HostCloses
<1>4. ASSUME NEW n \in 1 .. Len(stream), Receive(n)
      PROVE  /\ stream' \in Seq(Bytes) /\ read_buffer' \in Seq(Bytes)
             /\ Sent(count, stream') /\ Sent(count, read_buffer')
  <2>1. n \in 0 .. Len(stream)
    OBVIOUS
  <2>2. /\ SubSeq(stream, 1, n) \in Seq(Bytes) /\ Sent(count, SubSeq(stream, 1, n))
        /\ SubSeq(stream, n + 1, Len(stream)) \in Seq(Bytes)
        /\ Sent(count, SubSeq(stream, n + 1, Len(stream)))
    BY <1>1, <2>1, SentParts, Zenon
  <2>3. /\ read_buffer \o SubSeq(stream, 1, n) \in Seq(Bytes)
        /\ Sent(count, read_buffer \o SubSeq(stream, 1, n))
    BY <1>1, <2>2, SentParts, Zenon
  <2> QED
    BY <1>4, <2>2, <2>3 DEF Receive
<1>5. CASE \E n \in 1 .. Len(stream) : Receive(n)
  BY <1>1, <1>4, <1>5 DEF Receive
<1>6. CASE ReceiveEnd
  BY <1>1, <1>6 DEF ReceiveEnd
<1>7. CASE process_command
  <2>1. Len(read_buffer) \in Nat /\ Len(read_buffer) >= 1 /\ Head(read_buffer) = read_buffer[1]
    BY <1>1, <1>7, LengthsAreNumbers DEF process_command, HeadIsProcessed
  <2>2. read_buffer[1].command \in 1 .. MaxCommands
    BY <1>1, <2>1, ByteFields
  <2>3. processed' \in [1 .. MaxCommands -> 0 .. 2]
    BY <1>1, <1>7, <2>1, <2>2 DEF process_command
  <2>4. read_buffer' \in Seq(Bytes) /\ Sent(count, read_buffer')
    <3> DEFINE m == Head(read_buffer).command_len + HeaderLength
    <3>1. read_buffer' = consume_read_buffer(m)
      BY <1>7 DEF process_command
    <3>2. m \in Nat
      BY <1>1, <2>1, ByteFields, LengthsAreNumbers
    <3> HIDE DEF m
    <3>3. CASE m > 0 /\ m <= Len(read_buffer)
      <4>1. m \in 0 .. Len(read_buffer)
        BY <2>1, <3>2, <3>3
      <4>2. read_buffer' = SubSeq(read_buffer, m + 1, Len(read_buffer))
        BY <3>1, <3>3 DEF consume_read_buffer
      <4>3. /\ SubSeq(read_buffer, m + 1, Len(read_buffer)) \in Seq(Bytes)
            /\ Sent(count, SubSeq(read_buffer, m + 1, Len(read_buffer)))
        BY <1>1, <4>1, SentParts, Zenon
      <4> QED
        BY <4>2, <4>3
    <3>4. CASE ~(m > 0 /\ m <= Len(read_buffer))
      BY <1>1, <3>1, <3>4 DEF consume_read_buffer
    <3> QED
      BY <3>3, <3>4
  <2> QED
    BY <1>1, <1>7, <2>3, <2>4 DEF process_command
<1>8. CASE LeaveLoop
  BY <1>1, <1>8 DEF LeaveLoop
<1> QED
  BY <1>2, <1>3, <1>5, <1>6, <1>7, <1>8 DEF Next, on_readable

\* Every variable has its type.
THEOREM StreamTypes == Spec => []TypeOK
<1>1. TypeOK /\ [Next]_vars => TypeOK'
  <2>1. TypeOK /\ UNCHANGED vars => TypeOK'
    BY DEF TypeOK, vars, Bytes
  <2> QED
    BY <2>1, TypeNext
<1> QED
  BY TypeInit, <1>1, PTL DEF Spec
-----------------------------------------------------------------------------
(* Commands are processed once and whole.                                  *)

\* What the argument needs of TCP: it delivers all of a command, or cuts it
\* within its header.  CommandStreamCut shows what happens beyond that.
CutsInHeaders == Cuts \subseteq 1 .. HeaderLength - 1

\* With all bytes within the bounds of their commands.
LEMMA WayType ==
    ASSUME TypeOK
    PROVE  /\ OnTheWay \in Seq(Bytes)
           /\ Len(OnTheWay) = Len(read_buffer) + Len(stream)
           /\ \A i \in 1 .. Len(read_buffer) + Len(stream) :
                 OnTheWay[i] = IF i <= Len(read_buffer) THEN read_buffer[i]
                               ELSE stream[i - Len(read_buffer)]
<1>1. read_buffer \in Seq(Bytes) /\ stream \in Seq(Bytes)
  BY DEF TypeOK
<1> QED
  BY <1>1, ConcatProperties, Zenon DEF OnTheWay

LEMMA SendingKeepsStream ==
    ASSUME StreamInv, HostSends
    PROVE  EndsAtCut' /\ \E p \in 0 .. count' : ProcessedTo(p)' /\ Streamed(p, count', OnTheWay')
<1>1. read_buffer \in Seq(Bytes) /\ stream \in Seq(Bytes) /\ TypeOK
  BY DEF StreamInv, TypeOK
<1>2. PICK length \in ParameterLengths : stream' = stream \o CommandBytes(count + 1, length)
  BY DEF HostSends
<1> DEFINE new == CommandBytes(count + 1, length)
<1>3. count \in Nat /\ count + 1 \in 1 .. MaxCommands
  BY <1>1, LengthsAreNumbers DEF TypeOK, HostSends
<1>4. /\ new \in Seq(Bytes)
      /\ Len(new) = HeaderLength + length
      /\ \A k \in 1 .. HeaderLength + length : IsByte(new, k, count + 1, k, length)
  <2> DEFINE n == count + 1
  <2>1. n \in 1 .. MaxCommands
    BY <1>3
  <2> HIDE DEF n
  <2>2. /\ CommandBytes(n, length) \in Seq(Bytes)
        /\ Len(CommandBytes(n, length)) = HeaderLength + length
        /\ \A k \in 1 .. HeaderLength + length : IsByte(CommandBytes(n, length), k, n, k, length)
    BY <2>1, CommandBytesType
  <2> QED
    BY <2>2 DEF n
<1> HIDE DEF new
<1>5. OnTheWay' = OnTheWay \o new
  <2>1. (read_buffer \o stream) \o new = read_buffer \o (stream \o new)
    BY <1>1, <1>4, Regrouped, Zenon
  <2>2. read_buffer' = read_buffer /\ stream' = stream \o new
    BY <1>2 DEF HostSends, new
  <2> QED
    BY <2>1, <2>2 DEF OnTheWay
<1>6. OnTheWay \in Seq(Bytes) /\ Len(OnTheWay) \in Nat
  BY <1>1, WayType, LenProperties
<1> DEFINE L == Len(OnTheWay)
           W == OnTheWay \o new
<1>7. /\ W \in Seq(Bytes)
      /\ Len(W) = L + Len(new)
      /\ \A i \in 1 .. L + Len(new) : W[i] = IF i <= L THEN OnTheWay[i] ELSE new[i - L]
  BY <1>4, <1>6, ConcatProperties, Zenon
<1>8. PICK p \in 0 .. count : ProcessedTo(p) /\ Streamed(p, count, OnTheWay)
  BY DEF StreamInv
<1>9. p \in Nat /\ p <= count
  BY <1>3
<1>10. HeaderLength + length \in Nat
  BY LengthsAreNumbers
<1>11. \A i \in 1 .. L : W[i] = OnTheWay[i]
  <2>1. \A i \in 1 .. L : i \in 1 .. L + Len(new) /\ i <= L
    BY <1>4, <1>6, <1>10
  <2> QED
    BY <1>7, <2>1, Zenon
<1>12. \A j \in 1 .. HeaderLength + length : IsByte(W, L + j, count + 1, j, length)
  <2> TAKE j \in 1 .. HeaderLength + length
  <2>1. L + j \in 1 .. L + Len(new) /\ ~(L + j <= L) /\ (L + j) - L = j
    BY <1>4, <1>6, <1>10
  <2>2. W[L + j] = new[j]
    BY <1>7, <2>1, Zenon
  <2>3. IsByte(new, j, count + 1, j, length)
    BY <1>4
  <2> QED
    BY <1>7, <2>1, <2>2, <2>3 DEF IsByte
<1> HIDE DEF W, L
<1>13. Streamed(p, count + 1, W)
  BY <1>3, <1>4, <1>6, <1>7, <1>8, <1>9, <1>11, <1>12, AddingOne DEF L
<1>14. count' = count + 1 /\ processed' = processed /\ read_buffer' = read_buffer
  BY DEF HostSends
<1>15. ProcessedTo(p)'
  BY <1>8, <1>14 DEF ProcessedTo
<1>16. EndsAtCut'
  BY <1>14 DEF StreamInv, EndsAtCut, LastOfCommand
<1>17. p \in 0 .. count'
  BY <1>3, <1>9, <1>14
<1>18. Streamed(p, count', OnTheWay')
  BY <1>5, <1>13, <1>14 DEF W
<1> QED
  BY <1>15, <1>16, <1>17, <1>18

LEMMA ReceivingKeepsStream ==
    ASSUME StreamInv, NEW n \in 1 .. Len(stream), Receive(n)
    PROVE  EndsAtCut' /\ OnTheWay' = OnTheWay
<1>1. read_buffer \in Seq(Bytes) /\ stream \in Seq(Bytes)
  BY DEF StreamInv, TypeOK
<1> DEFINE taken == SubSeq(stream, 1, n)
           rest == SubSeq(stream, n + 1, Len(stream))
<1>2. Len(stream) \in Nat /\ Len(read_buffer) \in Nat
  BY <1>1, LenProperties
<1>3. /\ taken \in Seq(Bytes) /\ Len(taken) = n /\ taken[n] = stream[n]
      /\ rest \in Seq(Bytes)
  BY <1>1, <1>2
<1>4. taken \o rest = stream
  <2>1. 1 \in 1 .. Len(stream) + 1 /\ n \in 1 - 1 .. Len(stream) /\ Len(stream) \in n .. Len(stream)
    BY <1>2
  <2>2. taken \o rest = SubSeq(stream, 1, Len(stream))
    BY <1>1, <2>1, ConcatAdjacentSubSeq, Zenon
  <2>3. SubSeq(stream, 1, Len(stream)) = stream
    BY <1>1
  <2> QED
    BY <2>2, <2>3
<1>5. read_buffer' = read_buffer \o taken /\ stream' = rest
  BY DEF Receive
<1> HIDE DEF taken, rest
<1>6. OnTheWay' = OnTheWay
  <2>1. (read_buffer \o taken) \o rest = read_buffer \o (taken \o rest)
    BY <1>1, <1>3, Regrouped, Zenon
  <2> QED
    BY <2>1, <1>4, <1>5 DEF OnTheWay
<1>7. /\ Len(read_buffer \o taken) = Len(read_buffer) + n
      /\ \A i \in 1 .. Len(read_buffer) + n : (read_buffer \o taken)[i] =
            IF i <= Len(read_buffer) THEN read_buffer[i] ELSE taken[i - Len(read_buffer)]
  BY <1>1, <1>3, ConcatProperties, Zenon
<1>8. read_buffer'[Len(read_buffer')] = stream[n]
  <2> DEFINE k == Len(read_buffer) + n
  <2>1. k \in 1 .. Len(read_buffer) + n /\ ~(k <= Len(read_buffer)) /\ k - Len(read_buffer) = n
    BY <1>2
  <2> HIDE DEF k
  <2>2. (read_buffer \o taken)[k] = taken[n]
    BY <1>7, <2>1, Zenon
  <2> QED
    BY <1>3, <1>5, <1>7, <2>2 DEF k
<1>9. LastOfCommand(stream[n]) \/ stream[n].at \in Cuts
  BY DEF Receive
<1> QED
  BY <1>6, <1>8, <1>9 DEF EndsAtCut, LastOfCommand

\* The loop processes a command only when the read buffer is that command:
\* what is more than a header does not end within one.
LEMMA ProcessingKeepsStream ==
    ASSUME CutsInHeaders, StreamInv, process_command
    PROVE  EndsAtCut' /\ \E p \in 0 .. count' : ProcessedTo(p)' /\ Streamed(p, count', OnTheWay')
<1>1. read_buffer \in Seq(Bytes) /\ stream \in Seq(Bytes) /\ TypeOK
      /\ processed \in [1 .. MaxCommands -> 0 .. 2] /\ count \in Nat /\ count <= MaxCommands
  BY LengthsAreNumbers DEF StreamInv, TypeOK
<1>2. Len(stream) \in Nat /\ Len(read_buffer) \in Nat /\ Len(read_buffer) >= 1
      /\ Len(read_buffer) >= HeaderLength
      /\ Head(read_buffer) = read_buffer[1]
  BY <1>1, LenProperties, LengthsAreNumbers DEF process_command, HeadIsProcessed
<1>3. PICK p \in 0 .. count : ProcessedTo(p) /\ Streamed(p, count, OnTheWay)
  BY DEF StreamInv
<1>4. p \in Nat
  OBVIOUS
<1> DEFINE L == Len(read_buffer)
           length == OnTheWay[1].command_len
           m == HeaderLength + length
<1>5. /\ OnTheWay \in Seq(Bytes) /\ Len(OnTheWay) = L + Len(stream)
      /\ \A i \in 1 .. L : OnTheWay[i] = read_buffer[i]
      /\ \A i \in 1 .. Len(stream) : OnTheWay[L + i] = stream[i]
  <2>1. /\ OnTheWay \in Seq(Bytes)
        /\ Len(OnTheWay) = L + Len(stream)
        /\ \A i \in 1 .. L + Len(stream) :
              OnTheWay[i] = IF i <= L THEN read_buffer[i] ELSE stream[i - L]
    BY <1>1, WayType
  <2>2. \A i \in 1 .. L : i \in 1 .. L + Len(stream) /\ i <= L
    BY <1>2
  <2>3. \A i \in 1 .. Len(stream) :
           L + i \in 1 .. L + Len(stream) /\ ~(L + i <= L) /\ (L + i) - L = i
    BY <1>2
  <2> QED
    BY <2>1, <2>2, <2>3, Zenon
<1>6. OnTheWay # <<>> /\ OnTheWay[1] = read_buffer[1]
  <2>1. Len(OnTheWay) # 0
    BY <1>2, <1>5
  <2>2. Len(<<>>) = 0
    OBVIOUS
  <2>3. OnTheWay # <<>>
    BY <2>1, <2>2, Zenon
  <2>4. 1 \in 1 .. L
    BY <1>2
  <2> QED
    BY <1>5, <2>3, <2>4
<1>7. /\ OnTheWay[1].command = p + 1 /\ OnTheWay[1].at = 1
      /\ \A j \in 1 .. m : IsByte(OnTheWay, j, p + 1, j, length)
  BY <1>1, <1>3, <1>4, <1>5, <1>6, FirstCommand
<1>8. length \in Nat /\ m \in Nat /\ m >= 1
  <2>1. 1 \in 1 .. Len(OnTheWay)
    BY <1>2, <1>5
  <2> QED
    BY <1>5, <2>1, ByteFields, LengthsAreNumbers
<1>9. L <= m
  BY <1>2, <1>6, <1>8, LengthsAreNumbers DEF process_command, HeadIsProcessed
<1>10. L = m
  <2>1. L \in 1 .. m /\ L \in 1 .. L
    BY <1>2, <1>8, <1>9
  <2>2. OnTheWay[L].at = L /\ OnTheWay[L].command_len = length
    BY <1>7, <2>1 DEF IsByte
  <2>3. read_buffer[L].at = L /\ read_buffer[L].command_len = length
    BY <1>5, <2>1, <2>2
  <2>4. read_buffer # <<>>
    BY <1>2
  <2>5. CASE LastOfCommand(read_buffer[L])
    BY <2>3, <2>5 DEF LastOfCommand
  <2>6. CASE read_buffer[L].at \in Cuts
    <3>1. L \in 1 .. HeaderLength - 1
      BY <2>3, <2>6 DEF CutsInHeaders
    <3> QED
      BY <3>1, <1>2, LengthsAreNumbers
  <2> QED
    BY <2>4, <2>5, <2>6 DEF StreamInv, EndsAtCut
<1>11. read_buffer' = <<>> /\ stream' = stream /\ count' = count
  <2>1. Head(read_buffer).command_len + HeaderLength = L
    BY <1>2, <1>6, <1>8, <1>10, LengthsAreNumbers
  <2>2. read_buffer' = consume_read_buffer(L)
    BY <2>1 DEF process_command
  <2>3. read_buffer' = SubSeq(read_buffer, L + 1, L)
    BY <1>2, <2>2 DEF consume_read_buffer
  <2>4. SubSeq(read_buffer, L + 1, L) = <<>>
    BY <1>1, <1>2
  <2> QED
    BY <2>3, <2>4 DEF process_command
<1>12. OnTheWay' = stream
  <2>1. <<>> \o stream = stream
    BY <1>1, ConcatEmptySeq
  <2> QED
    BY <1>11, <2>1 DEF OnTheWay
<1> HIDE DEF L, m, length
<1>13. Streamed(p + 1, count, stream)
  <2>1. Without(OnTheWay, m, stream)
    BY <1>2, <1>5, <1>8, <1>10 DEF Without
  <2>2. FirstHas(OnTheWay, m)
    BY DEF m, length, FirstHas
  <2> QED
    BY <1>1, <1>3, <1>4, <1>5, <1>6, <1>8, <2>1, <2>2, DroppingTheFirst
<1>14. p + 1 \in 0 .. count /\ p + 1 \in 1 .. MaxCommands
  <2>1. 1 \in 1 .. Len(OnTheWay)
    BY <1>2, <1>5 DEF L
  <2>2. OnTheWay[1].command \in p + 1 .. count
    BY <1>3, <2>1 DEF Streamed
  <2>3. p + 1 \in p + 1 .. count
    BY <1>7, <2>2
  <2>4. count \in Nat /\ count <= MaxCommands /\ MaxCommands \in Nat
    BY <1>1, LengthsAreNumbers
  <2> QED
    BY <1>4, <2>3, <2>4
<1>15. ProcessedTo(p + 1)'
  <2>1. processed' = [processed EXCEPT ![p + 1] = IF @ < 2 THEN @ + 1 ELSE @]
    BY <1>2, <1>6, <1>7 DEF process_command
  <2>2. processed[p + 1] = 0
    BY <1>3, <1>4, <1>14 DEF ProcessedTo
  <2>3. processed'[p + 1] = 1
    BY <1>1, <1>14, <2>1, <2>2
  <2>4. \A n \in 1 .. MaxCommands : n # p + 1 => processed'[n] = processed[n]
    BY <1>1, <2>1
  <2>5. \A n \in 1 .. MaxCommands : n # p + 1 => (n <= p + 1 <=> n <= p)
    BY <1>4
  <2> QED
    BY <1>3, <1>14, <2>3, <2>4, <2>5 DEF ProcessedTo
<1>16. EndsAtCut'
  BY <1>11 DEF EndsAtCut
<1> QED
  BY <1>11, <1>12, <1>13, <1>14, <1>15, <1>16

LEMMA StreamInvNext ==
    ASSUME CutsInHeaders, StreamInv, [Next]_vars
    PROVE  StreamInv'
<1>1. TypeOK'
  BY TypeNext DEF StreamInv, TypeOK, vars, Bytes
<1>2. ASSUME OnTheWay' = OnTheWay, processed' = processed, count' = count
      PROVE  \E p \in 0 .. count' : ProcessedTo(p)' /\ Streamed(p, count', OnTheWay')
  <2>1. PICK p \in 0 .. count : ProcessedTo(p) /\ Streamed(p, count, OnTheWay)
    BY DEF StreamInv
  <2>2. ProcessedTo(p)'
    BY <1>2, <2>1 DEF ProcessedTo
  <2> QED
    BY <1>2, <2>1, <2>2
<1>3. ASSUME read_buffer' = read_buffer, stream' = stream
      PROVE  EndsAtCut' /\ OnTheWay' = OnTheWay
  BY <1>3 DEF StreamInv, EndsAtCut, LastOfCommand, OnTheWay
<1>4. CASE HostSends
  BY <1>1, <1>4, SendingKeepsStream DEF StreamInv
<1>5. CASE \E n \in 1 .. Len(stream) : Receive(n)
  <2>1. PICK n \in 1 .. Len(stream) : Receive(n)
    BY <1>5
  <2>2. processed' = processed /\ count' = count
    BY <2>1 DEF Receive
  <2> QED
    BY <1>1, <1>2, <2>1, <2>2, ReceivingKeepsStream DEF StreamInv
<1>6. CASE process_command
  BY <1>1, <1>6, ProcessingKeepsStream DEF StreamInv
<1>7. CASE HostCloses \/ ReceiveEnd \/ LeaveLoop \/ UNCHANGED vars
  <2>1. /\ read_buffer' = read_buffer /\ stream' = stream
        /\ processed' = processed /\ count' = count
    BY <1>7 DEF HostCloses, ReceiveEnd, LeaveLoop, vars
  <2> QED
    BY <1>1, <1>2, <1>3, <2>1 DEF StreamInv
<1> QED
  BY <1>4, <1>5, <1>6, <1>7 DEF Next, on_readable

LEMMA StreamInvInit ==
    ASSUME Init
    PROVE  StreamInv
<1>1. TypeOK
  BY TypeInit
<1>2. EndsAtCut
  BY DEF Init, EndsAtCut
<1>3. OnTheWay = <<>> /\ Len(OnTheWay) = 0 /\ count = 0
  <2>1. <<>> \o <<>> = <<>>
    OBVIOUS
  <2> QED
    BY <2>1 DEF Init, OnTheWay
<1>4. ProcessedTo(0)
  BY LengthsAreNumbers DEF Init, ProcessedTo
<1>5. Streamed(0, count, OnTheWay)
  BY <1>3 DEF Streamed, WholeCommands, InOrder
<1> QED
  BY <1>1, <1>2, <1>3, <1>4, <1>5 DEF StreamInv

\* Every command is processed once, whole and in its turn, however many a host
\* sends ahead, if none is cut behind its header.
THEOREM CommandsProcessedOnceWhole ==
    ASSUME CutsInHeaders
    PROVE  Spec => []ProcessedOnceWhole
<1>1. Init => StreamInv
  BY StreamInvInit
<1>2. StreamInv /\ [Next]_vars => StreamInv'
  BY StreamInvNext
<1>3. StreamInv => ProcessedOnceWhole
  <2> SUFFICES ASSUME StreamInv PROVE ProcessedOnceWhole
    OBVIOUS
  <2>1. PICK p \in 0 .. count : ProcessedTo(p) /\ Streamed(p, count, OnTheWay)
    BY DEF StreamInv
  <2>2. TypeOK /\ count \in Nat /\ count <= MaxCommands /\ p \in Nat
    BY LengthsAreNumbers DEF StreamInv, TypeOK
  <2>3. \A n \in 1 .. MaxCommands : processed[n] <= 1
    BY <2>1 DEF ProcessedTo
  <2>4. ASSUME NEW n \in 1 .. count
        PROVE  processed[n] = 1 <=> \A i \in 1 .. Len(OnTheWay) : OnTheWay[i].command # n
    <3>1. processed[n] = IF n <= p THEN 1 ELSE 0
      <4>1. n \in 1 .. MaxCommands
        BY <2>2, LengthsAreNumbers
      <4> QED
        BY <2>1, <4>1 DEF ProcessedTo
    <3>2. CASE n <= p
      <4>1. \A i \in 1 .. Len(OnTheWay) : OnTheWay[i].command \in p + 1 .. count
        BY <2>1 DEF Streamed
      <4>2. \A x \in p + 1 .. count : x # n
        BY <2>2, <3>2
      <4> QED
        BY <3>1, <3>2, <4>1, <4>2
    <3>3. CASE ~(n <= p)
      <4>1. n \in p + 1 .. count
        BY <2>2, <3>3
      <4>2. \E i \in 1 .. Len(OnTheWay) : OnTheWay[i].command = n
        BY <2>1, <4>1 DEF Streamed
      <4> QED
        BY <3>1, <3>3, <4>2
    <3> QED
      BY <3>2, <3>3
  <2>5. OnTheWay # <<>> => OnTheWay[1].at = 1
    BY <2>1, <2>2, WayType, FirstCommand
  <2> QED
    BY <2>3, <2>4, <2>5 DEF ProcessedOnceWhole, OnTheWay
<1> QED
  BY <1>1, <1>2, <1>3, PTL DEF Spec
=============================================================================
