--------------------------- MODULE Serial_proofs ---------------------------
(***************************************************************************)
(* Proofs about Serial, for every size of the buffer, every set of octets, *)
(* every timeout, every width of millis() and any time: lines arrive       *)
(* whole, timers are not early, and the buffer is a LineChannel.           *)
(*                                                                         *)
(* The inductive invariant says that the buffer holds the line while it is *)
(* short enough, and which times last_tx_ and power_cycle_ stand for.      *)
(***************************************************************************)
EXTENDS Serial, TLAPS, FiniteSetTheorems

\* A line that still has room begins at the beginning of the buffer.
HoldsLine ==
  Len(line) < READ_BUFFER_LENGTH =>
    /\ read_pos = Len(line)
    /\ \A i \in 0 .. read_pos - 1 : read_buffer[i] = line[i + 1]

\* last_tx_ is the time it was set at, in so many bits.
Stamped == wrote <= clock /\ last_tx = wrote % Word

IInv == TypeOK /\ HoldsLine /\ Stamped

-----------------------------------------------------------------------------
(* C strings. *)

\* A set of numbers with every number that is smaller is an interval.
LEMMA Initial ==
  ASSUME NEW n \in Nat, NEW S \in SUBSET (0 .. n - 1),
         \A i \in S : 0 .. i \subseteq S
  PROVE  \E m \in 0 .. n : S = 0 .. m - 1
<1> DEFINE m == Cardinality(S)
<1>1. IsFiniteSet(0 .. n - 1) /\ Cardinality(0 .. n - 1) = n
  BY FS_Interval
<1>2. IsFiniteSet(S) /\ m \in Nat /\ m <= n
  <2>1. IsFiniteSet(S) /\ m <= n
    BY <1>1, FS_Subset
  <2> QED BY <2>1, FS_CardinalityType
<1>3. ASSUME NEW i \in S
      PROVE  i < m
  <2>1. i \in Nat
    OBVIOUS
  <2>2. IsFiniteSet(0 .. i) /\ Cardinality(0 .. i) = i + 1
    BY <2>1, FS_Interval
  <2>3. i + 1 <= m
    BY <1>2, <2>2, FS_Subset
  <2> QED BY <1>2, <2>1, <2>3
<1>4. S \subseteq 0 .. m - 1
  BY <1>2, <1>3
<1>5. IsFiniteSet(0 .. m - 1) /\ Cardinality(0 .. m - 1) = m
  <2> HIDE DEF m
  <2>1. 0 \in Int /\ m - 1 \in Int /\ (0 > m - 1 <=> m = 0)
    BY <1>2
  <2>2. Cardinality(0 .. m - 1) = IF 0 > m - 1 THEN 0 ELSE m - 1 - 0 + 1
    BY <2>1, FS_Interval
  <2> QED BY <1>2, <2>1, <2>2, FS_Interval
<1>6. S = 0 .. m - 1
  <2> DEFINE I == 0 .. m - 1
  <2>1. IsFiniteSet(I) /\ S \in SUBSET I /\ Cardinality(I) = Cardinality(S)
    BY <1>4, <1>5
  <2> HIDE DEF I, m
  <2>2. I = S
    BY <2>1, FS_Subset
  <2> QED BY <2>2 DEF I
<1>7. m \in 0 .. n
  BY <1>2
<1> QED BY <1>6, <1>7

\* The string is what is in front of the first NUL.
LEMMA CStringType ==
  ASSUME NEW n \in Nat, NEW b \in [0 .. n - 1 -> Stored]
  PROVE  CString(b) \in Seq(Stored)
<1> DEFINE shown == {i \in DOMAIN b : \A j \in 0 .. i : b[j] # NUL}
<1>1. shown \in SUBSET (0 .. n - 1)
  OBVIOUS
<1>2. \A i \in shown : 0 .. i \subseteq shown
  OBVIOUS
<1>3. PICK m \in 0 .. n : shown = 0 .. m - 1
  <2> HIDE DEF shown
  <2> QED BY <1>1, <1>2, Initial
<1>4. {j + 1 : j \in shown} = 1 .. m
  <2> HIDE DEF shown
  <2>1. \A k \in 1 .. m : k - 1 \in shown /\ k = (k - 1) + 1
    BY <1>3
  <2>2. \A j \in shown : j + 1 \in 1 .. m
    BY <1>3
  <2> QED BY <2>1, <2>2
<1>5. CString(b) = [i \in 1 .. m |-> b[i - 1]]
  BY <1>4 DEF CString
<1>6. \A i \in 1 .. m : b[i - 1] \in Stored
  BY <1>3
<1> QED BY <1>5, <1>6

\* What is behind a NUL does not matter.
LEMMA CStringEnds ==
  ASSUME NEW n \in Nat, NEW m \in 0 .. n - 1,
         NEW b \in [0 .. n - 1 -> Stored], b[m] = NUL,
         NEW c \in [0 .. m - 1 -> Stored], \A i \in 0 .. m - 1 : b[i] = c[i]
  PROVE  CString(b) = CString(c)
<1> DEFINE shown(f) == {i \in DOMAIN f : \A j \in 0 .. i : f[j] # NUL}
<1>1. shown(b) = shown(c)
  <2>1. \A i \in 0 .. n - 1 : i \in shown(b) => i < m
    OBVIOUS
  <2>2. \A i \in 0 .. m - 1 : i \in shown(b) <=> i \in shown(c)
    OBVIOUS
  <2> QED BY <2>1, <2>2
<1>2. \A i \in {j + 1 : j \in shown(c)} : i \in 1 .. m /\ b[i - 1] = c[i - 1]
  OBVIOUS
<1>3. CString(b) = [i \in {j + 1 : j \in shown(c)} |-> b[i - 1]]
  BY <1>1 DEF CString
<1>4. CString(c) = [i \in {j + 1 : j \in shown(c)} |-> c[i - 1]]
  BY DEF CString
<1> QED BY <1>2, <1>3, <1>4

-----------------------------------------------------------------------------
(* The invariant. *)

LEMMA MillisType ==
  ASSUME NEW t \in Nat
  PROVE  t % Word \in 0 .. Word - 1
BY SerialAssumption

LEMMA InitInv == Init => IInv
<1> SUFFICES ASSUME Init PROVE IInv
  OBVIOUS
<1> USE SerialAssumption DEF Init
<1>1. read_buffer \in [Cells -> Stored] /\ line \in Seq(Stored) /\ message \in Seq(Stored)
  BY DEF Stored
<1>2. last_tx \in 0 .. Word - 1 /\ power_cycle \in 0 .. Word - 1
  OBVIOUS
<1>3. TypeOK
  <2>1. read_pos \in 0 .. READ_BUFFER_LENGTH /\ clock \in Nat /\ wrote \in Nat /\ pulsed \in Nat
    OBVIOUS
  <2>2. state \in State /\ reading \in BOOLEAN
    BY DEF State
  <2>3. {heard, modem_ready, power_pin} \subseteq BOOLEAN
    BY Zenon
  <2> QED BY <1>1, <1>2, <2>1, <2>2, <2>3 DEF TypeOK
<1>4. HoldsLine
  BY DEF HoldsLine
<1>5. Stamped
  BY DEF Stamped
<1> QED BY <1>3, <1>4, <1>5 DEF IInv

\* The pulse ends or begins at most.
LEMMA UnblinkType ==
  ASSUME IInv, Unblink
  PROVE  power_cycle' \in 0 .. Word - 1 /\ pulsed' \in Nat
BY SerialAssumption DEF IInv, TypeOK, Unblink, power

\* A call that writes, or leaves last_tx_ alone.
LEMMA StampedKept ==
  ASSUME IInv, clock' \in Nat, clock <= clock',
         Touch \/ UNCHANGED <<last_tx, wrote>>
  PROVE  Stamped' /\ last_tx' \in 0 .. Word - 1 /\ wrote' \in Nat
<1>1. CASE Touch
  <2>1. wrote' = clock /\ last_tx' = clock % Word /\ clock \in Nat
    BY <1>1 DEF Touch, millis, IInv, TypeOK
  <2>2. clock % Word \in 0 .. Word - 1
    BY <2>1, MillisType
  <2> QED BY <2>1, <2>2 DEF Stamped
<1>2. CASE UNCHANGED <<last_tx, wrote>>
  <2>1. /\ wrote' = wrote /\ last_tx' = last_tx /\ wrote <= clock
        /\ clock \in Nat /\ wrote \in Nat
    BY <1>2 DEF IInv, TypeOK, Stamped
  <2>2. wrote' <= clock'
    BY <2>1
  <2> QED BY <2>1, <2>2 DEF IInv, TypeOK, Stamped
<1> QED BY <1>1, <1>2

LEMMA ReturnClock ==
  ASSUME IInv, Return
  PROVE  clock' \in Nat /\ clock <= clock' /\ reading' = FALSE
BY SerialAssumption DEF IInv, TypeOK, Return

\* A call that ends without reading.
LEMMA TimerInv ==
  ASSUME IInv, LeaveModemWait \/ RxTimeout \/ IdleTimeout \/ Write \/ Nothing
  PROVE  IInv'
<1>1. Return /\ UNCHANGED buffer
  BY DEF LeaveModemWait, RxTimeout, IdleTimeout, Write, Nothing
<1>2. clock' \in Nat /\ clock <= clock' /\ reading' = FALSE
  BY <1>1, ReturnClock
<1>3. Touch \/ UNCHANGED <<last_tx, wrote>>
  BY DEF LeaveModemWait, RxTimeout, IdleTimeout, Write, Nothing, timer
<1>4. Stamped' /\ last_tx' \in 0 .. Word - 1 /\ wrote' \in Nat
  BY <1>2, <1>3, StampedKept
<1>5. power_cycle' \in 0 .. Word - 1 /\ pulsed' \in Nat
  <2>1. CASE RxTimeout
    <3>1. clock \in Nat /\ clock % Word \in 0 .. Word - 1
      BY MillisType DEF IInv, TypeOK
    <3> QED BY <2>1, <3>1 DEF RxTimeout, millis, power, IInv, TypeOK
  <2>2. CASE ~RxTimeout
    BY <2>2, UnblinkType DEF LeaveModemWait, IdleTimeout, Write, Nothing
  <2> QED BY <2>1, <2>2
<1>6. state' \in State /\ {heard', modem_ready', power_pin'} \subseteq BOOLEAN
  BY DEF LeaveModemWait, RxTimeout, IdleTimeout, Write, Nothing, peer, timer,
         State, IInv, TypeOK
<1>7. TypeOK'
  BY <1>1, <1>2, <1>4, <1>5, <1>6 DEF TypeOK, IInv, buffer
<1>8. HoldsLine'
  BY <1>1 DEF HoldsLine, IInv, buffer
<1> QED BY <1>4, <1>7, <1>8 DEF IInv

-----------------------------------------------------------------------------
(* Reading. *)

LEMMA WrappedFacts ==
  ASSUME IInv
  PROVE  /\ Wrapped \in Cells /\ Wrapped + 1 \in 0 .. READ_BUFFER_LENGTH
         /\ read_pos < READ_BUFFER_LENGTH => Wrapped = read_pos
         /\ read_pos = READ_BUFFER_LENGTH => Wrapped = 0
BY SerialAssumption DEF IInv, TypeOK, Wrapped, Cells

LEMMA PutType ==
  ASSUME IInv, NEW c \in Stored
  PROVE  /\ Put(c) \in [Cells -> Stored]
         /\ Put(c)[Wrapped] = c
         /\ \A i \in Cells : i # Wrapped => Put(c)[i] = read_buffer[i]
BY WrappedFacts DEF IInv, TypeOK, Put

LEMMA CharInv ==
  ASSUME IInv, NEW c \in Stored, line' = Append(line, c),
         read_buffer' = Put(c), read_pos' = Wrapped + 1
  PROVE  /\ read_buffer' \in [Cells -> Stored] /\ read_pos' \in 0 .. READ_BUFFER_LENGTH
         /\ line' \in Seq(Stored)
         /\ HoldsLine'
<1>1. line \in Seq(Stored) /\ Len(line) \in Nat /\ Len(line') = Len(line) + 1
  BY DEF IInv, TypeOK
<1>2. read_pos \in 0 .. READ_BUFFER_LENGTH /\ READ_BUFFER_LENGTH \in Nat \ {0}
  BY SerialAssumption DEF IInv, TypeOK
<1>3. ASSUME Len(line') < READ_BUFFER_LENGTH
      PROVE  /\ read_pos' = Len(line')
             /\ \A i \in 0 .. read_pos' - 1 : read_buffer'[i] = line'[i + 1]
  <2>1. Len(line) < READ_BUFFER_LENGTH
    BY <1>1, <1>2, <1>3
  <2>2. read_pos = Len(line) /\ \A i \in 0 .. read_pos - 1 : read_buffer[i] = line[i + 1]
    BY <2>1 DEF IInv, HoldsLine
  <2>3. Wrapped = Len(line)
    BY <2>1, <2>2, WrappedFacts
  <2>4. read_pos' = Len(line')
    BY <1>1, <2>3
  <2>5. ASSUME NEW i \in 0 .. read_pos' - 1
        PROVE  read_buffer'[i] = line'[i + 1]
    <3>1. CASE i = Len(line)
      <4>1. line'[i + 1] = c
        BY <1>1, <3>1
      <4>2. Put(c)[i] = c
        BY <2>3, <3>1, PutType
      <4> QED BY <4>1, <4>2
    <3>2. CASE i # Len(line)
      <4>1. i \in 0 .. read_pos - 1 /\ i + 1 \in 1 .. Len(line) /\ i \in Cells
        BY <1>1, <1>2, <1>3, <2>2, <2>3, <3>2 DEF Cells
      <4>2. line'[i + 1] = line[i + 1]
        BY <1>1, <4>1
      <4>3. Put(c)[i] = read_buffer[i]
        BY <2>3, <3>2, <4>1, PutType
      <4> QED BY <2>2, <4>1, <4>2, <4>3
    <3> QED BY <3>1, <3>2
  <2> QED BY <2>4, <2>5
<1>4. HoldsLine'
  BY <1>3 DEF HoldsLine
<1> QED BY <1>1, <1>4, PutType, WrappedFacts

\* The end of the line.
LEMMA MessageType ==
  ASSUME IInv, EndLine
  PROVE  /\ read_buffer' \in [Cells -> Stored] /\ read_buffer' = Put(NUL)
         /\ message' = CString(read_buffer') /\ message' \in Seq(Stored)
<1>1. NUL \in Stored /\ READ_BUFFER_LENGTH \in Nat
  BY SerialAssumption DEF Stored
<1>2. Put(NUL) \in [Cells -> Stored]
  BY <1>1, PutType
<1>3. CString(Put(NUL)) \in Seq(Stored)
  BY <1>1, <1>2, CStringType DEF Cells
<1> QED BY <1>2, <1>3 DEF EndLine

LEMMA ReadInv ==
  ASSUME IInv, ReadOctet
  PROVE  IInv'
<1>0. CR # LF
  BY DEF CR, LF
<1>1. PICK o \in Plain \cup {CR, LF, NUL, High} : Read(o)
  BY DEF ReadOctet
<1>2. clock' = clock /\ clock \in Nat /\ reading' = TRUE
  BY DEF ReadOctet, IInv, TypeOK
<1>3. power_cycle' \in 0 .. Word - 1 /\ pulsed' \in Nat
  BY UnblinkType DEF ReadOctet
<1>4. Touch \/ UNCHANGED <<last_tx, wrote>>
  BY <1>1 DEF Read, EndLine, parse_cmd_, timer
<1>5. Stamped' /\ last_tx' \in 0 .. Word - 1 /\ wrote' \in Nat
  BY <1>2, <1>4, StampedKept
<1>6. state' \in State /\ {heard', modem_ready', power_pin'} \subseteq BOOLEAN
  <2>1. CASE EndLine /\ UNCHANGED power_pin
    <3>1. heard' \in BOOLEAN
      <4>1. (millis > 0) \in BOOLEAN
        OBVIOUS
      <4> QED BY <2>1, <4>1, Zenon DEF EndLine
    <3>2. modem_ready' \in BOOLEAN /\ power_pin' \in BOOLEAN
      BY <2>1, Zenon DEF EndLine, parse_cmd_, IInv, TypeOK
    <3>3. state' \in State
      BY <2>1 DEF EndLine, parse_cmd_, State, IInv, TypeOK
    <3> QED BY <3>1, <3>2, <3>3
  <2>2. CASE UNCHANGED <<timer, peer>>
    BY <2>2 DEF timer, peer, IInv, TypeOK
  <2>3. (EndLine /\ UNCHANGED power_pin) \/ UNCHANGED <<timer, peer>>
    BY <1>0, <1>1, Zenon DEF Read
  <2> QED BY <2>1, <2>2, <2>3
<1>7. /\ read_buffer' \in [Cells -> Stored] /\ read_pos' \in 0 .. READ_BUFFER_LENGTH
      /\ line' \in Seq(Stored) /\ message' \in Seq(Stored)
      /\ HoldsLine'
  <2>1. CASE o = LF
    <3>1. EndLine /\ line' = <<>>
      BY <1>0, <1>1, <2>1, Zenon DEF Read
    <3>2. read_pos' = 0 /\ READ_BUFFER_LENGTH \in Nat
      BY <3>1, SerialAssumption DEF EndLine
    <3>3. HoldsLine'
      BY <3>1, <3>2 DEF HoldsLine
    <3> QED BY <3>1, <3>2, <3>3, MessageType
  <2>2. CASE o = CR
    <3>1. /\ read_pos' = Wrapped /\ UNCHANGED <<read_buffer, line, message>>
      BY <1>0, <1>1, <2>2, Zenon DEF Read
    <3>2. read_pos' \in 0 .. READ_BUFFER_LENGTH
      BY <3>1, WrappedFacts, SerialAssumption DEF Cells
    <3>3. HoldsLine'
      BY <3>1, WrappedFacts DEF HoldsLine, IInv
    <3> QED BY <3>1, <3>2, <3>3 DEF IInv, TypeOK
  <2>3. CASE o # LF /\ o # CR
    <3> DEFINE c == IF o = High THEN Mark ELSE o
    <3>1. /\ line' = Append(line, c) /\ read_buffer' = Put(c)
          /\ read_pos' = Wrapped + 1 /\ message' = message
      BY <1>1, <2>3 DEF Read
    <3>2. c \in Stored
      BY <2>3 DEF Stored
    <3>3. message' \in Seq(Stored)
      BY <3>1 DEF IInv, TypeOK
    <3> HIDE DEF c
    <3> QED BY <3>1, <3>2, <3>3, CharInv
  <2> QED BY <2>1, <2>2, <2>3
<1>8. TypeOK'
  BY <1>2, <1>3, <1>5, <1>6, <1>7 DEF TypeOK
<1> QED BY <1>5, <1>7, <1>8 DEF IInv

LEMMA Inductive == IInv /\ [Next]_vars => IInv'
<1>1. CASE UNCHANGED vars
  BY <1>1 DEF vars, buffer, timer, peer, power, IInv, TypeOK, HoldsLine, Stamped
<1>2. CASE Next
  BY <1>2, TimerInv, ReadInv DEF Next
<1> QED BY <1>1, <1>2

LEMMA Invariance == Spec => []IInv
<1> QED BY InitInv, Inductive, PTL DEF Spec

-----------------------------------------------------------------------------
(* Theorems. *)

\* Every variable of loop() keeps to its type, the position to the buffer
\* (a7670.cpp:121-148), for every size of the buffer.
THEOREM TypeCorrect == Spec => []TypeOK
<1>1. IInv => TypeOK
  BY DEF IInv
<1> QED BY <1>1, Invariance, PTL

\* Only the end of a line makes it empty.
LEMMA LineEnds ==
  ASSUME IInv, [Next]_vars, line # <<>>, line' = <<>>
  PROVE  EndLine
<1>0. CR # LF /\ line \in Seq(Stored)
  BY DEF CR, LF, IInv, TypeOK
<1>1. line' # line
  OBVIOUS
<1>2. ReadOctet
  BY <1>1 DEF Next, LeaveModemWait, RxTimeout, IdleTimeout, Write, Nothing, vars, buffer
<1>3. PICK o \in Plain \cup {CR, LF, NUL, High} : Read(o)
  BY <1>2 DEF ReadOctet
<1>4. \/ EndLine
      \/ line' = line
      \/ line' = Append(line, IF o = High THEN Mark ELSE o)
  BY <1>0, <1>3, Zenon DEF Read
<1>5. \A c : Append(line, c) # <<>>
  BY <1>0
<1> QED BY <1>1, <1>4, <1>5

\* The end of a line that is in the buffer from its beginning makes a string of
\* what is there.
LEMMA EndAt ==
  ASSUME IInv, EndLine, NEW m \in Cells, m = Wrapped,
         NEW c \in [0 .. m - 1 -> Stored],
         \A i \in 0 .. m - 1 : read_buffer[i] = c[i]
  PROVE  message' = CString(c)
<1>1. NUL \in Stored /\ READ_BUFFER_LENGTH \in Nat
  BY SerialAssumption DEF Stored
<1>2. /\ Put(NUL) \in [0 .. READ_BUFFER_LENGTH - 1 -> Stored]
      /\ Put(NUL)[m] = NUL
  BY <1>1, PutType DEF Cells
<1>3. \A i \in 0 .. m - 1 : Put(NUL)[i] = c[i]
  <2>1. \A i \in 0 .. m - 1 : i \in Cells /\ i # m
    BY <1>1 DEF Cells
  <2> QED BY <1>1, <2>1, PutType
<1>4. m \in 0 .. READ_BUFFER_LENGTH - 1
  BY DEF Cells
<1>5. CString(Put(NUL)) = CString(c)
  BY <1>1, <1>2, <1>3, <1>4, CStringEnds
<1> QED BY <1>5, MessageType

\* A line that fits in the buffer with its end reaches parse_cmd_ as it came,
\* for every size of the buffer (a7670.cpp:127).
THEOREM WholeLines == Spec => LinesWhole
<1> DEFINE Sent == [i \in 0 .. Len(line) - 1 |-> line[i + 1]]
<1>1. ASSUME IInv, [Next]_vars, line # <<>>, line' = <<>>,
             Len(line) < READ_BUFFER_LENGTH
      PROVE  message' = CString(Sent)
  <2>1. EndLine
    BY <1>1, LineEnds
  <2>2. line \in Seq(Stored) /\ Len(line) \in Nat /\ READ_BUFFER_LENGTH \in Nat
    BY <1>1, SerialAssumption DEF IInv, TypeOK
  <2>3. read_pos = Len(line) /\ \A i \in 0 .. read_pos - 1 : read_buffer[i] = line[i + 1]
    BY <1>1 DEF IInv, HoldsLine
  <2>4. Len(line) \in Cells /\ Len(line) = Wrapped
    BY <1>1, <2>2, <2>3, WrappedFacts DEF Cells
  <2>5. /\ Sent \in [0 .. Len(line) - 1 -> Stored]
        /\ \A i \in 0 .. Len(line) - 1 : read_buffer[i] = Sent[i]
    BY <2>2, <2>3
  <2> HIDE DEF Sent
  <2> QED BY <1>1, <2>1, <2>4, <2>5, EndAt
<1> QED BY <1>1, Invariance, PTL DEF Spec, LinesWhole

-----------------------------------------------------------------------------
(* Timers. *)

\* What has passed is at least what the difference of two readings shows.
LEMMA ModDiff ==
  ASSUME NEW W \in Nat \ {0}, NEW a \in Nat, NEW b \in Nat, a <= b
  PROVE  (b % W) - (a % W) <= b - a
<1> DEFINE qa == a \div W
           qb == b \div W
           ra == a % W
           rb == b % W
<1>1. a = W * qa + ra /\ qa \in Nat /\ ra \in 0 .. W - 1
  OBVIOUS
<1>2. b = W * qb + rb /\ qb \in Nat /\ rb \in 0 .. W - 1
  OBVIOUS
<1> HIDE DEF qa, qb, ra, rb
<1>3. qa <= qb
  <2> SUFFICES ASSUME qb + 1 <= qa PROVE FALSE
    BY <1>1, <1>2
  <2>1. \A x, y \in Nat : x <= y => W * x <= W * y
    OBVIOUS
  <2>2. W * (qb + 1) <= W * qa
    BY <1>1, <1>2, <2>1
  <2>3. W * (qb + 1) = W * qb + W
    BY <1>2
  <2> QED BY <1>1, <1>2, <2>2, <2>3
<1>4. W * qa <= W * qb
  BY <1>1, <1>2, <1>3
<1>5. rb - ra <= b - a
  BY <1>1, <1>2, <1>4
<1> QED BY <1>5, Zenon DEF ra, rb

\* A deadline in this turn of millis() is past only when its time is.
LEMMA Elapsed ==
  ASSUME IInv, NEW timeout \in Nat, InTurn(last_tx, timeout), Due(last_tx, timeout)
  PROVE  clock - wrote > timeout
<1>1. /\ clock \in Nat /\ wrote \in Nat /\ wrote <= clock
      /\ last_tx = wrote % Word /\ last_tx \in Nat /\ Word \in Nat \ {0} /\ Gap \in Nat
  BY SerialAssumption DEF IInv, TypeOK, Stamped
<1> DEFINE now == clock % Word
<1>2. now - last_tx <= clock - wrote
  <2>1. (clock % Word) - (wrote % Word) <= clock - wrote
    BY <1>1, ModDiff, Zenon
  <2> QED BY <1>1, <2>1, Zenon
<1>3. now \in Nat
  BY <1>1
<1>4. last_tx + timeout < Word
  BY <1>1 DEF InTurn
<1>5. (last_tx + timeout) % Word = last_tx + timeout
  BY <1>1, <1>4
<1>6. last_tx + timeout < now
  BY <1>5 DEF Due, millis
<1> HIDE DEF now
<1> QED BY <1>1, <1>2, <1>3, <1>6

\* No flow is given up, no modem power-cycled and no wait for one ended before
\* its timeout (a7670.cpp:70-111), for every width of millis() and every
\* timeout, while the deadline is in this turn of millis().
THEOREM NeverEarly == Spec => NotEarly
<1> USE DEF IInv
<1>1. {idle_timeout, rx_timeout, modem_init_timeout} \subseteq Nat
  BY SerialAssumption
<1>2. IInv /\ IdleTimeout /\ InTurn(last_tx, idle_timeout)
        => clock - wrote > idle_timeout
  BY <1>1, Elapsed DEF IdleTimeout, IdleOver
<1>3. IInv /\ RxTimeout /\ InTurn(last_tx, rx_timeout)
        => clock - wrote > rx_timeout
  BY <1>1, Elapsed DEF RxTimeout, RxOver
<1>4. IInv /\ LeaveModemWait /\ ~modem_ready /\ InTurn(last_tx, modem_init_timeout)
        => clock - wrote > modem_init_timeout
  BY <1>1, Elapsed DEF LeaveModemWait, WaitOver
<1> QED BY <1>2, <1>3, <1>4, Invariance, PTL DEF NotEarly

\* Time that does not leave the turn shows in full.
LEMMA SameTurn ==
  ASSUME NEW W \in Nat \ {0}, NEW a \in Nat, NEW b \in Nat, a <= b,
         (a % W) + (b - a) < W
  PROVE  b % W = (a % W) + (b - a)
<1> DEFINE qa == a \div W
           qb == b \div W
           ra == a % W
           rb == b % W
<1>1. a = W * qa + ra /\ qa \in Nat /\ ra \in 0 .. W - 1
  OBVIOUS
<1>2. b = W * qb + rb /\ qb \in Nat /\ rb \in 0 .. W - 1
  OBVIOUS
<1>3. ra + (b - a) < W
  BY Zenon
<1>4. SUFFICES rb = ra + (b - a)
  BY Zenon
<1> HIDE DEF qa, qb, ra, rb
<1>5. \A x, y \in Nat : x + 1 <= y => W * x + W <= W * y
  <2> SUFFICES ASSUME NEW x \in Nat, NEW y \in Nat, x + 1 <= y
               PROVE  W * x + W <= W * y
    OBVIOUS
  <2>1. W * (x + 1) <= W * y
    OBVIOUS
  <2>2. W * (x + 1) = W * x + W
    OBVIOUS
  <2> QED BY <2>1, <2>2
<1>6. ~(qa + 1 <= qb)
  BY <1>1, <1>2, <1>3, <1>5
<1>7. ~(qb + 1 <= qa)
  BY <1>1, <1>2, <1>5
<1>8. W * qa = W * qb
  BY <1>1, <1>2, <1>6, <1>7
<1> QED BY <1>1, <1>2, <1>8

\* A deadline that was not long ago, and is not past by millis(), is not past.
LEMMA StillTime ==
  ASSUME clock \in Nat, NEW since \in Nat, since <= clock,
         NEW t, t = since % Word, NEW timeout \in Nat,
         InTurn(t, timeout), ~Due(t, timeout), clock - since <= timeout + Gap
  PROVE  clock - since <= timeout
<1>1. Word \in Nat \ {0} /\ Gap \in Nat /\ t \in Nat /\ t + timeout + Gap < Word
  BY SerialAssumption DEF InTurn
<1>2. (since % Word) + (clock - since) < Word
  <2>1. t + (clock - since) < Word
    BY <1>1
  <2> QED BY <2>1, Zenon
<1>3. clock % Word = (since % Word) + (clock - since)
  BY <1>1, <1>2, SameTurn
<1> DEFINE now == clock % Word
<1>4. now = t + (clock - since)
  BY <1>3, Zenon
<1>5. (t + timeout) % Word = t + timeout
  BY <1>1
<1>6. ~(t + timeout < now)
  BY <1>5 DEF Due, millis
<1> HIDE DEF now
<1> QED BY <1>1, <1>4, <1>6

\* A call that reads has looked at the timers; the next one has yet to.
Slack == IF reading THEN 0 ELSE Gap

FlowInTime ==
  state = "BUSY" /\ InTurn(last_tx, idle_timeout)
    => clock - wrote <= idle_timeout + Slack

WaitInTime ==
  state = "MODEM_WAIT" /\ InTurn(last_tx, modem_init_timeout)
      /\ pulsed - wrote <= rx_timeout + Gap
    => clock - wrote <= modem_init_timeout + Slack

\* power_cycle_ is the time the pin was set at, and the pulse ends in time.
PulseInTime ==
  power_cycle > 0 =>
    /\ power_pin = TRUE
    /\ pulsed <= clock /\ power_cycle = pulsed % Word
    /\ InTurn(power_cycle, power_blink) => clock - pulsed <= power_blink + Slack

LEMMA TimeoutFacts ==
  /\ rx_timeout \in Nat \ {0} /\ idle_timeout \in Nat \ {0}
  /\ modem_init_timeout \in Nat \ {0} /\ power_blink \in Nat \ {0}
  /\ Gap \in Nat \ {0}
BY SerialAssumption

LEMMA TimeFacts ==
  ASSUME IInv
  PROVE  /\ clock \in Nat /\ wrote \in Nat /\ pulsed \in Nat /\ wrote <= clock
         /\ last_tx = wrote % Word /\ power_cycle \in Nat
         /\ reading \in BOOLEAN /\ power_pin \in BOOLEAN
         /\ Slack \in Nat /\ Slack <= Gap /\ (reading => Slack = 0)
BY TimeoutFacts, SerialAssumption DEF IInv, TypeOK, Stamped, Slack

LEMMA Elapses ==
  ASSUME IInv, Return
  PROVE  clock' \in Nat /\ clock' <= clock + Gap /\ clock <= clock' /\ Slack' = Gap
BY SerialAssumption DEF IInv, TypeOK, Return, Slack

\* Once Unblink is done, a pin that is still set was set not long ago.
LEMMA Unblinks ==
  ASSUME IInv, PulseInTime, Unblink, UNCHANGED power_pin,
         \/ Return
         \/ UNCHANGED clock /\ reading' = TRUE
  PROVE  PulseInTime'
<1>1. CASE Unblinked
  <2>1. ~(power_cycle > 0)'
    BY <1>1 DEF Unblink
  <2> QED BY <2>1 DEF PulseInTime
<1>2. CASE ~Unblinked
  <2>1. UNCHANGED <<power_cycle, pulsed>>
    BY <1>2 DEF Unblink, power
  <2>2. clock' \in Nat /\ clock <= clock'
    BY TimeFacts, Elapses
  <2>3. ASSUME power_cycle > 0, InTurn(power_cycle, power_blink)
        PROVE  clock - pulsed <= power_blink
    <3>1. ~Due(power_cycle, power_blink)
      BY <1>2, <2>3 DEF Unblinked
    <3>2. clock - pulsed <= power_blink + Gap
      BY <2>3, TimeFacts, TimeoutFacts DEF PulseInTime
    <3> QED BY <2>3, <3>1, <3>2, TimeFacts, TimeoutFacts, StillTime DEF PulseInTime
  <2>4. ASSUME power_cycle > 0, InTurn(power_cycle, power_blink)
        PROVE  clock' - pulsed <= power_blink + Slack'
    <3>1. CASE Return
      BY <2>3, <2>4, <3>1, TimeFacts, TimeoutFacts, Elapses
    <3>2. CASE UNCHANGED clock /\ reading' = TRUE
      BY <2>3, <2>4, <3>2, TimeFacts, TimeoutFacts DEF Slack
    <3> QED BY <3>1, <3>2
  <2>5. pulsed <= clock => pulsed <= clock'
    BY <2>2, TimeFacts
  <2> QED BY <2>1, <2>4, <2>5 DEF PulseInTime, InTurn
<1> QED BY <1>1, <1>2

LEMMA PulseNext ==
  ASSUME IInv, PulseInTime, [Next]_vars
  PROVE  PulseInTime'
<1>1. CASE LeaveModemWait \/ IdleTimeout \/ Write \/ Nothing \/ ReadOctet
  BY <1>1, Unblinks DEF LeaveModemWait, IdleTimeout, Write, Nothing, ReadOctet, Read,
     EndLine, parse_cmd_, peer
<1>2. CASE RxTimeout
  <2>1. Return /\ power_pin' = power_pin
    BY <1>2 DEF RxTimeout
  <2>2. CASE power_pin
    <3>1. power_cycle' = clock % Word /\ pulsed' = clock /\ power_pin' = TRUE
      BY <1>2, <2>1, <2>2, TimeFacts DEF RxTimeout, millis
    <3>2. pulsed' <= clock' /\ clock' - pulsed' <= power_blink + Slack'
      BY <2>1, <3>1, TimeFacts, TimeoutFacts, Elapses
    <3> QED BY <3>1, <3>2 DEF PulseInTime
  <2>3. CASE ~power_pin
    <3>1. ~(power_cycle > 0)
      BY <2>3 DEF PulseInTime
    <3>2. power_cycle' = power_cycle
      BY <1>2, <2>3 DEF RxTimeout, power
    <3> QED BY <3>1, <3>2 DEF PulseInTime
  <2> QED BY <2>2, <2>3
<1>3. CASE UNCHANGED vars
  BY <1>3 DEF vars, peer, power, PulseInTime, Slack, InTurn
<1> QED BY <1>1, <1>2, <1>3 DEF Next

\* The pulse on the power pin ends with the first call after power_blink.
THEOREM PulseEnds == Spec => []PinReleased
<1>1. Init => PulseInTime
  BY DEF Init, PulseInTime
<1>2. IInv /\ PulseInTime => PinReleased
  <2> SUFFICES ASSUME IInv, PulseInTime, power_cycle > 0, InTurn(power_cycle, power_blink)
               PROVE  clock - pulsed <= power_blink + Gap
    BY DEF PinReleased
  <2> QED BY TimeFacts, TimeoutFacts DEF PulseInTime
<1>3. IInv /\ PulseInTime /\ [Next]_vars => PulseInTime'
  BY PulseNext
<1> QED BY <1>1, <1>2, <1>3, Invariance, PTL DEF Spec

\* What loop() reads changes the flow with a command or leaves the time of the
\* last one.
LEMMA Reads ==
  ASSUME ReadOctet
  PROVE  /\ reading \/ GoesOn
         /\ reading' = TRUE /\ UNCHANGED clock
         /\ \/ state = "BUSY" /\ state' \in State \ {"MODEM_WAIT"} /\ Touch
            \/ state' \in {state, "IDLE"} /\ UNCHANGED <<last_tx, wrote>>
<1>1. PICK o \in Plain \cup {CR, LF, NUL, High} : Read(o)
  BY DEF ReadOctet
<1>2. EndLine \/ UNCHANGED timer
  <2>1. CR # LF
    BY DEF CR, LF
  <2>2. CASE o = LF
    BY <1>1, <2>2, Zenon DEF Read
  <2>3. CASE o = CR
    BY <1>1, <2>1, <2>3, Zenon DEF Read
  <2>4. CASE o # LF /\ o # CR
    BY <1>1, <2>4, Zenon DEF Read
  <2> QED BY <2>2, <2>3, <2>4
<1>3. /\ \/ state = "BUSY" /\ state' \in State \ {"MODEM_WAIT"} /\ Touch
         \/ state' \in {state, "IDLE"} /\ UNCHANGED <<last_tx, wrote>>
  BY <1>2 DEF EndLine, parse_cmd_, timer
<1> QED BY <1>3 DEF ReadOctet

LEMMA FlowNext ==
  ASSUME IInv, FlowInTime, [Next]_vars
  PROVE  FlowInTime'
<1>1. ASSUME Touch, Return \/ UNCHANGED clock PROVE FlowInTime'
  <2>1. wrote' = clock /\ clock' - wrote' <= Slack'
    <3>1. CASE Return
      BY <1>1, <3>1, TimeFacts, TimeoutFacts, Elapses DEF Touch
    <3>2. CASE UNCHANGED clock
      BY <1>1, <3>2, TimeFacts, TimeoutFacts DEF Touch, Slack
    <3> QED BY <1>1, <3>1, <3>2
  <2>2. Slack' \in Nat /\ clock' \in Nat
    BY <1>1, TimeFacts, TimeoutFacts, Elapses DEF Slack
  <2> QED BY <2>1, <2>2, TimeFacts, TimeoutFacts DEF FlowInTime
<1>2. ASSUME state = "BUSY", InTurn(last_tx, idle_timeout), reading \/ GoesOn
      PROVE  clock - wrote <= idle_timeout
  <2>1. CASE reading
    BY <1>2, <2>1, TimeFacts, TimeoutFacts DEF FlowInTime
  <2>2. CASE ~reading
    <3>1. ~Due(last_tx, idle_timeout)
      BY <1>2, <2>2 DEF GoesOn, IdleOver, InTurn
    <3>2. clock - wrote <= idle_timeout + Gap
      BY <1>2, TimeFacts, TimeoutFacts DEF FlowInTime
    <3> QED BY <1>2, <3>1, <3>2, TimeFacts, TimeoutFacts, StillTime
  <2> QED BY <2>1, <2>2
<1>3. ASSUME state' \in {state, "IDLE"}, UNCHANGED <<last_tx, wrote>>,
             reading \/ GoesOn, Return \/ (UNCHANGED clock /\ reading' = TRUE)
      PROVE  FlowInTime'
  <2> SUFFICES ASSUME state = "BUSY", InTurn(last_tx, idle_timeout)
               PROVE  clock' - wrote <= idle_timeout + Slack'
    BY <1>3 DEF FlowInTime, InTurn
  <2>1. clock - wrote <= idle_timeout
    BY <1>2, <1>3
  <2>2. CASE Return
    BY <2>1, <2>2, TimeFacts, TimeoutFacts, Elapses
  <2>3. CASE UNCHANGED clock /\ reading' = TRUE
    BY <2>1, <2>3, TimeFacts, TimeoutFacts DEF Slack
  <2> QED BY <1>3, <2>2, <2>3
<1>4. CASE LeaveModemWait \/ IdleTimeout
  BY <1>4 DEF LeaveModemWait, IdleTimeout, FlowInTime
<1>5. CASE RxTimeout
  <2>1. CASE power_pin
    BY <1>5, <2>1 DEF RxTimeout, FlowInTime
  <2>2. CASE ~power_pin
    BY <1>1, <1>5, <2>2 DEF RxTimeout
  <2> QED BY <2>1, <2>2
<1>6. CASE Write
  BY <1>1, <1>6 DEF Write
<1>7. CASE Nothing
  BY <1>3, <1>7 DEF Nothing, timer
<1>8. CASE ReadOctet
  BY <1>1, <1>3, <1>8, Reads
<1>9. CASE UNCHANGED vars
  BY <1>9 DEF vars, timer, FlowInTime, Slack, InTurn
<1> QED BY <1>4, <1>5, <1>6, <1>7, <1>8, <1>9 DEF Next

LEMMA WaitNext ==
  ASSUME IInv, WaitInTime, [Next]_vars, rx_timeout + Gap <= modem_init_timeout
  PROVE  WaitInTime'
<1> DEFINE Timed == /\ InTurn(last_tx, modem_init_timeout)
                    /\ pulsed - wrote <= rx_timeout + Gap
<1>1. ASSUME state = "MODEM_WAIT", Timed, reading \/ GoesOn
      PROVE  clock - wrote <= modem_init_timeout
  <2>1. CASE reading
    BY <1>1, <2>1, TimeFacts, TimeoutFacts DEF WaitInTime
  <2>2. CASE ~reading
    <3>1. ~Due(last_tx, modem_init_timeout)
      BY <1>1, <2>2 DEF GoesOn, WaitOver
    <3>2. clock - wrote <= modem_init_timeout + Gap
      BY <1>1, TimeFacts, TimeoutFacts DEF WaitInTime
    <3> QED BY <1>1, <3>1, <3>2, TimeFacts, TimeoutFacts, StillTime
  <2> QED BY <2>1, <2>2
<1>2. ASSUME state' \in {state, "IDLE"}, UNCHANGED <<last_tx, wrote, pulsed>>,
             reading \/ GoesOn, Return \/ (UNCHANGED clock /\ reading' = TRUE)
      PROVE  WaitInTime'
  <2> SUFFICES ASSUME state = "MODEM_WAIT", Timed
               PROVE  clock' - wrote <= modem_init_timeout + Slack'
    BY <1>2 DEF WaitInTime, InTurn
  <2>1. clock - wrote <= modem_init_timeout
    BY <1>1, <1>2
  <2>2. CASE Return
    BY <2>1, <2>2, TimeFacts, TimeoutFacts, Elapses
  <2>3. CASE UNCHANGED clock /\ reading' = TRUE
    BY <2>1, <2>3, TimeFacts, TimeoutFacts DEF Slack
  <2> QED BY <1>2, <2>2, <2>3
<1>3. ASSUME Unblink PROVE pulsed' = pulsed
  BY <1>3 DEF Unblink, power
<1>4. CASE LeaveModemWait \/ IdleTimeout \/ Write
  BY <1>4 DEF LeaveModemWait, IdleTimeout, Write, WaitInTime
<1>5. CASE RxTimeout
  <2>1. CASE power_pin
    <3>1. Return /\ pulsed' = clock /\ wrote' = wrote
      BY <1>5, <2>1 DEF RxTimeout
    <3>2. pulsed' - wrote' <= rx_timeout + Gap
            => clock' - wrote' <= modem_init_timeout + Slack'
      BY <3>1, TimeFacts, TimeoutFacts, Elapses
    <3> QED BY <3>2 DEF WaitInTime
  <2>2. CASE ~power_pin
    BY <1>5, <2>2 DEF RxTimeout, RxOver, WaitInTime
  <2> QED BY <2>1, <2>2
<1>6. CASE Nothing
  BY <1>2, <1>3, <1>6 DEF Nothing, timer
<1>7. CASE ReadOctet
  <2>1. Unblink
    BY <1>7 DEF ReadOctet
  <2>2. CASE state = "BUSY" /\ state' \in State \ {"MODEM_WAIT"}
    BY <2>2 DEF WaitInTime
  <2> QED BY <1>2, <1>3, <1>7, <2>1, <2>2, Reads
<1>8. CASE UNCHANGED vars
  BY <1>8 DEF vars, timer, power, WaitInTime, Slack, InTurn
<1> QED BY <1>4, <1>5, <1>6, <1>7, <1>8 DEF Next

\* A flow is given up, and the wait for the modem ended, with the first call
\* after the timeout, if a modem that is power-cycled at once is still waited
\* for: the wait counts from the last command, not from the pulse
\* (a7670.cpp:16-18, 5 s and 30 s).
THEOREM NeverLate ==
  ASSUME rx_timeout + Gap <= modem_init_timeout
  PROVE  Spec => []NotLate
<1>1. Init => FlowInTime /\ WaitInTime
  BY DEF Init, FlowInTime, WaitInTime
<1>2. IInv /\ FlowInTime /\ WaitInTime /\ [Next]_vars => FlowInTime' /\ WaitInTime'
  BY FlowNext, WaitNext
<1>3. IInv /\ FlowInTime /\ WaitInTime => NotLate
  <2> SUFFICES ASSUME IInv, FlowInTime, WaitInTime PROVE NotLate
    OBVIOUS
  <2>1. state = "BUSY" /\ InTurn(last_tx, idle_timeout)
          => clock - wrote <= idle_timeout + Gap
    BY TimeFacts, TimeoutFacts DEF FlowInTime
  <2>2. state = "MODEM_WAIT" /\ InTurn(last_tx, modem_init_timeout)
            /\ pulsed - wrote <= rx_timeout + Gap
          => clock - wrote <= modem_init_timeout + Gap
    BY TimeFacts, TimeoutFacts DEF WaitInTime
  <2> QED BY <2>1, <2>2, Zenon DEF NotLate
<1> QED BY <1>1, <1>2, <1>3, Invariance, PTL DEF Spec

-----------------------------------------------------------------------------
(* Refinement. *)

Collected == [i \in 1 .. read_pos |-> read_buffer[i - 1]]

LEMMA CollectedFacts ==
  ASSUME IInv
  PROVE  /\ Collected \in Seq(Stored) /\ Len(Collected) = read_pos
         /\ DOMAIN Collected = 1 .. read_pos
         /\ \A i \in 1 .. read_pos : Collected[i] = read_buffer[i - 1]
<1>1. /\ read_buffer \in [Cells -> Stored] /\ read_pos \in Nat
      /\ read_pos <= READ_BUFFER_LENGTH /\ READ_BUFFER_LENGTH \in Nat
  BY SerialAssumption DEF IInv, TypeOK
<1>2. \A i \in 1 .. read_pos : i - 1 \in Cells
  BY <1>1 DEF Cells
<1> QED BY <1>1, <1>2 DEF Collected

LEMMA AppendIs ==
  ASSUME NEW s \in Seq(Stored), NEW c \in Stored
  PROVE  Append(s, c) =
           [i \in 1 .. Len(s) + 1 |-> IF i = Len(s) + 1 THEN c ELSE s[i]]
<1>1. /\ Append(s, c) \in Seq(Stored) /\ Len(Append(s, c)) = Len(s) + 1
      /\ Append(s, c)[Len(s) + 1] = c
      /\ \A i \in 1 .. Len(s) : Append(s, c)[i] = s[i]
  OBVIOUS
<1>2. Append(s, c) = [i \in 1 .. Len(s) + 1 |-> Append(s, c)[i]]
  <2>1. \A t \in Seq(Stored) : t = [i \in 1 .. Len(t) |-> t[i]]
    OBVIOUS
  <2> DEFINE longer == Append(s, c)
  <2>2. longer \in Seq(Stored) /\ Len(longer) = Len(s) + 1
    BY <1>1
  <2> HIDE DEF longer
  <2>3. longer = [i \in 1 .. Len(longer) |-> longer[i]]
    BY <2>1, <2>2
  <2>4. longer = [i \in 1 .. Len(s) + 1 |-> longer[i]]
    BY <2>2, <2>3
  <2> QED BY <2>4 DEF longer
<1>3. \A i \in 1 .. Len(s) + 1 :
        Append(s, c)[i] = IF i = Len(s) + 1 THEN c ELSE s[i]
  BY <1>1
<1> QED BY <1>2, <1>3

\* A character is collected.
LEMMA CollectStep ==
  ASSUME IInv, NEW c \in Stored, read_buffer' = Put(c), read_pos' = Wrapped + 1
  PROVE  Collected' = IF read_pos = READ_BUFFER_LENGTH THEN <<c>>
                      ELSE Append(Collected, c)
<1>1. /\ read_pos \in 0 .. READ_BUFFER_LENGTH /\ READ_BUFFER_LENGTH \in Nat \ {0}
      /\ Wrapped \in Cells
  BY WrappedFacts, SerialAssumption DEF IInv, TypeOK
<1>2. Collected' = [i \in 1 .. Wrapped + 1 |-> Put(c)[i - 1]]
  BY DEF Collected
<1>3. CASE read_pos = READ_BUFFER_LENGTH
  <2>1. Wrapped = 0 /\ Put(c)[0] = c
    BY <1>3, WrappedFacts, PutType
  <2>2. Collected' = [i \in 1 .. 1 |-> c]
    BY <1>2, <2>1
  <2>3. <<c>> = [i \in 1 .. 1 |-> c]
    OBVIOUS
  <2> QED BY <1>3, <2>2, <2>3
<1>4. CASE read_pos # READ_BUFFER_LENGTH
  <2>1. Wrapped = read_pos /\ Put(c)[read_pos] = c
    BY <1>1, <1>4, WrappedFacts, PutType
  <2>2. \A i \in 1 .. read_pos : Put(c)[i - 1] = read_buffer[i - 1]
    <3>1. \A i \in 1 .. read_pos : i - 1 \in Cells /\ i - 1 # Wrapped
      BY <1>1, <2>1 DEF Cells
    <3> QED BY <3>1, PutType
  <2> DEFINE longer == Append(Collected, c)
  <2>3. longer = [i \in 1 .. read_pos + 1 |-> IF i = read_pos + 1 THEN c ELSE Collected[i]]
    BY CollectedFacts, AppendIs
  <2>4. \A i \in 1 .. read_pos + 1 :
          Put(c)[i - 1] = IF i = read_pos + 1 THEN c ELSE Collected[i]
    <3>1. ASSUME NEW i \in 1 .. read_pos + 1, i = read_pos + 1
          PROVE  Put(c)[i - 1] = c
      BY <1>1, <2>1, <3>1
    <3>2. ASSUME NEW i \in 1 .. read_pos + 1, i # read_pos + 1
          PROVE  Put(c)[i - 1] = Collected[i]
      BY <1>1, <2>2, <3>2, CollectedFacts
    <3> QED BY <3>1, <3>2
  <2>5. Collected' = longer
    BY <1>2, <2>1, <2>3, <2>4
  <2> QED BY <1>4, <2>5
<1> QED BY <1>3, <1>4

\* A line feed hands on what was collected, as a C string.
LEMMA HandOnStep ==
  ASSUME IInv, EndLine
  PROVE  Channel!HandOn
<1>1. /\ read_pos \in 0 .. READ_BUFFER_LENGTH /\ READ_BUFFER_LENGTH \in Nat \ {0}
      /\ read_buffer \in [Cells -> Stored] /\ Wrapped \in Cells
  BY WrappedFacts, SerialAssumption DEF IInv, TypeOK
<1>2. Collected' = <<>>
  <2>1. read_pos' = 0
    BY DEF EndLine
  <2> QED BY <2>1 DEF Collected
<1>3. Channel!Full <=> read_pos = READ_BUFFER_LENGTH
  BY CollectedFacts DEF Channel!Full, Collected
<1> DEFINE ended == {i \in DOMAIN Collected : \E j \in 1 .. i : Collected[j] = NUL}
           kept == [i \in DOMAIN Collected \ ended |-> Collected[i]]
<1>4. message' = IF read_pos = READ_BUFFER_LENGTH THEN <<>> ELSE kept
  <2>1. CASE read_pos = READ_BUFFER_LENGTH
    <3> DEFINE none == [i \in 0 .. 0 - 1 |-> NUL]
    <3>1. /\ 0 \in Cells /\ 0 = Wrapped /\ none \in [0 .. 0 - 1 -> Stored]
          /\ \A i \in 0 .. 0 - 1 : read_buffer[i] = none[i]
      BY <1>1, <2>1, WrappedFacts
    <3>2. CString(none) = <<>>
      BY DEF CString
    <3> HIDE DEF none
    <3>3. message' = CString(none)
      BY <3>1, EndAt
    <3> QED BY <2>1, <3>2, <3>3
  <2>2. CASE read_pos # READ_BUFFER_LENGTH
    <3> DEFINE held == [i \in 0 .. read_pos - 1 |-> read_buffer[i]]
               shown == {i \in DOMAIN held : \A j \in 0 .. i : held[j] # NUL}
    <3>1. /\ read_pos \in Cells /\ read_pos = Wrapped
          /\ \A i \in 0 .. read_pos - 1 : i \in Cells
      BY <1>1, <2>2, WrappedFacts DEF Cells
    <3>2. held \in [0 .. read_pos - 1 -> Stored]
      BY <1>1, <3>1
    <3>3. message' = CString(held)
      <4>1. \A i \in 0 .. read_pos - 1 : read_buffer[i] = held[i]
        OBVIOUS
      <4> HIDE DEF held
      <4> QED BY <3>1, <3>2, <4>1, EndAt
    <3>4. \A i \in 1 .. read_pos : i \in ended <=> i - 1 \notin shown
      <4>1. \A i \in 1 .. read_pos :
              i \in ended <=> \E j \in 1 .. i : Collected[j] = NUL
        BY CollectedFacts
      <4>2. \A i \in 1 .. read_pos :
              i - 1 \in shown <=> \A j \in 0 .. i - 1 : held[j] # NUL
        <5>1. DOMAIN held = 0 .. read_pos - 1
          OBVIOUS
        <5>2. \A i \in 1 .. read_pos : i - 1 \in 0 .. read_pos - 1
          BY <1>1
        <5> HIDE DEF held
        <5> QED BY <5>1, <5>2
      <4>3. ASSUME NEW i \in 1 .. read_pos
            PROVE  (\E j \in 1 .. i : Collected[j] = NUL)
                     <=> (\E j \in 0 .. i - 1 : held[j] = NUL)
        <5>1. ASSUME NEW j \in 1 .. i, Collected[j] = NUL
              PROVE  j - 1 \in 0 .. i - 1 /\ held[j - 1] = NUL
          BY <1>1, <5>1, CollectedFacts
        <5>2. ASSUME NEW j \in 0 .. i - 1, held[j] = NUL
              PROVE  j + 1 \in 1 .. i /\ Collected[j + 1] = NUL
          BY <1>1, <5>2, CollectedFacts
        <5> QED BY <5>1, <5>2
      <4> HIDE DEF ended, shown, held
      <4> QED BY <4>1, <4>2, <4>3
    <3>5. {j + 1 : j \in shown} = DOMAIN Collected \ ended
      <4>1. \A j \in shown : j + 1 \in 1 .. read_pos /\ (j + 1) - 1 = j
        BY <1>1
      <4>2. \A i \in 1 .. read_pos : i = (i - 1) + 1
        BY <1>1
      <4>3. DOMAIN Collected = 1 .. read_pos
        BY CollectedFacts
      <4> HIDE DEF shown, ended
      <4> QED BY <3>4, <4>1, <4>2, <4>3
    <3>6. \A i \in DOMAIN Collected \ ended : held[i - 1] = Collected[i]
      BY <1>1, CollectedFacts
    <3>7. CString(held) = [i \in DOMAIN Collected \ ended |-> held[i - 1]]
      <4> HIDE DEF held, ended
      <4> QED BY <3>5 DEF CString
    <3> HIDE DEF held, ended
    <3> QED BY <2>2, <3>3, <3>6, <3>7
  <2> QED BY <2>1, <2>2
<1> QED BY <1>2, <1>3, <1>4, Zenon DEF Channel!HandOn, Channel!Full, Collected

\* Every step of loop() is a step of the channel, or none.
LEMMA ChannelStep ==
  ASSUME IInv, [Next]_vars
  PROVE  [Channel!Step]_<<Collected, message>>
<1>0. CR # LF
  BY DEF CR, LF
<1>1. CASE UNCHANGED buffer
  BY <1>1 DEF buffer, Collected
<1>2. CASE ReadOctet
  <2>1. PICK o \in Plain \cup {CR, LF, NUL, High} : Read(o)
    BY <1>2 DEF ReadOctet
  <2>2. CASE o = LF
    <3>1. EndLine
      BY <1>0, <2>1, <2>2, Zenon DEF Read
    <3> QED BY <3>1, HandOnStep DEF Channel!Step
  <2>3. CASE o = CR
    <3>1. read_pos' = Wrapped /\ UNCHANGED <<read_buffer, message>>
      BY <1>0, <2>1, <2>3, Zenon DEF Read
    <3>2. CASE read_pos = READ_BUFFER_LENGTH
      <4>1. Collected' = <<>>
        <5>1. read_pos' = 0
          BY <3>1, <3>2, WrappedFacts
        <5> QED BY <5>1 DEF Collected
      <4>2. Channel!Full
        BY <3>2, CollectedFacts DEF Channel!Full, Collected
      <4> QED BY <3>1, <4>1, <4>2 DEF Channel!Step, Channel!Forget, Collected
    <3>3. CASE read_pos # READ_BUFFER_LENGTH
      <4>1. read_pos' = read_pos
        BY <3>1, <3>3, WrappedFacts, SerialAssumption DEF IInv, TypeOK
      <4> QED BY <3>1, <4>1 DEF Collected
    <3> QED BY <3>2, <3>3
  <2>4. CASE o # LF /\ o # CR
    <3> DEFINE c == IF o = High THEN Mark ELSE o
    <3>1. read_buffer' = Put(c) /\ read_pos' = Wrapped + 1 /\ message' = message
      BY <2>1, <2>4 DEF Read
    <3>2. c \in Stored
      BY <2>4 DEF Stored
    <3> HIDE DEF c
    <3>3. Collected' = IF read_pos = READ_BUFFER_LENGTH THEN <<c>>
                       ELSE Append(Collected, c)
      BY <3>1, <3>2, CollectStep
    <3>4. Channel!Full <=> read_pos = READ_BUFFER_LENGTH
      BY CollectedFacts DEF Channel!Full, Collected
    <3>5. Channel!Collect(c)
      BY <3>1, <3>3, <3>4, Zenon DEF Channel!Collect, Channel!Full, Collected
    <3> QED BY <3>2, <3>5 DEF Channel!Step
  <2> QED BY <2>2, <2>3, <2>4
<1> QED
  BY <1>1, <1>2 DEF Next, LeaveModemWait, RxTimeout, IdleTimeout, Write, Nothing,
                    vars, buffer

\* The buffer with its position, and parse_cmd_ at the end of a line, are a
\* channel of lines that loses the lines without room and no others
\* (a7670.cpp:121-148), for every size of the buffer.
THEOREM ChannelImplemented == Spec => ImplementsChannel
<1>1. Init => Channel!Start
  BY DEF Init, Channel!Start
<1>2. IInv /\ [Next]_vars => [Channel!Step]_<<Collected, message>>
  BY ChannelStep
<1> QED
  BY <1>1, <1>2, Invariance, PTL DEF Spec, ImplementsChannel, Channel!ChannelSpec, Collected
=============================================================================
