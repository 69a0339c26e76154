------------------------------ MODULE UserData ------------------------------
(***************************************************************************)
(* User data of a message by the standard (3GPP TS 23.040): a header of    *)
(* octets, and septets that are counted from the first whole septet behind *)
(* it, bit by bit.  The reference for the codec, not a part of it.         *)
(***************************************************************************)
EXTENDS Alphabets

HeaderSeptets(h) == (8 * Len(h) + 6) \div 7

\* Bit i of a sequence of units of w bits, the lowest first.
BitAt(s, w, i) == (s[i \div w + 1] \div 2^(i % w)) % 2

\* The numbers whose bits are those from bit i on.
Septet(bit, i) ==
  bit[i] + 2 * bit[i + 1] + 4 * bit[i + 2] + 8 * bit[i + 3] + 16 * bit[i + 4]
    + 32 * bit[i + 5] + 64 * bit[i + 6]
Octet(bit, i) == Septet(bit, i) + 128 * bit[i + 7]

UserDataOf(h, septets) ==
  LET first == 7 * HeaderSeptets(h)
      end == first + 7 * Len(septets)
      bit == [i \in 8 * Len(h) .. end + 6 |->
                IF i \in first .. end - 1 THEN BitAt(septets, 7, i - first) ELSE 0]
  IN h \o [o \in 1 .. (end + 7) \div 8 - Len(h) |-> Octet(bit, 8 * (Len(h) + o - 1))]

SeptetsOf(data, h, udl) ==
  LET first == HeaderSeptets(h)
      bit == [i \in 0 .. 8 * Len(data) - 1 |-> BitAt(data, 8, i)]
  IN [j \in 1 .. udl - first |-> Septet(bit, 7 * (first + j - 1))]

\* The code points of a text in 16-bit units; half a pair is none.
PairPoint(high, low) == (high - 55296) * 1024 + (low - 56320) + 65536
Points(units) ==
  LET pair(i) == /\ i \in 1 .. Len(units) - 1
                 /\ HighSurrogate(units[i]) /\ LowSurrogate(units[i + 1])
  IN Concat([i \in 1 .. Len(units) |->
       IF pair(i)
       THEN <<PairPoint(units[i], units[i + 1])>>
       ELSE IF HighSurrogate(units[i]) \/ pair(i - 1) THEN <<>> ELSE <<units[i]>>])

\* An SMS-SUBMIT without validity period, taken apart.
Submitted(pdu) ==
  LET type == pdu[1] + 2
      n == pdu[type + 2]
      pid == type + 4 + (n + 1) \div 2
      udl == pdu[pid + 2]
      data == SubSeq(pdu, pid + 3, Len(pdu))
      header == IF pdu[type] >= 64 THEN SubSeq(data, 1, data[1] + 1) ELSE <<>>
      digit(j) == (pdu[type + 4 + (j - 1) \div 2] \div 16^((j - 1) % 2)) % 16
      wide == pdu[pid + 1] = 8
      octets == IF wide THEN udl ELSE (7 * udl + 7) \div 8
  IN [plus |-> pdu[type + 3] = 145,
      digits |-> [j \in 1 .. n |-> digit(j)],
      header |-> header,
      wide |-> wide,
      complete |-> Len(data) >= octets,
      words |-> [k \in 1 .. IF wide THEN (udl - Len(header)) \div 2 ELSE 0 |->
                   data[Len(header) + 2 * k - 1] * 256 + data[Len(header) + 2 * k]],
      septets |-> IF wide THEN <<>> ELSE SeptetsOf(data, header, udl)]
=============================================================================
