-------------------------------- MODULE Pdu --------------------------------
(***************************************************************************)
(* The PDU object of the driver (components/a7670/pdulib.cpp): encodePDU   *)
(* and decodePDU, called in any order, and what they leave in its buffers  *)
(* for each other.  PDUs are sequences of octets; the hexadecimal digits   *)
(* they travel in are left out.                                            *)
(*                                                                         *)
(* The messages that arrive are written by other phones, which follow the  *)
(* standard: module UserData has the reference for both directions.        *)
(***************************************************************************)
EXTENDS UserData

CONSTANTS
  Center,      \* the service center, a number
  Requests,    \* what may be encoded: [to, text, numbers, force]; the text in
               \* code points, numbers <<csms, numparts, partnumber>>
  Messages,    \* what may arrive: [from, alphabet, text, header]; the text is in
               \* code points if alphabet is "7BIT", else in 16-bit units; a
               \* sender is a [kind |-> "number", plus, digits], a [kind |->
               \* "name", name] or of another kind, [kind |-> "other", type, digits]
  Garbage,     \* values an octet nobody wrote may have
  Followed(_)  \* bound: the calls after which the model makes another one

VARIABLES
  generalWorkBuff,  \* the encoded PDU or the decoded text
  addressBuff,      \* the sender, as text
  concatInfo,       \* <<csms, partnumber, numparts>>
  SPstart, spair,   \* the globals of ucs2_to_utf8, spair[0]
  rc,               \* what the last call returned
  call,             \* history: the last call
  dangling          \* history: the half of a pair the last text ended in

inbound == <<addressBuff, concatInfo, SPstart, spair, dangling>>
vars == <<generalWorkBuff, inbound, rc, call>>

MAX_SMS_LENGTH_7BIT == 160
MAX_NUMBER_OCTETS == 140
MAX_NUMBER_LENGTH == 20
PDU_BINARY_MAX_LENGTH == 170

Utf8(cps) == Concat([i \in DOMAIN cps |-> buildUtf(cps[i])])

\* A sender as it reads.
Sender(from) ==
  IF from.kind = "name" THEN Utf8(from.name)
  ELSE (IF from.plus THEN <<43>> ELSE <<>>)
         \o [i \in DOMAIN from.digits |-> 48 + from.digits[i]]

\* What the constants are.  A character is no half of a pair, and a message may
\* begin and end with half of one; a header begins with its length; an address
\* of another kind is not of one that is read.  A text in memory is a C string:
\* it has no NUL.  Addresses have room in the members that hold them as text
\* with a NUL behind it: decodeAddress and setSCAnumber copy longer ones over
\* what is behind (pdulib.h:230-234), which is left out.
Byte == 0 .. 255
Word == {w \in Nat : w < 65536}
Number == [plus : BOOLEAN, digits : Seq(0 .. 9) \ {<<>>}]
Numbers == Word \X Byte \X Byte
NoNul(text) == \A i \in DOMAIN text : text[i] # 0
HasRoom(address) == Len(address) < MAX_NUMBER_LENGTH
IsCharacter(c) == c \in Nat /\ c \div 65536 < 17 /\ c \notin 55296 .. 57343
RequestOK(r) ==
  /\ r.to \in Number /\ r.force \in BOOLEAN
  /\ r.text \in Seq(Nat) /\ \A i \in DOMAIN r.text : IsCharacter(r.text[i])
  /\ NoNul(r.text)
  /\ r.numbers \in Numbers
SenderOK(f) ==
  \/ f.kind = "number" /\ [plus |-> f.plus, digits |-> f.digits] \in Number
  \/ f.kind = "name" /\ f.name \in Seq(Exact) \ {<<>>}
  \/ /\ f.kind = "other" /\ f.digits \in Seq(0 .. 9)
     /\ f.type \in 0 .. 127
          \cup {t \in 128 .. 255 : (t \div 16) % 8 \notin {0, 1, 2, 5}}
UnitsOK(units) ==
  /\ units \in Seq(Word)
  /\ \A i \in 1 .. Len(units) - 1 :
       HighSurrogate(units[i]) <=> LowSurrogate(units[i + 1])
HeaderOK(h) ==
  \/ h = <<>>
  \/ h \in Seq(Byte) /\ Len(h) \in {6, 7} /\ h[1] = Len(h) - 1
MessageOK(m) ==
  /\ SenderOK(m.from) /\ (m.from.kind # "other" => HasRoom(Sender(m.from)))
  /\ HeaderOK(m.header)
  /\ \/ m.alphabet = "7BIT" /\ m.text \in Seq(Exact)
     \/ m.alphabet \in {"8BIT", "16BIT"} /\ UnitsOK(m.text) /\ NoNul(m.text)

ASSUME PduAssumption ==
  /\ Center \in Number
  /\ HasRoom(Sender([kind |-> "number", plus |-> Center.plus, digits |-> Center.digits]))
  /\ \A r \in Requests : RequestOK(r)
  /\ \A m \in Messages : MessageOK(m)
  /\ Garbage \subseteq Byte

None == [op |-> "none"]

Init ==
  /\ generalWorkBuff = <<>> /\ addressBuff = <<>> /\ concatInfo = <<0, 0, 0>>
  /\ SPstart = FALSE /\ spair = 0
  /\ rc = "none" /\ call = None /\ dangling = <<>>

-----------------------------------------------------------------------------
(* Encoding. *)

\* Digits two by two, the lower one first, and 15 behind an odd one.
stringToBCD(digits) ==
  [j \in 1 .. (Len(digits) + 1) \div 2 |->
     digits[2 * j - 1]
       + 16 * (IF 2 * j <= Len(digits) THEN digits[2 * j] ELSE 15)]

AddressLegal(number) == Len(number.digits) < MAX_NUMBER_LENGTH

setAddress(number, type) ==
  LET n == Len(number.digits) IN
  <<IF type = "NIBBLES" THEN n ELSE (n + 1) \div 2 + 1,
    IF number.plus THEN 145 ELSE 161>> \o stringToBCD(number.digits)

buildUDH(n) == <<6, 8, 4, n[1] \div 256, n[1] % 256, n[2], n[3]>>

NumbersLegal(n) ==
  n = <<0, 0, 0>> \/ (0 \notin {n[1], n[2], n[3]} /\ n[3] <= n[2])

Octets(words) ==
  [i \in 1 .. 2 * Len(words) |-> LET u == words[(i + 1) \div 2] IN
     IF i % 2 = 1 THEN u \div 256 ELSE u % 256]

utf8_to_ucs2(text) ==
  LET cps == CodePoints(text)
  IN Concat([i \in 1 .. Len(cps) |-> Octets(utf8_to_ucs2_single(cps[i]))])

\* Mutant of MaxSeptets: the header is counted in octets.
MaxSeptets_Octets(header) == MAX_SMS_LENGTH_7BIT - Len(header)
MaxSeptets(header) ==
  MAX_SMS_LENGTH_7BIT - (IF header = <<>> THEN 0 ELSE 8)

Wide(text, force) ==
  force \/ LET cps == CodePoints(text) IN \E i \in DOMAIN cps : ~isGSM7(cps[i])

\* Length and data of the two alphabets.  With a header, one octet more than
\* was packed is sent, and g is in it.
Septets(header, text, g) ==
  LET s == convert_utf8_to_gsm7bit(text) IN
  <<0, Len(s) + (IF header = <<>> THEN 0 ELSE 8)>> \o header \o Pack(s, g)
    \o (IF header = <<>> THEN <<>> ELSE <<g>>)
Words(header, text) ==
  LET o == utf8_to_ucs2(text) IN <<8, Len(o) + Len(header)>> \o header \o o

\* encodePDU writes the work buffer at its end, and only if all went well.  A
\* text in 16 bits is not empty: the driver forces 16 bits for parts only.
encodePDU(to, text, n, force, g) ==
  LET header == IF n[1] = 0 THEN <<>> ELSE buildUDH(n)
      wide == Wide(text, force)
      front == setAddress(Center, "OCTETS") \o <<IF n[1] = 0 THEN 1 ELSE 65, 0>>
                 \o setAddress(to, "NIBBLES") \o <<0>>
      error ==
        IF ~NumbersLegal(n) THEN "MULTIPART_NUMBERS"
        ELSE IF ~AddressLegal(Center) \/ ~AddressLegal(to) THEN "ADDRESS_FORMAT"
        ELSE IF wide /\ Len(utf8_to_ucs2(text)) > MAX_NUMBER_OCTETS - Len(header)
        THEN "UCS2_TOO_LONG"
        ELSE IF ~wide /\ Len(convert_utf8_to_gsm7bit(text)) > MaxSeptets(header)
        THEN "GSM7_TOO_LONG" ELSE "ok"
  IN /\ wide => text # <<>>
     /\ rc' = error
     /\ generalWorkBuff' =
          IF error # "ok" THEN generalWorkBuff
          ELSE front \o (IF wide THEN Words(header, text) ELSE Septets(header, text, g))
     /\ call' = [op |-> "encode", to |-> to, text |-> text, numbers |-> n]
     /\ UNCHANGED inbound

-----------------------------------------------------------------------------
(* Decoding. *)

\* Digits as characters, up to the filler.
BCDtoString(octets) ==
  LET nibble(j) == LET o == octets[(j + 1) \div 2] IN
                   IF j % 2 = 1 THEN o % 16 ELSE o \div 16
      fillers == {k \in 1 .. Len(octets) : nibble(2 * k) = 15}
      n == IF fillers = {} THEN 2 * Len(octets) ELSE 2 * Min(fillers) - 1
  IN [j \in 1 .. n |-> 48 + nibble(j)]

\* The address at offset i: its digits in the PDU (0: it cannot be read) and
\* what it reads.
decodeAddress(pdu, i, type, g) ==
  LET n == IF type = "NIBBLES" THEN pdu[i] ELSE (pdu[i] - 1) * 2
      ton == (pdu[i + 1] \div 16) % 8
      octets == SubSeq(pdu, i + 2, i + 1 + (n + 1) \div 2)
      length == n + (n % 2)
  IN IF pdu[i + 1] >= 128 /\ ton \in {0, 1, 2}
     THEN [length |-> length,
           text |-> (IF ton = 1 THEN <<43>> ELSE <<>>) \o BCDtoString(octets)]
     ELSE IF pdu[i + 1] >= 128 /\ ton = 5
     THEN [length |-> length,
           text |-> convert_7bit_to_unicode(Unpack(octets, (n * 4) \div 7, 0, g), g)]
     ELSE [length |-> 0, text |-> addressBuff]

\* pdu_to_ucs2 and ucs2_to_utf8 for every word.
Utf8Of(octets) ==
  LET word(k) == octets[2 * k - 1] * 256 + octets[2 * k]
      after[k \in 0 .. Len(octets) \div 2] ==
        IF k = 0 THEN [out |-> <<>>, start |-> SPstart, high |-> spair]
        ELSE LET s == after[k - 1]
                 r == ucs2_to_utf8(word(k), s.start, s.high)
             IN [out |-> s.out \o r.out, start |-> r.start, high |-> r.high]
  IN after[Len(octets) \div 2]

\* Mutant of NoHeader: the numbers of the last message stay.
NoHeader_Keep == concatInfo
NoHeader == <<0, 0, 0>>

\* A header with a reference of 8 or of 16 bits, which is all that is read.
ConcatHeader(h) ==
  (h[1] = 5 /\ h[2] = 0 /\ h[3] = 3) \/ (h[1] = 6 /\ h[2] = 8 /\ h[3] = 4)
ConcatNumbers(h) ==
  IF h[1] = 5 THEN <<h[4], h[6], h[5]>>
  ELSE <<h[4] * 256 + h[5], h[7], h[6]>>

\* The text of a message in septets.  Of the header of 8 septets only 7 are
\* taken off; with one of 6 octets the octet that follows it holds the first
\* septet, which is lost if it is 0.
SeptetText(data, udl, h, g) ==
  IF h = <<>> THEN Unpack(data, udl, 0, g)
  ELSE IF h[1] = 5 THEN Unpack(Tail(data), udl - 7, data[1] \div 2, g)
  ELSE Unpack(data, udl - 7, 0, g)

\* Mutant of Undecoded: the buffer is emptied when the text is there.
Undecoded_Late == UNCHANGED <<generalWorkBuff, SPstart, spair>>
Undecoded == generalWorkBuff' = <<>> /\ UNCHANGED <<SPstart, spair>>

\* decodePDU.  Headers of another length than 5 or 6 do not arrive here.
decodePDU(pdu, g) ==
  LET sca == decodeAddress(pdu, 1, "OCTETS", g)
      tpdu == 3 + sca.length \div 2
      oa == decodeAddress(pdu, tpdu + 1, "NIBBLES", g)
      pid == tpdu + 3 + oa.length \div 2
      dcs == (pdu[pid + 1] \div 4) % 4
      udl == pdu[pid + 9]
      data == SubSeq(pdu, pid + 10, Len(pdu))
      h == IF (pdu[tpdu] \div 64) % 2 = 1 THEN SubSeq(data, 1, data[1] + 1)
                                          ELSE <<>>
      rest == SubSeq(data, Len(h) + 1, Len(data))
      wide == Utf8Of(SubSeq(rest, 1, udl - Len(h)))
  IN IF sca.length = 0 \/ oa.length = 0
     THEN /\ rc' = "failed"
          /\ UNCHANGED <<generalWorkBuff, addressBuff, concatInfo, SPstart, spair>>
     ELSE
       /\ addressBuff' = oa.text
       /\ concatInfo' = IF h = <<>> THEN NoHeader
                        ELSE IF ConcatHeader(h) THEN ConcatNumbers(h) ELSE concatInfo
       /\ IF (h # <<>> /\ ~ConcatHeader(h)) \/ dcs \notin {0, 2}
          THEN rc' = "failed" /\ Undecoded
          ELSE /\ rc' = "ok"
               /\ IF dcs = 0
                  THEN /\ generalWorkBuff' =
                            convert_7bit_to_unicode(SeptetText(rest, udl, h, g), g)
                       /\ UNCHANGED <<SPstart, spair>>
                  ELSE /\ generalWorkBuff' = wide.out
                       /\ SPstart' = wide.start /\ spair' = wide.high

-----------------------------------------------------------------------------
(* The calls. *)

Asked == [r \in Requests |-> Utf8(r.text)]

Encode ==
  /\ Followed(call)
  /\ \E r \in Requests, g \in Garbage :
       encodePDU(r.to, Asked[r], r.numbers, r.force, g)

Septets7(text) == Concat([i \in DOMAIN text |-> ToGsm7(text[i])])

\* A sender as the network writes it.
Address(from) ==
  IF from.kind = "number" THEN setAddress(from, "NIBBLES")
  ELSE IF from.kind = "name"
  THEN LET s == Septets7(from.name)
       IN <<(7 * Len(s) + 3) \div 4, 208>> \o UserDataOf(<<>>, s)
  ELSE <<Len(from.digits), from.type>> \o stringToBCD(from.digits)

\* A message as the phone that sent it and the network write it.
Deliver(m) ==
  LET septets == Septets7(m.text)
      data == IF m.alphabet = "7BIT" THEN UserDataOf(m.header, septets)
              ELSE m.header \o Octets(m.text)
      size == IF m.alphabet = "7BIT" THEN HeaderSeptets(m.header) + Len(septets)
              ELSE Len(data)
  IN setAddress(Center, "OCTETS") \o <<IF m.header = <<>> THEN 4 ELSE 68>>
       \o Address(m.from)
       \o <<0, IF m.alphabet = "7BIT" THEN 0 ELSE IF m.alphabet = "8BIT" THEN 4 ELSE 8>>
       \o <<0, 0, 0, 0, 0, 0, 0>> \o <<size>> \o data

Wire == [m \in Messages |-> Deliver(m)]

\* The half of a pair whose other half may still come: no character but small
\* ones came after it.
Awaited(units) ==
  LET small(u) == u < 2048
      last == SelectLastInSeq(units, LAMBDA u : ~small(u))
  IN IF last = 0 THEN dangling
     ELSE IF HighSurrogate(units[last]) THEN <<units[last]>> ELSE <<>>

Decode ==
  /\ Followed(call)
  /\ \E m \in Messages, g \in Garbage :
       /\ decodePDU(Wire[m], g)
       /\ call' = [op |-> "decode", message |-> m, half |-> dangling]
       /\ dangling' = IF rc' = "ok" /\ m.alphabet = "16BIT" THEN Awaited(m.text)
                                                          ELSE dangling

Next == Encode \/ Decode
Spec == Init /\ [][Next]_vars

-----------------------------------------------------------------------------
(* Properties. *)

\* What the driver sends reads, by the standard, as the text to the number
\* with the reference and the numbers of the part, whatever the bits are that
\* fill it up.  (The two legal characters whose entry is negated are not in
\* the alphabet: see README.)
SentAsWritten ==
  call.op = "encode" /\ rc = "ok"
    /\ Range(CodePoints(call.text)) \cap Negated = {}
  => LET s == Submitted(generalWorkBuff) IN
     /\ s.digits = call.to.digits /\ s.plus = call.to.plus
     /\ s.header = IF call.numbers[1] = 0 THEN <<>> ELSE buildUDH(call.numbers)
     /\ s.complete
     /\ call.text = IF s.wide
                    THEN Utf8(Points(s.words)) ELSE convert_7bit_to_unicode(s.septets, 0)

\* The largest message is not larger than tempbuf of encodePDU.
TempbufFits ==
  call.op = "encode" /\ rc = "ok" => Len(generalWorkBuff) <= PDU_BINARY_MAX_LENGTH

\* The reference of 16 bits has its own property, PartsReadBack; a part that
\* begins with @ loses it when the reference has 8 bits.
Readable(m) ==
  m.header # <<>> /\ m.alphabet = "7BIT" =>
    m.header[1] = 5 /\ (m.text # <<>> => ToGsm7(m.text[1]) # <<0>>)

\* Texts arrive as written, also those whose surrogate pair is cut in two by
\* the end of a part.  If the second half never comes it costs a later text
\* one character at most: ucs2_to_utf8 remembers the first half for ever.
TextReceived ==
  call.op = "decode" /\ rc = "ok" /\ Readable(call.message) =>
    LET m == call.message
        got == CodePoints(generalWorkBuff)
        second == m.alphabet = "16BIT" /\ m.text # <<>> /\ LowSurrogate(m.text[1])
        sent == IF m.alphabet = "7BIT" THEN m.text
                ELSE Points((IF second THEN call.half ELSE <<>>) \o m.text)
    IN IF m.alphabet = "7BIT" \/ (call.half = <<>>) = ~second THEN got = sent
       ELSE call.half # <<>> =>
         /\ Len(got) = Len(sent)
         /\ \A i, j \in DOMAIN sent : got[i] # sent[i] /\ got[j] # sent[j] => i = j

\* The sender and the numbers of the part are those of the message decoded,
\* never of one before it.  Said of senders that fit into addressBuff, of up to
\* 19 octets (MessageOK).
HeaderReceived ==
  call.op = "decode" /\ rc = "ok" =>
    LET m == call.message IN
    /\ addressBuff = Sender(m.from)
    /\ concatInfo = IF m.header = <<>> THEN <<0, 0, 0>> ELSE ConcatNumbers(m.header)

\* A message that cannot be decoded leaves no text of another one behind,
\* unless its address cannot be read: _parse_sms_message_ does not look at the
\* result of decodePDU.
FailureEmpties ==
  call.op = "decode" /\ rc = "failed" =>
    generalWorkBuff = <<>> \/ call.message.from.kind = "other"

\* A part with a header of 7 octets is decoded without the header and without
\* anything else (pdulib.cpp:501 "7 octets of udh = 8 septets").
PartsReadBack ==
  call.op = "decode" /\ rc = "ok" /\ call.message.alphabet = "7BIT"
    => CodePoints(generalWorkBuff) = call.message.text
=============================================================================
