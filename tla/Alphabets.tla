----------------------------- MODULE Alphabets -----------------------------
(***************************************************************************)
(* The conversions of the PDU codec (components/a7670/pdulib.cpp): UTF-8,  *)
(* UCS-2, the default alphabet of GSM and the packing of its septets.      *)
(*                                                                         *)
(* Texts are sequences of octets in UTF-8, as the driver has them.  char   *)
(* is unsigned, as it is on the ESP32.                                     *)
(***************************************************************************)
EXTENDS Integers, Sequences, SequencesExt

\* Sequences one behind the other.
Concat(seqs) ==
  LET upto[i \in 0 .. Len(seqs)] ==
        IF i = 0 THEN <<>> ELSE upto[i - 1] \o seqs[i]
  IN upto[Len(seqs)]

-----------------------------------------------------------------------------
(* UTF-8 and UCS-2. *)

\* The code point at offset i of a text in well-formed UTF-8.
CodePoint(text, i) ==
  LET lead == text[i]
      six(k) == text[i + k] % 64
  IN IF lead < 128 THEN lead
     ELSE IF lead < 224 THEN (lead % 32) * 64 + six(1)
     ELSE IF lead < 240 THEN ((lead % 16) * 64 + six(1)) * 64 + six(2)
     ELSE (((lead % 8) * 64 + six(1)) * 64 + six(2)) * 64 + six(3)

\* The code points of a text, in their order: where no octet continues another.
CodePoints(text) ==
  Concat([i \in 1 .. Len(text) |->
            IF text[i] \in 128 .. 191 THEN <<>> ELSE <<CodePoint(text, i)>>])

\* A code point as one UCS-2 word, or as a surrogate pair.
utf8_to_ucs2_single(cp) ==
  IF cp < 65536 THEN <<cp>>
  ELSE <<55296 + (cp - 65536) \div 1024, 56320 + ((cp - 65536) % 1024)>>

\* A code point in UTF-8.
Trail(x) == 128 + (x % 64)
buildUtf(cp) ==
  IF cp < 128 THEN <<cp>>
  ELSE IF cp < 2048 THEN <<192 + (cp \div 64), Trail(cp)>>
  ELSE IF cp < 65536 THEN <<224 + (cp \div 4096), Trail(cp \div 64), Trail(cp)>>
  ELSE <<240 + ((cp \div 4096) \div 64), Trail(cp \div 4096), Trail(cp \div 64), Trail(cp)>>

HighSurrogate(word) == word \in 55296 .. 56319
LowSurrogate(word) == word \in 56320 .. 57343

\* Mutant of ucs2_to_utf8: the mark of a pair stays.
ucs2_to_utf8_KeepMark(word, start, high) ==
  IF HighSurrogate(word) THEN [out |-> <<>>, start |-> TRUE, high |-> word]
  ELSE IF word >= 2048 /\ start
  THEN [out |-> buildUtf((high - 55296) * 1024 + (word % 1024) + 65536),
        start |-> TRUE, high |-> high]
  ELSE [out |-> buildUtf(word), start |-> start, high |-> high]

\* One word more, when SPstart and spair[0] are these: the octets of it, and
\* what becomes of the two.  They are globals and outlive the message.
ucs2_to_utf8(word, start, high) ==
  IF HighSurrogate(word) THEN [out |-> <<>>, start |-> TRUE, high |-> word]
  ELSE IF word >= 2048 /\ start
  THEN [out |-> buildUtf((high - 55296) * 1024 + (word % 1024) + 65536),
        start |-> FALSE, high |-> high]
  ELSE [out |-> buildUtf(word), start |-> start, high |-> high]

-----------------------------------------------------------------------------
(* The default alphabet. *)

gsm7_legal ==
  {10, 13, 161, 191, 209, 214, 216, 220, 246, 252, 920, 923, 926, 928, 931,
   934, 8364, 223, 224, 232, 233, 236, 241, 242, 248, 249, 915, 916, 936, 937}
  \cup 32 .. 95 \cup 97 .. 126 \cup 163 .. 167 \cup 196 .. 201 \cup 228 .. 230

isGSM7(cp) == cp \in gsm7_legal

\* Two characters have a close match in the table; the others arrive as they are.
Negated == {166, 200}
Exact == gsm7_legal \ Negated

\* A row of pairs as a function.
Table(pairs) ==
  [x \in {p[1] : p \in pairs} |-> (CHOOSE p \in pairs : p[1] = x)[2]]

\* lookup_ascii8to7 where it does not map a legal character to itself: 256 is
\* added to what follows an escape, and a close match is negated.
MovedRows ==
  {<<36, 2>>, <<64, 0>>, <<91, 316>>, <<92, 303>>, <<93, 318>>,
   <<94, 276>>, <<95, 17>>, <<123, 296>>, <<124, 320>>, <<125, 297>>,
   <<126, 317>>, <<161, 64>>, <<163, 1>>, <<164, 36>>, <<165, 3>>,
   <<166, -33>>, <<167, 95>>, <<191, 96>>, <<196, 91>>, <<197, 14>>,
   <<198, 28>>, <<199, 9>>, <<200, -31>>, <<201, 31>>, <<209, 93>>,
   <<214, 92>>, <<216, 11>>, <<220, 94>>, <<223, 30>>, <<224, 127>>,
   <<228, 123>>, <<229, 15>>, <<230, 29>>, <<232, 4>>, <<233, 5>>,
   <<236, 7>>, <<241, 125>>, <<242, 8>>, <<246, 124>>, <<248, 12>>,
   <<249, 6>>, <<252, 126>>}
Moved == Table(MovedRows)
lookup_ascii8to7(cp) == IF cp \in DOMAIN Moved THEN Moved[cp] ELSE cp

GreekRows ==
  {<<915, 19>>, <<916, 16>>, <<920, 25>>, <<923, 20>>, <<926, 26>>,
   <<928, 22>>, <<931, 24>>, <<934, 18>>, <<936, 23>>, <<937, 21>>}
lookup_UnicodeToGreek7 == Table(GreekRows)

\* A legal character in septets.  A negated entry is cut to a char: -31 is 225.
ToGsm7(cp) ==
  IF cp = 8364 THEN <<27, 101>>
  ELSE IF cp >= 915 THEN <<lookup_UnicodeToGreek7[cp]>>
  ELSE LET x == lookup_ascii8to7(cp) IN
       IF x > 256 THEN <<27, x - 256>> ELSE <<x % 256>>

convert_utf8_to_gsm7bit(text) ==
  LET cps == CodePoints(text) IN Concat([i \in 1 .. Len(cps) |-> ToGsm7(cps[i])])

\* lookup_gsm7toUnicode where it does not map a septet to itself; 63 stands for
\* the Greek ones.
ReadRows ==
  {<<0, 64>>, <<1, 163>>, <<2, 36>>, <<3, 165>>, <<4, 232>>, <<5, 233>>,
   <<6, 249>>, <<7, 236>>, <<8, 242>>, <<9, 199>>, <<11, 216>>, <<12, 248>>,
   <<14, 197>>, <<15, 229>>, <<17, 95>>, <<28, 198>>, <<29, 230>>, <<30, 223>>,
   <<31, 201>>, <<36, 164>>, <<64, 161>>, <<91, 196>>, <<92, 214>>,
   <<93, 209>>, <<94, 220>>, <<95, 167>>, <<96, 191>>, <<123, 228>>,
   <<124, 246>>, <<125, 241>>, <<126, 252>>, <<127, 224>>}
Read == Table(ReadRows)
lookup_gsm7toUnicode(s) ==
  IF s = 16 \/ s \in 18 .. 26 THEN 63
  ELSE IF s \in DOMAIN Read THEN Read[s] ELSE s

UngreekRows ==
  {<<16, 916>>, <<17, 95>>, <<18, 934>>, <<19, 915>>, <<20, 923>>,
   <<21, 937>>, <<22, 928>>, <<23, 936>>, <<24, 931>>, <<25, 920>>, <<26, 926>>}
lookup_Greek7ToUnicode == Table(UngreekRows)

EscapedRows ==
  {<<10, 12>>, <<20, 94>>, <<40, 123>>, <<41, 125>>, <<47, 92>>, <<60, 91>>,
   <<61, 126>>, <<62, 93>>, <<64, 124>>, <<101, 8364>>}
Escaped == Table(EscapedRows)

\* Septets as a text: an escape makes the septet behind it special.  Behind the
\* last one gsm7bit holds what nobody wrote.
convert_7bit_to_unicode(septets, g) ==
  LET one(s) == IF s # 63 /\ lookup_gsm7toUnicode(s) = 63
                THEN lookup_Greek7ToUnicode[s] ELSE lookup_gsm7toUnicode(s)
      two(s) == IF s \in DOMAIN Escaped THEN Escaped[s] ELSE 63
      second[i \in 1 .. Len(septets)] ==
        i > 1 /\ septets[i - 1] = 27 /\ ~second[i - 1]
      chars(i) == IF second[i] THEN <<>>
                  ELSE IF septets[i] # 27 THEN buildUtf(one(septets[i]))
                  ELSE buildUtf(IF i < Len(septets) THEN two(septets[i + 1]) ELSE two(g))
  IN Concat([i \in 1 .. Len(septets) |-> chars(i)])

-----------------------------------------------------------------------------
(* Packing. *)

\* The septets a and b in the octet in which a is k bits down:
\* ((a >> k) & 0x7F) | ((b << (7 - k)) & 0xFF).  The two meet in one bit if a
\* is no septet.
Join(a, b, k) ==
  LET lo == (a \div 2^k) % 128
      hi == (b * 2^(7 - k)) % 256
  IN lo + hi - (IF lo >= 2^(7 - k) /\ b % 2 = 1 THEN 2^(7 - k) ELSE 0)

OctetsFor(n) == (7 * n + 7) \div 8

\* Mutant of Pack: the septet that is used up is not skipped.
Pack_NoSkip(septets, g) ==
  LET s == Append(septets, g) IN
  [w \in 1 .. OctetsFor(Len(septets)) |-> Join(s[w], s[w + 1], (w - 1) % 7)]

\* utf8_to_packed7bit from its loop on.  The last octet is filled up with what
\* is behind the septets in gsm7bit, which nobody wrote.
Pack(septets, g) ==
  LET s == Append(septets, g)
      r(w) == (w - 1) + (w - 1) \div 7 + 1
  IN [w \in 1 .. OctetsFor(Len(septets)) |->
        Join(s[r(w)], s[r(w) + 1], (w - 1) % 7)]

\* The octet at w; behind the end of the PDU the string holds anything.
OctetAt(octets, w, g) == IF w <= Len(octets) THEN octets[w] ELSE g

\* The j-th septet pduGsm7_to_unicode reads off the octets: the loop takes two
\* of the seventh octet of seven.
SeptetAt(octets, j, g) ==
  LET r == (j - 1) - (j - 1) \div 8
      k == (j - 1) % 8
      here == OctetAt(octets, r + 1, g)
      last == OctetAt(octets, r, g)
  IN IF k = 0 THEN here % 128
     ELSE IF k = 7 THEN (last \div 2) % 128
     ELSE (here * 2^k + (last \div 2^(8 - k))) % 128

\* pduGsm7_to_unicode up to its last call: first is put in front if it is not 0.
Unpack(octets, n, first, g) ==
  IF first = 0 THEN [j \in 1 .. n |-> SeptetAt(octets, j, g)]
  ELSE [j \in 1 .. n |-> IF j = 1 THEN first ELSE SeptetAt(octets, j - 1, g)]
=============================================================================
