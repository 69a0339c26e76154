------------------------------ MODULE SmsSplit ------------------------------
(***************************************************************************)
(* How a text is cut into messages and each of them encoded:               *)
(* _prepare_sms_multipart_ and _send_sms_send_header_ of the driver with   *)
(* checkMultipart, doCheckMultipart, convert_utf8_to_gsm7bit, utf8_to_ucs2 *)
(* and encodePDU of the codec, a character per step.                       *)
(*                                                                         *)
(* A text is a sequence of octets.  The octet that starts a character is   *)
(* the kind of the character, the others are Cont.  Two passes must agree: *)
(* one finds the cuts, the other encodes each part on its own.             *)
(***************************************************************************)
EXTENDS Integers, Sequences, FiniteSets

CONSTANTS
  Texts, Chars, Utf8(_), Septets(_), Upto(_, _, _), Limit(_), Header(_),
                \* see Cutting
  Cont,         \* an octet that continues a character
  Ucs2(_),      \* octets of a character in UCS-2
  CsmsMod,      \* values of unsigned short (65536)
  CharMod,      \* values of unsigned char (256)
  MaxCounter    \* bound: multipart texts sent

VARIABLES
  text, numeric,          \* outgoing_message_; recipient_ is a number
  pc,                     \* where the driver is
  splits, partnum,        \* outgoing_splits_, outgoing_partnum_
  csms, counter,          \* outgoing_csms_, outgoing_csms_counter_
  force16,                \* outgoing_force_16bit_
  idx, msg16Bit,          \* locals of _prepare_sms_multipart_
  udh, dcs,               \* forceMultipart, dcs of doCheckMultipart
  pos, w,                 \* the message pointer and units of the inner loop
  result                  \* what encodePDU returned last for this text

request == <<text, numeric>>
outgoing == <<splits, partnum, csms, counter, force16>>
scan == <<idx, msg16Bit, udh, dcs, pos, w>>
vars == <<request, pc, outgoing, scan, result>>

\* Where the driver is, as the abstract specification has it.
Stage == CASE pc \in {"check", "fill"} -> "cutting"
           [] pc = "send" /\ splits # <<0>> -> "cut"
           [] pc = "send" /\ splits = <<0>> -> "refused"
           [] OTHER -> "idle"

Pieces == INSTANCE Cutting WITH cuts <- splits, stage <- Stage

Alphabets == Pieces!Alphabets
Boundary(t, p) == Pieces!Boundary(t, p)
Gsm(t, b, e) == Pieces!Gsm(t, b, e)
Room(a, h) == Pieces!Room(a, h)

Units(a, c) == IF a = "7BIT" THEN Septets(c) ELSE Ucs2(c)

\* Texts are well-formed UTF-8: _prepare_sms_multipart_ has wstring_convert
\* read the whole text first, and that throws at anything else.
TextsAssumption ==
  \A t \in Texts :
    /\ t \in Seq(Chars \cup {Cont})
    /\ Boundary(t, 0)
    /\ \A p \in 0 .. Len(t) - 1 : t[p + 1] \in Chars =>
         /\ p + Utf8(t[p + 1]) <= Len(t)
         /\ Boundary(t, p + Utf8(t[p + 1]))
         /\ \A q \in p + 1 .. p + Utf8(t[p + 1]) - 1 : t[q + 1] = Cont

\* Upto adds up Units.
UptoAssumption ==
  \A a \in {"7BIT", "16BIT"}, t \in Texts :
    /\ \A p, q \in 0 .. Len(t) :
         Upto(a, t, p) \in Nat /\ (p <= q => Upto(a, t, p) <= Upto(a, t, q))
    /\ \A p \in 0 .. Len(t) - 1 : t[p + 1] \in Chars =>
         Upto(a, t, p + Utf8(t[p + 1])) = Upto(a, t, p) + Units(a, t[p + 1])

\* Every character fits into a message, headers and all.
CharsAssumption ==
  /\ Cont \notin Chars
  /\ \A c \in Chars : /\ Utf8(c) \in Nat \ {0}
                      /\ Septets(c) \in 0 .. 2 /\ Ucs2(c) \in {2, 4}
  /\ \A a \in {"7BIT", "16BIT"} :
       /\ Limit(a) \in Nat /\ Header(a) \in Nat
       /\ Limit(a) - Header(a) >= (IF a = "7BIT" THEN 2 ELSE 4)
  /\ CsmsMod \in Nat \ {0} /\ CharMod \in Nat \ {0} /\ MaxCounter \in Nat

ASSUME SplitAssumption ==
  <<>> \in Texts /\ TextsAssumption /\ UptoAssumption /\ CharsAssumption

-----------------------------------------------------------------------------
(* Cutting. *)

Init ==
  /\ text = <<>> /\ numeric = TRUE /\ pc = "idle"
  /\ splits = <<>> /\ partnum = 0 /\ csms = 0 /\ counter = 1
  /\ force16 = FALSE
  /\ idx = 0 /\ msg16Bit = FALSE /\ udh = FALSE /\ dcs = "7BIT"
  /\ pos = 0 /\ w = 0 /\ result = "none"

\* Mutant of Prepare: the first try leaves room for a header.
Prepare_Header(t, n) ==
  /\ pc = "idle" /\ counter <= MaxCounter
  /\ text' = t /\ numeric' = n /\ splits' = <<>>
  /\ idx' = 0 /\ msg16Bit' = FALSE /\ udh' = TRUE
  /\ pc' = "check" /\ result' = "none"
  /\ UNCHANGED <<partnum, csms, counter, force16, dcs, pos, w>>

\* _prepare_sms_multipart_ begins with another text.
Prepare(t, n) ==
  /\ pc = "idle" /\ counter <= MaxCounter
  /\ text' = t /\ numeric' = n /\ splits' = <<>>
  /\ idx' = 0 /\ msg16Bit' = FALSE /\ udh' = FALSE
  /\ pc' = "check" /\ result' = "none"
  /\ UNCHANGED <<partnum, csms, counter, force16, dcs, pos, w>>

\* The loop of _prepare_sms_multipart_ has ended with these cuts.
Prepared(cuts, wide) ==
  /\ pc' = "send" /\ splits' = cuts /\ UNCHANGED request
  /\ IF cuts = <<>> THEN UNCHANGED <<partnum, csms, counter, force16>>
     ELSE /\ csms' = counter /\ counter' = counter + 1
          /\ partnum' = 0 /\ force16' = wide
  /\ UNCHANGED result

\* Mutant of TooLong: the second try is like the first.
TooLong_SameTry(cut, wide) ==
  IF ~udh THEN
    /\ pc' = "check"
    /\ UNCHANGED <<request, outgoing, idx, udh, result>>
  ELSE
    /\ splits' = Append(splits, cut) /\ idx' = cut /\ pc' = "check"
    /\ UNCHANGED <<request, partnum, csms, counter, force16, udh, result>>

\* checkMultipart has found no room for the character at offset cut: without
\* a header it tries again with one, then it is a cut.
TooLong(cut, wide) ==
  IF ~udh THEN
    /\ udh' = TRUE /\ pc' = "check"
    /\ UNCHANGED <<request, outgoing, idx, result>>
  ELSE IF cut = idx THEN
    /\ Prepared(Append(splits, cut), wide)
    /\ UNCHANGED <<idx, udh>>
  ELSE
    /\ splits' = Append(splits, cut) /\ idx' = cut /\ pc' = "check"
    /\ UNCHANGED <<request, partnum, csms, counter, force16, udh, result>>

\* Mutant of Check: the alphabet is chosen for the rest of the text only.
Check_RestOnly ==
  LET wide == ~Gsm(text, idx, Len(text)) IN
  /\ pc = "check"
  /\ msg16Bit' = (msg16Bit \/ wide)
  /\ dcs' = IF wide THEN "16BIT" ELSE "7BIT"
  /\ w' = 0 /\ pos' = idx
  /\ IF numeric
     THEN pc' = "fill" /\ UNCHANGED <<request, outgoing, idx, udh, result>>
     ELSE TooLong(idx, wide)

\* doCheckMultipart up to its inner loop: the alphabet is chosen for the
\* whole text, and a recipient that is no number ends the call.
Check ==
  LET wide == ~Gsm(text, 0, Len(text)) IN
  /\ pc = "check"
  /\ msg16Bit' = (msg16Bit \/ wide)
  /\ dcs' = IF wide THEN "16BIT" ELSE "7BIT"
  /\ w' = 0 /\ pos' = idx
  /\ IF numeric
     THEN pc' = "fill" /\ UNCHANGED <<request, outgoing, idx, udh, result>>
     ELSE TooLong(idx, wide)

UdhSize(a) == IF udh THEN Header(a) ELSE 0

\* Mutant of Overruns: the character that reaches the limit still counts.
Overruns_Late(a, n) == n > Room(a, UdhSize(a)) + 1
\* Mutant of Overruns: a message is never filled.
Overruns_Early(a, n) == n >= Room(a, UdhSize(a))
Overruns(a, n) == n > Room(a, UdhSize(a))

\* The inner loop takes the next character.
TakeChar ==
  LET c == text[pos + 1] IN
  /\ pc = "fill" /\ pos < Len(text)
  /\ ~Overruns(dcs, w + Units(dcs, c))
  /\ w' = w + Units(dcs, c)
  /\ pos' = pos + Utf8(c)
  /\ UNCHANGED <<request, pc, outgoing, idx, msg16Bit, udh, dcs, result>>

\* Mutant of Overrun: the character is consumed before its room is checked.
Overrun_Consumed ==
  LET c == text[pos + 1]
      n == w + Units(dcs, c)
  IN /\ pc = "fill" /\ pos < Len(text)
     /\ Overruns(dcs, n)
     /\ w' = IF dcs = "7BIT" THEN n ELSE w
     /\ TooLong(pos + Utf8(c), msg16Bit)
     /\ UNCHANGED <<msg16Bit, dcs, pos>>

\* It has no room for it.  The septets of it are in gsm7bit all the same.
Overrun ==
  LET n == w + Units(dcs, text[pos + 1]) IN
  /\ pc = "fill" /\ pos < Len(text)
  /\ Overruns(dcs, n)
  /\ w' = IF dcs = "7BIT" THEN n ELSE w
  /\ TooLong(pos, msg16Bit)
  /\ UNCHANGED <<msg16Bit, dcs, pos>>

\* The rest of the text is one message.
RestFits ==
  /\ pc = "fill" /\ pos = Len(text)
  /\ Prepared(splits, msg16Bit)
  /\ UNCHANGED scan

-----------------------------------------------------------------------------
(* Encoding. *)

\* encodePDU of the octets b to e.  The reference is cut to an unsigned
\* short, the two numbers to an unsigned char.
Encoded(b, e, ref, total, part, wide) ==
  LET r == ref % CsmsMod
      n == total % CharMod
      k == part % CharMod
      a == IF wide \/ ~Gsm(text, b, e) THEN "16BIT" ELSE "7BIT"
  IN IF ~(r = 0 /\ n = 0 /\ k = 0) /\ (r = 0 \/ n = 0 \/ k = 0 \/ k > n)
     THEN "MULTIPART_NUMBERS"
     ELSE IF ~numeric THEN "ADDRESS_FORMAT"
     ELSE IF Pieces!Fits(text, a, b, e, IF r = 0 THEN 0 ELSE Header(a))
     THEN "encoded" ELSE "TOO_LONG"

PartBegin == IF partnum = 0 THEN 0 ELSE splits[partnum]
PartEnd == IF partnum >= Len(splits) THEN Len(text) ELSE splits[partnum + 1]

\* _send_sms_send_header_ without cuts: the whole text, no header.
SendWhole ==
  /\ pc = "send" /\ splits = <<>>
  /\ result' = Encoded(0, Len(text), 0, 0, 0, FALSE)
  /\ pc' = "idle"
  /\ UNCHANGED <<request, outgoing, scan>>

\* _send_sms_send_header_ with cuts.  After the last part, or one that
\* cannot be encoded, the driver is idle.
SendPart ==
  /\ pc = "send" /\ splits # <<>>
  /\ partnum' = partnum + 1
  /\ result' = Encoded(PartBegin, PartEnd, csms, Len(splits) + 1, partnum + 1,
                       force16)
  /\ pc' = IF result' = "encoded" /\ partnum < Len(splits) THEN "send" ELSE "idle"
  /\ UNCHANGED <<request, splits, csms, counter, force16, scan>>

\* The idle timeout ends the flow between two parts.
GiveUp ==
  /\ pc = "send"
  /\ pc' = "idle"
  /\ UNCHANGED <<request, outgoing, scan, result>>

Work == Check \/ TakeChar \/ Overrun \/ RestFits \/ SendWhole \/ SendPart
Next == Work \/ GiveUp \/ \E t \in Texts, n \in BOOLEAN : Prepare(t, n)

\* The functions run to their end.  The flow goes on with the next part when
\* the modem asks for it, or the timeout ends it.
Spec == Init /\ [][Next]_vars /\ WF_vars(Work \/ GiveUp)

-----------------------------------------------------------------------------
(* Properties. *)

\* gsm7bit[MAX_SMS_LENGTH_7BIT + 2] is large enough ("allow for overflow").
BufferFits == dcs = "7BIT" => w <= Limit("7BIT") + 2

\* Every variable has its type, and the septets of a text stay within
\* their buffer.
TypeOK ==
  /\ text \in Texts /\ numeric \in BOOLEAN
  /\ pc \in {"idle", "check", "fill", "send"}
  /\ splits \in Seq(Nat)
  /\ partnum \in Nat /\ csms \in Nat /\ counter \in 1 .. MaxCounter + 1
  /\ force16 \in BOOLEAN /\ msg16Bit \in BOOLEAN /\ udh \in BOOLEAN
  /\ dcs \in Alphabets
  /\ idx \in Nat /\ pos \in Nat /\ w \in Nat
  /\ BufferFits
  /\ result \in {"none", "encoded", "MULTIPART_NUMBERS", "ADDRESS_FORMAT",
                  "TOO_LONG"}

\* The cuts of a text that goes to a number lie inside the text, each behind
\* the one before, and none of them splits a character: std::string::substr
\* cuts octets, and half a character or half of an escape sequence would
\* arrive as two wrong ones.
CutsInside ==
  numeric => \A i \in 1 .. Len(splits) :
    /\ splits[i] \in 1 .. Len(text) - 1
    /\ Boundary(text, splits[i])
    /\ i > 1 => splits[i - 1] < splits[i]

\* A part that checkMultipart measured is one encodePDU takes: the two passes
\* agree on the alphabet, on the header and on the units of each character.
\* The numbers of the header are legal, too, unless the reference has run
\* round to 0 or the parts are too many to count in a char.
PartsFit ==
  /\ result # "TOO_LONG"
  /\ result = "ADDRESS_FORMAT" => ~numeric
  /\ result = "MULTIPART_NUMBERS" => \/ csms % CsmsMod = 0
                                     \/ Len(splits) + 1 >= CharMod

\* No other cuts give fewer messages, and what fits one message is not cut.
Fewest ==
  LET a == Pieces!AlphabetOf(text)
      inside == {p \in 1 .. Len(text) - 1 : Boundary(text, p)}
      Unfit(S, b, e) == /\ b < e /\ \A p \in S : p <= b \/ p >= e
                        /\ ~Pieces!Fits(text, a, b, e, IF S = {} THEN 0 ELSE Header(a))
  IN pc = "send" /\ numeric =>
       \A S \in SUBSET inside : Cardinality(S) < Len(splits) =>
         \E b \in S \cup {0}, e \in S \cup {Len(text)} : Unfit(S, b, e)

\* The cuts are those the abstract specification allows, one after another,
\* and cutting stops where it does.
Implements == Pieces!AbsSpec

\* Cutting and encoding end, whatever the text.
Ends == pc # "idle" ~> pc = "idle"
=============================================================================
