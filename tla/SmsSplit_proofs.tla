-------------------------- MODULE SmsSplit_proofs --------------------------
(***************************************************************************)
(* Proofs about SmsSplit, for every set of texts, every alphabet and every *)
(* message size: the cuts lie inside the text, the part that was measured  *)
(* is a part that can be encoded, and the steps of the driver are those of *)
(* the abstract specification Cutting.                                     *)
(*                                                                         *)
(* The inductive invariant says what the loop has measured: w is the units *)
(* between idx and pos.  Upto turns the sum over the characters into a     *)
(* difference of two numbers, so no induction over a text is needed.       *)
(***************************************************************************)
EXTENDS SmsSplit, LeastNumber, FiniteSetTheorems, TLAPS

Alphabet == Pieces!AlphabetOf(text)

\* Where the part before cut i, or before the rest, ends.
CutBefore(i) == IF i = 1 THEN 0 ELSE splits[i - 1]

Measured(b, e, h) ==
  Upto(Alphabet, text, e) - Upto(Alphabet, text, b) <= Room(Alphabet, h)

\* The header of the last part.
RestSize == IF splits = <<>> THEN 0 ELSE Header(Alphabet)

\* While the text is being cut.
Cutting_Inv ==
  pc \in {"check", "fill"} =>
    /\ counter <= MaxCounter
    /\ result = "none"
    /\ msg16Bit => Alphabet = "16BIT"
    /\ idx = CutBefore(Len(splits) + 1)
    /\ idx <= Len(text) /\ Boundary(text, idx)
    /\ splits # <<>> => numeric /\ udh
    /\ numeric /\ udh => ~Measured(0, Len(text), 0)

\* While a part is being measured.
Filling_Inv ==
  pc = "fill" =>
    /\ numeric
    /\ dcs = Alphabet /\ (msg16Bit <=> dcs = "16BIT")
    /\ pos \in idx .. Len(text) /\ Boundary(text, pos)
    /\ w = Upto(dcs, text, pos) - Upto(dcs, text, idx)
    /\ w <= Room(dcs, UdhSize(dcs))

\* While the parts are being sent.
Sending_Inv ==
  pc = "send" =>
    /\ result \in {"none", "encoded"}
    /\ numeric => Measured(CutBefore(Len(splits) + 1), Len(text), RestSize)
    /\ ~numeric => splits = <<0>>
    /\ splits # <<>> => /\ partnum <= Len(splits)
                        /\ numeric => (force16 <=> Alphabet = "16BIT")

PartsMeasured ==
  numeric => \A i \in 1 .. Len(splits) : Measured(CutBefore(i), splits[i], Header(Alphabet))

IInv ==
  /\ TypeOK /\ CutsInside /\ PartsFit
  /\ Cutting_Inv /\ Filling_Inv /\ Sending_Inv /\ PartsMeasured

-----------------------------------------------------------------------------

\* The assumptions on a text, in the form the steps use them.
LEMMA TextFacts ==
  ASSUME NEW t \in Texts
  PROVE  /\ Len(t) \in Nat
         /\ Boundary(t, 0) /\ Boundary(t, Len(t))
         /\ \A p \in 0 .. Len(t) - 1 : Boundary(t, p) =>
              /\ t[p + 1] \in Chars
              /\ Utf8(t[p + 1]) \in Nat \ {0}
              /\ p + Utf8(t[p + 1]) \in 0 .. Len(t)
              /\ Boundary(t, p + Utf8(t[p + 1]))
<1>1. t \in Seq(Chars \cup {Cont}) /\ Boundary(t, 0)
  BY SplitAssumption DEF TextsAssumption
<1>2. Len(t) \in Nat
  BY <1>1
<1>3. Boundary(t, Len(t))
  BY DEF Boundary, Pieces!Boundary
<1>4. ASSUME NEW p \in 0 .. Len(t) - 1, Boundary(t, p)
      PROVE  /\ t[p + 1] \in Chars
             /\ Utf8(t[p + 1]) \in Nat \ {0}
             /\ p + Utf8(t[p + 1]) \in 0 .. Len(t)
             /\ Boundary(t, p + Utf8(t[p + 1]))
  <2>1. t[p + 1] \in Chars
    BY <1>2, <1>4 DEF Boundary, Pieces!Boundary
  <2>2. Utf8(t[p + 1]) \in Nat \ {0}
    BY <2>1, SplitAssumption DEF CharsAssumption
  <2>3. p + Utf8(t[p + 1]) <= Len(t) /\ Boundary(t, p + Utf8(t[p + 1]))
    BY <2>1, SplitAssumption DEF TextsAssumption
  <2> QED BY <1>2, <2>1, <2>2, <2>3
<1> QED BY <1>1, <1>2, <1>3, <1>4

\* One more character adds its units, and a longer piece has no fewer.
LEMMA UptoFacts ==
  ASSUME NEW t \in Texts, NEW a \in {"7BIT", "16BIT"}
  PROVE  /\ \A p, q \in 0 .. Len(t) :
              Upto(a, t, p) \in Nat /\ (p <= q => Upto(a, t, p) <= Upto(a, t, q))
         /\ \A p \in 0 .. Len(t) - 1 : t[p + 1] \in Chars =>
              Upto(a, t, p + Utf8(t[p + 1])) = Upto(a, t, p) + Units(a, t[p + 1])
BY SplitAssumption DEF UptoAssumption

\* A message has room, with a header or without.
LEMMA RoomFacts ==
  ASSUME NEW a \in {"7BIT", "16BIT"}
  PROVE  /\ Limit(a) \in Nat
         /\ Room(a, 0) \in Nat /\ Room(a, Header(a)) \in Nat
         /\ Room(a, UdhSize(a)) \in Nat /\ Room(a, UdhSize(a)) <= Limit(a)
         /\ Room(a, Header(a)) <= Room(a, 0)
         /\ Room(a, UdhSize(a)) <= Room(a, 0)
         /\ \A c \in Chars : /\ Units(a, c) \in Nat
                             /\ Units(a, c) <= Room(a, Header(a))
                             /\ a = "7BIT" => Units(a, c) <= 2
<1>1. /\ Limit(a) \in Nat /\ Header(a) \in Nat
      /\ Limit(a) - Header(a) >= (IF a = "7BIT" THEN 2 ELSE 4)
  BY SplitAssumption DEF CharsAssumption
<1>2. \A c \in Chars : Septets(c) \in 0 .. 2 /\ Ucs2(c) \in {2, 4}
  BY SplitAssumption DEF CharsAssumption
<1> QED BY <1>1, <1>2 DEF Room, Pieces!Room, UdhSize, Units

LEMMA BoundFacts ==
  MaxCounter \in Nat /\ CsmsMod \in Nat \ {0} /\ CharMod \in Nat \ {0}
BY SplitAssumption DEF CharsAssumption

LEMMA AlphabetFact ==
  /\ Alphabet \in {"7BIT", "16BIT"}
  /\ Alphabet = "16BIT" <=> ~Gsm(text, 0, Len(text))
BY DEF Alphabet, Gsm, Pieces!AlphabetOf

-----------------------------------------------------------------------------
(* The invariant is inductive. *)

LEMMA InitInv == Init => IInv
<1> SUFFICES ASSUME Init PROVE IInv
  OBVIOUS
<1>1. <<>> \in Texts /\ MaxCounter \in Nat /\ Limit("7BIT") \in Nat
  BY SplitAssumption DEF CharsAssumption
<1>2. TypeOK
  <2>1. splits \in Seq(Nat)
    BY DEF Init
  <2>2. text \in Texts
    BY <1>1 DEF Init
  <2>3. BufferFits
    BY <1>1 DEF Init, BufferFits
  <2>4. /\ partnum \in Nat /\ csms \in Nat /\ counter \in 1 .. MaxCounter + 1
        /\ idx \in Nat /\ pos \in Nat /\ w \in Nat
    BY <1>1 DEF Init
  <2>5. dcs \in Alphabets
    BY DEF Init, Alphabets, Pieces!Alphabets
  <2> QED
    BY <2>1, <2>2, <2>3, <2>4, <2>5 DEF Init, TypeOK
<1> QED
  BY <1>2 DEF Init, IInv, CutsInside, PartsFit, Cutting_Inv, Filling_Inv,
              Sending_Inv, PartsMeasured

LEMMA PrepareInv ==
  ASSUME IInv, NEW t \in Texts, NEW n \in BOOLEAN, Prepare(t, n)
  PROVE  IInv'
<1>1. text' = t /\ splits' = <<>> /\ idx' = 0 /\ pc' = "check" /\ udh' = FALSE
      /\ result' = "none" /\ counter' = counter /\ counter <= MaxCounter
  BY DEF Prepare
<1>2. TypeOK'
  <2>1. splits' \in Seq(Nat)
    BY <1>1
  <2>2. BufferFits'
    BY DEF IInv, TypeOK, Prepare, BufferFits
  <2>3. TypeOK
    BY DEF IInv
  <2> QED
    BY <2>1, <2>2, <2>3 DEF TypeOK, Prepare
<1>3. Len(t) \in Nat /\ Boundary(t, 0)
  BY TextFacts
<1>4. Cutting_Inv'
  <2>1. Len(splits') = 0
    BY <1>1
  <2>2. CutBefore(Len(splits) + 1)' = 0
    BY <2>1 DEF CutBefore
  <2>3. idx' <= Len(text') /\ Boundary(text', idx')
    BY <1>1, <1>3
  <2>4. (splits # <<>>)' = FALSE /\ msg16Bit' = FALSE
    BY <1>1 DEF Prepare
  <2> QED
    BY <1>1, <2>2, <2>3, <2>4 DEF Cutting_Inv, Boundary, Pieces!Boundary
<1> QED
  BY <1>1, <1>2, <1>4 DEF IInv, CutsInside, PartsFit, Filling_Inv, Sending_Inv,
                          PartsMeasured

\* The loop ends with the cuts it has made.
LEMMA PreparedInv ==
  ASSUME IInv, pc \in {"check", "fill"},
         NEW wide, Prepared(splits, wide), UNCHANGED <<idx, udh, dcs>>,
         numeric, wide <=> Alphabet = "16BIT", wide \in BOOLEAN,
         msg16Bit' \in BOOLEAN, pos' \in Nat, w' = w,
         Measured(CutBefore(Len(splits) + 1), Len(text), RestSize)
  PROVE  IInv'
<1>1. text' = text /\ numeric' = numeric /\ splits' = splits /\ pc' = "send"
      /\ result' = "none"
  BY DEF Prepared, request, IInv, Cutting_Inv
<1>2. counter \in 1 .. MaxCounter /\ MaxCounter \in Nat
  <2>1. counter \in 1 .. MaxCounter + 1
    BY DEF IInv, TypeOK
  <2>2. counter <= MaxCounter
    BY DEF IInv, Cutting_Inv
  <2> QED BY <2>1, <2>2, BoundFacts
<1>3. TypeOK'
  <2>1. BufferFits'
    BY DEF IInv, TypeOK, BufferFits
  <2> QED
    BY <1>1, <1>2, <2>1 DEF IInv, TypeOK, Prepared
<1>4. CutsInside' /\ PartsFit' /\ PartsMeasured'
  BY <1>1 DEF IInv, CutsInside, PartsFit, PartsMeasured, CutBefore, Measured,
              Alphabet
<1>5. Sending_Inv'
  <2>1. splits # <<>> => partnum' = 0 /\ force16' = wide
    BY DEF Prepared
  <2>2. splits # <<>> => 0 <= Len(splits)
    BY DEF IInv, TypeOK
  <2> QED
    BY <1>1, <2>1, <2>2 DEF Sending_Inv, CutBefore, Measured, Alphabet, RestSize
<1> QED
  BY <1>1, <1>3, <1>4, <1>5 DEF IInv, Cutting_Inv, Filling_Inv

LEMMA CheckInv ==
  ASSUME IInv, Check
  PROVE  IInv'
<1> DEFINE wide == ~Gsm(text, 0, Len(text))
<1>1. /\ pc = "check" /\ pos' = idx /\ w' = 0 /\ msg16Bit' = (msg16Bit \/ wide)
      /\ dcs' = IF wide THEN "16BIT" ELSE "7BIT"
  BY DEF Check
<1>2. /\ dcs' = Alphabet /\ dcs' \in Alphabets /\ Limit("7BIT") \in Nat
      /\ wide <=> Alphabet = "16BIT"
      /\ msg16Bit' <=> wide
  BY <1>1, AlphabetFact, RoomFacts
     DEF Alphabets, Pieces!Alphabets, IInv, TypeOK, Cutting_Inv
<1>3. TypeOK /\ Cutting_Inv /\ idx \in Nat /\ splits \in Seq(Nat)
  BY DEF IInv, TypeOK
<1>4. BufferFits'
  BY <1>1, <1>2 DEF BufferFits
<1>5. CASE numeric
  <2>1. pc' = "fill" /\ UNCHANGED <<request, outgoing, idx, udh, result>>
    BY <1>5 DEF Check
  <2>2. TypeOK'
    BY <1>1, <1>2, <1>3, <1>4, <2>1 DEF TypeOK, request, outgoing
  <2>3. CutsInside' /\ PartsFit' /\ PartsMeasured' /\ Sending_Inv'
    BY <2>1 DEF IInv, CutsInside, PartsFit, PartsMeasured, Sending_Inv, CutBefore,
                Measured, Alphabet, request, outgoing
  <2>4. Cutting_Inv'
    BY <1>1, <1>2, <1>3, <2>1 DEF Cutting_Inv, CutBefore, Measured, Alphabet,
                                  request, outgoing
  <2>5. Filling_Inv'
    <3>1. idx \in 0 .. Len(text) /\ Boundary(text, idx) /\ Len(text) \in Nat
      BY <1>1, <1>3, TextFacts DEF Cutting_Inv, TypeOK
    <3>2. Upto(Alphabet, text, idx) - Upto(Alphabet, text, idx) = 0
      BY <1>3, <3>1, AlphabetFact, UptoFacts DEF TypeOK
    <3>3. Room(Alphabet, UdhSize(Alphabet)) \in Nat
      BY <1>3, AlphabetFact, RoomFacts DEF TypeOK
    <3>4. Alphabet' = Alphabet
      BY <2>1 DEF Alphabet, request
    <3>5. UdhSize(Alphabet)' = UdhSize(Alphabet)
      BY <2>1, <3>4 DEF UdhSize
    <3>6. dcs' = Alphabet' /\ UdhSize(dcs)' = UdhSize(Alphabet)
      BY <1>2, <2>1, <3>4, <3>5 DEF UdhSize
    <3> QED
      BY <1>1, <1>2, <1>5, <2>1, <3>1, <3>2, <3>3, <3>4, <3>6 DEF Filling_Inv, request
  <2> QED BY <2>2, <2>3, <2>4, <2>5 DEF IInv
<1>6. CASE ~numeric
  <2>1. TooLong(idx, wide) /\ splits = <<>> /\ idx = 0
    BY <1>1, <1>3, <1>6 DEF Check, Cutting_Inv, CutBefore
  <2>2. CASE ~udh
    <3>1. /\ udh' = TRUE /\ pc' = "check"
          /\ UNCHANGED <<request, outgoing, idx, result>>
      BY <2>1, <2>2 DEF TooLong
    <3>2. TypeOK'
      BY <1>1, <1>2, <1>3, <1>4, <3>1 DEF TypeOK, request, outgoing
    <3>3. /\ CutsInside' /\ PartsFit' /\ PartsMeasured' /\ Sending_Inv'
          /\ Filling_Inv'
      BY <1>6, <3>1 DEF IInv, CutsInside, PartsFit, PartsMeasured, Sending_Inv,
                        Filling_Inv, request, outgoing
    <3>4. Cutting_Inv'
      BY <1>1, <1>2, <1>3, <1>6, <3>1 DEF Cutting_Inv, CutBefore, Alphabet,
                                          request, outgoing
    <3> QED BY <3>2, <3>3, <3>4 DEF IInv
  <2>3. CASE udh
    <3>1. Prepared(<<0>>, wide) /\ UNCHANGED <<idx, udh>>
      BY <2>1, <2>3 DEF TooLong
    <3>2. /\ pc' = "send" /\ splits' = <<0>> /\ UNCHANGED request
          /\ csms' = counter /\ counter' = counter + 1 /\ partnum' = 0
          /\ force16' = wide /\ result' = "none"
      BY <1>1, <1>3, <3>1 DEF Prepared, Cutting_Inv
    <3>3. TypeOK'
      <4>1. counter' \in 1 .. MaxCounter + 1 /\ csms' \in Nat
        <5>1. counter \in 1 .. MaxCounter + 1
          BY <1>3 DEF TypeOK
        <5>2. counter <= MaxCounter
          BY <1>1, <1>3 DEF Cutting_Inv
        <5> QED BY <3>2, <5>1, <5>2, BoundFacts
      <4>2. splits' \in Seq(Nat)
        BY <3>2
      <4>3. wide \in BOOLEAN
        BY DEF Gsm, Pieces!Gsm
      <4> QED BY <1>1, <1>2, <1>3, <1>4, <3>1, <3>2, <4>1, <4>2, <4>3
              DEF TypeOK, request
    <3>4. Sending_Inv'
      BY <1>6, <3>2 DEF Sending_Inv, request
    <3>5. CutsInside' /\ PartsFit' /\ PartsMeasured' /\ Cutting_Inv' /\ Filling_Inv'
      BY <1>6, <3>2 DEF CutsInside, PartsFit, PartsMeasured, Cutting_Inv, Filling_Inv,
                        request
    <3> QED BY <3>3, <3>4, <3>5 DEF IInv
  <2> QED BY <1>3, <2>2, <2>3 DEF TypeOK
<1> QED BY <1>3, <1>5, <1>6 DEF TypeOK

\* What is known of the next character when there is one.
LEMMA NextChar ==
  ASSUME IInv, pc = "fill", pos < Len(text)
  PROVE  /\ text \in Texts /\ dcs \in {"7BIT", "16BIT"} /\ udh \in BOOLEAN
         /\ idx \in Nat /\ Len(text) \in Nat
         /\ pos \in 0 .. Len(text) - 1 /\ pos \in idx .. Len(text)
         /\ text[pos + 1] \in Chars
         /\ Utf8(text[pos + 1]) \in Nat \ {0}
         /\ pos + Utf8(text[pos + 1]) \in 0 .. Len(text)
         /\ Boundary(text, pos + Utf8(text[pos + 1]))
         /\ Upto(dcs, text, pos + Utf8(text[pos + 1])) =
              Upto(dcs, text, pos) + Units(dcs, text[pos + 1])
         /\ Upto(dcs, text, pos) \in Nat /\ Upto(dcs, text, idx) \in Nat
         /\ Units(dcs, text[pos + 1]) \in Nat
         /\ Units(dcs, text[pos + 1]) <= Room(dcs, Header(dcs))
         /\ dcs = "7BIT" => Units(dcs, text[pos + 1]) <= 2
         /\ Room(dcs, UdhSize(dcs)) \in Nat /\ Room(dcs, UdhSize(dcs)) <= Limit(dcs)
         /\ Limit(dcs) \in Nat
<1>1. text \in Texts /\ dcs \in {"7BIT", "16BIT"} /\ udh \in BOOLEAN /\ idx \in Nat
      /\ pos \in Nat
  BY DEF IInv, TypeOK, Alphabets, Pieces!Alphabets
<1>2. pos \in idx .. Len(text) /\ Boundary(text, pos)
  BY DEF IInv, Filling_Inv
<1>3. Len(text) \in Nat
  BY <1>1, TextFacts
<1>4. pos \in 0 .. Len(text) - 1 /\ pos \in 0 .. Len(text) /\ idx \in 0 .. Len(text)
  BY <1>1, <1>2, <1>3
<1>5. /\ text[pos + 1] \in Chars
      /\ Utf8(text[pos + 1]) \in Nat \ {0}
      /\ pos + Utf8(text[pos + 1]) \in 0 .. Len(text)
      /\ Boundary(text, pos + Utf8(text[pos + 1]))
  BY <1>1, <1>2, <1>4, TextFacts
<1>6. /\ Upto(dcs, text, pos + Utf8(text[pos + 1])) =
           Upto(dcs, text, pos) + Units(dcs, text[pos + 1])
      /\ Upto(dcs, text, pos) \in Nat /\ Upto(dcs, text, idx) \in Nat
  BY <1>1, <1>4, <1>5, UptoFacts
<1>7. /\ Units(dcs, text[pos + 1]) \in Nat
      /\ Units(dcs, text[pos + 1]) <= Room(dcs, Header(dcs))
      /\ dcs = "7BIT" => Units(dcs, text[pos + 1]) <= 2
      /\ Room(dcs, UdhSize(dcs)) \in Nat /\ Room(dcs, UdhSize(dcs)) <= Limit(dcs)
      /\ Limit(dcs) \in Nat
  BY <1>1, <1>5, RoomFacts
<1> QED BY <1>1, <1>2, <1>3, <1>4, <1>5, <1>6, <1>7

LEMMA TakeCharInv ==
  ASSUME IInv, TakeChar
  PROVE  IInv'
<1> DEFINE c == text[pos + 1]
<1>1. /\ pc = "fill" /\ pos < Len(text)
      /\ ~(w + Units(dcs, c) > Room(dcs, UdhSize(dcs)))
      /\ w' = w + Units(dcs, c) /\ pos' = pos + Utf8(c)
      /\ UNCHANGED <<request, pc, outgoing, idx, msg16Bit, udh, dcs, result>>
  BY DEF TakeChar, Overruns
<1>2. TypeOK /\ Filling_Inv /\ w \in Nat
  BY DEF IInv, TypeOK
<1> HIDE DEF c
<1>3. /\ Room(dcs, UdhSize(dcs)) \in Nat /\ Room(dcs, UdhSize(dcs)) <= Limit(dcs)
      /\ Limit(dcs) \in Nat /\ Units(dcs, c) \in Nat
      /\ Units(dcs, c) <= Room(dcs, Header(dcs))
      /\ dcs = "7BIT" => Units(dcs, c) <= 2
      /\ idx \in Nat /\ pos \in Nat /\ pos >= idx /\ Len(text) \in Nat
      /\ Utf8(c) \in Nat /\ pos + Utf8(c) \in 0 .. Len(text)
      /\ Upto(dcs, text, pos) \in Nat /\ Upto(dcs, text, idx) \in Nat
      /\ Upto(dcs, text, pos + Utf8(c)) = Upto(dcs, text, pos) + Units(dcs, c)
      /\ Boundary(text, pos + Utf8(c))
  BY <1>1, <1>2, NextChar DEF c
<1>4. w' \in Nat /\ pos' \in Nat /\ w' <= Room(dcs, UdhSize(dcs)) /\ w' <= Limit(dcs)
  BY <1>1, <1>2, <1>3
<1>5. BufferFits'
  BY <1>1, <1>3, <1>4 DEF BufferFits
<1>6. TypeOK'
  BY <1>1, <1>2, <1>4, <1>5 DEF TypeOK, request, outgoing
<1>7. /\ CutsInside' /\ PartsFit' /\ PartsMeasured' /\ Sending_Inv' /\ Cutting_Inv'
  BY <1>1 DEF IInv, CutsInside, PartsFit, PartsMeasured, Sending_Inv, Cutting_Inv,
              CutBefore, Measured, Alphabet, request, outgoing
<1>8. Filling_Inv'
  <2>1. w = Upto(dcs, text, pos) - Upto(dcs, text, idx)
    BY <1>1, <1>2 DEF Filling_Inv
  <2>2. pos' \in idx .. Len(text) /\ Boundary(text, pos')
    BY <1>1, <1>3
  <2>3. w' = Upto(dcs, text, pos') - Upto(dcs, text, idx)
    BY <1>1, <1>3, <2>1
  <2> QED
    BY <1>1, <1>2, <1>4, <2>2, <2>3 DEF Filling_Inv, Alphabet, UdhSize, request
<1> QED BY <1>6, <1>7, <1>8 DEF IInv

LEMMA OverrunInv ==
  ASSUME IInv, Overrun
  PROVE  IInv'
<1> DEFINE c == text[pos + 1]
<1>1. /\ pc = "fill" /\ pos < Len(text)
      /\ w + Units(dcs, c) > Room(dcs, UdhSize(dcs))
      /\ w' = IF dcs = "7BIT" THEN w + Units(dcs, c) ELSE w
      /\ TooLong(pos, msg16Bit)
      /\ UNCHANGED <<msg16Bit, dcs, pos>>
  BY DEF Overrun, Overruns
<1>2. /\ TypeOK /\ Filling_Inv /\ Cutting_Inv /\ w \in Nat /\ numeric
      /\ dcs = Alphabet /\ splits \in Seq(Nat) /\ Len(splits) \in Nat
      /\ w = Upto(dcs, text, pos) - Upto(dcs, text, idx)
      /\ w <= Room(dcs, UdhSize(dcs)) /\ Boundary(text, pos)
      /\ msg16Bit => Alphabet = "16BIT"
  BY <1>1 DEF IInv, TypeOK, Filling_Inv
<1> HIDE DEF c
<1>3. /\ Room(dcs, UdhSize(dcs)) \in Nat /\ Room(dcs, UdhSize(dcs)) <= Limit(dcs)
      /\ Limit(dcs) \in Nat /\ Units(dcs, c) \in Nat
      /\ Units(dcs, c) <= Room(dcs, Header(dcs))
      /\ dcs = "7BIT" => Units(dcs, c) <= 2
      /\ idx \in Nat /\ pos \in Nat /\ pos >= idx /\ Len(text) \in Nat
      /\ Utf8(c) \in Nat /\ pos + Utf8(c) \in 0 .. Len(text)
      /\ Upto(dcs, text, pos) \in Nat /\ Upto(dcs, text, idx) \in Nat
      /\ Upto(dcs, text, pos + Utf8(c)) = Upto(dcs, text, pos) + Units(dcs, c)
      /\ Boundary(text, pos + Utf8(c))
  BY <1>1, <1>2, NextChar DEF c
<1>4. w' \in Nat /\ BufferFits'
  <2>1. CASE dcs = "7BIT"
    BY <1>1, <1>2, <1>3, <2>1, SMTT(30) DEF BufferFits
  <2>2. CASE dcs # "7BIT"
    BY <1>1, <1>2, <1>3, <2>2 DEF BufferFits
  <2> QED BY <2>1, <2>2
<1>5. CASE ~udh
  <2>1. /\ udh' = TRUE /\ pc' = "check"
        /\ UNCHANGED <<request, outgoing, idx, result>>
    BY <1>1, <1>5 DEF TooLong
  <2>2. TypeOK'
    BY <1>1, <1>2, <1>4, <2>1 DEF TypeOK, request, outgoing
  <2>3. /\ CutsInside' /\ PartsFit' /\ PartsMeasured' /\ Sending_Inv'
        /\ Filling_Inv'
    BY <2>1 DEF IInv, CutsInside, PartsFit, PartsMeasured, Sending_Inv,
                Filling_Inv, CutBefore, Measured, Alphabet, request, outgoing
  <2>4. idx = 0
    BY <1>1, <1>2, <1>5 DEF Cutting_Inv, CutBefore
  <2>5. ~Measured(0, Len(text), 0)
    <3>1. Upto(dcs, text, pos + Utf8(c)) - Upto(dcs, text, 0) > Room(dcs, 0)
      <4>1. UdhSize(dcs) = 0
        BY <1>5 DEF UdhSize
      <4> QED BY <1>1, <1>2, <1>3, <2>4, <4>1
    <3>2. /\ Upto(dcs, text, pos + Utf8(c)) <= Upto(dcs, text, Len(text))
          /\ Upto(dcs, text, pos + Utf8(c)) \in Nat
          /\ Upto(dcs, text, Len(text)) \in Nat /\ Upto(dcs, text, 0) \in Nat
      <4>1. /\ pos + Utf8(c) \in 0 .. Len(text) /\ Len(text) \in 0 .. Len(text)
            /\ 0 \in 0 .. Len(text) /\ pos + Utf8(c) <= Len(text)
            /\ text \in Texts /\ dcs \in {"7BIT", "16BIT"}
        BY <1>1, NextChar DEF c
      <4> QED BY <4>1, UptoFacts
    <3>3. Room(dcs, 0) \in Nat
      BY <1>2, AlphabetFact, RoomFacts
    <3>4. Upto(dcs, text, Len(text)) - Upto(dcs, text, 0) > Room(dcs, 0)
      BY <3>1, <3>2, <3>3
    <3>5. ~(Upto(dcs, text, Len(text)) - Upto(dcs, text, 0) <= Room(dcs, 0))
      BY <3>2, <3>3, <3>4
    <3> QED BY <1>2, <3>5 DEF Measured
  <2>6. Cutting_Inv'
    BY <1>1, <1>2, <2>1, <2>5 DEF Cutting_Inv, CutBefore, Measured, Alphabet,
                                  request, outgoing
  <2> QED BY <2>2, <2>3, <2>6 DEF IInv
<1>6. CASE udh
  <2>1. pos # idx /\ pos > idx
    <3>1. ASSUME pos = idx PROVE FALSE
      <4>1. w = 0 /\ UdhSize(dcs) = Header(dcs)
        <5>1. UdhSize(dcs) = Header(dcs)
          BY <1>6 DEF UdhSize
        <5> QED BY <1>2, <1>3, <3>1, <5>1
      <4> QED BY <1>1, <1>3, <4>1
    <3> QED BY <1>3, <3>1
  <2>2. /\ splits' = Append(splits, pos) /\ idx' = pos /\ pc' = "check"
        /\ UNCHANGED <<request, partnum, csms, counter, force16, udh, result>>
    BY <1>1, <1>6, <2>1 DEF TooLong
  <2>3. /\ Len(splits') = Len(splits) + 1
        /\ splits'[Len(splits) + 1] = pos
        /\ \A i \in 1 .. Len(splits) : splits'[i] = splits[i]
        /\ splits' # <<>> /\ splits' \in Seq(Nat)
    <3>1. splits \in Seq(Nat) /\ pos \in Nat /\ splits' = Append(splits, pos)
      BY <1>2, <1>3, <2>2
    <3> QED BY <3>1
  <2>4. TypeOK'
    BY <1>1, <1>2, <1>3, <1>4, <2>2, <2>3 DEF TypeOK, request
  <2>5. idx = CutBefore(Len(splits) + 1)
    BY <1>1, <1>2 DEF Cutting_Inv
  <2>6. CutsInside'
    <3> SUFFICES ASSUME NEW i \in 1 .. Len(splits')
                 PROVE  /\ splits'[i] \in 1 .. Len(text) - 1
                        /\ Boundary(text, splits'[i])
                        /\ i > 1 => splits'[i - 1] < splits'[i]
      BY <2>2 DEF CutsInside, request, Boundary, Pieces!Boundary
    <3>1. CASE i = Len(splits) + 1
      <4>1. splits'[i] = pos
        BY <2>3, <3>1
      <4>2. pos \in 1 .. Len(text) - 1 /\ Boundary(text, pos)
        BY <1>1, <1>2, <2>1, NextChar, SMTT(30)
      <4>3. i > 1 => splits'[i - 1] = idx
        BY <1>2, <2>3, <2>5, <3>1 DEF CutBefore
      <4> QED BY <1>1, <2>1, <4>1, <4>2, <4>3
    <3>2. CASE i # Len(splits) + 1
      <4>1. i \in 1 .. Len(splits) /\ (i > 1 => i - 1 \in 1 .. Len(splits))
        BY <1>2, <2>3, <3>2
      <4>2. splits'[i] = splits[i] /\ (i > 1 => splits'[i - 1] = splits[i - 1])
        BY <2>3, <4>1
      <4> QED BY <1>2, <4>1, <4>2 DEF IInv, CutsInside
    <3> QED BY <3>1, <3>2
  <2>7. PartsMeasured'
    <3> SUFFICES ASSUME NEW i \in 1 .. Len(splits')
                 PROVE  Measured(CutBefore(i), splits[i], Header(Alphabet))'
      BY DEF PartsMeasured
    <3>1. text' = text /\ Alphabet' = Alphabet
      BY <2>2 DEF request, Alphabet
    <3>2. CASE i = Len(splits) + 1
      <4>1. splits'[i] = pos /\ CutBefore(i)' = idx
        BY <1>2, <2>3, <2>5, <3>2 DEF CutBefore
      <4>2. Upto(dcs, text, pos) - Upto(dcs, text, idx) <= Room(dcs, Header(dcs))
        BY <1>2, <1>6 DEF UdhSize
      <4> QED BY <1>2, <3>1, <4>1, <4>2 DEF Measured
    <3>3. CASE i # Len(splits) + 1
      <4>1. i \in 1 .. Len(splits) /\ (i # 1 => i - 1 \in 1 .. Len(splits))
        BY <1>2, <2>3, <3>3
      <4>2. splits'[i] = splits[i] /\ CutBefore(i)' = CutBefore(i)
        BY <2>3, <4>1 DEF CutBefore
      <4> QED BY <1>2, <3>1, <4>1, <4>2 DEF IInv, PartsMeasured, Measured
    <3> QED BY <3>2, <3>3
  <2>8. Cutting_Inv'
    <3>1. CutBefore(Len(splits) + 1)' = pos
      BY <1>2, <2>3 DEF CutBefore
    <3>2. idx' <= Len(text') /\ Boundary(text', idx')
      BY <1>1, <1>2, <2>2, NextChar DEF request, Boundary, Pieces!Boundary
    <3> QED
      BY <1>1, <1>2, <1>6, <2>2, <3>1, <3>2
         DEF Cutting_Inv, Measured, Alphabet, request
  <2>9. PartsFit' /\ Sending_Inv' /\ Filling_Inv'
    BY <1>1, <1>2, <2>2 DEF IInv, PartsFit, Cutting_Inv, Sending_Inv, Filling_Inv
  <2> QED BY <2>4, <2>6, <2>7, <2>8, <2>9 DEF IInv
<1> QED BY <1>2, <1>5, <1>6 DEF TypeOK

LEMMA RestFitsInv ==
  ASSUME IInv, RestFits
  PROVE  IInv'
<1>1. pc = "fill" /\ pos = Len(text) /\ Prepared(splits, msg16Bit) /\ UNCHANGED scan
  BY DEF RestFits
<1>2. /\ numeric /\ dcs = Alphabet /\ (msg16Bit <=> dcs = "16BIT")
      /\ w = Upto(dcs, text, pos) - Upto(dcs, text, idx)
      /\ w <= Room(dcs, UdhSize(dcs))
      /\ idx = CutBefore(Len(splits) + 1) /\ idx <= Len(text)
      /\ splits # <<>> => udh
      /\ text \in Texts /\ idx \in Nat /\ pos \in Nat /\ w \in Nat
      /\ msg16Bit \in BOOLEAN
  BY <1>1 DEF IInv, TypeOK, Filling_Inv, Cutting_Inv
<1>3. Measured(CutBefore(Len(splits) + 1), Len(text), RestSize)
  <2>1. /\ Room(dcs, UdhSize(dcs)) \in Nat /\ Room(dcs, 0) \in Nat
        /\ Room(dcs, Header(dcs)) \in Nat
        /\ Room(dcs, UdhSize(dcs)) <= Room(dcs, 0)
    BY <1>2, AlphabetFact, RoomFacts
  <2>2. CASE splits = <<>>
    <3>1. w <= Room(dcs, 0)
      BY <1>2, <2>1
    <3> QED BY <1>1, <1>2, <2>2, <3>1 DEF Measured, RestSize
  <2>3. CASE splits # <<>>
    <3>1. UdhSize(dcs) = Header(dcs)
      BY <1>2, <2>3 DEF UdhSize
    <3> QED BY <1>1, <1>2, <2>3, <3>1 DEF Measured, RestSize
  <2> QED BY <2>2, <2>3
<1>4. UNCHANGED <<idx, udh, dcs>> /\ msg16Bit' \in BOOLEAN /\ pos' \in Nat /\ w' = w
  BY <1>1, <1>2 DEF scan
<1>5. msg16Bit <=> Alphabet = "16BIT"
  BY <1>2
<1> QED BY <1>1, <1>2, <1>3, <1>4, <1>5, PreparedInv

LEMMA ModSmall ==
  ASSUME NEW m \in Nat \ {0}, NEW x \in 0 .. m - 1
  PROVE  x % m = x
OBVIOUS

LEMMA SendWholeInv ==
  ASSUME IInv, SendWhole
  PROVE  IInv'
<1>1. /\ pc = "send" /\ splits = <<>> /\ pc' = "idle"
      /\ result' = Encoded(0, Len(text), 0, 0, 0, FALSE)
      /\ UNCHANGED <<request, outgoing, scan>>
  BY DEF SendWhole
<1>2. numeric /\ Measured(0, Len(text), 0)
  BY <1>1 DEF IInv, TypeOK, Sending_Inv, CutBefore, RestSize
<1>3. result' = "encoded"
  <2>1. 0 % CsmsMod = 0 /\ 0 % CharMod = 0
    BY BoundFacts
  <2>2. Alphabet = IF FALSE \/ ~Gsm(text, 0, Len(text)) THEN "16BIT" ELSE "7BIT"
    BY AlphabetFact
  <2> DEFINE h == IF 0 % CsmsMod = 0 THEN 0 ELSE Header(Alphabet)
  <2>3. h = 0
    BY <2>1
  <2>4. Upto(Alphabet, text, Len(text)) - Upto(Alphabet, text, 0) <= Room(Alphabet, h)
    BY <1>2, <2>3 DEF Measured
  <2> HIDE DEF h
  <2> DEFINE bad == /\ ~(0 % CsmsMod = 0 /\ 0 % CharMod = 0 /\ 0 % CharMod = 0)
                    /\ \/ 0 % CsmsMod = 0 \/ 0 % CharMod = 0 \/ 0 % CharMod = 0
                       \/ 0 % CharMod > 0 % CharMod
  <2>5. result' = IF bad THEN "MULTIPART_NUMBERS"
                  ELSE IF ~numeric THEN "ADDRESS_FORMAT"
                  ELSE IF Pieces!Fits(text, Alphabet, 0, Len(text), h)
                       THEN "encoded" ELSE "TOO_LONG"
    BY <1>1, <2>2, Zenon DEF Encoded, h
  <2>6. Pieces!Fits(text, Alphabet, 0, Len(text), h)
    BY <2>4, Zenon DEF Pieces!Fits, Room
  <2>7. ~bad
    BY <2>1
  <2> QED BY <1>2, <2>5, <2>6, <2>7
<1>4. TypeOK'
  <2>1. TypeOK /\ BufferFits'
    BY <1>1 DEF IInv, TypeOK, BufferFits, scan
  <2> QED BY <1>1, <1>3, <2>1 DEF TypeOK, request, outgoing, scan
<1> QED
  BY <1>1, <1>3, <1>4 DEF IInv, CutsInside, PartsFit, PartsMeasured, Cutting_Inv,
        Filling_Inv, Sending_Inv, CutBefore, Measured, Alphabet, request, outgoing

\* The next part can be encoded, unless one of the numbers of its header is cut
\* off or the recipient is no number.
LEMMA PartEncodes ==
  ASSUME IInv, pc = "send", splits # <<>>,
         NEW r, r = Encoded(PartBegin, PartEnd, csms, Len(splits) + 1, partnum + 1,
                            force16)
  PROVE  /\ r \in {"encoded", "MULTIPART_NUMBERS", "ADDRESS_FORMAT"}
         /\ r = "ADDRESS_FORMAT" => ~numeric
         /\ r = "MULTIPART_NUMBERS" => \/ csms % CsmsMod = 0
                                       \/ Len(splits) + 1 >= CharMod
<1>1. /\ partnum \in Nat /\ partnum <= Len(splits) /\ Len(splits) \in Nat
      /\ splits \in Seq(Nat) /\ text \in Texts
  BY DEF IInv, TypeOK, Sending_Inv
<1> DEFINE a == IF force16 \/ ~Gsm(text, PartBegin, PartEnd) THEN "16BIT" ELSE "7BIT"
           h == IF csms % CsmsMod = 0 THEN 0 ELSE Header(a)
<1>2. numeric => Upto(a, text, PartEnd) - Upto(a, text, PartBegin) <= Room(a, h)
  <2> SUFFICES ASSUME numeric
               PROVE  Upto(a, text, PartEnd) - Upto(a, text, PartBegin) <= Room(a, h)
    OBVIOUS
  <2>1. Len(text) \in Nat
    BY <1>1, TextFacts
  <2>2. PartBegin = CutBefore(partnum + 1)
    BY <1>1 DEF PartBegin, CutBefore
  <2>3. /\ PartBegin \in 0 .. Len(text) /\ PartEnd \in 0 .. Len(text)
    <3>1. \A i \in 1 .. Len(splits) : splits[i] \in 0 .. Len(text)
      BY <2>1 DEF IInv, CutsInside
    <3>2. partnum # 0 => partnum \in 1 .. Len(splits)
      BY <1>1
    <3>3. ~(partnum >= Len(splits)) => partnum + 1 \in 1 .. Len(splits)
      BY <1>1
    <3> QED BY <2>1, <3>1, <3>2, <3>3 DEF PartBegin, PartEnd
  <2>4. Measured(PartBegin, PartEnd, Header(Alphabet))
    <3>1. CASE partnum >= Len(splits)
      <4>1. partnum = Len(splits) /\ PartEnd = Len(text)
        BY <1>1, <3>1 DEF PartEnd
      <4>2. Measured(CutBefore(Len(splits) + 1), Len(text), Header(Alphabet))
        BY DEF IInv, Sending_Inv, RestSize
      <4> QED BY <2>2, <4>1, <4>2
    <3>2. CASE ~(partnum >= Len(splits))
      <4>1. partnum + 1 \in 1 .. Len(splits) /\ PartEnd = splits[partnum + 1]
        BY <1>1, <3>2 DEF PartEnd
      <4> QED BY <2>2, <4>1 DEF IInv, PartsMeasured
    <3> QED BY <3>1, <3>2
  <2>5. a = Alphabet
    <3>1. force16 <=> Alphabet = "16BIT"
      BY DEF IInv, Sending_Inv
    <3>2. CASE force16
      BY <3>1, <3>2
    <3>3. CASE ~force16
      <4>1. Alphabet = "7BIT" /\ Gsm(text, 0, Len(text))
        BY <3>1, <3>3, AlphabetFact
      <4>2. Gsm(text, PartBegin, PartEnd)
        BY <2>1, <2>3, <4>1 DEF Gsm, Pieces!Gsm
      <4> QED BY <3>3, <4>1, <4>2
    <3> QED BY <3>2, <3>3
  <2>6. /\ Room(a, Header(a)) \in Nat /\ Room(a, 0) \in Nat
        /\ Room(a, Header(a)) <= Room(a, 0)
    BY <2>5, AlphabetFact, RoomFacts
  <2>7. Upto(a, text, PartEnd) \in Nat /\ Upto(a, text, PartBegin) \in Nat
    BY <1>1, <2>3, <2>5, AlphabetFact, UptoFacts
  <2>8. Upto(a, text, PartEnd) - Upto(a, text, PartBegin) <= Room(a, Header(a))
    BY <2>4, <2>5 DEF Measured
  <2> HIDE DEF a
  <2>9. Upto(a, text, PartEnd) - Upto(a, text, PartBegin) <= Room(a, 0)
    BY <2>6, <2>7, <2>8
  <2> QED BY <2>8, <2>9
<1> HIDE DEF a, h
<1> DEFINE n == (Len(splits) + 1) % CharMod
           k == (partnum + 1) % CharMod
           bad == /\ ~(csms % CsmsMod = 0 /\ n = 0 /\ k = 0)
                  /\ csms % CsmsMod = 0 \/ n = 0 \/ k = 0 \/ k > n
<1>3. r = IF bad THEN "MULTIPART_NUMBERS"
          ELSE IF ~numeric THEN "ADDRESS_FORMAT"
          ELSE IF Pieces!Fits(text, a, PartBegin, PartEnd, h)
               THEN "encoded" ELSE "TOO_LONG"
  BY Zenon DEF Encoded, a, h
<1>4. numeric => Pieces!Fits(text, a, PartBegin, PartEnd, h)
  BY <1>2, Zenon DEF Pieces!Fits, Room
<1>5. bad => csms % CsmsMod = 0 \/ Len(splits) + 1 >= CharMod
  <2> SUFFICES ASSUME Len(splits) + 1 < CharMod, csms % CsmsMod # 0, bad
               PROVE  FALSE
    BY <1>1, BoundFacts
  <2>1. n = Len(splits) + 1
    <3>1. Len(splits) + 1 \in 0 .. CharMod - 1
      BY <1>1, BoundFacts
    <3> QED BY <3>1, BoundFacts, ModSmall
  <2>2. k = partnum + 1
    <3>1. partnum + 1 \in 0 .. CharMod - 1
      BY <1>1, BoundFacts
    <3> QED BY <3>1, BoundFacts, ModSmall
  <2> HIDE DEF n, k
  <2> QED BY <1>1, <2>1, <2>2
<1> HIDE DEF bad
<1> QED BY <1>3, <1>4, <1>5

LEMMA SendPartInv ==
  ASSUME IInv, SendPart
  PROVE  IInv'
<1>1. /\ pc = "send" /\ splits # <<>> /\ partnum' = partnum + 1
      /\ result' = Encoded(PartBegin, PartEnd, csms, Len(splits) + 1, partnum + 1,
                           force16)
      /\ pc' = IF result' = "encoded" /\ partnum < Len(splits) THEN "send" ELSE "idle"
      /\ UNCHANGED <<request, splits, csms, counter, force16, scan>>
  BY DEF SendPart
<1>2. /\ result' \in {"encoded", "MULTIPART_NUMBERS", "ADDRESS_FORMAT"}
      /\ result' = "ADDRESS_FORMAT" => ~numeric
      /\ result' = "MULTIPART_NUMBERS" => \/ csms % CsmsMod = 0
                                          \/ Len(splits) + 1 >= CharMod
  BY <1>1, PartEncodes
<1>3. TypeOK'
  <2>1. TypeOK /\ BufferFits' /\ partnum' \in Nat
    BY <1>1 DEF IInv, TypeOK, BufferFits, scan
  <2> QED BY <1>1, <1>2, <2>1 DEF TypeOK, request, scan
<1>4. CutsInside' /\ PartsMeasured' /\ Cutting_Inv' /\ Filling_Inv'
  BY <1>1 DEF IInv, CutsInside, PartsMeasured, Cutting_Inv, Filling_Inv, CutBefore,
              Measured, Alphabet, request
<1>5. PartsFit'
  BY <1>1, <1>2 DEF PartsFit, request
<1>6. Sending_Inv'
  <2>1. partnum \in Nat /\ Len(splits) \in Nat
    BY DEF IInv, TypeOK
  <2>2. pc' = "send" => partnum' <= Len(splits')
    BY <1>1, <2>1
  <2> QED
    BY <1>1, <1>2, <2>2 DEF IInv, Sending_Inv, CutBefore, Measured, Alphabet, RestSize,
                            request
<1> QED BY <1>3, <1>4, <1>5, <1>6 DEF IInv

LEMMA StutterInv ==
  ASSUME IInv, GiveUp \/ UNCHANGED vars
  PROVE  IInv'
<1>1. /\ UNCHANGED <<request, outgoing, scan, result>>
      /\ pc' = pc \/ pc' = "idle"
  BY DEF GiveUp, vars
<1>2. TypeOK'
  <2>1. TypeOK /\ BufferFits'
    BY <1>1 DEF IInv, TypeOK, BufferFits, scan
  <2> QED BY <1>1, <2>1 DEF TypeOK, request, outgoing, scan
<1>3. CutsInside' /\ PartsFit' /\ PartsMeasured'
  BY <1>1 DEF IInv, CutsInside, PartsFit, PartsMeasured, CutBefore, Measured, Alphabet,
              request, outgoing
<1>4. Cutting_Inv' /\ Filling_Inv' /\ Sending_Inv'
  BY <1>1 DEF IInv, Cutting_Inv, Filling_Inv, Sending_Inv, CutBefore, Measured, Alphabet,
              RestSize, UdhSize, request, outgoing, scan
<1> QED BY <1>2, <1>3, <1>4 DEF IInv

LEMMA Inductive == IInv /\ [Next]_vars => IInv'
<1> SUFFICES ASSUME IInv, [Next]_vars PROVE IInv'
  OBVIOUS
<1>1. CASE Check             BY <1>1, CheckInv
<1>2. CASE TakeChar          BY <1>2, TakeCharInv
<1>3. CASE Overrun           BY <1>3, OverrunInv
<1>4. CASE RestFits          BY <1>4, RestFitsInv
<1>5. CASE SendWhole         BY <1>5, SendWholeInv
<1>6. CASE SendPart          BY <1>6, SendPartInv
<1>7. CASE GiveUp \/ UNCHANGED vars
  BY <1>7, StutterInv
<1>8. ASSUME NEW t \in Texts, NEW n \in BOOLEAN, Prepare(t, n) PROVE IInv'
  BY <1>8, PrepareInv
<1> QED
  BY <1>1, <1>2, <1>3, <1>4, <1>5, <1>6, <1>7, <1>8 DEF Next, Work

LEMMA Invariant == Spec => []IInv
<1> QED BY InitInv, Inductive, PTL DEF Spec

-----------------------------------------------------------------------------

\* Every variable has its type, and no text overruns gsm7bit.
THEOREM TypeCorrect == Spec => []TypeOK
<1>1. IInv => TypeOK  BY DEF IInv
<1> QED BY <1>1, Invariant, PTL

\* The cuts of every text lie inside it, in order, and split no character.
THEOREM CutsInText == Spec => []CutsInside
<1>1. IInv => CutsInside  BY DEF IInv
<1> QED BY <1>1, Invariant, PTL

\* The two passes agree: no part is too long to be encoded.
THEOREM MeasuredPartsFit == Spec => []PartsFit
<1>1. IInv => PartsFit  BY DEF IInv
<1> QED BY <1>1, Invariant, PTL

-----------------------------------------------------------------------------
(* Every step is a step of the abstract specification or none. *)

LEMMA StageValues ==
  /\ pc \in {"check", "fill"} => Stage = "cutting"
  /\ pc = "send" => Stage = IF splits = <<0>> THEN "refused" ELSE "cut"
  /\ pc = "idle" => Stage = "idle"
BY DEF Stage

LEMMA CheckRefines ==
  ASSUME IInv, Check
  PROVE  [Pieces!AbsNext]_Pieces!absvars
<1>1. pc = "check" /\ Stage = "cutting" /\ TypeOK /\ Cutting_Inv
  BY StageValues DEF Check, IInv
<1>2. CASE pc' \in {"check", "fill"} /\ UNCHANGED <<request, outgoing>>
  <2>1. Stage' = "cutting"
    BY <1>2 DEF Stage
  <2> QED BY <1>1, <1>2, <2>1 DEF Pieces!absvars, request, outgoing
<1>3. CASE ~(pc' \in {"check", "fill"} /\ UNCHANGED <<request, outgoing>>)
  <2>1. ~numeric
    BY <1>3 DEF Check
  <2>2. splits = <<>> /\ idx = 0
    BY <1>1, <2>1 DEF Cutting_Inv, CutBefore
  <2>3. Prepared(<<0>>, ~Gsm(text, 0, Len(text)))
    BY <1>1, <1>3, <2>1, <2>2 DEF Check, TooLong, TypeOK
  <2>4. pc' = "send" /\ splits' = <<0>> /\ text' = text
    BY <2>3 DEF Prepared, request
  <2>5. Stage' = "refused"
    BY <2>4 DEF Stage
  <2> QED BY <1>1, <2>2, <2>4, <2>5 DEF Pieces!AbsNext, Pieces!Refuse
<1> QED BY <1>2, <1>3

LEMMA OverrunRefines ==
  ASSUME IInv, Overrun
  PROVE  [Pieces!AbsNext]_Pieces!absvars
<1> DEFINE c == text[pos + 1]
<1>1. /\ pc = "fill" /\ pos < Len(text) /\ Stage = "cutting"
      /\ w + Units(dcs, c) > Room(dcs, UdhSize(dcs))
      /\ TooLong(pos, msg16Bit)
  BY StageValues DEF Overrun, Overruns
<1>2. /\ TypeOK /\ w \in Nat /\ numeric /\ dcs = Alphabet /\ dcs = Pieces!AlphabetOf(text)
      /\ w = Upto(dcs, text, pos) - Upto(dcs, text, idx)
      /\ w <= Room(dcs, UdhSize(dcs)) /\ Boundary(text, pos)
      /\ idx = CutBefore(Len(splits) + 1) /\ splits \in Seq(Nat)
      /\ Len(splits) \in Nat
      /\ udh => ~Measured(0, Len(text), 0)
  BY <1>1 DEF IInv, TypeOK, Filling_Inv, Cutting_Inv, Alphabet
<1> HIDE DEF c
<1>3. /\ Room(dcs, UdhSize(dcs)) \in Nat
      /\ Units(dcs, c) \in Nat
      /\ Units(dcs, c) <= Room(dcs, Header(dcs))
      /\ idx \in Nat /\ pos \in Nat /\ pos >= idx /\ Len(text) \in Nat
      /\ Upto(dcs, text, pos) \in Nat /\ Upto(dcs, text, idx) \in Nat
      /\ Upto(dcs, text, pos + Utf8(c)) = Upto(dcs, text, pos) + Units(dcs, c)
  BY <1>1, <1>2, NextChar DEF c
<1>4. CASE ~udh
  <2>1. pc' = "check" /\ UNCHANGED <<request, outgoing>>
    BY <1>1, <1>4 DEF TooLong
  <2>2. Stage' = "cutting"
    BY <2>1 DEF Stage
  <2> QED BY <1>1, <2>1, <2>2 DEF Pieces!absvars, request, outgoing
<1>5. CASE udh
  <2>1. UdhSize(dcs) = Header(dcs)
    BY <1>5 DEF UdhSize
  <2>2. pos # idx
    <3>1. ASSUME pos = idx PROVE FALSE
      <4>1. w = 0
        BY <1>2, <1>3, <3>1
      <4> QED BY <1>1, <1>3, <2>1, <4>1
    <3> QED BY <3>1
  <2>3. splits' = Append(splits, pos) /\ pc' = "check" /\ text' = text
    BY <1>1, <1>5, <2>2 DEF TooLong, request
  <2>4. Stage' = "cutting"
    BY <2>3 DEF Stage
  <2>5. Pieces!LastCut = idx
    BY <1>2 DEF Pieces!LastCut, CutBefore
  <2>6. pos \in Pieces!LastCut + 1 .. Len(text) - 1
    BY <1>1, <1>3, <2>2, <2>5
  <2>7. Pieces!Boundary(text, pos)
    BY <1>2 DEF Boundary
  <2>8. Pieces!Fits(text, dcs, Pieces!LastCut, pos, Header(dcs))
    BY <1>2, <2>1, <2>5 DEF Pieces!Fits, Room
  <2>9. ~Pieces!Fits(text, dcs, Pieces!LastCut, pos + Utf8(text[pos + 1]), Header(dcs))
    <3>1. ~(Upto(dcs, text, pos + Utf8(c)) - Upto(dcs, text, idx) <= Room(dcs, Header(dcs)))
      BY <1>1, <1>2, <1>3, <2>1
    <3> QED BY <2>5, <3>1 DEF Pieces!Fits, Room, c
  <2>10. ~Pieces!Fits(text, dcs, 0, Len(text), 0)
    BY <1>2, <1>5 DEF Pieces!Fits, Room, Measured
  <2>11. Pieces!Cut
    BY <1>1, <1>2, <2>3, <2>4, <2>6, <2>7, <2>8, <2>9, <2>10 DEF Pieces!Cut
  <2> QED BY <2>11 DEF Pieces!AbsNext
<1> QED BY <1>2, <1>4, <1>5 DEF TypeOK

LEMMA RestFitsRefines ==
  ASSUME IInv, RestFits, IInv'
  PROVE  Pieces!AbsNext
<1>1. /\ pc = "fill" /\ pc' = "send" /\ splits' = splits /\ text' = text
      /\ numeric /\ numeric' = numeric
  BY DEF RestFits, Prepared, request, IInv, Filling_Inv
<1>2. splits # <<0>>
  <2>1. SUFFICES ~(Len(splits) = 1 /\ splits[1] = 0)
    BY DEF IInv, TypeOK
  <2>2. ASSUME Len(splits) = 1 PROVE splits[1] # 0
    <3>1. 1 \in 1 .. Len(splits)
      BY <2>2
    <3>2. splits[1] \in 1 .. Len(text) - 1
      BY <1>1, <3>1 DEF IInv, CutsInside
    <3>3. Len(text) \in Nat
      BY TextFacts DEF IInv, TypeOK
    <3> QED BY <3>2, <3>3
  <2> QED BY <2>2
<1>3. Stage = "cutting" /\ Stage' = "cut"
  BY <1>1, <1>2 DEF Stage
<1>4. Pieces!LastCut = CutBefore(Len(splits) + 1)
  BY DEF Pieces!LastCut, CutBefore, IInv, TypeOK
<1>5. Measured(CutBefore(Len(splits) + 1), Len(text), RestSize)
  BY <1>1 DEF IInv, Sending_Inv, Measured, CutBefore, RestSize, Alphabet
<1>6. Pieces!Finish
  BY <1>1, <1>3, <1>4, <1>5
     DEF Pieces!Finish, Pieces!Fits, Room, Measured, RestSize, Alphabet
<1> QED BY <1>6 DEF Pieces!AbsNext

LEMMA SendRefines ==
  ASSUME IInv, SendWhole \/ SendPart \/ GiveUp
  PROVE  [Pieces!AbsNext]_Pieces!absvars
<1>1. pc = "send" /\ pc' \in {"send", "idle"} /\ splits' = splits /\ text' = text
  BY DEF SendWhole, SendPart, GiveUp, request, outgoing
<1>2. Stage \in {"cut", "refused"}
  BY <1>1 DEF Stage
<1>3. CASE pc' = "send"
  <2>1. Stage' = Stage
    BY <1>1, <1>3 DEF Stage
  <2> QED BY <1>1, <2>1 DEF Pieces!absvars
<1>4. CASE pc' = "idle"
  <2>1. Stage' = "idle"
    BY <1>4 DEF Stage
  <2> QED BY <1>1, <1>2, <2>1 DEF Pieces!AbsNext, Pieces!Leave
<1> QED BY <1>1, <1>3, <1>4

LEMMA StepRefines ==
  IInv /\ IInv' /\ [Next]_vars => [Pieces!AbsNext]_Pieces!absvars
<1> SUFFICES ASSUME IInv, IInv', [Next]_vars
             PROVE  [Pieces!AbsNext]_Pieces!absvars
  OBVIOUS
<1>1. CASE Check      BY <1>1, CheckRefines
<1>2. CASE TakeChar
  <2>1. pc' = pc /\ splits' = splits /\ text' = text
    BY <1>2 DEF TakeChar, request, outgoing
  <2> QED BY <2>1 DEF Pieces!absvars, Stage
<1>3. CASE Overrun    BY <1>3, OverrunRefines
<1>4. CASE RestFits   BY <1>4, RestFitsRefines
<1>5. CASE SendWhole \/ SendPart \/ GiveUp
  BY <1>5, SendRefines
<1>6. ASSUME NEW t \in Texts, NEW n \in BOOLEAN, Prepare(t, n)
      PROVE  [Pieces!AbsNext]_Pieces!absvars
  <2>1. /\ pc = "idle" /\ pc' = "check" /\ text' \in Texts /\ splits' = <<>>
    BY <1>6 DEF Prepare
  <2>2. Stage = "idle" /\ Stage' = "cutting"
    BY <2>1 DEF Stage
  <2> QED BY <2>1, <2>2 DEF Pieces!AbsNext, Pieces!Begin
<1>7. CASE UNCHANGED vars
  BY <1>7 DEF vars, request, outgoing, Pieces!absvars, Stage
<1> QED BY <1>1, <1>2, <1>3, <1>4, <1>5, <1>6, <1>7 DEF Next, Work

\* The driver cuts as the abstract specification says, text after text.
THEOREM CutsAsSpecified == Spec => Implements
<1>1. Init => Pieces!AbsInit
  BY DEF Init, Pieces!AbsInit, Stage
<1> QED
  BY <1>1, Invariant, StepRefines, PTL DEF Spec, Implements, Pieces!AbsSpec

-----------------------------------------------------------------------------
(* No other cuts give fewer messages. *)

\* Each cut is behind those before it, and the piece it ends could not have
\* had one more character.
LongestPieces ==
  numeric => \A i \in 1 .. Len(splits) :
    /\ ~Measured(CutBefore(i), splits[i] + Utf8(text[splits[i] + 1]), Header(Alphabet))
    /\ \A j \in 1 .. i - 1 : splits[j] < splits[i]

\* Only a text that is no single message is cut.
CutIfTooLong == numeric /\ splits # <<>> => ~Measured(0, Len(text), 0)

Greedy == LongestPieces /\ CutIfTooLong

LEMMA OverrunGreedy ==
  ASSUME IInv, Greedy, Overrun
  PROVE  Greedy'
<1> DEFINE c == text[pos + 1]
<1>1. /\ pc = "fill" /\ pos < Len(text)
      /\ w + Units(dcs, c) > Room(dcs, UdhSize(dcs))
      /\ TooLong(pos, msg16Bit)
  BY DEF Overrun, Overruns
<1>2. /\ TypeOK /\ w \in Nat /\ numeric /\ dcs = Alphabet
      /\ w = Upto(dcs, text, pos) - Upto(dcs, text, idx)
      /\ idx = CutBefore(Len(splits) + 1) /\ splits \in Seq(Nat)
      /\ Len(splits) \in Nat
      /\ udh => ~Measured(0, Len(text), 0)
  BY <1>1 DEF IInv, TypeOK, Filling_Inv, Cutting_Inv
<1> HIDE DEF c
<1>3. /\ Room(dcs, Header(dcs)) \in Nat /\ Units(dcs, c) \in Nat
      /\ Units(dcs, c) <= Room(dcs, Header(dcs))
      /\ idx \in Nat /\ pos \in Nat /\ pos >= idx /\ Len(text) \in Nat
      /\ Upto(dcs, text, pos) \in Nat /\ Upto(dcs, text, idx) \in Nat
      /\ Upto(dcs, text, pos + Utf8(c)) = Upto(dcs, text, pos) + Units(dcs, c)
  <2>1. dcs \in {"7BIT", "16BIT"}
    BY <1>1, NextChar
  <2>2. Room(dcs, Header(dcs)) \in Nat
    BY <2>1, RoomFacts
  <2> QED BY <1>1, <2>2, NextChar DEF c
<1>4. CASE ~udh
  <2>1. UNCHANGED <<request, outgoing>>
    BY <1>1, <1>4 DEF TooLong
  <2> QED BY <2>1 DEF Greedy, LongestPieces, CutIfTooLong, Measured, CutBefore,
                      Alphabet, request, outgoing
<1>5. CASE udh
  <2>1. UdhSize(dcs) = Header(dcs)
    BY <1>5 DEF UdhSize
  <2>2. pos # idx
    <3>1. ASSUME pos = idx PROVE FALSE
      <4>1. w = 0
        BY <1>2, <1>3, <3>1
      <4> QED BY <1>1, <1>3, <2>1, <4>1
    <3> QED BY <3>1
  <2>3. splits' = Append(splits, pos) /\ text' = text /\ numeric' = numeric
    BY <1>1, <1>5, <2>2 DEF TooLong, request
  <2>4. Alphabet' = Alphabet
    BY <2>3 DEF Alphabet
  <2>5. /\ Len(splits') = Len(splits) + 1 /\ splits'[Len(splits) + 1] = pos
        /\ \A i \in 1 .. Len(splits) : splits'[i] = splits[i]
    BY <1>2, <1>3, <2>3
  <2>6. \A i \in 1 .. Len(splits) + 1 : CutBefore(i)' = CutBefore(i)
    BY <1>2, <2>5 DEF CutBefore
  <2>7. \A j \in 1 .. Len(splits) : splits[j] < pos
    <3> SUFFICES ASSUME NEW j \in 1 .. Len(splits) PROVE splits[j] < pos
      OBVIOUS
    <3>1. splits[j] \in Nat /\ splits[Len(splits)] \in Nat
          /\ Len(splits) \in 1 .. Len(splits)
      BY <1>2
    <3>2. idx = splits[Len(splits)]
      BY <1>2, <3>1 DEF CutBefore
    <3>3. splits[j] <= splits[Len(splits)]
      <4>1. CASE j = Len(splits)
        BY <3>1, <4>1
      <4>2. CASE j # Len(splits)
        <5>1. j \in 1 .. Len(splits) - 1
          BY <1>2, <4>2
        <5>2. splits[j] < splits[Len(splits)]
          BY <1>2, <3>1, <5>1 DEF Greedy, LongestPieces
        <5> QED BY <3>1, <5>2
      <4> QED BY <4>1, <4>2
    <3> QED BY <1>3, <2>2, <3>1, <3>2, <3>3
  <2>8. ~Measured(idx, pos + Utf8(c), Header(Alphabet))
    <3>1. ~(Upto(dcs, text, pos + Utf8(c)) - Upto(dcs, text, idx) <= Room(dcs, Header(dcs)))
      BY <1>1, <1>2, <1>3, <2>1
    <3> QED BY <1>2, <3>1 DEF Measured
  <2>9. LongestPieces'
    <3> SUFFICES ASSUME NEW i \in 1 .. Len(splits) + 1
                 PROVE  /\ ~Measured(CutBefore(i), splits'[i] + Utf8(text[splits'[i] + 1]),
                                     Header(Alphabet))
                        /\ \A j \in 1 .. i - 1 : splits'[j] < splits'[i]
      BY <2>3, <2>4, <2>5, <2>6 DEF LongestPieces, Measured
    <3>1. CASE i = Len(splits) + 1
      BY <1>2, <2>5, <2>7, <2>8, <3>1 DEF c
    <3>2. CASE i # Len(splits) + 1
      <4>1. i \in 1 .. Len(splits)
        BY <1>2, <3>2
      <4>2. \A j \in 1 .. i - 1 : splits'[j] = splits[j]
        BY <1>2, <2>5, <4>1
      <4> QED BY <1>2, <2>5, <4>1, <4>2 DEF Greedy, LongestPieces
    <3> QED BY <3>1, <3>2
  <2>10. CutIfTooLong'
    BY <1>2, <1>5, <2>3, <2>4 DEF CutIfTooLong, Measured
  <2> QED BY <2>9, <2>10 DEF Greedy
<1> QED BY <1>2, <1>4, <1>5 DEF TypeOK

LEMMA GreedyNext ==
  ASSUME IInv, Greedy, [Next]_vars
  PROVE  Greedy'
<1>1. ASSUME UNCHANGED <<text, numeric, splits>> PROVE Greedy'
  BY <1>1 DEF Greedy, LongestPieces, CutIfTooLong, Measured, CutBefore, Alphabet
<1>2. CASE Check
  <2>1. CASE numeric
    BY <1>1, <1>2, <2>1 DEF Check, request, outgoing
  <2>2. CASE ~numeric
    <3>1. numeric' = numeric
      BY <1>2, <2>2 DEF Check, TooLong, Prepared, request
    <3> QED BY <2>2, <3>1 DEF Greedy, LongestPieces, CutIfTooLong
  <2> QED BY <2>1, <2>2
<1>3. CASE TakeChar \/ SendWhole \/ SendPart \/ GiveUp \/ UNCHANGED vars
  BY <1>1, <1>3 DEF TakeChar, SendWhole, SendPart, GiveUp, vars, request, outgoing
<1>4. CASE Overrun
  BY <1>4, OverrunGreedy
<1>5. CASE RestFits
  BY <1>1, <1>5 DEF RestFits, Prepared, request
<1>6. ASSUME NEW t \in Texts, NEW n \in BOOLEAN, Prepare(t, n) PROVE Greedy'
  BY <1>6 DEF Prepare, Greedy, LongestPieces, CutIfTooLong
<1> QED BY <1>2, <1>3, <1>4, <1>5, <1>6 DEF Next, Work

LEMMA GreedyInvariant == Spec => []Greedy
<1>1. Init => Greedy
  BY DEF Init, Greedy, LongestPieces, CutIfTooLong
<1>2. IInv /\ Greedy /\ [Next]_vars => Greedy'
  BY GreedyNext
<1> QED BY <1>1, <1>2, Invariant, PTL DEF Spec

\* A character ends where the next one begins.
LEMMA CharEnds ==
  ASSUME NEW t \in Texts, NEW p \in 0 .. Len(t) - 1, Boundary(t, p),
         NEW q \in p + 1 .. Len(t), Boundary(t, q)
  PROVE  q >= p + Utf8(t[p + 1])
<1>1. /\ Len(t) \in Nat /\ t[p + 1] \in Chars /\ Utf8(t[p + 1]) \in Nat \ {0}
      /\ p + Utf8(t[p + 1]) \in 0 .. Len(t)
  BY TextFacts
<1>2. ASSUME q < p + Utf8(t[p + 1]) PROVE FALSE
  <2>1. q \in p + 1 .. p + Utf8(t[p + 1]) - 1 /\ q # Len(t)
    BY <1>1, <1>2
  <2>2. t[q + 1] = Cont
    BY <1>1, <2>1, SplitAssumption DEF TextsAssumption
  <2>3. t[q + 1] \in Chars
    BY <2>1 DEF Boundary, Pieces!Boundary
  <2> QED BY <2>2, <2>3, SplitAssumption DEF CharsAssumption
<1> QED BY <1>1, <1>2

\* Fewer cuts than the greedy ones leave one of the greedy pieces, and the
\* character behind it, within a piece of theirs.
LEMMA PieceUncut ==
  ASSUME IInv, Greedy, numeric, NEW S, S \subseteq 1 .. Len(text) - 1,
         Cardinality(S) < Len(splits)
  PROVE  \E i \in 1 .. Len(splits) : \A p \in S : p <= CutBefore(i) \/ p > splits[i]
<1> DEFINE n == Len(splits)
           Within(i) == {p \in S : CutBefore(i) < p /\ p <= splits[i]}
<1>1. n \in Nat /\ Len(text) \in Nat /\ splits \in Seq(Nat)
  BY TextFacts DEF IInv, TypeOK
<1> SUFFICES ASSUME \A i \in 1 .. n : Within(i) # {} PROVE FALSE
  <2> SUFFICES ASSUME NEW i \in 1 .. n, Within(i) = {}
               PROVE  \A p \in S : p <= CutBefore(i) \/ p > splits[i]
    OBVIOUS
  <2>1. CutBefore(i) \in Int /\ splits[i] \in Int
    BY <1>1 DEF CutBefore
  <2> QED BY <1>1, <2>1
<1> DEFINE f == [i \in 1 .. n |-> CHOOSE p \in S : p \in Within(i)]
<1>2. \A i \in 1 .. n : f[i] \in S /\ f[i] \in Int /\ f[i] \in Within(i)
  <2>1. S \subseteq Int
    BY <1>1
  <2> QED BY <2>1
<1>3. \A i, j \in 1 .. n : i < j => f[i] < f[j]
  <2> SUFFICES ASSUME NEW i \in 1 .. n, NEW j \in 1 .. n, i < j PROVE f[i] < f[j]
    OBVIOUS
  <2>1. CutBefore(j) = splits[j - 1] /\ j - 1 \in 1 .. n
    BY <1>1 DEF CutBefore
  <2>2. splits[i] <= splits[j - 1]
    <3>1. CASE i = j - 1
      BY <1>1, <3>1
    <3>2. CASE i # j - 1
      <4>1. i \in 1 .. (j - 1) - 1
        BY <1>1, <3>2
      <4>2. splits[i] < splits[j - 1]
        BY <2>1, <4>1 DEF Greedy, LongestPieces
      <4> QED BY <1>1, <2>1, <4>2
    <3> QED BY <3>1, <3>2
  <2>3. f[i] <= splits[i] /\ splits[j - 1] < f[j]
    BY <1>2, <2>1
  <2> HIDE DEF f
  <2>4. f[i] \in Int /\ f[j] \in Int /\ splits[i] \in Int /\ splits[j - 1] \in Int
    BY <1>1, <1>2, <2>1, SMTT(30)
  <2> QED BY <2>2, <2>3, <2>4
<1>4. f \in Injection(1 .. n, S)
  <2>1. f \in [1 .. n -> S]
    BY <1>2
  <2> HIDE DEF f
  <2>2. \A i, j \in 1 .. n : f[i] = f[j] => i = j
    <3>1. \A i, j \in 1 .. n : i < j \/ j < i \/ i = j
      BY <1>1
    <3> QED BY <1>2, <1>3, <3>1
  <2> QED BY <2>1, <2>2 DEF Injection, IsInjective
<1>5. IsFiniteSet(S)
  <2>1. IsFiniteSet(1 .. Len(text) - 1)
    BY <1>1, FS_Interval
  <2> QED BY <2>1, FS_Subset
<1>6. Cardinality(1 .. n) <= Cardinality(S)
  <2> HIDE DEF f, n
  <2> QED BY <1>4, <1>5, FS_Injection
<1>7. Cardinality(1 .. n) = n
  <2> HIDE DEF n, f
  <2>1. Cardinality(1 .. n) = IF 1 > n THEN 0 ELSE n - 1 + 1
    BY <1>1, FS_Interval
  <2> QED BY <1>1, <2>1
<1>8. Cardinality(S) \in Nat
  BY <1>5, FS_CardinalityType
<1> QED BY <1>1, <1>6, <1>7, <1>8

LEMMA NoFewer ==
  ASSUME IInv, Greedy
  PROVE  Fewest
<1> DEFINE a == Pieces!AlphabetOf(text)
           L == Len(text)
           inside == {p \in 1 .. L - 1 : Boundary(text, p)}
           Unfit(S, b, e) ==
             /\ b < e /\ \A p \in S : p <= b \/ p >= e
             /\ ~Pieces!Fits(text, a, b, e, IF S = {} THEN 0 ELSE Header(a))
<1>1. SUFFICES ASSUME numeric, NEW S \in SUBSET inside, Cardinality(S) < Len(splits)
               PROVE  \E b \in S \cup {0}, e \in S \cup {L} : Unfit(S, b, e)
  BY DEF Fewest
<1>2. /\ L \in Nat /\ text \in Texts /\ splits \in Seq(Nat) /\ Len(splits) \in Nat
      /\ a = Alphabet /\ a \in {"7BIT", "16BIT"}
  BY TextFacts, AlphabetFact DEF IInv, TypeOK, Alphabet
<1>3. S \subseteq 1 .. L - 1 /\ \A p \in S : Boundary(text, p)
  OBVIOUS
<1>4. IsFiniteSet(S) /\ Cardinality(S) \in Nat
  <2>1. IsFiniteSet(1 .. L - 1)
    BY <1>2, FS_Interval
  <2> QED BY <1>3, <2>1, FS_Subset, FS_CardinalityType
<1>5. \A i \in 1 .. Len(splits) : splits[i] \in 1 .. L - 1 /\ Boundary(text, splits[i])
  BY <1>1 DEF IInv, CutsInside
<1>6. CASE S = {}
  <2>1. splits # <<>> /\ 1 \in 1 .. Len(splits)
    BY <1>1, <1>2, <1>4
  <2>2. 0 < L
    BY <1>2, <1>5, <2>1
  <2>3. ~Pieces!Fits(text, a, 0, L, 0)
    BY <1>1, <1>2, <2>1 DEF Greedy, CutIfTooLong, Measured, Room, Pieces!Fits
  <2>4. Unfit(S, 0, L)
    BY <1>6, <2>2, <2>3
  <2> QED BY <2>4
<1>7. CASE S # {}
  <2>1. PICK i \in 1 .. Len(splits) : \A p \in S : p <= CutBefore(i) \/ p > splits[i]
    BY <1>1, <1>3, PieceUncut
  <2> DEFINE g == CutBefore(i)
             c == splits[i]
             z == c + Utf8(text[c + 1])
  <2>2. g \in Nat /\ c \in 1 .. L - 1 /\ g <= c
    <3>1. i = 1 \/ i - 1 \in 1 .. Len(splits)
      BY <1>2
    <3>2. i # 1 => splits[i - 1] < splits[i] /\ splits[i - 1] \in 1 .. L - 1
      BY <1>1, <1>2, <1>5, <3>1 DEF IInv, CutsInside
    <3> QED BY <1>2, <1>5, <3>1, <3>2 DEF CutBefore
  <2>3. /\ \A p \in S : p <= g \/ p > c
        /\ c \in 1 .. L - 1 /\ Boundary(text, c) /\ Boundary(text, 0) /\ Boundary(text, L)
        /\ z \in 0 .. L /\ \A q \in c + 1 .. L : Boundary(text, q) => q >= z
        /\ ~Measured(g, z, Header(a))
    <3>1. Boundary(text, c) /\ c \in 0 .. L - 1
      BY <1>2, <1>5, <2>2
    <3>2. z \in 0 .. L /\ Boundary(text, 0) /\ Boundary(text, L)
      BY <1>2, <3>1, TextFacts
    <3>3. \A q \in c + 1 .. L : Boundary(text, q) => q >= z
      BY <1>2, <3>1, CharEnds
    <3>4. ~Measured(g, z, Header(a))
      BY <1>1, <1>2 DEF Greedy, LongestPieces
    <3> QED BY <2>1, <2>2, <3>1, <3>2, <3>3, <3>4
  <2> HIDE DEF g, c, z
  <2>4. PICK b \in S \cup {0} : b \in 0 .. g /\ \A p \in S : p <= g => p <= b
    <3> DEFINE T == {p \in S \cup {0} : p <= g}
    <3>1. \A p \in S \cup {0} : p \in Nat
      BY <1>2, <1>3
    <3>2. T \subseteq 0 .. g /\ T # {}
      <4>1. 0 \in T
        BY <2>2
      <4>2. \A p \in T : p \in 0 .. g
        BY <2>2, <3>1
      <4> QED BY <4>1, <4>2
    <3>3. \E x \in T : \A y \in T : y <= x
      <4> HIDE DEF T
      <4> QED BY <2>2, <3>2, Greatest
    <3> QED BY <3>1, <3>3
  <2>5. PICK e \in S \cup {L} : /\ e > g /\ e \in 1 .. L /\ Boundary(text, e)
                               /\ \A p \in S : p > g => p >= e
    <3> DEFINE T == {p \in S \cup {L} : p > g}
    <3>1. \A p \in S \cup {L} : p \in 1 .. L /\ Boundary(text, p)
      BY <1>2, <1>3, <2>2, <2>3
    <3>2. T \subseteq Nat /\ T # {}
      <4>1. L > g
        BY <1>2, <2>2
      <4>2. L \in T
        BY <4>1
      <4>3. \A p \in T : p \in Nat
        BY <1>2, <3>1
      <4> QED BY <4>2, <4>3
    <3>3. \E x \in T : \A y \in T : x <= y
      <4> HIDE DEF T
      <4> QED BY <3>2, Least
    <3> QED BY <3>1, <3>3
  <2>6. e \in c + 1 .. L
    BY <1>2, <2>2, <2>3, <2>5
  <2>7. e >= z
    BY <2>3, <2>5, <2>6
  <2>8. ~Measured(b, e, Header(a))
    <3>1. b \in 0 .. L /\ g \in 0 .. L /\ e \in 0 .. L /\ b <= g
      BY <1>2, <2>2, <2>4, <2>5
    <3> HIDE DEF a, L
    <3>2. /\ Upto(a, text, b) \in Nat /\ Upto(a, text, g) \in Nat
          /\ Upto(a, text, z) \in Nat /\ Upto(a, text, e) \in Nat
          /\ Upto(a, text, b) <= Upto(a, text, g)
          /\ Upto(a, text, z) <= Upto(a, text, e)
      BY <1>2, <2>3, <2>7, <3>1, UptoFacts DEF L
    <3>3. Room(a, Header(a)) \in Nat
      BY <1>2, RoomFacts
    <3> QED BY <1>2, <2>3, <3>2, <3>3 DEF Measured
  <2>9. Unfit(S, b, e)
    <3>1. b < e /\ \A p \in S : p <= b \/ p >= e
      BY <1>3, <2>2, <2>4, <2>5
    <3>2. ~Pieces!Fits(text, a, b, e, Header(a))
      BY <1>2, <2>8 DEF Measured, Room, Pieces!Fits
    <3> QED BY <1>7, <3>1, <3>2
  <2> QED BY <2>9
<1> QED BY <1>6, <1>7

\* checkMultipart takes what it can at each cut, and that is the best there
\* is: no other cuts give fewer messages, and what fits one is not cut.
THEOREM NoFewerCuts == Spec => []Fewest
<1>1. IInv /\ Greedy => Fewest
  BY NoFewer
<1> QED BY <1>1, Invariant, GreedyInvariant, PTL
=============================================================================
