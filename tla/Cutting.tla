------------------------------ MODULE Cutting ------------------------------
(***************************************************************************)
(* What the cutting of a text into messages promises: the abstract         *)
(* specification that SmsSplit implements.                                 *)
(*                                                                         *)
(* A text is cut at ends of characters only.  Each piece is as long as one *)
(* message of a multipart text can be, and a text that fits a message of   *)
(* its own is not cut.  How the driver finds the next cut is left open.    *)
(***************************************************************************)
EXTENDS Integers, Sequences

CONSTANTS
  Texts,          \* the texts that can be sent, as sequences of octets
  Chars,          \* kinds of characters; the octet that starts one is its kind
  Utf8(_),        \* octets of a character in UTF-8
  Septets(_),     \* septets of it in the GSM alphabet, 0: it is not there
  Upto(_, _, _),  \* Upto(a, t, p): units of alphabet a in p octets of t
  Limit(_),       \* units of an alphabet one message holds
  Header(_)       \* units a multipart header takes of them

VARIABLES
  text,         \* the text that is cut
  cuts,         \* where it is cut, as offsets in octets
  stage         \* "idle", "cutting", "cut", or "refused"

absvars == <<text, cuts, stage>>

Alphabets == {"7BIT", "16BIT"}

\* A character starts at offset p of t, or t ends there.
Boundary(t, p) == p = Len(t) \/ (p \in 0 .. Len(t) - 1 /\ t[p + 1] \in Chars)

\* Every character of t from offset b to e is in the GSM alphabet.
Gsm(t, b, e) ==
  \A p \in b .. e - 1 : t[p + 1] \in Chars => Septets(t[p + 1]) # 0

AlphabetOf(t) == IF Gsm(t, 0, Len(t)) THEN "7BIT" ELSE "16BIT"

\* The octets b to e of t are one message with a header of size h.
Room(a, h) == Limit(a) - h
Fits(t, a, b, e, h) == Upto(a, t, e) - Upto(a, t, b) <= Room(a, h)

LastCut == IF cuts = <<>> THEN 0 ELSE cuts[Len(cuts)]

-----------------------------------------------------------------------------
AbsInit ==
  /\ text = <<>>
  /\ cuts = <<>>
  /\ stage = "idle"

Begin ==
  /\ stage # "cutting"
  /\ text' \in Texts
  /\ cuts' = <<>>
  /\ stage' = "cutting"

\* The longest piece that fits is cut off.  Cutting goes on until the rest
\* is one message.
Cut ==
  LET a == AlphabetOf(text) IN
  /\ stage = "cutting"
  /\ cuts = <<>> => ~Fits(text, a, 0, Len(text), 0)
  /\ \E p \in LastCut + 1 .. Len(text) - 1 :
       /\ Boundary(text, p)
       /\ Fits(text, a, LastCut, p, Header(a))
       /\ ~Fits(text, a, LastCut, p + Utf8(text[p + 1]), Header(a))
       /\ cuts' = Append(cuts, p)
  /\ UNCHANGED <<text, stage>>

Finish ==
  /\ stage = "cutting"
  /\ LET a == AlphabetOf(text) IN
       Fits(text, a, LastCut, Len(text), IF cuts = <<>> THEN 0 ELSE Header(a))
  /\ stage' = "cut"
  /\ UNCHANGED <<text, cuts>>

\* The recipient is no number: nothing is cut off.
Refuse ==
  /\ stage = "cutting" /\ cuts = <<>>
  /\ cuts' = <<0>>
  /\ stage' = "refused"
  /\ UNCHANGED text

\* The parts were sent or given up.
Leave ==
  /\ stage \in {"cut", "refused"}
  /\ stage' = "idle"
  /\ UNCHANGED <<text, cuts>>

AbsNext == Begin \/ Cut \/ Finish \/ Refuse \/ Leave
AbsSpec == AbsInit /\ [][AbsNext]_absvars
=============================================================================
