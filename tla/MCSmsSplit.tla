----------------------------- MODULE MCSmsSplit -----------------------------
(***************************************************************************)
(* SmsSplit for every text of up to MaxChars characters of four kinds, and *)
(* messages short enough for the longest to need four parts.               *)
(***************************************************************************)
EXTENDS SmsSplit

CONSTANTS MaxChars, MaxSeptets, MaxOctets

\* An ASCII letter, the euro sign (an escape sequence of two septets), a
\* letter that is not in the GSM alphabet, and an emoji (a surrogate pair).
MCChars == {"a", "e", "k", "j"}
MCUtf8(c) == CASE c = "a" -> 1 [] c = "e" -> 3 [] c = "k" -> 3 [] c = "j" -> 4
MCSeptets(c) == CASE c = "a" -> 1 [] c = "e" -> 2 [] OTHER -> 0
MCUcs2(c) == IF c = "j" THEN 4 ELSE 2

Octets(c) == [i \in 1 .. MCUtf8(c) |-> IF i = 1 THEN c ELSE Cont]
\* The texts of n characters; "\o" makes sequences of them that TLC keeps.
OfLength[n \in Nat] ==
  IF n = 0 THEN {<<>>} ELSE {t \o Octets(c) : t \in OfLength[n - 1], c \in MCChars}
ShortTexts == UNION {OfLength[n] : n \in 0 .. MaxChars}
MCTexts == ShortTexts

\* Headers of 2 septets and 3 octets, as 8 and 7 are of 160 and 140: the
\* room that is left does not divide evenly into characters.
MCLimit(a) == IF a = "7BIT" THEN MaxSeptets ELSE MaxOctets
MCHeader(a) == IF a = "7BIT" THEN 2 ELSE 3

\* One pair for each unit of each character in the first p octets.
MCUpto(a, t, p) ==
  Cardinality({<<i, n>> \in (1 .. p) \X (1 .. 4) :
                 t[i] # Cont /\ n <= Units(a, t[i])})
=============================================================================
