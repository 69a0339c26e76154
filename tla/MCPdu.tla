------------------------------- MODULE MCPdu -------------------------------
(* Instances of the PDU codec for TLC: short texts of every kind of         *)
(* character, texts around the boundary of 7 octets, and the longest ones.  *)
EXTENDS Pdu

Numeral(plus, digits) == [plus |-> plus, digits |-> digits]
\* The longest numbers that have room.
Digits(n) == [i \in 1 .. n |-> i % 10]
MCCenter == Numeral(FALSE, Digits(19))
\* @ (septet 0), a, the euro (two septets), Delta, A grave.
Few == {64, 97, 8364, 916, 224}
Runs(sizes) == {[i \in 1 .. n |-> c] : n \in sizes, c \in {97, 8364}}
\* All legal characters of the alphabet, twelve in a text.
Standard == SelectSeq([i \in 1 .. 8364 |-> i], LAMBDA c : c \in Exact)
Dozens == {SubSeq(Standard, k, k + 11) : k \in {12 * i + 1 : i \in 0 .. 10}}
Short7 == UNION {[1 .. n -> Few] : n \in 1 .. 2} \cup Runs(6 .. 9) \cup Dozens
\* a, Cyrillic, Chinese, two characters outside the first plane.
Short16 == UNION {[1 .. n -> {97, 1103, 20013, 128512}] : n \in 1 .. 2}
             \cup {<<65536>>}

Request(to, text, numbers, force) ==
  [to |-> to, text |-> text, numbers |-> numbers, force |-> force]
Plus3 == Numeral(TRUE, <<1, 2, 3>>)
AllRequests ==
       {Request(Plus3, t, <<0, 0, 0>>, FALSE) : t \in Short7 \cup Short16 \cup {<<>>}}
  \cup {Request(Plus3, t, <<65535, 255, 255>>, FALSE) : t \in Short7}
  \cup {Request(Numeral(FALSE, <<9, 0>>), t, <<258, 2, 1>>, TRUE) :
          t \in Short16 \cup Runs({6})}
  \cup {Request(Plus3, t, n, FALSE) :
          t \in Runs({6}), n \in {<<0, 2, 1>>, <<1, 0, 1>>, <<1, 2, 0>>, <<1, 1, 2>>}}
  \cup {Request(Numeral(TRUE, Digits(19)), [i \in 1 .. n |-> c], <<1, 2, 1>>, FALSE) :
          <<n, c>> \in {<<152, 97>>, <<153, 97>>, <<66, 1103>>, <<67, 1103>>}}
  \cup {Request(Plus3, [i \in 1 .. n |-> c], <<0, 0, 0>>, FALSE) :
          <<n, c>> \in {<<160, 97>>, <<161, 97>>, <<70, 1103>>, <<71, 1103>>}}
  \cup {Request(Numeral(FALSE, [i \in 1 .. 20 |-> 1]), <<97>>, <<0, 0, 0>>, FALSE)}
MCRequests == AllRequests

Named(name) == [kind |-> "name", name |-> name]
Other(type) == [kind |-> "other", type |-> type, digits |-> <<1, 2, 3, 4>>]
Number3 == [kind |-> "number", plus |-> TRUE, digits |-> <<1, 2, 3>>]
LongPlus == [kind |-> "number", plus |-> TRUE, digits |-> Digits(18)]
LongPlain == [kind |-> "number", plus |-> FALSE, digits |-> Digits(19)]
Number2 == [kind |-> "number", plus |-> FALSE, digits |-> <<9, 0>>]
Senders == {Number3, Number2, Named(<<65, 224>>), Named([i \in 1 .. 7 |-> 97]),
            Named([i \in 1 .. 8 |-> 97]), Named([i \in 1 .. 11 |-> 97]),
            Named([i \in 1 .. 9 |-> 224]), LongPlus, LongPlain, Other(179), Other(17)}

Ref8 == <<5, 0, 3, 7, 2, 1>>
Ref16 == <<6, 8, 4, 1, 7, 2, 2>>
Ports == <<6, 5, 4, 0, 1, 0, 2>>
Halves == {<<55357>>, <<56832>>, <<97, 55357>>, <<56832, 97>>, <<56832, 1103>>,
           <<56832, 20013, 55357>>, <<1103, 97>>, <<97, 20013, 20013>>,
           <<55357, 56832>>, <<97>>, <<>>}
Msg(from, alphabet, text, header) ==
  [from |-> from, alphabet |-> alphabet, text |-> text, header |-> header]
AllMessages ==
       {Msg(Number3, "7BIT", t, h) : t \in Short7, h \in {<<>>, Ref8}}
  \cup {Msg(Number3, "7BIT", t, Ref16) : t \in Runs(6 .. 9)}
  \cup {Msg(Number2, "16BIT", t, h) : t \in Halves, h \in {<<>>, Ref8, Ref16}}
  \cup {Msg(f, "7BIT", <<97>>, <<>>) : f \in Senders}
  \cup {Msg(Number3, "7BIT", <<>>, h) : h \in {<<>>, Ref8}}
  \cup {Msg(Number3, "8BIT", <<97>>, h) : h \in {<<>>, Ref16}}
  \cup {Msg(Number2, "16BIT", <<97>>, Ports)}
MCMessages == AllMessages

\* What leaves something behind: texts that end in half a pair, failures, a
\* PDU in the buffer.
MCFollowed(c) ==
  CASE c.op = "none"   -> TRUE
    [] c.op = "encode" -> c.text = <<97, 97>>
    [] c.op = "decode" -> \/ c.message.alphabet = "16BIT" /\ c.message.header = <<>>
                          \/ c.message.header \in {Ports, Ref16}

OnlyRef16 == {Msg(Number3, "7BIT", t, Ref16) : t \in Runs(6 .. 9)}
=============================================================================
