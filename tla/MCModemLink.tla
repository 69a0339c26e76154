---------------------------- MODULE MCModemLink ----------------------------
(* Instances of the driver and its modem for TLC. *)
EXTENDS ModemLink

CONSTANTS n1, n2, bad, short, long, c1

MCLength   == [t \in Texts |-> IF t = long THEN 3 ELSE 1]
MCSplitsOf == [t \in Texts |-> IF t = long THEN <<1, 2>> ELSE <<>>]

Inc(from, ref, text) ==
  [k |-> "PDU", ok |-> TRUE, from |-> from, ref |-> ref, text |-> text]
MCInbound == {Inc(n1, 0, short), Inc(n2, 0, long), Inc(n2, 0, short)}
MCTwo == {Inc(n1, 0, short), Inc(n2, 0, long)}
NoInbound == {}
=============================================================================
