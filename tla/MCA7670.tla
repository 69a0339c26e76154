------------------------------ MODULE MCA7670 ------------------------------
(* Instances of the modem driver for TLC: the texts, and one alphabet of    *)
(* lines for each part of the driver.                                       *)
EXTENDS A7670, TLC

CONSTANTS n1, n2, bad, short, long, c1, c2

MCLength   == [t \in Texts |-> IF t = long THEN 3 ELSE 1]
MCSplitsOf == [t \in Texts |-> IF t = long THEN <<1, 2>> ELSE <<>>]

Simple(kinds) == [k : kinds]
Creg(n, reg)  == [k |-> "CREG", n |-> n, reg |-> reg]
Cpin(ready)   == [k |-> "CPIN", ready |-> ready]
Cmgl(i, stat) == [k |-> "CMGL", idx |-> i, stat |-> stat]
Pdu(from, ref, text) ==
  [k |-> "PDU", ok |-> TRUE, from |-> from, ref |-> ref, text |-> text]
Undecodable(from) == [k |-> "PDU", ok |-> FALSE, from |-> from,
                      ref |-> NoValue, text |-> NoValue]

\* What it takes to start up and register.  ERROR is any line that is not
\* expected.
Startup == Simple({"OK", "ERROR", "CMEERROR"}) \cup {Cpin(TRUE), Creg(1, TRUE)}

SendLines == Startup \cup Simple({"SIM868", "CSCA", "PROMPT", "CMGS"})

\* Sending, with what can happen to the registration, echoes, and calls.
\* MODEM_WAIT ends by its timeout: MCModemLink has the modem that announces
\* itself.
AllLines == SendLines
              \cup {Creg(0, FALSE), [k |-> "ECHO", cmd |-> "ATE0"]}
              \cup [k : {"CLCC"}, stat : {"INCOMING", "DISCONNECTED"}]

\* Parts of a long message of n1, a message of n2 without a header and one whose
\* header names no reference, and two lines that cannot be decoded.  The senders
\* have texts of their own, so that FromSender can tell who sent what.
ReadLines == Startup \cup Simple({"CMTI"})
               \cup {Cmgl(i, 0) : i \in 0..ByteMax} \cup {Cmgl(1, 1)}
               \cup {Pdu(n1, 1, short), Pdu(n2, 0, long),
                     Pdu(n2, NoValue, NoValue),
                     Undecodable(n1), Undecodable(NoValue)}
               \cup [k : {"CUSD"}, code : Codes]
=============================================================================
