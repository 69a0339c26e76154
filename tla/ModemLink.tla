----------------------------- MODULE ModemLink -----------------------------
(***************************************************************************)
(* The driver (A7670) and a modem, joined by the two directions of the     *)
(* serial line.  The modem is not part of the repository: it is modelled   *)
(* by what the driver expects of it, one reply for each command it writes, *)
(* and by what happens to it from outside (it is switched on, a message    *)
(* arrives, a call comes in and ends, the SIM becomes ready).              *)
(*                                                                         *)
(* The driver reads every line before it writes (loop() returns after it   *)
(* has read), but the modem may send a line after the driver has looked.   *)
(***************************************************************************)
EXTENDS A7670

CONSTANTS
  Inbound,     \* messages the network may deliver, as PDU lines, each once
  Slots,       \* number of message slots of the modem
  MaxCalls,    \* bound: incoming calls
  StartsOff,   \* the modem is off until its power pin is pulsed
  Locked,      \* the SIM asks for its PIN
  BusySim,     \* the SIM is not ready for some time after the start
  MaxLate      \* bound: times the driver times out before the modem answered

VARIABLES
  late,        \* times the driver timed out too early, so far
  up,          \* lines on their way to the driver
  down,        \* commands on their way to the modem, [c : Cmd, arg]
  on,          \* the modem is switched on
  sim_state,   \* "busy", "locked", "unlocking" or "ready"
  calls,       \* incoming calls so far
  call,        \* the call the modem is in, a CallState
  store,       \* slot -> the message in it, or NoValue
  read,        \* slots whose message was listed before
  arrived,     \* messages the network has delivered
  accepted,    \* history: parts the modem took over since send_sms was called
  lost,        \* history: messages deleted before they were listed
  delivered    \* history: what on_sms_received was called with

sms    == <<store, read, arrived, lost>>
phone  == <<on, sim_state, calls, call>>
modem  == <<phone, sms>>
joined == <<vars, late, up, down, modem, accepted, delivered>>

ASSUME LinkAssumption ==
  /\ Slots \in 0..ByteMax /\ MaxCalls \in Nat
  /\ StartsOff \in BOOLEAN /\ Locked \in BOOLEAN /\ BusySim \in BOOLEAN
  /\ MaxLate \in Nat
  /\ Inbound \subseteq {l \in Line : l.k = "PDU"} /\ NoValue \notin Inbound

AfterStart == IF BusySim THEN "busy" ELSE IF Locked THEN "locked" ELSE "ready"

LinkInit ==
  /\ Init
  /\ late = 0 /\ up = <<>> /\ down = <<>>
  /\ on = ~StartsOff /\ sim_state = AfterStart
  /\ calls = 0 /\ call = "DISCONNECTED"
  /\ store = [s \in 1..Slots |-> NoValue] /\ read = {} /\ arrived = {}
  /\ accepted = <<>> /\ lost = {} /\ delivered = <<>>

-----------------------------------------------------------------------------
(* The driver's side of the line. *)

\* What a command carries besides its name, when the step writes it.
Arg(cmd) == CASE cmd = "AT+CMGD=" -> parse_index
              [] cmd = "BODY^Z"   -> pdu'.buf
              [] OTHER            -> NoValue

Transmit ==
  down' = down \o [i \in DOMAIN tx' |-> [c |-> tx'[i], arg |-> Arg(tx'[i])]]

\* A modem that is prompt has answered every command, and has started if it was
\* switched on, before a timer of loop() is over; loop() itself, which runs
\* every few milliseconds, has read every line and found nothing to write.
Quiet == /\ up = <<>> /\ down = <<>>
         /\ power_on => on
         /\ ~ENABLED Loop

DriverReads ==
  /\ up # <<>>
  /\ Rx(Head(up))
  /\ up' = Tail(up)
  /\ Transmit
  /\ delivered' = IF event' = "sms_received"
                  THEN Append(delivered, [from |-> sender, parts |-> message])
                  ELSE delivered
  /\ UNCHANGED <<late, modem, accepted>>

Driver(A) == A /\ Transmit /\ UNCHANGED <<up, modem, accepted, delivered>>

\* A modem that has announced itself ends the wait for it at once.
OnTime         == UNCHANGED late
DriverWrites   == up = <<>> /\ Driver(Loop) /\ OnTime
DriverPolls    == Driver(Update) /\ OnTime
DriverTakesUp  == DriverWrites /\ <<pending, parse_index>>' # <<pending, parse_index>>
DriverTimesOut == /\ Driver(LeaveModemWait \/ RxTimeout \/ IdleTimeout)
                  /\ IF Quiet \/ AwaitingModem THEN OnTime
                     ELSE late < MaxLate /\ late' = late + 1
DriverAsked    == /\ Requests /\ Transmit /\ OnTime
                  /\ accepted' = IF "send" \in pending' \ pending THEN <<>>
                                                               ELSE accepted
                  /\ UNCHANGED <<up, modem, delivered>>

-----------------------------------------------------------------------------
(* The modem's side. *)

Say(kinds) == [i \in DOMAIN kinds |-> [k |-> kinds[i]]]
OK == Say(<<"OK">>)
CallLine(stat) == <<[k |-> "CLCC", stat |-> stat]>>
SimLine == <<[k |-> "CPIN", ready |-> sim_state = "ready"]>>
RegLine == <<[k |-> "CREG", n |-> 1, reg |-> sim_state = "ready"]>>

\* A listing: header and body of every occupied slot.  A message listed before
\* has status 1 (read).
Occupied == {s \in 1..Slots : store[s] # NoValue}
Listed(s) == <<[k |-> "CMGL", idx |-> s, stat |-> IF s \in read THEN 1 ELSE 0],
               store[s]>>
Listing ==
  LET upTo[s \in 0..Slots] ==
        IF s = 0 THEN <<>>
        ELSE upTo[s - 1] \o (IF s \in Occupied THEN Listed(s) ELSE <<>>)
  IN upTo[Slots]

\* The reply to a command, in the state the modem is in when it takes it.
Reply(c) ==
  CASE c = "AT+CGMM"   -> Say(<<"OTHER", "OK">>)
    [] c = "AT+CPIN?"  -> IF sim_state \in {"locked", "ready"}
                          THEN SimLine \o OK ELSE Say(<<"CMEERROR">>)
    [] c = "AT+CPIN="  -> IF sim_state = "locked" THEN OK ELSE Say(<<"ERROR">>)
    [] c = "AT+CREG?"  -> RegLine \o OK
    [] c = "AT+CSQ"    -> Say(<<"IGNORED", "OK">>)
    [] c = "AT+CMGL=4" -> Listing \o OK
    [] c = "AT+CLCC"   -> IF call = "DISCONNECTED" THEN OK ELSE CallLine(call) \o OK
    [] c = "ATA"       -> IF call = "INCOMING" THEN OK \o CallLine("ACTIVE")
                          ELSE Say(<<"ERROR">>)
    [] c = "AT+CHUP"   -> OK \o CallLine("DISCONNECTED")
    [] c = "AT+CSCA?"  -> Say(<<"CSCA", "OK">>)
    [] c = "AT+CMGS="  -> Say(<<"PROMPT">>)
    [] c = "BODY^Z"    -> Say(<<"CMGS", "OK">>)
    [] c = "AT+CSCS=?" -> Say(<<"OTHER", "OK">>)
    [] c \in {"^Z", "AT+CMEE=2^Z"} -> <<>>
    [] OTHER           -> OK

CallAfter(c) == CASE c = "ATA" /\ call = "INCOMING" -> "ACTIVE"
                  [] c = "AT+CHUP"                  -> "DISCONNECTED"
                  [] OTHER                          -> call

\* The modem takes a command, does what it says and answers.
ModemAnswers ==
  /\ on /\ down # <<>>
  /\ LET cmd == Head(down)
         del == IF cmd.c = "AT+CMGD=" THEN {cmd.arg} \cap Occupied ELSE {}
     IN /\ up' = up \o Reply(cmd.c)
        /\ sim_state' = IF cmd.c = "AT+CPIN=" /\ sim_state = "locked"
                         THEN "unlocking" ELSE sim_state
        /\ call' = CallAfter(cmd.c)
        /\ store' = [s \in 1..Slots |-> IF s \in del THEN NoValue ELSE store[s]]
        /\ lost' = lost \cup {store[s] : s \in del \ read}
        /\ read' = IF cmd.c = "AT+CMGL=4" THEN Occupied ELSE read \ del
        /\ accepted' = IF cmd.c = "BODY^Z" THEN Append(accepted, cmd.arg)
                                           ELSE accepted
  /\ down' = Tail(down)
  /\ UNCHANGED <<vars, late, on, calls, arrived, delivered>>

\* A modem that is off hears nothing; a pulse on the pin switches it on.
ModemOff ==
  /\ ~on /\ down # <<>> /\ down' = <<>>
  /\ UNCHANGED <<vars, late, up, modem, accepted, delivered>>

SwitchedOn ==
  /\ ~on /\ power_on
  /\ on' = TRUE
  /\ up' = up \o Say(<<"ATREADY">>)
  /\ UNCHANGED <<vars, late, down, sim_state, calls, call, sms, accepted, delivered>>

\* A message goes to the lowest free slot and is announced.
MessageArrives ==
  /\ on /\ sim_state = "ready" /\ Occupied # 1..Slots
  /\ \E m \in Inbound \ arrived :
       /\ arrived' = arrived \cup {m}
       /\ LET s == CHOOSE s \in (1..Slots) \ Occupied :
                     \A t \in (1..Slots) \ Occupied : s <= t
          IN store' = [store EXCEPT ![s] = m]
  /\ up' = up \o Say(<<"CMTI">>)
  /\ UNCHANGED <<vars, late, down, phone, read, lost, accepted, delivered>>

CallComesIn ==
  /\ on /\ sim_state = "ready" /\ call = "DISCONNECTED" /\ calls < MaxCalls
  /\ calls' = calls + 1
  /\ call' = "INCOMING"
  /\ up' = up \o CallLine("INCOMING")
  /\ UNCHANGED <<vars, late, down, on, sim_state, sms, accepted, delivered>>

CallEnds ==
  /\ call # "DISCONNECTED"
  /\ call' = "DISCONNECTED"
  /\ up' = up \o CallLine("DISCONNECTED")
  /\ UNCHANGED <<vars, late, down, on, sim_state, calls, sms, accepted, delivered>>

SimGetsReady ==
  /\ on /\ sim_state \in {"busy", "unlocking"}
  /\ sim_state' = IF sim_state = "busy" /\ Locked THEN "locked" ELSE "ready"
  /\ up' = Append(up, [k |-> "CPIN", ready |-> sim_state' = "ready"])
  /\ UNCHANGED <<vars, late, down, on, calls, call, sms, accepted, delivered>>

-----------------------------------------------------------------------------
ModemSteps == ModemAnswers \/ ModemOff \/ SwitchedOn
Outside == MessageArrives \/ CallComesIn \/ CallEnds \/ SimGetsReady

LinkNext == \/ DriverReads \/ DriverWrites \/ DriverPolls \/ DriverTimesOut
            \/ DriverAsked \/ ModemSteps \/ Outside

LinkSpec == LinkInit /\ [][LinkNext]_joined

\* loop() runs every few milliseconds, update() at the polling interval and the
\* timers of loop() once they are over; a modem that is on answers.  Nothing is
\* assumed about callers, calls or messages.
Fairness == /\ WF_joined(DriverReads) /\ WF_joined(DriverWrites)
            /\ WF_joined(DriverPolls) /\ WF_joined(DriverTimesOut)
            /\ WF_joined(ModemSteps) /\ WF_joined(SimGetsReady)
            /\ SF_joined(DriverTakesUp)

FairLinkSpec == LinkSpec /\ Fairness

-----------------------------------------------------------------------------
(* Properties. *)

\* on_sms_received has been called with the text of m.
Delivered(m) == \E i \in DOMAIN delivered :
                  /\ delivered[i].from = m.from
                  /\ \E j \in DOMAIN delivered[i].parts :
                       delivered[i].parts[j] = m.text

\* Every message deleted with AT+CMGD was listed before (a7670.cpp:259 "Send cmd
\* to delete received sms").
NoneLost == lost = {}

\* No text of a message is handed to on_sms_received twice, although a listing
\* shows what an earlier one has shown until the cleanup has deleted it.
NoDuplicates ==
  \A i, j \in DOMAIN delivered :
    \A a \in DOMAIN delivered[i].parts, b \in DOMAIN delivered[j].parts :
      delivered[i].from = delivered[j].from
        /\ delivered[i].parts[a] = delivered[j].parts[b] => i = j /\ a = b

\* A message the modem has stored is handed on in the end, unless the cleanup
\* of an earlier one deletes it first, or a call lasts for ever.
HandledEventually ==
  []<>(call = "DISCONNECTED") =>
    \A m \in Inbound : m \in arrived ~> (m \in lost \/ Delivered(m))

\* When on_sms_sent is called the modem has taken over the parts of the text
\* asked for, all of them, in order, to the number asked for, and no others, if
\* every answer came in time (and no user's command broke in).
SentMeansAccepted ==
  [][DriverReads /\ event' = "sms_sent" /\ late = 0
       => accepted = PartsOf(recipient, outgoing_message)]_joined

\* on_sms_sent is called only after the modem has taken over every part of the
\* text since it was asked for (a7670.cpp:535 "SMS Sent OK"), even if answers
\* come after the driver's timeouts and are taken for the answers to later
\* commands.  That is so while the answers are not too far behind: with five
\* early timeouts a whole flow runs on the answers of the one before it, and
\* the +CMGS of another text's part counts for the last part of this one.
SentAtLeastOnce ==
  [][DriverReads /\ event' = "sms_sent"
       => LET parts == PartsOf(recipient, outgoing_message) IN
          \A i \in DOMAIN parts :
            \E j \in DOMAIN accepted : accepted[j] = parts[i]]_joined

\* With a modem that answers in time every send_sms ends with on_sms_sent.
SendEnds == "send" \in pending ~> event = "sms_sent" \/ late > 0

\* The driver gets the modem to register in the end: it pulses the power pin
\* of a modem that is off, and enters the PIN when the SIM asks for it (README
\* "Supports setting pin code").
ComesUp == <>registered

\* AT+CPIN= is written only for a SIM that waits for it: a second PIN would be
\* an attempt too many (a7670.cpp:163 "to ensure we only enter pin once").  That
\* is so if every answer came in time: acknowledgements left over from several
\* early timeouts let the driver enter it before AT+CPIN? is answered.
PinOnce ==
  [][ModemAnswers /\ Head(down).c = "AT+CPIN=" /\ late = 0
       => sim_state = "locked"]_joined

\* The driver learns that a call is over: a call that seems to last would keep
\* it from polling, reading and sending for ever.
CallEndNoticed == call = "DISCONNECTED" ~> call_state = "DISCONNECTED"
=============================================================================
