------------------------------- MODULE A7670 -------------------------------
(***************************************************************************)
(* The modem driver, A7670Component (components/a7670/a7670.cpp and .h):   *)
(* the state machine that loop(), update(), parse_cmd_() and the public    *)
(* requests drive together.                                                *)
(*                                                                         *)
(* The environment is the most general one.  Any line of the set Lines may *)
(* be received at any moment, any request of Api may be made at any        *)
(* moment, and a timer whose other conditions hold may expire at any       *)
(* moment (millis() is abstracted to this choice).  What holds here holds  *)
(* for every modem.  Module ModemLink puts one modem behind the serial     *)
(* line.                                                                   *)
(*                                                                         *)
(* One Rx step is one call of loop() that finds one complete line.  A call *)
(* that finds several lines is that many consecutive Rx steps.  A callback *)
(* that makes a request is that request made just after the step: no code  *)
(* reads what a request writes between the callback and the return.        *)
(***************************************************************************)
EXTENDS Integers, Sequences

CONSTANTS
  Numbers,       \* recipients that can be asked for, and senders of messages
  BadNumbers,    \* those among them PDU::setAddress refuses (not a number)
  Texts,         \* texts that can be sent or received
  Length,        \* [Texts -> Nat], length of a text, in an abstract unit
  SplitsOf,      \* [Texts -> Seq(Nat)], offsets PDU::checkMultipart cuts at
  Codes,         \* USSD codes and USSD answers
  Refs,          \* concatenation references of received messages, 0 is none
  ByteMax,       \* largest uint8_t (255)
  NoValue,       \* the empty string, and memory that was never written
  MaxFragments,  \* bound: decoded pieces message_ may hold in the model
  HasPin,        \* a pin_code is configured
  HasPowerPin,   \* a power_pin is configured
  Lines,         \* the lines this environment may send
  Api,           \* the requests this environment may make
  Patient        \* callers wait for an SMS or a call set-up to end before
                 \* they ask for the next one

VARIABLES
  state, expect_ack, current_cmd,
  sent,                    \* last_tx_ > 0: something was ever written
  heard,                   \* last_rx_ > 0: a line was ever read
  modem_ready, power_on,   \* power_on: power_cycle_ > 0, the pin is high
  init_done, pin_accepted, pin_required, sim8xx,
  registered, registration_required,
  call_state,
  pending,                 \* the *_pending_ flags that are set
  debug, recipient, outgoing_message, ussd,
  splits, partnum,         \* outgoing_splits_, outgoing_partnum_
  submitted,               \* history: parts written since the last split
  cmcs, sender, message, parse_index, parse_stat,
  mixed,                   \* history: a piece kept was not filed as its own
  pdu,                     \* the PDU object: work buffer, sender, reference
  tx,                      \* what the last step wrote to the UART
  event,                   \* the callback the last step called, or "none"
  msg_mode                 \* history: argument of the last AT+CMGF written,
                           \* or AnyMode, after a command of the user

session  == <<state, expect_ack, current_cmd>>
link     == <<heard, modem_ready, power_on>>
sim      == <<init_done, pin_accepted, pin_required, sim8xx>>
net      == <<registered, registration_required>>
request  == <<debug, recipient, outgoing_message, ussd>>
outgoing == <<splits, partnum, submitted>>
inbox    == <<cmcs, sender, message, parse_index, parse_stat, mixed>>
output   == <<sent, tx, event, msg_mode>>
vars == <<session, link, sim, net, call_state, pending, request, outgoing,
          inbox, pdu, output>>

\* What only the flows and the requests change.
data == <<sim, net, call_state, pending, request, outgoing, inbox, pdu>>

-----------------------------------------------------------------------------
(* Values. *)

\* The members of enum State that some assignment of the code reaches.
\* STATE_CSQ, STATE_SETUP_CLIP, STATE_SETUP_USSD and STATE_RECEIVED_SMS are
\* never assigned to state_.  ABORTED is the program after std::abort.
State == {"IDLE", "INIT", "INIT2", "MODEM_WAIT", "MODEM_DETECT", "PIN_WAIT",
          "REG_WAIT", "SENDING_SMS", "SENDING_SMS_1", "SENDING_SMS_2",
          "SENDING_SMS_3", "SENDING_SMS_4", "SENDING_SMS_5", "CHECK_SMS",
          "CHECK_SMS1", "PARSE_SMS_RESPONSE", "RECEIVE_SMS", "DIALING1",
          "DIALING2", "SEND_USSD1", "SEND_USSD2", "SEND_USSD3", "ABORTED"}

CallState == {"ACTIVE", "HELD", "DIALING", "ALERTING", "INCOMING", "WAITING",
              "DISCONNECTED"}

Flag == {"send", "dial", "connect", "disconnect", "send_ussd", "send_at",
         "incoming_message", "message_cleanup"}

\* What is written: command lines, and texts that end in CTRL-Z ("^Z").
Cmd == {"ATE0", "AT+CGMM", "AT+CPIN?", "AT+CPIN=", "AT+CREG?", "AT+CREG=1",
        "AT+CSQ", "AT+CMGF=0", "AT+CMGF=1", "AT+CMGL=4", "AT+CMGD=",
        "AT+CLCC", "ATA", "AT+CHUP", "ATD", "AT+CSCS=GSM", "AT+CSCA?",
        "AT+CMGS=", "BODY^Z", "AT+CSCS=?", "AT+CUSD=1", "AT+CMEE=2^Z", "^Z",
        "USER"}

\* The callbacks (on_sms_send_failed is never called).
Event == {"none", "sms_sent", "sms_received", "ussd_received",
          "incoming_call", "call_connected", "call_disconnected"}

\* A part of an outgoing message as encodePDU leaves it in the work buffer:
\* the octets from begin up to end of the text, addressed to a number.
Part == [to : Numbers, text : Texts, begin : Nat, end : Nat]

\* What the work buffer may hold: a text decoded from a received PDU, or the
\* encoded part that was sent last.
Fragment == Texts \cup Part \cup {NoValue}

\* What a user's command leaves: AT+CMGF of either kind may have been in it.
AnyMode == 2

\* The lines parse_cmd_ tells apart.  IGNORED stands for those it returns on
\* without any effect ("PB DONE", +CSQ, +CLIP, RING, "NO CARRIER", a +CREG
\* shorter than 10), OTHER for any line it has no comparison for.  PDU is the
\* body of a message listed by AT+CMGL.  Its ref is NoValue if it has a header
\* that names no reference.  If ok is FALSE PDU::decodePDU gives up on an
\* address; an address without a digit, where from is NoValue, it has copied.
Line ==
       [k : {"OK", "ERROR", "CMEERROR", "ATREADY", "IGNORED", "CMTI", "CSCA",
             "PROMPT", "CMGS", "SIM868", "OTHER"}]
  \cup [k : {"CPIN"}, ready : BOOLEAN]
  \cup [k : {"CREG"}, n : {0, 1}, reg : BOOLEAN]
  \cup [k : {"CUSD"}, code : Codes]
  \cup [k : {"CLCC"}, stat : CallState]
  \cup [k : {"ECHO"}, cmd : Cmd]
  \cup [k : {"CMGL"}, idx : 0..ByteMax, stat : {0, 1}]
  \cup [k : {"PDU"}, ok : BOOLEAN, from : Numbers \cup {NoValue},
      ref : Refs \cup {NoValue}, text : Texts \cup {NoValue}]

ASSUME ValuesAssumption ==
  /\ BadNumbers \subseteq Numbers
  /\ Length \in [Texts -> Nat]
  /\ SplitsOf \in [Texts -> Seq(Nat)]
  /\ 0 \in Refs
  /\ ByteMax \in Nat \ {0}
  /\ MaxFragments \in Nat
  /\ Patient \in BOOLEAN
  /\ HasPin \in BOOLEAN
  /\ HasPowerPin \in BOOLEAN
  /\ Lines \subseteq Line
  /\ NoValue \notin Numbers \cup Texts \cup Codes \cup Cmd
  /\ NoValue \notin Refs
  /\ NoValue \notin Numbers \X Texts

\* No text is cut behind its end (CutsInText in SmsSplit_proofs says more).
ASSUME CutsAssumption ==
  \A t \in Texts : \A i \in DOMAIN SplitsOf[t] : SplitsOf[t][i] <= Length[t]

-----------------------------------------------------------------------------
(* Initial state: value-initialised members, then setup(). *)

Init ==
  /\ state = "IDLE" /\ expect_ack = FALSE /\ current_cmd = NoValue
  /\ sent = FALSE /\ heard = FALSE /\ modem_ready = FALSE /\ power_on = FALSE
  /\ init_done = FALSE /\ pin_accepted = FALSE /\ pin_required = FALSE
  /\ sim8xx = FALSE /\ registered = FALSE /\ registration_required = FALSE
  /\ call_state = "DISCONNECTED" /\ pending = {} /\ debug = FALSE
  /\ recipient = NoValue /\ outgoing_message = NoValue /\ ussd = NoValue
  /\ splits = <<>> /\ partnum = 0 /\ submitted = <<>>
  /\ cmcs = 0 /\ sender = NoValue /\ message = <<>>
  /\ parse_index = 0 /\ parse_stat = 0 /\ mixed = FALSE
  /\ pdu = [buf |-> NoValue, from |-> NoValue, ref |-> 0]
  /\ tx = <<>> /\ event = "none" /\ msg_mode = 0

-----------------------------------------------------------------------------
(* Writing to the UART. *)

\* The step writes the given texts.
Write(cmds, next) ==
  /\ tx' = cmds
  /\ state' = next
  /\ sent' = TRUE
  /\ event' = "none"
  /\ msg_mode' = CASE cmds = <<"AT+CMGF=0">> -> 0
                   [] cmds = <<"AT+CMGF=1">> -> 1
                   [] cmds = <<"USER">>      -> AnyMode
                   [] OTHER -> msg_mode

\* Leaves expect_ack to the caller, as the code does.
send_cmd(cmd, next) == Write(<<cmd>>, next) /\ current_cmd' = NoValue

send_cmd_ack(cmd, next) ==
  /\ Write(<<cmd>>, next)
  /\ expect_ack' = TRUE
  /\ current_cmd' = cmd

send_cmd_ctrlz(cmd, next) == Write(<<cmd>>, next) /\ current_cmd' = NoValue

\* The step writes nothing and calls the callback e, or none.
Silent(e) == tx' = <<>> /\ event' = e /\ UNCHANGED <<sent, msg_mode>>

-----------------------------------------------------------------------------
(* loop(), the part before a line is read.  power_on drops in any call of  *)
(* loop() once the pulse is over (power_blink).                            *)

Unblink == power_on' \in {power_on, FALSE}

AwaitingModem == state = "MODEM_WAIT" /\ modem_ready

\* "Modem initialized", or no *ATREADY within modem_init_timeout.
LeaveModemWait ==
  /\ state = "MODEM_WAIT"
  /\ state' = "IDLE" /\ sent' = TRUE
  /\ Unblink
  /\ tx' = <<>> /\ event' = "none"
  /\ UNCHANGED <<expect_ack, current_cmd, heard, modem_ready, data, msg_mode>>

\* Mutant of RxTimeout: the power cycle keeps the lost acknowledgement.
RxTimeout_KeepAck ==
  /\ state # "MODEM_WAIT" /\ sent /\ ~heard
  /\ modem_ready' = FALSE
  /\ IF HasPowerPin
     THEN power_on' = TRUE /\ state' = "MODEM_WAIT" /\ UNCHANGED expect_ack
     ELSE UNCHANGED <<power_on, expect_ack, state>>
  /\ Silent("none")
  /\ UNCHANGED <<current_cmd, heard, data>>

\* rx_timeout: something was written and no line was ever read.
RxTimeout ==
  /\ state # "MODEM_WAIT" /\ sent /\ ~heard
  /\ modem_ready' = FALSE
  /\ IF HasPowerPin
     THEN power_on' = TRUE /\ expect_ack' = FALSE /\ state' = "MODEM_WAIT"
     ELSE UNCHANGED <<power_on, expect_ack, state>>
  /\ Silent("none")
  /\ UNCHANGED <<current_cmd, heard, data>>

\* idle_timeout.  It is longer than rx_timeout, so a line was read before.
\* expect_ack stays as it is.
IdleTimeout ==
  /\ state \notin {"MODEM_WAIT", "PIN_WAIT"} /\ sent /\ heard /\ ~debug
  /\ send_cmd_ctrlz("^Z", "IDLE")
  /\ Unblink
  /\ UNCHANGED <<expect_ack, heard, modem_ready, data>>

-----------------------------------------------------------------------------
(* loop(), the part that writes.  No input is left and no acknowledgement  *)
(* is expected.                                                            *)

MayWrite ==
  /\ ~expect_ack /\ ~AwaitingModem
  /\ Unblink
  /\ UNCHANGED <<heard, modem_ready, call_state, outgoing, pdu>>

\* A user's command goes first: in idle, and in any state in debug mode.
UserTurn == "send_at" \in pending /\ (state = "IDLE" \/ debug)

SendAt ==
  /\ MayWrite /\ UserTurn
  /\ pending' = pending \ {"send_at"}
  /\ send_cmd_ack("USER", "IDLE")
  /\ UNCHANGED <<sim, net, request, inbox>>

_periodic_check_ ==
  IF init_done THEN send_cmd_ack("AT+CREG?", "REG_WAIT")
               ELSE send_cmd_ack("ATE0", "INIT")

\* Mutant of EnterPin: the request for the PIN stays set.
EnterPin_Again ==
  /\ MayWrite /\ ~UserTurn /\ state = "PIN_WAIT" /\ pin_required
  /\ IF HasPin THEN send_cmd_ack("AT+CPIN=", "PIN_WAIT")
               ELSE Silent("none") /\ UNCHANGED session
  /\ UNCHANGED <<sim, net, pending, request, inbox>>

EnterPin ==
  /\ MayWrite /\ ~UserTurn /\ state = "PIN_WAIT" /\ pin_required
  /\ pin_required' = FALSE
  /\ IF HasPin THEN send_cmd_ack("AT+CPIN=", "PIN_WAIT")
               ELSE Silent("none") /\ UNCHANGED session
  /\ UNCHANGED <<init_done, pin_accepted, sim8xx, net, pending, request, inbox>>

PinDone ==
  /\ MayWrite /\ ~UserTurn /\ state = "PIN_WAIT"
  /\ ~pin_required /\ pin_accepted
  /\ _periodic_check_
  /\ UNCHANGED <<sim, net, pending, request, inbox>>

EnableRegistration ==
  /\ MayWrite /\ ~UserTurn /\ state = "REG_WAIT" /\ registration_required
  /\ registration_required' = FALSE
  /\ send_cmd_ack("AT+CREG=1", "IDLE")
  /\ UNCHANGED <<sim, registered, pending, request, inbox>>

Registered ==
  /\ MayWrite /\ ~UserTurn /\ state = "REG_WAIT"
  /\ ~registration_required /\ registered
  /\ send_cmd_ack("AT+CSQ", "CHECK_SMS")
  /\ UNCHANGED <<sim, net, pending, request, inbox>>

\* The order in which loop() looks at the flags in idle.
CallFlags == {"connect", "disconnect", "dial"}

\* Mutant of Before: the cleanup no longer goes before a USSD request.
Before_UssdFirst ==
  [connect          |-> {},
   disconnect       |-> {"connect"},
   dial             |-> {"connect", "disconnect"},
   incoming_message |-> CallFlags,
   send             |-> CallFlags \cup {"incoming_message"},
   message_cleanup  |-> CallFlags \cup {"incoming_message", "send"},
   send_ussd        |-> CallFlags \cup {"incoming_message", "send"}]

Before ==
  [connect          |-> {},
   disconnect       |-> {"connect"},
   dial             |-> {"connect", "disconnect"},
   incoming_message |-> CallFlags,
   send             |-> CallFlags \cup {"incoming_message"},
   message_cleanup  |-> CallFlags \cup {"incoming_message", "send"},
   send_ussd        |-> CallFlags \cup {"incoming_message", "send",
                                        "message_cleanup"}]

IdleTurn ==
  /\ MayWrite /\ ~UserTurn /\ state = "IDLE" /\ registered
  /\ UNCHANGED <<sim, net, request>>

First(flag) ==
  /\ flag \in pending
  /\ pending \cap Before[flag] = {}
  /\ flag \notin CallFlags => call_state = "DISCONNECTED"

\* The branch of one request: the flag is cleared, then the command goes out
\* or the request is dropped.
Take(flag, accepted, cmd, next) ==
  /\ IdleTurn /\ First(flag)
  /\ pending' = pending \ {flag}
  /\ IF accepted THEN send_cmd_ack(cmd, next)
                 ELSE Silent("none") /\ UNCHANGED session
  /\ UNCHANGED inbox

Connect    == Take("connect", call_state = "INCOMING", "ATA", "IDLE")
Disconnect == Take("disconnect", call_state # "DISCONNECTED", "AT+CHUP", "IDLE")
Dial       == Take("dial", call_state = "DISCONNECTED", "AT+CSCS=GSM", "DIALING1")
ReadSms    == Take("incoming_message", TRUE, "AT+CMGF=0", "CHECK_SMS1")
SendSms    == Take("send", TRUE, "AT+CSCS=GSM", "SENDING_SMS")
SendUssd   == Take("send_ussd", TRUE, "AT+CMGF=1", "SEND_USSD1")

\* call_check_interval has passed since the last poll.
PollCall ==
  /\ IdleTurn /\ pending \cap CallFlags = {} /\ call_state # "DISCONNECTED"
  /\ send_cmd_ack("AT+CLCC", "IDLE")
  /\ UNCHANGED <<pending, inbox>>

\* Mutant of Cleanup: the index is not a byte.
Cleanup_Signed ==
  /\ IdleTurn /\ First("message_cleanup")
  /\ send_cmd_ack("AT+CMGD=", IF parse_index = 1 THEN "CHECK_SMS1" ELSE "IDLE")
  /\ pending' = pending \ (IF parse_index = 1 THEN {"message_cleanup"} ELSE {})
  /\ parse_index' = parse_index - 1
  /\ UNCHANGED <<cmcs, sender, message, parse_stat, mixed>>

\* AT+CMGD= parse_index; --parse_index is a uint8_t and wraps.
Cleanup ==
  /\ IdleTurn /\ First("message_cleanup")
  /\ IF parse_index = 1
     THEN /\ send_cmd_ack("AT+CMGD=", "CHECK_SMS1")
          /\ pending' = pending \ {"message_cleanup"}
     ELSE send_cmd_ack("AT+CMGD=", "IDLE") /\ UNCHANGED pending
  /\ parse_index' = IF parse_index = 0 THEN ByteMax ELSE parse_index - 1
  /\ UNCHANGED <<cmcs, sender, message, parse_stat, mixed>>

\* Mutant of Update: a poll does not wait for the acknowledgement.
Update_NoAckGuard ==
  /\ state = "IDLE" /\ call_state = "DISCONNECTED" /\ ~debug
  /\ _periodic_check_
  /\ UNCHANGED <<link, data>>

\* Mutant of Update: a poll breaks into a flow.
Update_NoStateGuard ==
  /\ ~expect_ack /\ call_state = "DISCONNECTED" /\ ~debug
  /\ _periodic_check_
  /\ UNCHANGED <<link, data>>

\* update(), the polling callback.
Update ==
  /\ state = "IDLE" /\ ~expect_ack /\ call_state = "DISCONNECTED" /\ ~debug
  /\ _periodic_check_
  /\ UNCHANGED <<link, data>>

-----------------------------------------------------------------------------
(* parse_cmd_(), the notifications: lines that never reach the flow.       *)

OnIgnored(l) ==
  /\ l.k \in {"IGNORED", "ATREADY"} \/ (l.k = "ECHO" /\ l.cmd = current_cmd)
  /\ Silent("none")
  /\ UNCHANGED <<session, data>>

OnCpin(l) ==
  /\ l.k = "CPIN" /\ init_done
  /\ pin_accepted' = l.ready
  /\ pin_required' = ~l.ready
  /\ Silent("none")
  /\ UNCHANGED <<session, init_done, sim8xx, net, call_state, pending, request,
                 outgoing, inbox, pdu>>

OnCreg(l) ==
  /\ l.k = "CREG"
  /\ registered' = l.reg
  /\ registration_required' = (registration_required \/ (~l.reg /\ l.n = 0))
  /\ Silent("none")
  /\ UNCHANGED <<session, sim, call_state, pending, request, outgoing, inbox,
                 pdu>>

OnCmti(l) ==
  /\ l.k = "CMTI" /\ ~debug
  /\ pending' = pending \cup {"incoming_message"}
  /\ Silent("none")
  /\ UNCHANGED <<session, sim, net, call_state, request, outgoing, inbox, pdu>>

OnCusd(l) ==
  /\ l.k = "CUSD"
  /\ ussd' = l.code
  /\ Silent("ussd_received")
  /\ UNCHANGED <<session, sim, net, call_state, pending, debug, recipient,
                 outgoing_message, outgoing, inbox, pdu>>

\* Mutant of OnClcc: the state of the call is not looked at during a command.
OnClcc_Quiet(l) ==
  /\ l.k = "CLCC"
  /\ call_state' = IF expect_ack THEN call_state ELSE l.stat
  /\ Silent("none")
  /\ UNCHANGED <<session, sim, net, pending, request, outgoing, inbox, pdu>>

OnClcc(l) ==
  /\ l.k = "CLCC"
  /\ call_state' = l.stat
  /\ Silent(IF l.stat = call_state THEN "none"
            ELSE CASE l.stat = "INCOMING"     -> "incoming_call"
                   [] l.stat = "ACTIVE"       -> "call_connected"
                   [] l.stat = "DISCONNECTED" -> "call_disconnected"
                   [] OTHER                   -> "none")
  /\ UNCHANGED <<session, sim, net, pending, request, outgoing, inbox, pdu>>

Notification(l) == \/ OnIgnored(l) \/ OnCpin(l) \/ OnCreg(l)
                   \/ OnCmti(l) \/ OnCusd(l) \/ OnClcc(l)

\* The lines that get past the notifications.
Solicited(l) ==
  /\ l.k \notin {"IGNORED", "ATREADY", "CREG", "CUSD", "CLCC"}
  /\ l.k = "CPIN" => ~init_done
  /\ l.k = "CMTI" => debug
  /\ l.k = "ECHO" => l.cmd # current_cmd

-----------------------------------------------------------------------------
(* parse_cmd_(), the acknowledgement.                                      *)

\* ERROR and any unexpected line go to idle; +CME ERROR stays in the state.
AckFails(l) ==
  /\ expect_ack /\ l.k # "OK"
  /\ expect_ack' = FALSE
  /\ current_cmd' = NoValue
  /\ state' = IF l.k = "CMEERROR" THEN state ELSE "IDLE"
  /\ Silent("none")
  /\ UNCHANGED data

-----------------------------------------------------------------------------
(* parse_cmd_(), switch (state_).  Here expect_ack_ has been cleared, and  *)
(* current_cmd_ too if an acknowledgement was expected.                    *)

Acknowledged(again) ==
  /\ expect_ack' = again
  /\ current_cmd' = IF expect_ack THEN NoValue ELSE current_cmd

\* Go to a state without writing.  again: expect the OK that ends the reply.
Goto(next, again, e) == state' = next /\ Acknowledged(again) /\ Silent(e)

\* Write the next command of the flow, with or without an acknowledgement.
\* (Mutant of NextCmd: an acknowledgement is expected where data comes first.)
NextCmd_Ack(cmd, next) == send_cmd_ack(cmd, next)
NextCmd(cmd, next)    == send_cmd(cmd, next) /\ expect_ack' = FALSE
NextCmdAck(cmd, next) == send_cmd_ack(cmd, next)

InWaitState(l) ==
  /\ state \in {"IDLE", "MODEM_WAIT", "REG_WAIT", "PIN_WAIT"}
  /\ Goto(state, FALSE, "none")
  /\ UNCHANGED <<sim, net, request, outgoing, inbox, pdu, pending>>

InInit(l) ==
  /\ \/ /\ state = "INIT"
        /\ init_done' = TRUE
        /\ NextCmd("AT+CGMM", "MODEM_DETECT")
        /\ UNCHANGED sim8xx
     \/ /\ state = "MODEM_DETECT"
        /\ sim8xx' = (sim8xx \/ l.k = "SIM868")
        /\ Goto("INIT2", TRUE, "none")
        /\ UNCHANGED init_done
     \/ /\ state = "INIT2"
        /\ NextCmdAck("AT+CPIN?", "PIN_WAIT")
        /\ UNCHANGED <<init_done, sim8xx>>
  /\ UNCHANGED <<pin_accepted, pin_required, net, request, outgoing, inbox,
                 pdu, pending>>

\* _error_out_()
ErrorOut ==
  /\ registered' = FALSE
  /\ send_cmd_ctrlz("AT+CMEE=2^Z", "IDLE")
  /\ expect_ack' = FALSE

InDialing(l) ==
  /\ \/ state = "DIALING1" /\ NextCmd("ATD", "DIALING2") /\ UNCHANGED registered
     \/ /\ state = "DIALING2" /\ l.k = "OK"
        /\ Goto("IDLE", FALSE, "none")
        /\ UNCHANGED registered
     \/ state = "DIALING2" /\ l.k # "OK" /\ ErrorOut
  /\ UNCHANGED <<sim, registration_required, request, outgoing, inbox, pdu,
                 pending>>

InUssd(l) ==
  /\ \/ /\ state = "SEND_USSD1" /\ NextCmdAck("AT+CSCS=?", "SEND_USSD2")
        /\ UNCHANGED registered
     \/ /\ state = "SEND_USSD2" /\ NextCmdAck("AT+CUSD=1", "SEND_USSD3")
        /\ UNCHANGED registered
     \/ /\ state = "SEND_USSD3" /\ l.k = "OK"
        /\ Goto("IDLE", FALSE, "none")
        /\ UNCHANGED registered
     \/ state = "SEND_USSD3" /\ l.k # "OK" /\ ErrorOut
  /\ UNCHANGED <<sim, registration_required, request, outgoing, inbox, pdu,
                 pending>>

-----------------------------------------------------------------------------
(* Receiving messages. *)

\* _parse_sms_header_()
\* (Mutant of Header: a message listed before counts as unread.)
Header_AllUnread(l) == parse_index' = l.idx /\ parse_stat' = 0
Header(l) == parse_index' = l.idx /\ parse_stat' = l.stat

\* _list_sms_messages_() after the mode is set, and the end of a listing that
\* has no message.
InListing(l) ==
  /\ \/ /\ state = "CHECK_SMS" /\ NextCmdAck("AT+CMGF=0", "CHECK_SMS1")
        /\ UNCHANGED <<parse_index, parse_stat>>
     \/ /\ state = "CHECK_SMS1" /\ NextCmd("AT+CMGL=4", "PARSE_SMS_RESPONSE")
        /\ parse_index' = 0
        /\ UNCHANGED parse_stat
     \/ /\ state = "PARSE_SMS_RESPONSE" /\ l.k = "CMGL"
        /\ Header(l)
        /\ Goto("RECEIVE_SMS", FALSE, "none")
     \/ /\ state = "PARSE_SMS_RESPONSE" /\ l.k = "OK"
        /\ NextCmdAck("AT+CLCC", "IDLE")
        /\ UNCHANGED <<parse_index, parse_stat>>
     \/ /\ state = "PARSE_SMS_RESPONSE" /\ l.k \notin {"CMGL", "OK"}
        /\ Goto(state, FALSE, "none")
        /\ UNCHANGED <<parse_index, parse_stat>>
  /\ UNCHANGED <<sim, net, request, outgoing, cmcs, sender, message, mixed, pdu,
                 pending>>

\* The callback _handle_sms_message_() makes for the message kept so far.
\* (Mutant of Handled: one piece is not enough.)
Handled_Several == IF Len(message) > 1 THEN "sms_received" ELSE "none"
Handled == IF message # <<>> THEN "sms_received" ELSE "none"

\* The PDU object after decodePDU(line).  The result is not looked at: a line
\* that cannot be decoded leaves the text and the reference of whatever was
\* decoded or encoded last, and a header that names no reference leaves the
\* reference.
decodePDU(l) ==
  IF l.k = "PDU" /\ l.ok
  THEN [buf |-> l.text, from |-> l.from,
        ref |-> IF l.ref = NoValue THEN pdu.ref ELSE l.ref]
  ELSE IF l.k = "PDU" /\ l.from = NoValue THEN [pdu EXCEPT !.from = NoValue]
  ELSE pdu

\* The line is filed under the reference of another one, or with its text.
Stale(l) == \/ l.k # "PDU" \/ ~l.ok
            \/ l.ref = NoValue /\ pdu.ref # 0

\* Message parts are collected while the reference stays the same.
\* (Mutant of NewMessage: any part is taken for the next one.)
NewMessage_AnyRef(l) == cmcs = 0
NewMessage(l) == cmcs = 0 \/ cmcs # decodePDU(l).ref

\* message_ += text, where an empty text adds nothing.
Plus(msg, text) == IF text = NoValue THEN msg ELSE Append(msg, text)

\* _parse_sms_message_()
Collect(l) ==
  LET new == decodePDU(l) IN
  /\ message' = Plus(IF NewMessage(l) THEN <<>> ELSE message, new.buf)
  /\ Len(message') <= MaxFragments
  /\ sender' = new.from
  /\ cmcs' = new.ref
  /\ mixed' = (Stale(l) \/ (mixed /\ ~NewMessage(l)))
  /\ pdu' = new
  /\ Goto(state, FALSE, IF NewMessage(l) THEN Handled ELSE "none")

InReceiving(l) ==
  /\ state = "RECEIVE_SMS"
  /\ \/ /\ l.k = "CMGL"
        /\ Header(l)
        /\ Goto(state, FALSE, "none")
        /\ UNCHANGED <<cmcs, sender, message, mixed, pdu, pending>>
     \/ /\ l.k = "OK"
        /\ message' = <<>> /\ sender' = NoValue /\ cmcs' = 0 /\ mixed' = FALSE
        /\ pending' = pending \cup {"message_cleanup"}
        /\ Goto("IDLE", FALSE, Handled)
        /\ UNCHANGED <<parse_index, parse_stat, pdu>>
     \/ /\ l.k \notin {"CMGL", "OK"} /\ parse_stat = 0
        /\ Collect(l)
        /\ UNCHANGED <<parse_index, parse_stat, pending>>
     \/ /\ l.k \notin {"CMGL", "OK"} /\ parse_stat # 0
        /\ Goto(state, FALSE, "none")
        /\ UNCHANGED <<inbox, pdu, pending>>
  /\ UNCHANGED <<sim, net, request, outgoing>>

-----------------------------------------------------------------------------
(* Sending messages. *)

\* _prepare_sms_multipart_: where the text is cut.  For a number that cannot
\* be encoded checkMultipart consumes nothing, which leaves one cut at 0.
SplitsFor(to, text) == IF to \in BadNumbers THEN <<0>> ELSE SplitsOf[text]

\* Mutant of PrepareSplits: outgoing_splits_ is not cleared first.
PrepareSplits_NoClear ==
  /\ splits' = IF splits = <<>> THEN SplitsFor(recipient, outgoing_message)
                               ELSE splits
  /\ partnum' = IF splits' = <<>> THEN partnum ELSE 0
  /\ submitted' = <<>>

PrepareSplits ==
  /\ splits' = SplitsFor(recipient, outgoing_message)
  /\ partnum' = IF splits' = <<>> THEN partnum ELSE 0
  /\ submitted' = <<>>

\* _send_sms_send_header_: the cuts around the part to send next.
PartBegin == IF splits = <<>> \/ partnum = 0 THEN 0 ELSE splits[partnum]
PartEnd   == IF splits = <<>> \/ partnum >= Len(splits)
             THEN Length[outgoing_message]
             ELSE splits[partnum + 1]

Lesser(m, n) == IF m <= n THEN m ELSE n

\* substr() throws if the part begins behind the end of the text.
Substr == PartBegin <= Length[outgoing_message]

\* Texts and numbers are read off the members when the part is encoded.
EncodedPart == [to    |-> recipient,
                text  |-> outgoing_message,
                begin |-> PartBegin,
                end   |-> Lesser(PartEnd, Length[outgoing_message])]

CountPart == partnum' = IF splits = <<>> THEN partnum ELSE partnum + 1

\* A SIM8XX gets the body at once, an A76XX after its prompt.
SendHeader ==
  /\ state = "SENDING_SMS_3" /\ Substr /\ recipient \notin BadNumbers
  /\ pdu' = [pdu EXCEPT !.buf = EncodedPart]
  /\ CountPart
  /\ expect_ack' = FALSE /\ current_cmd' = NoValue
  /\ IF sim8xx
     THEN /\ Write(<<"AT+CMGS=", "BODY^Z">>, "SENDING_SMS_5")
          /\ submitted' = Append(submitted, EncodedPart)
     ELSE Write(<<"AT+CMGS=">>, "SENDING_SMS_4") /\ UNCHANGED submitted
  /\ UNCHANGED splits

\* encodePDU refuses the number: the request ends here, without a callback.
EncodeFails ==
  /\ state = "SENDING_SMS_3" /\ Substr /\ recipient \in BadNumbers
  /\ CountPart
  /\ Goto("IDLE", FALSE, "none")
  /\ UNCHANGED <<splits, submitted, pdu>>

SubstrThrows ==
  /\ state = "SENDING_SMS_3" /\ ~Substr
  /\ Goto("ABORTED", FALSE, "none")
  /\ UNCHANGED <<outgoing, pdu>>

\* _send_sms_send_body_: getSMS() is the work buffer as it is now.
SendBody(l) ==
  /\ state = "SENDING_SMS_4" /\ l.k = "PROMPT"
  /\ send_cmd_ctrlz("BODY^Z", "SENDING_SMS_5")
  /\ expect_ack' = FALSE
  /\ submitted' = Append(submitted, pdu.buf)
  /\ UNCHANGED <<splits, partnum, pdu>>

\* Mutants of MoreParts: one part too many, one too few.
MoreParts_OneMore == splits # <<>> /\ partnum <= Len(splits) + 1
MoreParts_OneLess == splits # <<>> /\ partnum < Len(splits)

MoreParts == splits # <<>> /\ partnum <= Len(splits)

PartSent(l) ==
  /\ state = "SENDING_SMS_5" /\ l.k = "CMGS"
  /\ IF MoreParts
     THEN Goto("SENDING_SMS_3", TRUE, "none") /\ UNCHANGED <<splits, partnum>>
     ELSE /\ Goto("CHECK_SMS", TRUE, "sms_sent")
          /\ splits' = <<>>
          /\ partnum' = IF splits = <<>> THEN partnum ELSE 0
  /\ UNCHANGED <<submitted, pdu>>

AskCenter ==
  /\ state = "SENDING_SMS" /\ NextCmd("AT+CSCA?", "SENDING_SMS_1")
  /\ UNCHANGED <<outgoing, pdu>>

receive_csca(l) ==
  /\ state = "SENDING_SMS_1"
  /\ IF l.k = "CSCA" THEN Goto("SENDING_SMS_2", TRUE, "none")
                     ELSE Goto(state, FALSE, "none")
  /\ UNCHANGED <<outgoing, pdu>>

BeginParts ==
  /\ state = "SENDING_SMS_2" /\ PrepareSplits
  /\ NextCmdAck("AT+CMGF=0", "SENDING_SMS_3")
  /\ UNCHANGED pdu

KeepWaiting(l) ==
  /\ \/ state = "SENDING_SMS_4" /\ l.k # "PROMPT"
     \/ state = "SENDING_SMS_5" /\ l.k # "CMGS"
  /\ Goto(state, FALSE, "none")
  /\ UNCHANGED <<outgoing, pdu>>

InSending(l) ==
  /\ \/ AskCenter \/ receive_csca(l) \/ BeginParts
     \/ SendHeader \/ EncodeFails \/ SubstrThrows
     \/ SendBody(l) \/ PartSent(l) \/ KeepWaiting(l)
  /\ UNCHANGED <<sim, net, request, inbox, pending>>

-----------------------------------------------------------------------------
(* loop() with one complete line: last_rx_, then parse_cmd_(). *)

Dispatch(l) ==
  /\ expect_ack => l.k = "OK"
  /\ \/ InWaitState(l) \/ InInit(l) \/ InDialing(l) \/ InUssd(l)
     \/ InListing(l) \/ InReceiving(l) \/ InSending(l)
  /\ UNCHANGED call_state

parse_cmd_(l) ==
  \/ Notification(l)
  \/ Solicited(l) /\ (AckFails(l) \/ Dispatch(l))

Rx(l) ==
  /\ ~AwaitingModem
  /\ heard' = TRUE
  /\ modem_ready' = (modem_ready \/ l.k = "ATREADY")
  /\ Unblink
  /\ parse_cmd_(l)

-----------------------------------------------------------------------------
(* The public requests.  Each only stores what is asked for and a flag.    *)

OutgoingStates == {"SENDING_SMS", "SENDING_SMS_1", "SENDING_SMS_2",
                   "SENDING_SMS_3", "SENDING_SMS_4", "SENDING_SMS_5",
                   "DIALING1", "DIALING2"}

\* recipient_ and outgoing_message_ are in use.
InUse == state \in OutgoingStates \/ pending \cap {"send", "dial"} # {}

Request(name, flag) ==
  /\ name \in Api
  /\ pending' = pending \cup {flag}
  /\ Silent("none")
  /\ UNCHANGED <<session, link, sim, net, call_state, outgoing, inbox, pdu>>

send_sms(to, text) ==
  /\ Request("send_sms", "send") /\ (Patient => ~InUse)
  /\ recipient' = to /\ outgoing_message' = text
  /\ UNCHANGED <<debug, ussd>>

dial(to) ==
  /\ Request("dial", "dial") /\ (Patient => ~InUse)
  /\ recipient' = to
  /\ UNCHANGED <<debug, outgoing_message, ussd>>

send_ussd(code) ==
  /\ Request("send_ussd", "send_ussd")
  /\ ussd' = code
  /\ UNCHANGED <<debug, recipient, outgoing_message>>

send_at    == Request("send_at", "send_at")       /\ UNCHANGED request
connect    == Request("connect", "connect")       /\ UNCHANGED request
disconnect == Request("disconnect", "disconnect") /\ UNCHANGED request

set_debug ==
  /\ "set_debug" \in Api
  /\ debug' = ~debug
  /\ Silent("none")
  /\ UNCHANGED <<session, link, sim, net, call_state, pending, recipient,
                 outgoing_message, ussd, outgoing, inbox, pdu>>

-----------------------------------------------------------------------------
\* The node restarts after an abort, or at any time if the environment says so.
Restart ==
  /\ state = "ABORTED" \/ "restart" \in Api
  /\ state' = "IDLE" /\ expect_ack' = FALSE /\ current_cmd' = NoValue
  /\ sent' = FALSE /\ heard' = FALSE /\ modem_ready' = FALSE
  /\ power_on' = FALSE /\ init_done' = FALSE /\ pin_accepted' = FALSE
  /\ pin_required' = FALSE /\ sim8xx' = FALSE /\ registered' = FALSE
  /\ registration_required' = FALSE /\ call_state' = "DISCONNECTED"
  /\ pending' = {} /\ debug' = FALSE /\ recipient' = NoValue
  /\ outgoing_message' = NoValue /\ ussd' = NoValue /\ splits' = <<>>
  /\ partnum' = 0 /\ submitted' = <<>> /\ cmcs' = 0 /\ sender' = NoValue
  /\ message' = <<>> /\ parse_index' = 0 /\ parse_stat' = 0 /\ mixed' = FALSE
  /\ pdu' = [buf |-> NoValue, from |-> NoValue, ref |-> 0]
  /\ tx' = <<>> /\ event' = "none" /\ UNCHANGED msg_mode

Timers == LeaveModemWait \/ RxTimeout \/ IdleTimeout \/ Update

Loop == \/ SendAt \/ EnterPin \/ PinDone \/ EnableRegistration \/ Registered
        \/ Connect \/ Disconnect \/ Dial \/ PollCall
        \/ ReadSms \/ SendSms \/ Cleanup \/ SendUssd

Requests == \/ \E to \in Numbers, text \in Texts : send_sms(to, text)
            \/ \E to \in Numbers : dial(to)
            \/ \E code \in Codes : send_ussd(code)
            \/ send_at \/ connect \/ disconnect \/ set_debug

Next == \/ /\ state # "ABORTED"
           /\ Timers \/ Loop \/ Requests \/ \E l \in Lines : Rx(l)
        \/ Restart

Spec == Init /\ [][Next]_vars

-----------------------------------------------------------------------------
(* Properties. *)

FlagsOK ==
  /\ expect_ack \in BOOLEAN /\ sent \in BOOLEAN /\ heard \in BOOLEAN
  /\ modem_ready \in BOOLEAN /\ power_on \in BOOLEAN
  /\ init_done \in BOOLEAN /\ pin_accepted \in BOOLEAN
  /\ pin_required \in BOOLEAN /\ sim8xx \in BOOLEAN
  /\ registered \in BOOLEAN /\ registration_required \in BOOLEAN
  /\ debug \in BOOLEAN
SessionOK == state \in State /\ current_cmd \in Cmd \cup {NoValue}
RequestOK == /\ call_state \in CallState /\ pending \subseteq Flag
             /\ recipient \in Numbers \cup {NoValue}
             /\ outgoing_message \in Texts \cup {NoValue}
             /\ ussd \in Codes \cup {NoValue}
OutgoingOK == /\ splits \in Seq(Nat) /\ partnum \in Nat
              /\ submitted \in Seq(Fragment)
InboxOK == /\ cmcs \in Refs /\ sender \in Numbers \cup {NoValue}
           /\ message \in Seq(Fragment)
           /\ parse_index \in 0..ByteMax /\ parse_stat \in {0, 1}
           /\ mixed \in BOOLEAN
PduOK == pdu \in [buf : Fragment, from : Numbers \cup {NoValue}, ref : Refs]
OutputOK == /\ tx \in Seq(Cmd) /\ msg_mode \in {0, 1, AnyMode}
            /\ event \in Event

\* Every variable keeps to the values its member can have: parse_index_ is a
\* byte, the parts of a message are texts, and so on.
TypeOK == /\ FlagsOK /\ SessionOK /\ RequestOK /\ OutgoingOK
          /\ InboxOK /\ PduOK /\ OutputOK

\* In a state that waits for an information line no acknowledgement is
\* expected: parse_cmd_ would take the line for a failed acknowledgement and
\* drop the flow (the "Not ack" branch).  After a power cycle none is either.
DataStates == {"MODEM_WAIT", "MODEM_DETECT", "DIALING2", "SENDING_SMS_1",
               "SENDING_SMS_4", "SENDING_SMS_5", "PARSE_SMS_RESPONSE",
               "RECEIVE_SMS"}
AckDiscipline == expect_ack => state \notin DataStates

\* The part number stays inside outgoing_splits_ whenever
\* _send_sms_send_header_ can run next: std::next never walks past the end of
\* the list, whatever was asked for, answered or timed out before.
SplitsInRange ==
  splits # <<>> => /\ state = "SENDING_SMS_3" => partnum <= Len(splits)
                   /\ state \in {"SENDING_SMS_4", "SENDING_SMS_5"}
                        => partnum \in 1..(Len(splits) + 1)

\* Messages are sent in PDU mode, and listed, read and deleted in a mode that
\* is not the text mode send_ussd has set: nothing switches back.  A command of
\* the user may set any mode, and goes before a pending cleanup: the listing
\* behind the cleanup (a7670.cpp:263) is then in the mode the user chose.
SendStates == {"SENDING_SMS_3", "SENDING_SMS_4", "SENDING_SMS_5"}
ListStates == {"CHECK_SMS1", "PARSE_SMS_RESPONSE", "RECEIVE_SMS"}
PduMode ==
  /\ state \in SendStates => msg_mode = 0
  /\ state \in ListStates \/ "message_cleanup" \in pending => msg_mode # 1

\* While the acknowledgement of a command that starts or ends a flow is
\* outstanding, nothing is written but the CTRL-Z of the idle timeout.  In the
\* other states the acknowledgement itself makes parse_cmd_ write.
RestStates == {"IDLE", "PIN_WAIT", "REG_WAIT"}
OneOutstanding ==
  [][expect_ack /\ state \in RestStates => tx' \in {<<>>, <<"^Z">>}]_vars

\* Between AT+CMGS= and the prompt, and until the message is taken, only the
\* body or the CTRL-Z of a timeout is written: any other command would become
\* part of the message.  A user in debug mode may still break in.
PromptSilence ==
  [][~debug /\ state \in {"SENDING_SMS_4", "SENDING_SMS_5"}
       => tx' \in {<<>>, <<"^Z">>, <<"BODY^Z">>}]_vars

\* The parts that carry one text to one number, in the order of the cuts.
PartsOf(to, text) ==
  LET cuts == SplitsFor(to, text)
      n    == Len(cuts)
  IN [i \in 1..(n + 1) |->
       [to    |-> to, text |-> text,
        begin |-> IF i = 1 THEN 0 ELSE cuts[i - 1],
        end   |-> IF i = n + 1 THEN Length[text] ELSE cuts[i]]]

\* Asking for, sending and reporting a text is what SmsSending describes, for a
\* caller who waits: on_sms_sent is called for a text only when exactly its
\* parts were written, each once, in order and to its recipient.
BodyStates == {"SENDING_SMS_3", "SENDING_SMS_4", "SENDING_SMS_5"}
SmsStates == {"SENDING_SMS", "SENDING_SMS_1", "SENDING_SMS_2",
              "SENDING_SMS_3", "SENDING_SMS_4", "SENDING_SMS_5"}
Job == <<recipient, outgoing_message>>
Sending == INSTANCE SmsSending
  WITH Jobs   <- Numbers \X Texts,
       Parts  <- [j \in Numbers \X Texts |-> PartsOf(j[1], j[2])],
       Nobody <- NoValue,
       asked  <- IF "send" \in pending THEN Job ELSE NoValue,
       job    <- IF state \in SmsStates THEN Job ELSE NoValue,
       out    <- IF state \in BodyStates THEN submitted ELSE <<>>,
       told   <- event = "sms_sent"
SendsAsAsked == Sending!SendingSpec

\* The parts of one multipart message all carry the same text to the same
\* number (a7670.cpp:539 "continue sending message parts").
ContinuesMessage ==
  \A i, j \in DOMAIN submitted : /\ submitted[i].to = submitted[j].to
                                 /\ submitted[i].text = submitted[j].text

\* substr() in _send_sms_send_header_ is never asked to begin behind the text.
NoAbort == state # "ABORTED"

\* on_sms_received is called with texts that the reported sender did send.
\* Not so when a piece was filed under what another line had left (mixed): a
\* header without a reference keeps the one of the last message, so that such a
\* message from one sender joins the parts of another (pdulib.cpp:835), and a
\* line that cannot be decoded stands for the text before it (a7670.cpp:695).
FromSender ==
  [][event' = "sms_received" /\ ~mixed
       => \A i \in DOMAIN message :
            \E l \in Lines : /\ l.k = "PDU"
                            /\ l.text = message[i] /\ l.from = sender]_vars
=============================================================================
