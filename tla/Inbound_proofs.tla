--------------------------- MODULE Inbound_proofs --------------------------
(***************************************************************************)
(* No text of a message is handed on twice, whatever is asked of the       *)
(* driver, whatever times out, and whatever breaks in.                     *)
(*                                                                         *)
(* What matters is on the line.  A listing that was cut short by a timeout *)
(* is still on its way, and two listings may follow each other; but a      *)
(* message is new (status 0) in one of them only, and until its body has   *)
(* been read it has not been kept.  Framed says how headers and bodies     *)
(* stand on the line, ShownOnce what the new bodies are, KeptOnce what has *)
(* been made of those that were read.                                      *)
(***************************************************************************)
EXTENDS ModemLink_proofs

\* A body the driver will take for new: behind a header with status 0, which
\* may have been read.
NewAt(i) ==
  /\ i \in DOMAIN up /\ up[i].k = "PDU"
  /\ IF i = 1 THEN state = "RECEIVE_SMS" /\ parse_stat = 0
              ELSE up[i - 1].k = "CMGL" /\ up[i - 1].stat = 0

\* Behind a header is its body, behind a body the next header or the OK.
Follows(q, i) == /\ q[i].k = "CMGL" => i + 1 \in DOMAIN q /\ q[i + 1].k = "PDU"
                 /\ q[i].k = "PDU" => /\ q[i] \in Inbound
                                      /\ i + 1 \in DOMAIN q
                                      /\ q[i + 1].k \in {"CMGL", "OK"}
InOrder(q) == \A i \in DOMAIN q : Follows(q, i)

Framed ==
  /\ InOrder(up)
  /\ state = "RECEIVE_SMS" => up # <<>> /\ up[1].k \in {"PDU", "CMGL", "OK"}

\* m has been listed: if it is still stored, the next listing has it as read.
Seen(m) == m \in arrived /\ \A s \in 1..Slots : store[s] = m => s \in read

\* The driver keeps the text of m, or has handed it on.
InMessage(m)   == sender = m.from /\ \E a \in DOMAIN message : message[a] = m.text
InDelivered(m) == \E i \in DOMAIN delivered :
                    /\ delivered[i].from = m.from
                    /\ \E a \in DOMAIN delivered[i].parts :
                         delivered[i].parts[a] = m.text

ShownOnce ==
  \A i \in DOMAIN up : NewAt(i) =>
    /\ Seen(up[i]) /\ ~InMessage(up[i]) /\ ~InDelivered(up[i])
    /\ \A j \in DOMAIN up : NewAt(j) /\ up[j] = up[i] => i = j

StoredOnce ==
  /\ arrived \subseteq Inbound
  /\ \A s \in 1..Slots : store[s] # NoValue =>
       /\ store[s] \in arrived
       /\ \A t \in 1..Slots : store[t] = store[s] => s = t

\* What is kept was listed, has the reference it is kept for, is kept once and
\* has not been handed on; what was handed on was listed.
Source(text, from) ==
  \E m \in Inbound : m.text = text /\ m.from = from /\ Seen(m)
MessageOnce ==
  \A a \in DOMAIN message :
    /\ \E m \in Inbound : /\ m.text = message[a] /\ m.from = sender
                          /\ m.ref = cmcs /\ Seen(m)
    /\ \A b \in DOMAIN message : message[a] = message[b] => a = b
    /\ \A i \in DOMAIN delivered : delivered[i].from = sender =>
         \A b \in DOMAIN delivered[i].parts : delivered[i].parts[b] # message[a]
DeliveredSeen ==
  \A i \in DOMAIN delivered : \A a \in DOMAIN delivered[i].parts :
    Source(delivered[i].parts[a], delivered[i].from)

Call == [from : Numbers \cup {NoValue}, parts : Seq(Fragment)]

Once == /\ delivered \in Seq(Call)
        /\ Framed /\ ShownOnce /\ StoredOnce
        /\ MessageOnce /\ DeliveredSeen /\ NoDuplicates

\* Two messages from one sender have different texts, and parts with the same
\* reference have one sender (see OneSender).  Every message can be decoded and
\* names a reference or has no header: for others the driver takes what its work
\* buffer holds, or the reference of the message before.
Apart ==
  \A l, m \in Inbound :
    /\ l.ok /\ l.ref # NoValue
    /\ l.from = m.from /\ l.text = m.text => l = m
    /\ l.ref = m.ref /\ l.ref # 0 => l.from = m.from

Base == Inv /\ LinkOK

-----------------------------------------------------------------------------
(* The driver's invariant does not need patient callers, nor the types of  *)
(* the line.                                                               *)

LEMMA BaseInit == LinkInit => Base
  BY InitInv, InitLinkOK DEF LinkInit, Base

LEMMA BaseStep ==
  ASSUME Lines = Line, Base, [LinkNext]_joined
  PROVE  Base'
  <1>1. Inv'
    <2>1. CASE DriverReads
      <3>1. Head(up) \in Lines
        BY <2>1, HeadTail DEF DriverReads, Base, LinkOK
      <3>2. Rx(Head(up))
        BY <2>1 DEF DriverReads
      <3> QED BY <3>1, <3>2, RxInv DEF Base
    <2>2. CASE DriverWrites
      BY <2>2, LoopInv DEF DriverWrites, Driver, Base
    <2>3. CASE DriverPolls \/ DriverTimesOut
      BY <2>3, TimersInv DEF DriverPolls, DriverTimesOut, Driver, Timers, Base
    <2>4. CASE DriverAsked
      BY <2>4, RequestsInv DEF DriverAsked, Base
    <2>5. CASE ModemSteps \/ Outside \/ UNCHANGED joined
      BY <2>5, ModemStutters, StutterInv DEF joined, Base
    <2> QED BY <2>1, <2>2, <2>3, <2>4, <2>5 DEF LinkNext
  <1>2. LinkOK'
    BY <1>1, LinkOKStep DEF Base
  <1> QED BY <1>1, <1>2 DEF Base

-----------------------------------------------------------------------------
(* What the driver does between two lines, and what it does with a line. *)

\* Timers, writes and requests leave the line and what was read alone, and
\* none of them begins a listing.
LEMMA Between ==
  ASSUME DriverWrites \/ DriverPolls \/ DriverTimesOut \/ DriverAsked
  PROVE  /\ UNCHANGED <<up, delivered, store, read, arrived, message, sender, cmcs>>
         /\ state' = "RECEIVE_SMS" => state = "RECEIVE_SMS" /\ parse_stat' = parse_stat
  <1> USE DEF Driver, data, inbox, send_cmd_ack, send_cmd_ctrlz, Write, session,
      _periodic_check_
  <1>0. UNCHANGED <<up, delivered, store, read, arrived>>
    BY DEF DriverWrites, DriverPolls, DriverTimesOut, DriverAsked, modem, sms
  <1>1. CASE DriverPolls \/ DriverTimesOut
    BY <1>0, <1>1 DEF DriverPolls, DriverTimesOut, LeaveModemWait, RxTimeout,
       IdleTimeout, Update
  <1>2. CASE DriverAsked
    BY <1>0, <1>2 DEF DriverAsked, Requests, send_sms, dial, send_ussd, send_at,
       connect, disconnect, set_debug, Request
  <1>3. CASE DriverWrites
    <2>1. Loop
      BY <1>3 DEF DriverWrites
    <2>2. CASE SendAt \/ EnterPin \/ PinDone \/ EnableRegistration \/ Registered
      BY <1>0, <2>2 DEF SendAt, EnterPin, PinDone, EnableRegistration, Registered
    <2>3. CASE Connect \/ Disconnect \/ Dial \/ PollCall
      BY <1>0, <2>3 DEF Connect, Disconnect, Dial, PollCall, Take
    <2>4. CASE ReadSms \/ SendSms \/ Cleanup \/ SendUssd
      BY <1>0, <2>4 DEF ReadSms, SendSms, Cleanup, SendUssd, Take
    <2> QED BY <2>1, <2>2, <2>3, <2>4 DEF Loop
  <1> QED BY <1>1, <1>2, <1>3

\* What is done with the head l of the line, where a listing is concerned.
ReadHeader(l) ==
  /\ l.k = "CMGL" /\ state \in {"PARSE_SMS_RESPONSE", "RECEIVE_SMS"}
  /\ state' = "RECEIVE_SMS" /\ parse_stat' = l.stat
  /\ UNCHANGED <<cmcs, sender, message>> /\ event' # "sms_received"
ReadEnd(l) ==
  /\ l.k = "OK" /\ state = "RECEIVE_SMS" /\ state' = "IDLE"
  /\ message' = <<>> /\ event' = Handled
ReadNew(l) ==
  /\ l.k = "PDU" /\ state = "RECEIVE_SMS" /\ parse_stat = 0 /\ Collect(l)
ReadAgain(l) ==
  /\ l.k = "PDU" /\ state = "RECEIVE_SMS" /\ parse_stat # 0
  /\ UNCHANGED <<cmcs, sender, message>> /\ event' # "sms_received"
ReadOther ==
  /\ state # "RECEIVE_SMS" /\ state' # "RECEIVE_SMS"
  /\ UNCHANGED <<cmcs, sender, message>> /\ event' # "sms_received"

\* Outside a listing a line begins one or has nothing to do with messages.
LEMMA OutsideListing ==
  ASSUME NEW l, Rx(l), state # "RECEIVE_SMS"
  PROVE  ReadHeader(l) \/ ReadOther
  <1> USE DEF ReadOther, Silent, Goto, session, inbox
  <1>1. CASE Notification(l)
    <2>1. CASE OnIgnored(l) \/ OnCpin(l) \/ OnCreg(l) \/ OnCmti(l) \/ OnCusd(l)
      BY <2>1 DEF OnIgnored, OnCpin, OnCreg, OnCmti, OnCusd, data
    <2>2. CASE OnClcc(l)
      <3>1. UNCHANGED <<state, cmcs, sender, message>>
        BY <2>2 DEF OnClcc
      <3>2. event' # "sms_received"
        BY <2>2, Zenon DEF OnClcc
      <3> QED BY <3>1, <3>2
    <2> QED BY <1>1, <2>1, <2>2 DEF Notification
  <1>2. CASE AckFails(l)
    BY <1>2 DEF AckFails, data
  <1>3. CASE Dispatch(l)
    <2> USE DEF NextCmd, NextCmdAck, send_cmd, send_cmd_ack, send_cmd_ctrlz, Write
    <2>1. CASE InWaitState(l) \/ InInit(l) \/ InDialing(l) \/ InUssd(l)
      BY <2>1 DEF InWaitState, InInit, InDialing, InUssd, ErrorOut
    <2>2. CASE InListing(l)
      BY <2>2 DEF InListing, ReadHeader, Header
    <2>3. CASE InSending(l)
      BY <2>3 DEF InSending, AskCenter, receive_csca, BeginParts, SendHeader,
         EncodeFails, SubstrThrows, SendBody, PartSent, KeepWaiting
    <2> QED BY <1>3, <2>1, <2>2, <2>3 DEF Dispatch, InReceiving
  <1> QED BY <1>1, <1>2, <1>3 DEF Rx, parse_cmd_

\* In a listing the next line is one of the listing.
LEMMA InsideListing ==
  ASSUME Inv, NEW l, Rx(l), state = "RECEIVE_SMS", l.k \in {"PDU", "CMGL", "OK"}
  PROVE  ReadHeader(l) \/ ReadEnd(l) \/ ReadNew(l) \/ ReadAgain(l)
  <1>1. ~expect_ack
    BY DEF Inv, AckDiscipline, DataStates
  <1>2. ~Notification(l)
    BY DEF Notification, OnIgnored, OnCpin, OnCreg, OnCmti, OnCusd, OnClcc
  <1>3. InReceiving(l)
    BY <1>1, <1>2 DEF Rx, parse_cmd_, AckFails, Dispatch, InWaitState, InInit,
       InDialing, InUssd, InListing, InSending, AskCenter, receive_csca, BeginParts,
       SendHeader, EncodeFails, SubstrThrows, SendBody, PartSent, KeepWaiting
  <1> QED BY <1>3 DEF InReceiving, Header, Goto, Silent, ReadHeader, ReadEnd, ReadNew,
         ReadAgain, inbox

\* What reading changes besides: the line, and what was handed on.
LEMMA ReadLine ==
  ASSUME Base, Framed, DriverReads
  PROVE  /\ UNCHANGED <<store, read, arrived>>
         /\ delivered' = IF event' = "sms_received"
                         THEN Append(delivered, [from |-> sender, parts |-> message])
                         ELSE delivered
         /\ up # <<>> /\ up' = Tail(up) /\ up \in Seq(Line) /\ up[1] = Head(up)
         /\ \/ ReadHeader(up[1]) \/ ReadEnd(up[1]) \/ ReadNew(up[1])
            \/ ReadAgain(up[1]) \/ ReadOther
  <1>1. /\ UNCHANGED <<store, read, arrived>> /\ up # <<>> /\ up' = Tail(up)
        /\ Rx(Head(up))
        /\ delivered' = IF event' = "sms_received"
                        THEN Append(delivered, [from |-> sender, parts |-> message])
                        ELSE delivered
    BY DEF DriverReads, modem, sms
  <1>2. up \in Seq(Line) /\ up[1] = Head(up)
    BY <1>1, HeadTail DEF Base, LinkOK
  <1>3. CASE state = "RECEIVE_SMS"
    <2>1. up[1].k \in {"PDU", "CMGL", "OK"}
      BY <1>3 DEF Framed
    <2> QED BY <1>1, <1>2, <1>3, <2>1, InsideListing DEF Base
  <1>4. CASE state # "RECEIVE_SMS"
    BY <1>1, <1>2, <1>4, OutsideListing
  <1> QED BY <1>1, <1>2, <1>3, <1>4

-----------------------------------------------------------------------------
(* Steps of the driver. *)

LEMMA OnceInit == LinkInit => Once
  <1> SUFFICES ASSUME LinkInit PROVE Once
    OBVIOUS
  <1>1. up = <<>> /\ delivered = <<>> /\ message = <<>> /\ arrived = {}
        /\ \A s \in 1..Slots : store[s] = NoValue
    BY DEF LinkInit, Init
  <1>2. state # "RECEIVE_SMS"
    BY DEF LinkInit, Init
  <1> QED BY <1>1, <1>2 DEF Once, Framed, InOrder, ShownOnce, StoredOnce,
         MessageOnce, DeliveredSeen, NoDuplicates

\* A step that leaves the line, the store and what was read alone.
LEMMA OnceAlone ==
  ASSUME Once,
         UNCHANGED <<up, delivered, store, read, arrived, message, sender, cmcs>>,
         state' = "RECEIVE_SMS" => state = "RECEIVE_SMS" /\ parse_stat' = parse_stat
  PROVE  Once'
  <1>1. Framed'
    BY DEF Once, Framed, InOrder, Follows
  <1>2. \A m : (Seen(m)' <=> Seen(m)) /\ (InMessage(m)' <=> InMessage(m))
               /\ (InDelivered(m)' <=> InDelivered(m))
    BY DEF Seen, InMessage, InDelivered
  <1>3. ShownOnce'
    <2>1. \A i : NewAt(i)' => NewAt(i)
      BY DEF NewAt
    <2> QED BY <1>2, <2>1 DEF Once, ShownOnce
  <1>4. StoredOnce' /\ DeliveredSeen' /\ NoDuplicates'
    BY <1>2 DEF Once, StoredOnce, DeliveredSeen, Source, NoDuplicates
  <1>5. MessageOnce'
    BY <1>2 DEF Once, MessageOnce
  <1> QED BY <1>1, <1>3, <1>4, <1>5 DEF Once

\* Headers and bodies stay in order while the line is read from its head, and
\* no other body becomes new by that.
LEMMA ReadInOrder ==
  ASSUME Base, Once, DriverReads
  PROVE  /\ Framed'
         /\ \A i \in DOMAIN up' : i + 1 \in DOMAIN up /\ up'[i] = up[i + 1] /\ i \in Nat \ {0}
         /\ \A i \in DOMAIN up' : NewAt(i)' => NewAt(i + 1)
  <1>1. /\ up # <<>> /\ up' = Tail(up) /\ up \in Seq(Line)
        /\ \/ ReadHeader(up[1]) \/ ReadEnd(up[1]) \/ ReadNew(up[1])
           \/ ReadAgain(up[1]) \/ ReadOther
    BY ReadLine DEF Once
  <1>2. /\ up' \in Seq(Line) /\ 1 \in DOMAIN up
        /\ \A i \in DOMAIN up' : i + 1 \in DOMAIN up /\ up'[i] = up[i + 1]
        /\ \A i \in DOMAIN up : i # 1 => i - 1 \in DOMAIN up' /\ i = (i - 1) + 1
    BY <1>1, HeadTail
  <1>3. \A i \in DOMAIN up' : i \in Nat \ {0}
    BY <1>2
  <1>4. \A i \in DOMAIN up : Follows(up, i) /\ i \in Nat
    BY <1>1 DEF Once, Framed, InOrder
  <1>5. InOrder(up')
    <2> SUFFICES ASSUME NEW i \in DOMAIN up' PROVE Follows(up', i)
      BY DEF InOrder
    <2>1. i + 1 \in DOMAIN up /\ up'[i] = up[i + 1] /\ i \in Nat \ {0}
      BY <1>2, <1>3
    <2>2. Follows(up, i + 1)
      BY <1>4, <2>1
    <2>3. (i + 1) + 1 \in DOMAIN up => i + 1 \in DOMAIN up' /\ up'[i + 1] = up[(i + 1) + 1]
      <3>1. (i + 1) + 1 # 1 /\ ((i + 1) + 1) - 1 = i + 1
        BY <2>1
      <3> QED BY <1>2, <3>1
    <2> QED BY <2>1, <2>2, <2>3 DEF Follows
  <1>6. 2 \in DOMAIN up => 1 \in DOMAIN up' /\ up'[1] = up[2]
    BY <1>2
  <1>7. 1 \in DOMAIN up' => up' # <<>>
    BY <1>2
  <1>8. Follows(up, 1) /\ 1 + 1 = 2
    BY <1>2, <1>4
  <1>9. state' = "RECEIVE_SMS" => up' # <<>> /\ up'[1].k \in {"PDU", "CMGL", "OK"}
    BY <1>1, <1>6, <1>7, <1>8 DEF Follows, ReadHeader, ReadEnd, ReadNew, ReadAgain, ReadOther
  <1>10. ASSUME NEW i \in DOMAIN up', NewAt(i)' PROVE NewAt(i + 1)
    <2>1. i + 1 \in DOMAIN up /\ up'[i] = up[i + 1] /\ i \in Nat \ {0}
      BY <1>2, <1>3
    <2>2. CASE i = 1
      <3>1. state' = "RECEIVE_SMS" /\ parse_stat' = 0 /\ up[2].k = "PDU"
        BY <1>10, <2>1, <2>2 DEF NewAt
      <3>2. up[1].k = "CMGL" /\ up[1].stat = 0
        BY <1>1, <1>8, <3>1 DEF Follows, ReadHeader, ReadEnd, ReadNew, ReadAgain,
           ReadOther, Collect, Goto
      <3> QED BY <2>1, <2>2, <3>1, <3>2 DEF NewAt
    <2>3. CASE i # 1
      <3>1. i - 1 \in Nat \ {0} /\ (i - 1) + 1 = i /\ i - 1 \in DOMAIN up'
        BY <2>1, <2>3, <1>2
      <3>2. up'[i - 1] = up[i]
        BY <1>2, <3>1
      <3>3. up'[i].k = "PDU" /\ up'[i - 1].k = "CMGL" /\ up'[i - 1].stat = 0
        BY <1>10, <2>3 DEF NewAt
      <3>4. (i + 1) - 1 = i /\ i + 1 # 1
        BY <2>1
      <3> QED BY <2>1, <3>2, <3>3, <3>4 DEF NewAt
    <2> QED BY <2>2, <2>3
  <1> QED BY <1>2, <1>3, <1>5, <1>9, <1>10 DEF Framed

\* Handing on the message kept so far.
LEMMA HandOn ==
  ASSUME Base, Once, UNCHANGED <<store, read, arrived>>,
         delivered' = IF message # <<>>
                      THEN Append(delivered, [from |-> sender, parts |-> message])
                      ELSE delivered
  PROVE  /\ delivered' \in Seq(Call) /\ DeliveredSeen' /\ NoDuplicates'
         /\ \A m : InDelivered(m)' => InDelivered(m) \/ InMessage(m)
         /\ \A i \in DOMAIN delivered' : \/ i \in DOMAIN delivered /\ delivered'[i] = delivered[i]
                                         \/ delivered'[i] = [from |-> sender, parts |-> message]
  <1> DEFINE new == [from |-> sender, parts |-> message]
  <1>1. new \in Call /\ new.from = sender /\ new.parts = message /\ delivered \in Seq(Call)
    BY DEF Base, Inv, TypeOK, InboxOK, Call, Once
  <1> HIDE DEF new
  <1>2. delivered' = IF message # <<>> THEN Append(delivered, new) ELSE delivered
    BY DEF new
  <1>3. delivered' \in Seq(Call)
    BY <1>1, <1>2
  <1>4. /\ \A i \in DOMAIN delivered' : \/ i \in DOMAIN delivered /\ delivered'[i] = delivered[i]
                                        \/ i = Len(delivered) + 1 /\ delivered'[i] = new
    BY <1>1, <1>2
  <1>5. Len(delivered) + 1 \notin DOMAIN delivered
    BY <1>1
  <1>6. \A m : Seen(m)' <=> Seen(m)
    BY DEF Seen
  <1>7. \A a \in DOMAIN message : Source(message[a], sender)
    BY DEF Once, MessageOnce, Source
  <1>8. DeliveredSeen'
    <2> SUFFICES ASSUME NEW i \in DOMAIN delivered', NEW a \in DOMAIN delivered'[i].parts
                 PROVE  Source(delivered'[i].parts[a], delivered'[i].from)
      BY <1>6 DEF DeliveredSeen, Source
    <2>1. CASE i \in DOMAIN delivered /\ delivered'[i] = delivered[i]
      BY <2>1 DEF Once, DeliveredSeen
    <2>2. CASE delivered'[i] = new
      BY <1>1, <1>7, <2>2
    <2> QED BY <1>4, <2>1, <2>2
  <1>9. \A m : InDelivered(m)' => InDelivered(m) \/ InMessage(m)
    <2> SUFFICES ASSUME NEW m, NEW i \in DOMAIN delivered', delivered'[i].from = m.from,
                        NEW a \in DOMAIN delivered'[i].parts, delivered'[i].parts[a] = m.text
                 PROVE  InDelivered(m) \/ InMessage(m)
      BY DEF InDelivered
    <2> QED BY <1>1, <1>4 DEF InDelivered, InMessage
  <1>10. NoDuplicates'
    <2> SUFFICES ASSUME NEW i \in DOMAIN delivered', NEW j \in DOMAIN delivered',
                        NEW a \in DOMAIN delivered'[i].parts,
                        NEW b \in DOMAIN delivered'[j].parts,
                        delivered'[i].from = delivered'[j].from,
                        delivered'[i].parts[a] = delivered'[j].parts[b]
                 PROVE  i = j /\ a = b
      BY DEF NoDuplicates
    <2>0. \A c, d \in DOMAIN message : message[c] = message[d] => c = d
      BY DEF Once, MessageOnce
    <2>1. CASE /\ i \in DOMAIN delivered /\ delivered'[i] = delivered[i]
               /\ j \in DOMAIN delivered /\ delivered'[j] = delivered[j]
      BY <2>1 DEF Once, NoDuplicates
    <2>2. CASE /\ i \in DOMAIN delivered /\ delivered'[i] = delivered[i]
               /\ delivered'[j] = new
      BY <1>1, <2>2 DEF Once, MessageOnce
    <2>3. CASE /\ j \in DOMAIN delivered /\ delivered'[j] = delivered[j]
               /\ delivered'[i] = new
      BY <1>1, <2>3 DEF Once, MessageOnce
    <2>4. CASE /\ i = Len(delivered) + 1 /\ delivered'[i] = new
               /\ j = Len(delivered) + 1 /\ delivered'[j] = new
      BY <1>1, <2>0, <2>4
    <2> QED BY <1>4, <2>1, <2>2, <2>3, <2>4
  <1> QED BY <1>3, <1>4, <1>8, <1>9, <1>10 DEF new

\* No body on the line is of a message that is kept or was handed on.
LEMMA ShownAfter ==
  ASSUME Base, Once, DriverReads,
         \A m : \A i \in DOMAIN up : NewAt(i) /\ i # 1 /\ up[i] = m
                  => ~InMessage(m)' /\ ~InDelivered(m)'
  PROVE  ShownOnce'
  <1>1. \A m : Seen(m)' <=> Seen(m)
    BY ReadLine DEF Seen, Once
  <1>2. \A i \in DOMAIN up' : i + 1 \in DOMAIN up /\ up'[i] = up[i + 1] /\ i \in Nat \ {0}
    BY ReadInOrder
  <1>3. \A i \in DOMAIN up' : NewAt(i)' => NewAt(i + 1)
    BY ReadInOrder
  <1> SUFFICES ASSUME NEW i \in DOMAIN up', NewAt(i)', NEW m, up'[i] = m
               PROVE  /\ Seen(m)' /\ ~InMessage(m)' /\ ~InDelivered(m)'
                      /\ \A j \in DOMAIN up' : NewAt(j)' /\ up'[j] = m => i = j
    BY DEF ShownOnce, Seen, InMessage, InDelivered
  <1>4. i + 1 \in DOMAIN up /\ up[i + 1] = m /\ i + 1 # 1 /\ NewAt(i + 1)
    BY <1>2, <1>3
  <1>5. Seen(m)'
    BY <1>1, <1>4 DEF Once, ShownOnce
  <1>6. ~InMessage(m)' /\ ~InDelivered(m)'
    BY <1>4
  <1>7. ASSUME NEW j \in DOMAIN up', NewAt(j)', up'[j] = m PROVE i = j
    <2>1. j + 1 \in DOMAIN up /\ up[j + 1] = m /\ NewAt(j + 1)
      BY <1>2, <1>3, <1>7
    <2>2. i + 1 = j + 1
      BY <1>4, <2>1 DEF Once, ShownOnce
    <2> QED BY <1>2, <1>7, <2>2
  <1> QED BY <1>5, <1>6, <1>7

\* A new body joins the message kept so far, or begins the next one.
LEMMA Collected ==
  ASSUME Base, Once, Apart, DriverReads, ReadNew(up[1])
  PROVE  /\ MessageOnce'
         /\ delivered' = delivered
            \/ delivered' = IF message # <<>>
                            THEN Append(delivered, [from |-> sender, parts |-> message])
                            ELSE delivered
         /\ \A m \in Inbound : InMessage(m)' => m = up[1] \/ InMessage(m) \/ InDelivered(m)'
  <1>0. PICK l : l = up[1]
    OBVIOUS
  <1>1. /\ UNCHANGED <<store, read, arrived>>
        /\ delivered' = IF event' = "sms_received"
                        THEN Append(delivered, [from |-> sender, parts |-> message])
                        ELSE delivered
        /\ up # <<>> /\ up \in Seq(Line)
    BY ReadLine DEF Once
  <1>2. 1 \in DOMAIN up /\ l.k = "PDU" /\ state = "RECEIVE_SMS" /\ parse_stat = 0
    BY <1>0, <1>1, HeadTail DEF ReadNew
  <1>3. NewAt(1)
    BY <1>0, <1>2 DEF NewAt
  <1>4. Seen(l) /\ ~InMessage(l) /\ ~InDelivered(l)
    BY <1>0, <1>2, <1>3 DEF Once, ShownOnce
  <1>5. l \in Inbound /\ l.ok /\ l.ref # NoValue
    BY <1>0, <1>2 DEF Once, Framed, InOrder, Follows, Apart
  <1>6. /\ message' = Plus(IF NewMessage(l) THEN <<>> ELSE message, l.text)
        /\ sender' = l.from /\ cmcs' = l.ref
        /\ event' = IF NewMessage(l) THEN Handled ELSE "none"
        /\ NewMessage(l) <=> cmcs = 0 \/ cmcs # l.ref
    BY <1>0, <1>2, <1>5 DEF ReadNew, Collect, decodePDU, Goto, Silent, NewMessage
  <1>7. \A m : Seen(m)' <=> Seen(m)
    BY <1>1 DEF Seen
  <1>8. message \in Seq(Fragment)
    BY DEF Base, Inv, TypeOK, InboxOK
  <1>9. CASE NewMessage(l)
    <2>1. message' = <<>> \/ message' = <<l.text>>
      BY <1>6, <1>9 DEF Plus
    <2>2. delivered' = IF message # <<>>
                       THEN Append(delivered, [from |-> sender, parts |-> message])
                       ELSE delivered
      BY <1>1, <1>6, <1>9 DEF Handled
    <2>3. \A a \in DOMAIN message' : a = 1 /\ message'[a] = l.text
      BY <2>1
    <2>4. \A i \in DOMAIN delivered' : delivered'[i].from = l.from =>
            \A b \in DOMAIN delivered'[i].parts : delivered'[i].parts[b] # l.text
      <3>1. ~InDelivered(l)'
        BY <1>1, <1>4, <2>2, HandOn
      <3> QED BY <3>1 DEF InDelivered
    <2>5. MessageOnce'
      BY <1>4, <1>5, <1>6, <1>7, <2>3, <2>4 DEF MessageOnce
    <2>6. \A m \in Inbound : InMessage(m)' => m = l
      <3>1. \A m \in Inbound : InMessage(m)' => m.from = l.from /\ m.text = l.text
        BY <1>6, <2>3 DEF InMessage
      <3> QED BY <1>5, <3>1, Zenon DEF Apart
    <2> QED BY <1>0, <2>2, <2>5, <2>6
  <1>10. CASE ~NewMessage(l)
    <2>1. cmcs = l.ref /\ l.ref # 0 /\ delivered' = delivered /\ cmcs' = cmcs
      BY <1>1, <1>6, <1>10
    <2>2. message' = message \/ message' = Append(message, l.text)
      BY <1>6, <1>10 DEF Plus
    <2>3. \A a \in DOMAIN message' :
            \/ a \in DOMAIN message /\ message'[a] = message[a]
            \/ a = Len(message) + 1 /\ message'[a] = l.text
      BY <1>8, <2>2
    <2>4. \A a \in DOMAIN message : sender = l.from
      BY <1>5, <2>1 DEF Once, MessageOnce, Apart
    <2>5. \A a \in DOMAIN message : message[a] # l.text
      BY <1>4, <2>4 DEF InMessage
    <2>6. \A i \in DOMAIN delivered : delivered[i].from = l.from =>
            \A b \in DOMAIN delivered[i].parts : delivered[i].parts[b] # l.text
      BY <1>4 DEF InDelivered
    <2>7. MessageOnce'
      <3> SUFFICES ASSUME NEW a \in DOMAIN message'
                   PROVE  /\ \E m \in Inbound : /\ m.text = message'[a] /\ m.from = sender'
                                                /\ m.ref = cmcs' /\ Seen(m)
                          /\ \A b \in DOMAIN message' : message'[a] = message'[b] => a = b
                          /\ \A i \in DOMAIN delivered' : delivered'[i].from = sender' =>
                               \A b \in DOMAIN delivered'[i].parts :
                                 delivered'[i].parts[b] # message'[a]
        BY <1>7 DEF MessageOnce
      <3>1. CASE a \in DOMAIN message /\ message'[a] = message[a]
        BY <1>6, <2>1, <2>3, <2>4, <2>5, <3>1 DEF Once, MessageOnce
      <3>2. CASE a = Len(message) + 1 /\ message'[a] = l.text
        BY <1>4, <1>5, <1>6, <2>1, <2>3, <2>5, <2>6, <3>2
      <3> QED BY <2>3, <3>1, <3>2
    <2>8. \A m \in Inbound : InMessage(m)' => m = l \/ InMessage(m)
      <3> SUFFICES ASSUME NEW m \in Inbound, sender' = m.from,
                          NEW a \in DOMAIN message', message'[a] = m.text
                   PROVE  m = l \/ InMessage(m)
        BY DEF InMessage
      <3>1. CASE a \in DOMAIN message /\ message'[a] = message[a]
        BY <1>6, <2>4, <3>1 DEF InMessage
      <3>2. CASE message'[a] = l.text
        BY <1>5, <1>6, <3>2 DEF Apart
      <3> QED BY <2>3, <3>1, <3>2
    <2> QED BY <1>0, <2>1, <2>7, <2>8
  <1> QED BY <1>9, <1>10

LEMMA OnceRead ==
  ASSUME Base, Once, Apart, DriverReads
  PROVE  Once'
  <1>1. /\ UNCHANGED <<store, read, arrived>>
        /\ delivered' = IF event' = "sms_received"
                        THEN Append(delivered, [from |-> sender, parts |-> message])
                        ELSE delivered
        /\ up # <<>> /\ up \in Seq(Line)
        /\ \/ ReadHeader(up[1]) \/ ReadEnd(up[1]) \/ ReadNew(up[1])
           \/ ReadAgain(up[1]) \/ ReadOther
    BY ReadLine DEF Once
  <1>2. Framed'
    BY ReadInOrder
  <1>3. StoredOnce'
    BY <1>1 DEF Once, StoredOnce
  <1>4. \A m : Seen(m)' <=> Seen(m)
    BY <1>1 DEF Seen
  <1>5. \A m : \A i \in DOMAIN up : NewAt(i) /\ i # 1 /\ up[i] = m
          => ~InMessage(m) /\ ~InDelivered(m) /\ m \in Inbound
    BY DEF Once, ShownOnce, Framed, InOrder, Follows, NewAt
  <1>6. CASE ReadHeader(up[1]) \/ ReadAgain(up[1]) \/ ReadOther
    <2>1. UNCHANGED <<cmcs, sender, message, delivered>>
      BY <1>1, <1>6 DEF ReadHeader, ReadAgain, ReadOther
    <2>2. MessageOnce' /\ DeliveredSeen' /\ NoDuplicates'
      BY <1>4, <2>1 DEF Once, MessageOnce, DeliveredSeen, Source, NoDuplicates
    <2>3. \A m : (InMessage(m)' <=> InMessage(m)) /\ (InDelivered(m)' <=> InDelivered(m))
      BY <2>1 DEF InMessage, InDelivered
    <2>4. ShownOnce'
      BY <1>5, <2>3, ShownAfter
    <2> QED BY <1>2, <1>3, <2>1, <2>2, <2>4 DEF Once
  <1>7. CASE ReadEnd(up[1])
    <2>1. message' = <<>>
      BY <1>7 DEF ReadEnd
    <2>2. delivered' = IF message # <<>>
                       THEN Append(delivered, [from |-> sender, parts |-> message])
                       ELSE delivered
      BY <1>1, <1>7 DEF ReadEnd, Handled
    <2>3. \A m : ~InMessage(m)' /\ (InDelivered(m)' => InDelivered(m) \/ InMessage(m))
      BY <1>1, <2>1, <2>2, HandOn DEF InMessage
    <2>4. MessageOnce'
      BY <2>1 DEF MessageOnce
    <2>5. ShownOnce'
      BY <1>5, <2>3, ShownAfter
    <2>6. delivered' \in Seq(Call) /\ DeliveredSeen' /\ NoDuplicates'
      BY <1>1, <2>2, HandOn
    <2> QED BY <1>2, <1>3, <2>4, <2>5, <2>6 DEF Once
  <1>8. CASE ReadNew(up[1])
    <2>1. /\ MessageOnce'
          /\ \A m \in Inbound : InMessage(m)' => m = up[1] \/ InMessage(m) \/ InDelivered(m)'
      BY <1>8, Collected
    <2>4. /\ delivered' \in Seq(Call) /\ DeliveredSeen' /\ NoDuplicates'
          /\ \A m : InDelivered(m)' => InDelivered(m) \/ InMessage(m)
      <3>1. CASE delivered' = delivered
        <4>1. DeliveredSeen' /\ NoDuplicates' /\ delivered' \in Seq(Call)
          BY <1>4, <3>1 DEF Once, DeliveredSeen, Source, NoDuplicates
        <4>2. \A m : InDelivered(m)' => InDelivered(m)
          BY <3>1 DEF InDelivered
        <4> QED BY <4>1, <4>2
      <3>2. CASE delivered' = IF message # <<>>
                              THEN Append(delivered, [from |-> sender, parts |-> message])
                              ELSE delivered
        BY <1>1, <3>2, HandOn
      <3> QED BY <1>8, <3>1, <3>2, Collected
    <2>5. \A i \in DOMAIN up : NewAt(i) /\ i # 1 => up[i] # up[1]
      <3>1. 1 \in DOMAIN up /\ NewAt(1)
        BY <1>1, <1>8, HeadTail DEF ReadNew, NewAt
      <3> QED BY <3>1 DEF Once, ShownOnce
    <2>6. ShownOnce'
      BY <1>5, <2>1, <2>4, <2>5, ShownAfter
    <2> QED BY <1>2, <1>3, <2>1, <2>4, <2>6 DEF Once
  <1> QED BY <1>1, <1>6, <1>7, <1>8

-----------------------------------------------------------------------------
(* What the modem adds to the line. *)

\* A body in q that the modem shows as new.
Fresh(q, j) == /\ j \in DOMAIN q /\ q[j].k = "PDU"
               /\ j # 1 /\ q[j - 1].k = "CMGL" /\ q[j - 1].stat = 0

LEMMA AppendInOrder ==
  ASSUME NEW p \in Seq(Line), NEW q \in Seq(Line), InOrder(p), InOrder(q)
  PROVE  /\ p \o q \in Seq(Line) /\ InOrder(p \o q)
         /\ \A i \in DOMAIN p : i \in DOMAIN (p \o q) /\ (p \o q)[i] = p[i]
         /\ \A i \in DOMAIN (p \o q) :
              \/ i \in DOMAIN p
              \/ /\ i - Len(p) \in DOMAIN q /\ (p \o q)[i] = q[i - Len(p)]
                 /\ i > Len(p) /\ i \in Nat
                 /\ i - Len(p) = 1 /\ p # <<>> => (p \o q)[i - 1].k # "CMGL"
                 /\ i - Len(p) # 1 => (p \o q)[i - 1] = q[(i - Len(p)) - 1]
  <1> DEFINE r == p \o q
             n == Len(p)
  <1>1. /\ r \in Seq(Line) /\ Len(r) = n + Len(q) /\ n \in Nat /\ Len(q) \in Nat
        /\ DOMAIN p = 1 .. n /\ DOMAIN q = 1 .. Len(q) /\ DOMAIN r = 1 .. (n + Len(q))
        /\ \A i \in 1 .. n : r[i] = p[i]
        /\ \A i \in 1 .. Len(q) : r[n + i] = q[i]
    BY Concat
  <1>2. p # <<>> => n # 0
    BY <1>1
  <1> HIDE DEF r, n
  <1>3. \A i \in DOMAIN p : i \in DOMAIN r /\ r[i] = p[i]
    BY <1>1
  <1>4. ASSUME NEW i \in DOMAIN r, i \notin DOMAIN p
        PROVE  /\ i - n \in DOMAIN q /\ r[i] = q[i - n] /\ i > n /\ i \in Nat
               /\ n + (i - n) = i
    <2>1. i - n \in 1 .. Len(q) /\ n + (i - n) = i
      BY <1>1, <1>4
    <2> QED BY <1>1, <1>4, <2>1
  <1>5. \A i \in DOMAIN p : Follows(p, i)
    BY DEF InOrder
  <1>6. \A i \in DOMAIN q : Follows(q, i)
    BY DEF InOrder
  <1>7. n \in DOMAIN p => p[n].k # "CMGL" /\ p[n].k # "PDU"
    <2>1. n + 1 \notin DOMAIN p
      BY <1>1
    <2> QED BY <1>5, <2>1 DEF Follows
  <1>8. InOrder(r)
    <2> SUFFICES ASSUME NEW i \in DOMAIN r PROVE Follows(r, i)
      BY DEF InOrder
    <2>1. CASE i \in DOMAIN p
      <3>1. Follows(p, i) /\ r[i] = p[i]
        BY <1>3, <1>5, <2>1
      <3>2. i + 1 \in DOMAIN p => i + 1 \in DOMAIN r /\ r[i + 1] = p[i + 1]
        BY <1>3
      <3> QED BY <3>1, <3>2 DEF Follows
    <2>2. CASE i \notin DOMAIN p
      <3>1. /\ i - n \in DOMAIN q /\ r[i] = q[i - n] /\ i \in Nat /\ Follows(q, i - n)
        BY <1>4, <1>6, <2>2
      <3>2. (i - n) + 1 \in DOMAIN q => i + 1 \in DOMAIN r /\ r[i + 1] = q[(i - n) + 1]
        <4>1. n + ((i - n) + 1) = i + 1
          BY <1>1, <3>1
        <4> QED BY <1>1, <4>1
      <3> QED BY <3>1, <3>2 DEF Follows
    <2> QED BY <2>1, <2>2
  <1>9. ASSUME NEW i \in DOMAIN r, i \notin DOMAIN p, i - n = 1, p # <<>>
        PROVE  r[i - 1].k # "CMGL"
    <2>1. i - 1 = n /\ n \in DOMAIN p
      BY <1>1, <1>2, <1>9
    <2> QED BY <1>3, <1>7, <2>1
  <1>10. ASSUME NEW i \in DOMAIN r, i \notin DOMAIN p, i - n # 1
         PROVE  r[i - 1] = q[(i - n) - 1]
    <2>1. PICK d : d = (i - n) - 1
      OBVIOUS
    <2>2. n + d = i - 1 /\ d \in 1 .. Len(q)
      <3>1. i - n \in 1 .. Len(q) /\ i \in Nat /\ n \in Nat /\ Len(q) \in Nat
        BY <1>1, <1>4, <1>10
      <3> QED BY <1>10, <2>1, <3>1
    <2>3. r[n + d] = q[d]
      BY <1>1, <2>2
    <2> QED BY <2>1, <2>2, <2>3
  <1> QED BY <1>1, <1>3, <1>4, <1>8, <1>9, <1>10 DEF r, n

\* What is kept or was handed on was listed.
LEMMA KeptSeen ==
  ASSUME Once, Apart, NEW m \in Inbound, InMessage(m) \/ InDelivered(m)
  PROVE  Seen(m)
  <1>1. PICK x \in Inbound : x.text = m.text /\ x.from = m.from /\ Seen(x)
    BY DEF Once, MessageOnce, DeliveredSeen, Source, InMessage, InDelivered
  <1> QED BY <1>1 DEF Apart

LEMMA OnceAppend ==
  ASSUME Base, Once, Apart, NEW q \in Seq(Line), up' = up \o q, InOrder(q),
         UNCHANGED <<state, parse_stat, message, sender, cmcs, delivered>>,
         StoredOnce', \A m \in Inbound : Seen(m) => Seen(m)',
         \A m : \A j : Fresh(q, j) /\ q[j] = m => Seen(m)' /\ ~Seen(m),
         \A j, k : Fresh(q, j) /\ Fresh(q, k) /\ q[j] = q[k] => j = k
  PROVE  Once'
  <1>0. up \in Seq(Line) /\ InOrder(up)
    BY DEF Base, LinkOK, Once, Framed
  <1>1. Framed'
    <2>1. InOrder(up \o q)
      BY <1>0, AppendInOrder
    <2>2. up # <<>> => 1 \in DOMAIN up
      BY <1>0, HeadTail
    <2>3. up # <<>> => 1 \in DOMAIN up' /\ up'[1] = up[1]
      BY <1>0, <2>2, AppendInOrder
    <2>4. 1 \in DOMAIN up' => up' # <<>>
      OBVIOUS
    <2>5. InOrder(up')
      BY <2>1
    <2> QED BY <2>3, <2>4, <2>5 DEF Once, Framed
  <1>2. MessageOnce' /\ DeliveredSeen' /\ NoDuplicates'
    BY DEF Once, MessageOnce, DeliveredSeen, Source, NoDuplicates
  <1>3. \A m : (InMessage(m)' <=> InMessage(m)) /\ (InDelivered(m)' <=> InDelivered(m))
    BY DEF InMessage, InDelivered
  <1>4. ASSUME NEW i \in DOMAIN up', NewAt(i)'
        PROVE  \/ i \in DOMAIN up /\ up'[i] = up[i] /\ NewAt(i)
               \/ /\ Fresh(q, i - Len(up)) /\ up'[i] = q[i - Len(up)] /\ i \in Nat
                  /\ i > Len(up) /\ i \notin DOMAIN up
    <2>1. CASE i \in DOMAIN up
      <3>1. up'[i] = up[i] /\ (i # 1 => up'[i - 1] = up[i - 1])
        <4>1. i # 1 => i - 1 \in DOMAIN up
          BY <1>0, <2>1
        <4> QED BY <1>0, <2>1, <4>1, AppendInOrder
      <3> QED BY <1>4, <2>1, <3>1 DEF NewAt
    <2>2. CASE i \notin DOMAIN up
      <3>1. /\ i - Len(up) \in DOMAIN q /\ up'[i] = q[i - Len(up)]
            /\ i > Len(up) /\ i \in Nat
            /\ i - Len(up) = 1 /\ up # <<>> => up'[i - 1].k # "CMGL"
            /\ i - Len(up) # 1 => up'[i - 1] = q[(i - Len(up)) - 1]
        BY <1>0, <2>2, AppendInOrder
      <3>2. up = <<>> => i - Len(up) = i
        BY <3>1
      <3>3. state # "RECEIVE_SMS" \/ up # <<>>
        BY DEF Once, Framed
      <3>4. up # <<>> => i # 1
        BY <1>0, <2>2, HeadTail
      <3>5. i - Len(up) # 1 /\ i # 1
        BY <1>0, <1>4, <3>1, <3>2, <3>3, <3>4 DEF NewAt
      <3>6. up'[i].k = "PDU" /\ up'[i - 1].k = "CMGL" /\ up'[i - 1].stat = 0
        BY <1>4, <3>5 DEF NewAt
      <3> QED BY <2>2, <3>1, <3>5, <3>6 DEF Fresh
    <2> QED BY <2>1, <2>2
  <1>5. ShownOnce'
    <2>1. \A i \in DOMAIN q : Follows(q, i)
      BY DEF InOrder
    <2>2. \A m : \A i \in DOMAIN up : NewAt(i) /\ up[i] = m
            => /\ Seen(m) /\ ~InMessage(m) /\ ~InDelivered(m) /\ m \in Inbound
               /\ \A j \in DOMAIN up : NewAt(j) /\ up[j] = m => i = j
      BY <1>0, SMTT(30) DEF Once, ShownOnce, InOrder, Follows, NewAt
    <2>3. \A m : \A j : Fresh(q, j) /\ q[j] = m
            => /\ ~InMessage(m) /\ ~InDelivered(m) /\ Seen(m)' /\ ~Seen(m)
      BY <2>1, KeptSeen DEF Fresh, Follows
    <2> SUFFICES ASSUME NEW i \in DOMAIN up', NewAt(i)', NEW m, up'[i] = m
                 PROVE  /\ Seen(m)' /\ ~InMessage(m)' /\ ~InDelivered(m)'
                        /\ \A j \in DOMAIN up' : NewAt(j)' /\ up'[j] = m => i = j
      BY DEF ShownOnce, Seen, InMessage, InDelivered
    <2>4. CASE i \in DOMAIN up /\ up'[i] = up[i] /\ NewAt(i)
      <3>1. Seen(m) /\ Seen(m)' /\ ~InMessage(m)' /\ ~InDelivered(m)'
        BY <1>3, <2>2, <2>4
      <3>2. ASSUME NEW j \in DOMAIN up', NewAt(j)', up'[j] = m PROVE i = j
        BY <1>4, <2>2, <2>3, <2>4, <3>1, <3>2
      <3> QED BY <3>1, <3>2
    <2>5. CASE /\ Fresh(q, i - Len(up)) /\ up'[i] = q[i - Len(up)] /\ i \in Nat
      <3>1. ~Seen(m) /\ Seen(m)' /\ ~InMessage(m)' /\ ~InDelivered(m)'
        BY <1>3, <2>3, <2>5
      <3>2. ASSUME NEW j \in DOMAIN up', NewAt(j)', up'[j] = m PROVE i = j
        <4>1. Fresh(q, j - Len(up)) /\ q[j - Len(up)] = m /\ j \in Nat
          BY <1>4, <2>2, <3>1, <3>2
        <4>2. j - Len(up) = i - Len(up)
          BY <2>5, <4>1
        <4> QED BY <1>0, <2>5, <4>1, <4>2
      <3> QED BY <3>1, <3>2
    <2> QED BY <1>4, <2>4, <2>5
  <1> QED BY <1>1, <1>2, <1>5 DEF Once

\* The listing of slots 1 .. m: a header and its body for each that is occupied.
Shaped(q, m) ==
  /\ q \in Seq(Line)
  /\ \A j \in DOMAIN q : q[j].k \in {"CMGL", "PDU"}
  /\ \A j \in DOMAIN q : q[j].k = "CMGL" =>
       /\ q[j].idx \in Occupied /\ q[j].idx \in 1 .. m
       /\ q[j].stat = IF q[j].idx \in read THEN 1 ELSE 0
       /\ j + 1 \in DOMAIN q /\ q[j + 1] = store[q[j].idx]
  /\ \A j \in DOMAIN q : q[j].k = "PDU" =>
       q[j] \in Inbound /\ (j + 1 \in DOMAIN q => q[j + 1].k = "CMGL")
  /\ 1 \in DOMAIN q => q[1].k = "CMGL"
  /\ \A i, j \in DOMAIN q :
       q[i].k = "CMGL" /\ q[j].k = "CMGL" /\ q[i].idx = q[j].idx => i = j

LEMMA ShapedMore ==
  ASSUME LinkOK, NEW m \in 0 .. Slots - 1, NEW p, Shaped(p, m), m + 1 \in Occupied
  PROVE  Shaped(p \o Listed(m + 1), m + 1)
  <1> DEFINE s == m + 1
             h == [k |-> "CMGL", idx |-> s, stat |-> IF s \in read THEN 1 ELSE 0]
             r == p \o <<h, store[s]>>
             n == Len(p)
  <1>1. Listed(s) = <<h, store[s]>>
    BY DEF Listed
  <1>2. Listed(s) \in Seq(Line)
    BY ListedPlain DEF Plain
  <1>3. s \in 1 .. Slots /\ s \in Nat /\ m \in Nat
    BY LinkAssumption, ValuesAssumption
  <1>4. store[s] \in Inbound /\ store[s].k = "PDU"
    BY <1>3, LinkAssumption DEF Occupied, LinkOK
  <1>5. h.k = "CMGL" /\ h.idx = s /\ h.stat = IF s \in read THEN 1 ELSE 0
    OBVIOUS
  <1>6. p \in Seq(Line) /\ n \in Nat /\ DOMAIN p = 1 .. n
    BY DEF Shaped
  <1>7. /\ r \in Seq(Line) /\ DOMAIN r = 1 .. (n + 2)
        /\ \A i \in 1 .. n : r[i] = p[i]
        /\ r[n + 1] = h /\ r[n + 2] = store[s]
    <2> DEFINE t == <<h, store[s]>>
    <2>1. t \in Seq(Line) /\ Len(t) = 2 /\ t[1] = h /\ t[2] = store[s]
      BY <1>1, <1>2
    <2> HIDE DEF t, h
    <2>2. /\ p \o t \in Seq(Line) /\ Len(p \o t) = n + 2
          /\ \A i \in 1 .. n : (p \o t)[i] = p[i]
          /\ (p \o t)[n + 1] = t[1] /\ (p \o t)[n + 2] = t[2]
      <3>1. /\ p \o t \in Seq(Line) /\ Len(p \o t) = n + Len(t)
            /\ \A i \in 1 .. n : (p \o t)[i] = p[i]
            /\ \A i \in 1 .. Len(t) : (p \o t)[n + i] = t[i]
        BY <1>6, <2>1, Concat DEF n
      <3>2. 1 \in 1 .. Len(t) /\ 2 \in 1 .. Len(t)
        BY <2>1
      <3> QED BY <2>1, <3>1, <3>2
    <2>3. DOMAIN (p \o t) = 1 .. (n + 2)
      BY <2>2
    <2> QED BY <2>1, <2>2, <2>3 DEF t
  <1> HIDE DEF h, r, n, s
  <1>8. \A i \in DOMAIN r : i \in 1 .. n \/ i = n + 1 \/ i = n + 2
    BY <1>6, <1>7
  <1>9. s \in Occupied
    BY DEF s
  <1>10. ASSUME NEW j \in DOMAIN r, r[j].k = "CMGL"
         PROVE  /\ r[j].idx \in Occupied /\ r[j].idx \in 1 .. s
                /\ r[j].stat = IF r[j].idx \in read THEN 1 ELSE 0
                /\ j + 1 \in DOMAIN r /\ r[j + 1] = store[r[j].idx]
    <2>1. CASE j \in 1 .. n
      <3>1. /\ p[j].idx \in Occupied /\ p[j].idx \in 1 .. m
            /\ p[j].stat = IF p[j].idx \in read THEN 1 ELSE 0
            /\ j + 1 \in DOMAIN p /\ p[j + 1] = store[p[j].idx] /\ r[j] = p[j]
        BY <1>6, <1>7, <1>10, <2>1 DEF Shaped
      <3>2. p[j].idx \in 1 .. s
        BY <1>3, <3>1 DEF s
      <3>3. j + 1 \in DOMAIN r /\ r[j + 1] = p[j + 1]
        BY <1>6, <1>7, <3>1
      <3> QED BY <3>1, <3>2, <3>3
    <2>2. CASE j = n + 1
      <3>1. s \in 1 .. s /\ j + 1 = n + 2 /\ n + 2 \in DOMAIN r
        BY <1>3, <1>6, <1>7, <2>2
      <3> QED BY <1>5, <1>7, <1>9, <2>2, <3>1
    <2>3. CASE j = n + 2
      BY <1>4, <1>7, <1>10, <2>3
    <2> QED BY <1>8, <2>1, <2>2, <2>3
  <1>11. ASSUME NEW j \in DOMAIN r, r[j].k = "PDU"
         PROVE  r[j] \in Inbound /\ (j + 1 \in DOMAIN r => r[j + 1].k = "CMGL")
    <2>1. CASE j \in 1 .. n
      <3>1. p[j] \in Inbound /\ r[j] = p[j] /\ (j + 1 \in DOMAIN p => p[j + 1].k = "CMGL")
        BY <1>6, <1>7, <1>11, <2>1 DEF Shaped
      <3>2. j + 1 \in 1 .. n => r[j + 1] = p[j + 1]
        BY <1>7
      <3>3. j + 1 \in 1 .. n \/ j + 1 = n + 1
        BY <1>6, <2>1
      <3> QED BY <1>5, <1>6, <1>7, <3>1, <3>2, <3>3
    <2>2. CASE j = n + 1
      BY <1>5, <1>7, <1>11, <2>2
    <2>3. CASE j = n + 2
      <3>1. j + 1 \notin DOMAIN r
        BY <1>6, <1>7, <2>3
      <3> QED BY <1>4, <1>7, <2>3, <3>1
    <2> QED BY <1>8, <2>1, <2>2, <2>3
  <1>12. 1 \in DOMAIN r => r[1].k = "CMGL"
    <2>1. CASE n = 0
      BY <1>5, <1>7, <2>1
    <2>2. CASE n # 0
      <3>1. 1 \in 1 .. n
        BY <1>6, <2>2
      <3> QED BY <1>6, <1>7, <3>1 DEF Shaped
    <2> QED BY <2>1, <2>2
  <1>13. ASSUME NEW i \in DOMAIN r, NEW j \in DOMAIN r,
                r[i].k = "CMGL", r[j].k = "CMGL", r[i].idx = r[j].idx
         PROVE  i = j
    <2>1. \A l \in 1 .. n : r[l].k = "CMGL" => r[l].idx \in 1 .. m
      BY <1>6, <1>7 DEF Shaped
    <2>2. s \notin 1 .. m
      BY <1>3 DEF s
    <2>3. i # n + 2 /\ j # n + 2
      BY <1>4, <1>7, <1>13
    <2>4. CASE i \in 1 .. n /\ j \in 1 .. n
      BY <1>6, <1>7, <1>13, <2>4 DEF Shaped
    <2> QED BY <1>5, <1>7, <1>8, <1>13, <2>1, <2>2, <2>3, <2>4
  <1>14. \A j \in DOMAIN r : r[j].k \in {"CMGL", "PDU"}
    BY <1>4, <1>5, <1>6, <1>7, <1>8 DEF Shaped
  <1>15. Shaped(r, s)
    BY <1>7, <1>10, <1>11, <1>12, <1>13, <1>14 DEF Shaped
  <1>16. r = p \o Listed(s)
    BY <1>1 DEF r, h
  <1> QED BY <1>15, <1>16 DEF s

LEMMA ListingShaped ==
  ASSUME LinkOK
  PROVE  Shaped(Listing, Slots)
  <1>1. PICK upTo :
          /\ upTo[0] = <<>> /\ Listing = upTo[Slots]
          /\ \A s \in 1 .. Slots :
               upTo[s] = upTo[s - 1] \o (IF s \in Occupied THEN Listed(s) ELSE <<>>)
    BY ListingBuilt
  <1> DEFINE T == {m \in 0 .. Slots : Shaped(upTo[m], m)}
  <1>2. Slots \in Nat
    BY LinkAssumption, ValuesAssumption
  <1>3. 0 \in T
    <2>1. <<>> \in Seq(Line) /\ DOMAIN <<>> = {} /\ 0 \in 0 .. Slots
      BY <1>2
    <2>2. Shaped(<<>>, 0)
      BY <2>1 DEF Shaped
    <2> QED BY <1>1, <2>1, <2>2
  <1>4. ASSUME NEW m \in 0 .. Slots - 1, m \in T PROVE m + 1 \in T
    <2>1. m + 1 \in 1 .. Slots /\ (m + 1) - 1 = m /\ Shaped(upTo[m], m) /\ m \in Nat
      BY <1>2, <1>4
    <2>2. CASE m + 1 \in Occupied
      <3>1. upTo[m + 1] = upTo[m] \o Listed(m + 1)
        BY <1>1, <2>1, <2>2
      <3>2. Shaped(upTo[m + 1], m + 1)
        BY <2>1, <2>2, <3>1, ShapedMore
      <3> QED BY <1>2, <1>4, <3>2
    <2>3. CASE m + 1 \notin Occupied
      <3>1. upTo[m + 1] = upTo[m] \o <<>>
        BY <1>1, <2>1, <2>3
      <3>2. upTo[m] \in Seq(Line)
        BY <2>1 DEF Shaped
      <3>3. upTo[m + 1] = upTo[m]
        BY <3>1, <3>2
      <3>4. \A i \in 1 .. m : i \in 1 .. m + 1
        BY <2>1
      <3>5. Shaped(upTo[m + 1], m + 1)
        BY <2>1, <3>3, <3>4 DEF Shaped
      <3> QED BY <1>2, <1>4, <3>5
    <2> QED BY <2>2, <2>3
  <1> HIDE DEF T
  <1>5. 0 .. Slots \subseteq T
    BY <1>2, <1>3, <1>4, UpTo
  <1> QED BY <1>1, <1>2, <1>5 DEF T

\* The reply to AT+CMGL=4: what it shows as new was not listed before.
LEMMA ListingReply ==
  ASSUME LinkOK, StoredOnce
  PROVE  LET q == Listing \o OK IN
         /\ InOrder(q)
         /\ \A j : Fresh(q, j) => /\ q[j] \in {store[s] : s \in Occupied \ read}
         /\ \A j, k : Fresh(q, j) /\ Fresh(q, k) /\ q[j] = q[k] => j = k
  <1> DEFINE p == Listing
             n == Len(p)
             ok == [k |-> "OK"]
             q == p \o <<ok>>
  <1>1. OK = <<ok>>
    BY Says DEF OK, Kinds
  <1>2. Shaped(p, Slots)
    BY ListingShaped
  <1>3. /\ n \in Nat /\ DOMAIN p = 1 .. n /\ DOMAIN q = 1 .. (n + 1)
        /\ \A i \in 1 .. n : q[i] = p[i]
        /\ q[n + 1] = ok
    <2>1. p \in Seq(Line) /\ ok \in Line
      BY <1>2, TypeOfLines DEF Shaped, Kinds
    <2> HIDE DEF p, ok
    <2> QED BY <2>1, Concat
  <1>4. ok.k = "OK"
    OBVIOUS
  <1> HIDE DEF p, n, ok, q
  <1>5. InOrder(q)
    <2> SUFFICES ASSUME NEW i \in DOMAIN q PROVE Follows(q, i)
      BY DEF InOrder
    <2>1. CASE i = n + 1
      BY <1>3, <1>4, <2>1 DEF Follows
    <2>2. CASE i \in 1 .. n
      <3>1. i + 1 \in DOMAIN q /\ (i + 1 \in 1 .. n \/ i + 1 = n + 1)
        BY <1>3, <2>2
      <3>2. q[i] = p[i] /\ i \in DOMAIN p /\ (i + 1 \in DOMAIN p => q[i + 1] = p[i + 1])
        BY <1>3, <2>2
      <3>3. \A s \in Occupied : store[s].k = "PDU"
        BY LinkAssumption DEF Occupied, LinkOK
      <3>4. CASE q[i].k = "CMGL"
        BY <1>2, <3>1, <3>2, <3>3, <3>4 DEF Follows, Shaped
      <3>5. CASE q[i].k = "PDU"
        BY <1>2, <1>3, <1>4, <3>1, <3>2, <3>5 DEF Follows, Shaped
      <3> QED BY <3>4, <3>5 DEF Follows
    <2> QED BY <1>3, <2>1, <2>2
  <1>6. ASSUME NEW j, Fresh(q, j)
        PROVE  /\ j - 1 \in DOMAIN p /\ p[j - 1].k = "CMGL" /\ j \in Nat
               /\ p[j - 1].idx \in Occupied \ read
               /\ q[j] = store[p[j - 1].idx]
    <2>1. j \in 1 .. (n + 1) /\ j # 1 /\ j - 1 \in 1 .. n /\ j \in Nat /\ (j - 1) + 1 = j
      BY <1>3, <1>6 DEF Fresh
    <2>2. q[j].k = "PDU" /\ p[j - 1].k = "CMGL" /\ p[j - 1].stat = 0
      BY <1>3, <1>6, <2>1 DEF Fresh
    <2>3. /\ p[j - 1].idx \in Occupied
          /\ p[j - 1].stat = IF p[j - 1].idx \in read THEN 1 ELSE 0
          /\ j \in DOMAIN p /\ p[j] = store[p[j - 1].idx]
      <3>1. PICK i : i = j - 1
        OBVIOUS
      <3>2. i \in DOMAIN p /\ p[i].k = "CMGL" /\ i + 1 = j
        BY <1>3, <2>1, <2>2, <3>1
      <3> QED BY <1>2, <3>1, <3>2 DEF Shaped
    <2> QED BY <1>3, <2>1, <2>2, <2>3
  <1>7. ASSUME NEW j, NEW k, Fresh(q, j), Fresh(q, k), q[j] = q[k]
        PROVE  j = k
    <2>1. p[j - 1].idx = p[k - 1].idx
      BY <1>6, <1>7 DEF StoredOnce, Occupied
    <2>2. j - 1 = k - 1
      BY <1>2, <1>6, <1>7, <2>1 DEF Shaped
    <2> QED BY <1>6, <1>7, <2>2
  <1>8. q = Listing \o OK
    BY <1>1 DEF q, p
  <1> QED BY <1>5, <1>6, <1>7, <1>8

\* Lines that are no part of a listing.
Framing == {l \in Line : l.k \in {"CMGL", "PDU"}}
Bare(q) == q \in Seq(Line) /\ None(q, Framing)

LEMMA BareInOrder ==
  ASSUME NEW q, Bare(q)
  PROVE  InOrder(q) /\ \A j : ~Fresh(q, j)
  <1>1. \A i \in DOMAIN q : q[i] \in Line /\ q[i].k \notin {"CMGL", "PDU"}
    BY DEF Bare, None, Framing
  <1> QED BY <1>1 DEF InOrder, Follows, Fresh

LEMMA BareLine ==
  ASSUME NEW l \in Line, l.k \notin {"CMGL", "PDU"}
  PROVE  Bare(<<l>>)
  BY DEF Bare, None, Framing

LEMMA BareConcat ==
  ASSUME NEW q, NEW r, Bare(q), Bare(r)
  PROVE  Bare(q \o r)
  <1>1. q \in Seq(Line) /\ r \in Seq(Line)
    BY DEF Bare
  <1> QED BY <1>1, NoneConcat, Concat DEF Bare

LEMMA BareSays ==
  ASSUME NEW k \in Kinds
  PROVE  Bare(Say(<<k>>)) /\ \A m \in Kinds : Bare(Say(<<k, m>>))
  <1>1. \A x \in Kinds : [k |-> x] \in Line /\ [k |-> x].k \notin {"CMGL", "PDU"}
    BY TypeOfLines DEF Kinds
  <1>2. \A x \in Kinds : Bare(<<[k |-> x]>>)
    BY <1>1, BareLine
  <1>3. ASSUME NEW m \in Kinds
        PROVE  Bare(<<[k |-> k], [k |-> m]>>)
    <2>1. <<[k |-> k]>> \o <<[k |-> m]>> = <<[k |-> k], [k |-> m]>>
      BY Pair
    <2>2. Bare(<<[k |-> k]>> \o <<[k |-> m]>>)
      BY <1>2, BareConcat
    <2> QED BY <2>1, <2>2
  <1> QED BY <1>2, <1>3, Says, SaysTwo

LEMMA BareOther ==
  /\ Bare(<<>>) /\ Bare(SimLine) /\ Bare(RegLine)
  /\ \A b \in BOOLEAN : Bare(<<[k |-> "CPIN", ready |-> b]>>)
  /\ \A s \in CallState : Bare(CallLine(s))
  <1>1. Bare(<<>>)
    BY DEF Bare, None
  <1>2. ASSUME NEW b \in BOOLEAN
        PROVE  /\ Bare(<<[k |-> "CPIN", ready |-> b]>>)
               /\ Bare(<<[k |-> "CREG", n |-> 1, reg |-> b]>>)
    <2>1. [k |-> "CPIN", ready |-> b].k = "CPIN"
          /\ [k |-> "CREG", n |-> 1, reg |-> b].k = "CREG"
      OBVIOUS
    <2>2. [k |-> "CPIN", ready |-> b] \in Line /\ [k |-> "CREG", n |-> 1, reg |-> b] \in Line
      BY TypeOfLines
    <2> QED BY <2>1, <2>2, BareLine
  <1>3. (sim_state = "ready") \in BOOLEAN
    OBVIOUS
  <1>4. Bare(SimLine) /\ Bare(RegLine)
    BY <1>2, <1>3 DEF SimLine, RegLine
  <1>5. ASSUME NEW s \in CallState
        PROVE  Bare(CallLine(s))
    <2>1. [k |-> "CLCC", stat |-> s].k = "CLCC"
      OBVIOUS
    <2>2. [k |-> "CLCC", stat |-> s] \in Line
      BY TypeOfLines
    <2> QED BY <2>1, <2>2, BareLine DEF CallLine
  <1> QED BY <1>1, <1>2, <1>4, <1>5

\* Every reply but a listing is bare.
LEMMA BareReply ==
  ASSUME LinkOK, NEW c, c # "AT+CMGL=4"
  PROVE  Bare(Reply(c))
  <1>1. Bare(OK) /\ Bare(<<>>) /\ Bare(SimLine) /\ Bare(RegLine)
    BY BareSays, BareOther DEF OK, Kinds
  <1>2. /\ Bare(Say(<<"CMEERROR">>)) /\ Bare(Say(<<"ERROR">>)) /\ Bare(Say(<<"PROMPT">>))
        /\ Bare(Say(<<"OTHER", "OK">>)) /\ Bare(Say(<<"IGNORED", "OK">>))
        /\ Bare(Say(<<"CSCA", "OK">>)) /\ Bare(Say(<<"CMGS", "OK">>))
    BY BareSays DEF Kinds
  <1>3. /\ Bare(CallLine(call)) /\ Bare(CallLine("ACTIVE")) /\ Bare(CallLine("DISCONNECTED"))
    BY BareOther DEF LinkOK, CallState
  <1>4. /\ Bare(SimLine \o OK) /\ Bare(RegLine \o OK) /\ Bare(CallLine(call) \o OK)
        /\ Bare(OK \o CallLine("ACTIVE")) /\ Bare(OK \o CallLine("DISCONNECTED"))
    BY <1>1, <1>3, BareConcat
  <1> HIDE DEF OK
  <1> QED BY <1>1, <1>2, <1>4, Zenon DEF Reply

\* What the modem or the world sends up.
LEMMA SentUp ==
  ASSUME LinkOK, ModemSteps \/ Outside
  PROVE  \E q \in Seq(Line) :
           /\ up' = up \o q
           /\ \/ Bare(q)
              \/ ModemAnswers /\ Head(down).c = "AT+CMGL=4" /\ q = Listing \o OK
  <1>0. up \in Seq(Line) /\ \A q : Bare(q) => q \in Seq(Line)
    BY DEF LinkOK, Bare
  <1>1. CASE ModemAnswers
    <2>1. up' = up \o Reply(Head(down).c)
      BY <1>1 DEF ModemAnswers
    <2>2. CASE Head(down).c = "AT+CMGL=4"
      <3>1. Reply(Head(down).c) = Listing \o OK
        BY <2>2, Zenon DEF Reply
      <3>2. Listing \o OK \in Seq(Line)
        BY <3>1, ReplyType
      <3> QED BY <1>1, <2>1, <2>2, <3>1, <3>2
    <2>3. CASE Head(down).c # "AT+CMGL=4"
      BY <1>0, <2>1, <2>3, BareReply
    <2> QED BY <2>2, <2>3
  <1>2. CASE ModemOff
    <2>1. up' = up \o <<>>
      BY <1>0, <1>2 DEF ModemOff
    <2> QED BY <1>0, <2>1, BareOther
  <1>3. CASE SwitchedOn \/ MessageArrives
    <2>1. Bare(Say(<<"ATREADY">>)) /\ Bare(Say(<<"CMTI">>))
      BY BareSays DEF Kinds
    <2> QED BY <1>0, <1>3, <2>1 DEF SwitchedOn, MessageArrives
  <1>4. CASE CallComesIn \/ CallEnds
    <2>1. Bare(CallLine("INCOMING")) /\ Bare(CallLine("DISCONNECTED"))
      BY BareOther DEF CallState
    <2> QED BY <1>0, <1>4, <2>1 DEF CallComesIn, CallEnds
  <1>5. CASE SimGetsReady
    <2> DEFINE l == [k |-> "CPIN", ready |-> sim_state' = "ready"]
    <2>1. Bare(<<l>>)
      <3>1. (sim_state' = "ready") \in BOOLEAN
        OBVIOUS
      <3> QED BY <3>1, BareOther
    <2>2. up' = Append(up, l)
      BY <1>5 DEF SimGetsReady
    <2>3. l \in Line
      BY TypeOfLines
    <2> HIDE DEF l
    <2>4. up' = up \o <<l>>
      BY <1>0, <2>2, <2>3
    <2> QED BY <1>0, <2>1, <2>4
  <1> QED BY <1>1, <1>2, <1>3, <1>4, <1>5 DEF ModemSteps, Outside

\* What the modem and the world do to the messages.
LEMMA StoreStep ==
  ASSUME LinkOK, StoredOnce, ModemSteps \/ Outside
  PROVE  StoredOnce' /\ \A m \in Inbound : Seen(m) => Seen(m)'
  <1>0. \A m \in Inbound : m # NoValue
    BY LinkAssumption
  <1>1. CASE ModemAnswers
    <2> DEFINE del == IF Head(down).c = "AT+CMGD=" THEN {Head(down).arg} \cap Occupied
                                                   ELSE {}
    <2>1. /\ store' = [s \in 1..Slots |-> IF s \in del THEN NoValue ELSE store[s]]
          /\ read' = IF Head(down).c = "AT+CMGL=4" THEN Occupied ELSE read \ del
          /\ arrived' = arrived
      BY <1>1 DEF ModemAnswers
    <2> HIDE DEF del
    <2>2. \A s \in 1..Slots : store'[s] # NoValue => s \notin del /\ store'[s] = store[s]
      BY <2>1
    <2>3. StoredOnce'
      BY <2>1, <2>2 DEF StoredOnce
    <2>4. ASSUME NEW m \in Inbound, Seen(m) PROVE Seen(m)'
      <3> SUFFICES ASSUME NEW s \in 1..Slots, store'[s] = m PROVE s \in read'
        BY <2>1, <2>4 DEF Seen
      <3>1. s \notin del /\ store[s] = m /\ s \in read /\ s \in Occupied
        BY <1>0, <2>2, <2>4 DEF Seen, Occupied
      <3> QED BY <2>1, <3>1
    <2> QED BY <2>3, <2>4
  <1>2. CASE MessageArrives
    <2>0. PICK m \in Inbound \ arrived :
            \E s : /\ arrived' = arrived \cup {m} /\ read' = read
                   /\ store' = [store EXCEPT ![s] = m]
      BY <1>2 DEF MessageArrives
    <2>1. PICK s : /\ arrived' = arrived \cup {m} /\ read' = read
                   /\ store' = [store EXCEPT ![s] = m]
      BY <2>0
    <2>2. \A t \in 1..Slots : store'[t] = IF t = s THEN m ELSE store[t]
      BY <2>1 DEF LinkOK
    <2>3. \A t \in 1..Slots : store[t] # m
      BY <1>0, <2>1 DEF StoredOnce
    <2>4. StoredOnce'
      BY <2>1, <2>2, <2>3 DEF StoredOnce
    <2>5. \A x \in Inbound : Seen(x) => Seen(x)'
      BY <2>1, <2>2, <2>3 DEF Seen
    <2> QED BY <2>4, <2>5
  <1>3. CASE ModemOff \/ SwitchedOn \/ CallComesIn \/ CallEnds \/ SimGetsReady
    <2>1. UNCHANGED <<store, read, arrived>>
      BY <1>3 DEF ModemOff, SwitchedOn, CallComesIn, CallEnds, SimGetsReady, modem, sms
    <2> QED BY <2>1 DEF StoredOnce, Seen
  <1> QED BY <1>1, <1>2, <1>3 DEF ModemSteps, Outside

LEMMA OnceModem ==
  ASSUME Base, Once, Apart, ModemSteps \/ Outside
  PROVE  Once'
  <1>1. PICK q \in Seq(Line) :
          /\ up' = up \o q
          /\ \/ Bare(q)
             \/ ModemAnswers /\ Head(down).c = "AT+CMGL=4" /\ q = Listing \o OK
    BY SentUp DEF Base
  <1>2. UNCHANGED <<state, parse_stat, message, sender, cmcs, delivered>>
    <2>1. UNCHANGED vars
      BY ModemStutters
    <2>2. delivered' = delivered
      BY DEF ModemSteps, Outside, ModemAnswers, ModemOff, SwitchedOn, MessageArrives,
         CallComesIn, CallEnds, SimGetsReady
    <2> QED BY <2>1, <2>2 DEF vars, session, inbox
  <1>3. StoredOnce' /\ \A m \in Inbound : Seen(m) => Seen(m)'
    BY StoreStep DEF Base, Once
  <1>4. CASE Bare(q)
    BY <1>1, <1>2, <1>3, <1>4, BareInOrder, OnceAppend
  <1>5. CASE ModemAnswers /\ Head(down).c = "AT+CMGL=4" /\ q = Listing \o OK
    <2>1. /\ InOrder(q)
          /\ \A j : Fresh(q, j) => q[j] \in {store[s] : s \in Occupied \ read}
          /\ \A j, k : Fresh(q, j) /\ Fresh(q, k) /\ q[j] = q[k] => j = k
      BY <1>5, ListingReply DEF Base, Once
    <2>2. read' = Occupied /\ arrived' = arrived
          /\ \A s \in 1..Slots : store'[s] = store[s]
      BY <1>5 DEF ModemAnswers
    <2>3. ASSUME NEW m, NEW j, Fresh(q, j), q[j] = m
          PROVE  Seen(m)' /\ ~Seen(m)
      <3>1. PICK s \in Occupied \ read : m = store[s]
        BY <2>1, <2>3
      <3>2. s \in 1..Slots /\ store[s] # NoValue
        BY DEF Occupied
      <3>3. ~Seen(m)
        BY <3>1, <3>2 DEF Seen
      <3>4. m \in arrived /\ m # NoValue
        BY <3>1, <3>2 DEF Once, StoredOnce
      <3>5. Seen(m)'
        BY <2>2, <3>4 DEF Seen, Occupied
      <3> QED BY <3>3, <3>5
    <2> QED BY <1>1, <1>2, <1>3, <2>1, <2>3, OnceAppend
  <1> QED BY <1>1, <1>4, <1>5

-----------------------------------------------------------------------------
(* The theorem. *)

LEMMA OnceStep ==
  ASSUME Base, Once, Apart, [LinkNext]_joined
  PROVE  Once'
  <1>1. CASE DriverReads
    BY <1>1, OnceRead
  <1>2. CASE DriverWrites \/ DriverPolls \/ DriverTimesOut \/ DriverAsked
    BY <1>2, Between, OnceAlone
  <1>3. CASE ModemSteps \/ Outside
    BY <1>3, OnceModem
  <1>4. CASE UNCHANGED joined
    BY <1>4, OnceAlone DEF joined, vars, session, inbox, modem, sms
  <1> QED BY <1>1, <1>2, <1>3, <1>4 DEF LinkNext

\* on_sms_received is called with the text of a message at most once: whatever
\* callers ask for, however many timers are early, whether flows are cut short
\* in the middle of a listing, listings follow each other before the cleanup,
\* or a user's commands come in between.  Two messages of one sender are told
\* apart by their texts, parts with one reference have one sender, and every
\* message can be decoded (Apart); Lines plays no part in LinkSpec.
THEOREM HandedOnOnce ==
  ASSUME Lines = Line, Apart
  PROVE  LinkSpec => []NoDuplicates
  <1>1. LinkInit => Base /\ Once
    BY BaseInit, OnceInit
  <1>2. Base /\ Once /\ [LinkNext]_joined => (Base /\ Once)'
    BY BaseStep, OnceStep
  <1>3. Once => NoDuplicates
    BY DEF Once
  <1> QED BY <1>1, <1>2, <1>3, PTL DEF LinkSpec
=============================================================================
