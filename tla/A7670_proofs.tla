---------------------------- MODULE A7670_proofs ----------------------------
(***************************************************************************)
(* Theorems about the modem driver, for every environment: whatever lines  *)
(* arrive, whenever timers expire, whatever is asked for.                  *)
(*                                                                         *)
(* Inv is the inductive invariant.  The lemmas show that each class of     *)
(* steps preserves it, one step per conjunct and, where the provers need   *)
(* it, one step per action.                                                *)
(***************************************************************************)
EXTENDS A7670, TLAPS

\* Whoever is to be sent an SMS has been named by send_sms, and so has the text:
\* _send_sms_send_header_ never encodes an empty recipient_.
SmsRequested ==
  ("send" \in pending \/ state \in SmsStates)
    => recipient \in Numbers /\ outgoing_message \in Texts

Inv == TypeOK /\ AckDiscipline /\ SplitsInRange /\ SmsRequested

-----------------------------------------------------------------------------
(* What a step writes. *)

\* Every way of writing one command keeps the output well typed.
LEMMA WriteOutput ==
  ASSUME OutputOK, NEW cmds \in Seq(Cmd), NEW next, Write(cmds, next)
  PROVE  OutputOK'
  <1>1. tx' \in Seq(Cmd)
    BY DEF Write
  <1>2. event' \in Event
    BY DEF Write, Event
  <1>3. msg_mode' \in {0, 1, AnyMode}
    <2>1. msg_mode \in {0, 1, AnyMode}
      BY DEF OutputOK
    <2>2. msg_mode' \in {0, 1, AnyMode, msg_mode}
      <3> DEFINE P == cmds = <<"AT+CMGF=0">>
                 Q == cmds = <<"AT+CMGF=1">>
                 R == cmds = <<"USER">>
      <3>1. msg_mode' = CASE P -> 0 [] Q -> 1 [] R -> AnyMode [] OTHER -> msg_mode
        BY DEF Write
      <3> HIDE DEF P, Q, R
      <3> QED BY <3>1
    <2> QED BY <2>1, <2>2
  <1> QED BY <1>1, <1>2, <1>3 DEF OutputOK

\* The case of one command, which is most of them.
LEMMA WriteOneOutput ==
  ASSUME OutputOK, NEW cmd \in Cmd, NEW next, Write(<<cmd>>, next)
  PROVE  OutputOK'
  <1>1. <<cmd>> \in Seq(Cmd)
    OBVIOUS
  <1> QED BY <1>1, WriteOutput

\* So does every step that writes nothing.
LEMMA SilentOutput ==
  ASSUME OutputOK, NEW e \in Event, Silent(e)
  PROVE  OutputOK'
  <1>1. tx' \in Seq(Cmd)
    BY DEF Silent
  <1>2. event' \in Event
    BY DEF Silent
  <1>3. msg_mode' \in {0, 1, AnyMode}
    BY DEF Silent, OutputOK
  <1> QED BY <1>1, <1>2, <1>3 DEF OutputOK

-----------------------------------------------------------------------------
LEMMA InitInv == Init => Inv
  <1> SUFFICES ASSUME Init PROVE Inv
    OBVIOUS
  <1>1. FlagsOK
    BY DEF Init, FlagsOK
  <1>2. SessionOK
    BY DEF Init, SessionOK, State
  <1>3. RequestOK
    BY DEF Init, RequestOK, CallState
  <1>4. OutgoingOK
    BY DEF Init, OutgoingOK
  <1>5. InboxOK
    <2>1. mixed \in BOOLEAN
      BY DEF Init
    <2>2. /\ cmcs = 0 /\ sender = NoValue /\ message = <<>>
          /\ parse_index = 0 /\ parse_stat = 0
      BY DEF Init
    <2> QED BY <2>1, <2>2, ValuesAssumption DEF InboxOK
  <1>6. PduOK
    BY ValuesAssumption DEF Init, PduOK, Fragment
  <1>7. OutputOK
    <2>1. tx \in Seq(Cmd)
      BY DEF Init
    <2>2. event \in Event
      BY DEF Init, Event
    <2>3. msg_mode \in {0, 1}
      BY DEF Init
    <2> QED BY <2>1, <2>2, <2>3 DEF OutputOK
  <1>8. AckDiscipline /\ SplitsInRange /\ SmsRequested
    BY DEF Init, AckDiscipline, SplitsInRange, SmsRequested, SmsStates
  <1> QED
    BY <1>1, <1>2, <1>3, <1>4, <1>5, <1>6, <1>7, <1>8 DEF Inv, TypeOK

\* A timer of loop(), or a poll.
LEMMA TimersInv ==
  ASSUME Inv, Timers
  PROVE  Inv'
  <1> USE ValuesAssumption DEF Inv, TypeOK
  <1>1. OutputOK'
    <2>1. CASE LeaveModemWait
      BY <2>1, SilentOutput DEF LeaveModemWait, OutputOK, Event
    <2>2. CASE RxTimeout
      BY <2>2, SilentOutput DEF RxTimeout, Event
    <2>3. CASE IdleTimeout
      BY <2>3, WriteOneOutput DEF IdleTimeout, send_cmd_ctrlz, Cmd
    <2>4. CASE Update
      BY <2>4, WriteOneOutput DEF Update, _periodic_check_, send_cmd_ack, Cmd
    <2> QED BY <2>1, <2>2, <2>3, <2>4 DEF Timers
  <1>2. FlagsOK'
    <2>1. CASE LeaveModemWait
      BY <2>1 DEF FlagsOK, LeaveModemWait, Unblink, data, sim, net, request
    <2>2. CASE RxTimeout
      BY <2>2 DEF FlagsOK, RxTimeout, Silent, data, sim, net, request
    <2>3. CASE IdleTimeout
      BY <2>3 DEF FlagsOK, IdleTimeout, send_cmd_ctrlz, Write, Unblink, data,
         sim, net, request
    <2>4. CASE Update
      BY <2>4 DEF FlagsOK, Update, _periodic_check_, send_cmd_ack, Write,
         link, data, sim, net, request
    <2> QED BY <2>1, <2>2, <2>3, <2>4 DEF Timers
  <1> USE DEF Timers, LeaveModemWait, RxTimeout, IdleTimeout, Update,
     _periodic_check_, Unblink, Write, send_cmd, send_cmd_ack, send_cmd_ctrlz,
     Silent, session, link, sim, net, request, outgoing, inbox, output, data
  <1>3. SessionOK'
    BY ZenonT(60) DEF SessionOK, State, Cmd
  <1>4. RequestOK'
    BY DEF RequestOK, CallState, Flag
  <1>5. OutgoingOK'
    BY DEF OutgoingOK, Fragment
  <1>6. InboxOK'
    BY DEF InboxOK, Fragment
  <1>7. PduOK'
    BY DEF PduOK, Fragment
  <1>8. AckDiscipline'
    BY DEF AckDiscipline, DataStates, SessionOK, FlagsOK
  <1>9. SplitsInRange'
    BY DEF SplitsInRange, SessionOK, FlagsOK, OutgoingOK
  <1>10. SmsRequested'
    BY DEF SmsRequested, SmsStates, SessionOK, FlagsOK, RequestOK
  <1> QED BY <1>1, <1>2, <1>3, <1>4, <1>5, <1>6, <1>7, <1>8, <1>9, <1>10

\* A write of loop().
LEMMA LoopInv ==
  ASSUME Inv, Loop
  PROVE  Inv'
  <1> USE ValuesAssumption DEF Inv, TypeOK
  <1>1. OutputOK'
    <2>1. CASE SendAt
      BY <2>1, WriteOneOutput DEF Cmd, SendAt, send_cmd_ack
    <2>2. CASE EnterPin
      BY <2>2, WriteOneOutput, SilentOutput DEF Cmd, Event, EnterPin,
         send_cmd_ack
    <2>3. CASE PinDone
      BY <2>3, WriteOneOutput DEF Cmd, PinDone, _periodic_check_, send_cmd_ack
    <2>4. CASE EnableRegistration
      BY <2>4, WriteOneOutput DEF Cmd, EnableRegistration, send_cmd_ack
    <2>5. CASE Registered
      BY <2>5, WriteOneOutput DEF Cmd, Registered, send_cmd_ack
    <2>6. CASE Connect
      BY <2>6, WriteOneOutput, SilentOutput DEF Cmd, Event, Connect, Take,
         IdleTurn, send_cmd_ack
    <2>7. CASE Disconnect
      BY <2>7, WriteOneOutput, SilentOutput DEF Cmd, Event, Disconnect, Take,
         IdleTurn, send_cmd_ack
    <2>8. CASE Dial
      BY <2>8, WriteOneOutput, SilentOutput DEF Cmd, Event, Dial, Take,
         IdleTurn, send_cmd_ack
    <2>9. CASE PollCall
      BY <2>9, WriteOneOutput DEF Cmd, PollCall, IdleTurn, send_cmd_ack
    <2>10. CASE ReadSms
      BY <2>10, WriteOneOutput, SilentOutput DEF Cmd, Event, ReadSms, Take,
         IdleTurn, send_cmd_ack
    <2>11. CASE SendSms
      BY <2>11, WriteOneOutput, SilentOutput DEF Cmd, Event, SendSms, Take,
         IdleTurn, send_cmd_ack
    <2>12. CASE Cleanup
      BY <2>12, WriteOneOutput DEF Cmd, Cleanup, IdleTurn, send_cmd_ack
    <2>13. CASE SendUssd
      BY <2>13, WriteOneOutput, SilentOutput DEF Cmd, Event, SendUssd, Take,
         IdleTurn, send_cmd_ack
    <2> QED BY <2>1, <2>2, <2>3, <2>4, <2>5, <2>6, <2>7, <2>8, <2>9, <2>10,
       <2>11, <2>12, <2>13 DEF Loop
  <1>2. FlagsOK'
    <2>1. CASE SendAt
      BY <2>1 DEF FlagsOK, SendAt, MayWrite, Unblink, Write, send_cmd,
         send_cmd_ack, send_cmd_ctrlz, Silent, session, sim, net, request
    <2>2. CASE EnterPin
      BY <2>2 DEF FlagsOK, EnterPin, MayWrite, Unblink, Write, send_cmd,
         send_cmd_ack, send_cmd_ctrlz, Silent, session, sim, net, request
    <2>3. CASE PinDone
      BY <2>3 DEF FlagsOK, PinDone, _periodic_check_, MayWrite, Unblink,
         Write, send_cmd, send_cmd_ack, send_cmd_ctrlz, Silent, session, sim,
         net, request
    <2>4. CASE EnableRegistration
      BY <2>4 DEF FlagsOK, EnableRegistration, MayWrite, Unblink, Write,
         send_cmd, send_cmd_ack, send_cmd_ctrlz, Silent, session, sim, net,
         request
    <2>5. CASE Registered
      BY <2>5 DEF FlagsOK, Registered, MayWrite, Unblink, Write, send_cmd,
         send_cmd_ack, send_cmd_ctrlz, Silent, session, sim, net, request
    <2>6. CASE Connect
      BY <2>6 DEF FlagsOK, Connect, Take, IdleTurn, MayWrite, Unblink, Write,
         send_cmd, send_cmd_ack, send_cmd_ctrlz, Silent, session, sim, net,
         request
    <2>7. CASE Disconnect
      BY <2>7 DEF FlagsOK, Disconnect, Take, IdleTurn, MayWrite, Unblink,
         Write, send_cmd, send_cmd_ack, send_cmd_ctrlz, Silent, session, sim,
         net, request
    <2>8. CASE Dial
      BY <2>8 DEF FlagsOK, Dial, Take, IdleTurn, MayWrite, Unblink, Write,
         send_cmd, send_cmd_ack, send_cmd_ctrlz, Silent, session, sim, net,
         request
    <2>9. CASE PollCall
      BY <2>9 DEF FlagsOK, PollCall, IdleTurn, MayWrite, Unblink, Write,
         send_cmd, send_cmd_ack, send_cmd_ctrlz, Silent, session, sim, net,
         request
    <2>10. CASE ReadSms
      BY <2>10 DEF FlagsOK, ReadSms, Take, IdleTurn, MayWrite, Unblink, Write,
         send_cmd, send_cmd_ack, send_cmd_ctrlz, Silent, session, sim, net,
         request
    <2>11. CASE SendSms
      BY <2>11 DEF FlagsOK, SendSms, Take, IdleTurn, MayWrite, Unblink, Write,
         send_cmd, send_cmd_ack, send_cmd_ctrlz, Silent, session, sim, net,
         request
    <2>12. CASE Cleanup
      BY <2>12 DEF FlagsOK, Cleanup, IdleTurn, MayWrite, Unblink, Write,
         send_cmd, send_cmd_ack, send_cmd_ctrlz, Silent, session, sim, net,
         request
    <2>13. CASE SendUssd
      BY <2>13 DEF FlagsOK, SendUssd, Take, IdleTurn, MayWrite, Unblink,
         Write, send_cmd, send_cmd_ack, send_cmd_ctrlz, Silent, session, sim,
         net, request
    <2> QED BY <2>1, <2>2, <2>3, <2>4, <2>5, <2>6, <2>7, <2>8, <2>9, <2>10,
       <2>11, <2>12, <2>13 DEF Loop
  <1> USE DEF Loop, SendAt, EnterPin, PinDone, EnableRegistration, Registered,
     Connect, Disconnect, Dial, PollCall, ReadSms, SendSms, Cleanup, SendUssd,
     Take, IdleTurn, MayWrite, _periodic_check_, Unblink, First, CallFlags,
     Write, send_cmd, send_cmd_ack, send_cmd_ctrlz, Silent, session, link,
     sim, net, request, outgoing, inbox, output, data
  <1>3. SessionOK'
    BY ZenonT(60) DEF SessionOK, State, Cmd
  <1>4. RequestOK'
    BY DEF RequestOK, CallState, Flag
  <1>5. OutgoingOK'
    BY DEF OutgoingOK, Fragment
  <1>6. InboxOK'
    <2>1. CASE SendAt
      BY <2>1 DEF InboxOK, SendAt, MayWrite, inbox
    <2>2. CASE EnterPin
      BY <2>2 DEF InboxOK, EnterPin, MayWrite, inbox
    <2>3. CASE PinDone
      BY <2>3 DEF InboxOK, PinDone, _periodic_check_, MayWrite, inbox
    <2>4. CASE EnableRegistration
      BY <2>4 DEF InboxOK, EnableRegistration, MayWrite, inbox
    <2>5. CASE Registered
      BY <2>5 DEF InboxOK, Registered, MayWrite, inbox
    <2>6. CASE Connect
      BY <2>6 DEF InboxOK, Connect, Take, IdleTurn, MayWrite, inbox
    <2>7. CASE Disconnect
      BY <2>7 DEF InboxOK, Disconnect, Take, IdleTurn, MayWrite, inbox
    <2>8. CASE Dial
      BY <2>8 DEF InboxOK, Dial, Take, IdleTurn, MayWrite, inbox
    <2>9. CASE PollCall
      BY <2>9 DEF InboxOK, PollCall, IdleTurn, MayWrite, inbox
    <2>10. CASE ReadSms
      BY <2>10 DEF InboxOK, ReadSms, Take, IdleTurn, MayWrite, inbox
    <2>11. CASE SendSms
      BY <2>11 DEF InboxOK, SendSms, Take, IdleTurn, MayWrite, inbox
    <2>12. CASE Cleanup
      BY <2>12 DEF InboxOK, Cleanup, IdleTurn, MayWrite, inbox
    <2>13. CASE SendUssd
      BY <2>13 DEF InboxOK, SendUssd, Take, IdleTurn, MayWrite, inbox
    <2> QED BY <2>1, <2>2, <2>3, <2>4, <2>5, <2>6, <2>7, <2>8, <2>9, <2>10,
       <2>11, <2>12, <2>13 DEF Loop
  <1>7. PduOK'
    BY DEF PduOK, Fragment
  <1>8. AckDiscipline'
    BY DEF AckDiscipline, DataStates, SessionOK, FlagsOK
  <1>9. SplitsInRange'
    BY DEF SplitsInRange, SessionOK, FlagsOK, OutgoingOK
  <1>10. SmsRequested'
    BY DEF SmsRequested, SmsStates, SessionOK, FlagsOK, RequestOK
  <1> QED BY <1>1, <1>2, <1>3, <1>4, <1>5, <1>6, <1>7, <1>8, <1>9, <1>10

\* A request only stores what is asked for.
LEMMA RequestsInv ==
  ASSUME Inv, Requests
  PROVE  Inv'
  <1> USE ValuesAssumption DEF Inv, TypeOK
  <1>1. OutputOK'
    <2>1. CASE \E to \in Numbers, text \in Texts : send_sms(to, text)
      BY <2>1, SilentOutput DEF Event, send_sms, Request
    <2>2. CASE \E to \in Numbers : dial(to)
      BY <2>2, SilentOutput DEF Event, dial, Request
    <2>3. CASE \E code \in Codes : send_ussd(code)
      BY <2>3, SilentOutput DEF Event, send_ussd, Request
    <2>4. CASE send_at
      BY <2>4, SilentOutput DEF Event, send_at, Request
    <2>5. CASE connect
      BY <2>5, SilentOutput DEF Event, connect, Request
    <2>6. CASE disconnect
      BY <2>6, SilentOutput DEF Event, disconnect, Request
    <2>7. CASE set_debug
      BY <2>7, SilentOutput DEF Event, set_debug, Request
    <2> QED BY <2>1, <2>2, <2>3, <2>4, <2>5, <2>6, <2>7 DEF Requests
  <1>2. FlagsOK'
    <2>1. CASE \E to \in Numbers, text \in Texts : send_sms(to, text)
      BY <2>1 DEF FlagsOK, send_sms, Request, session, link, sim, net,
         request, outgoing, inbox, Silent
    <2>2. CASE \E to \in Numbers : dial(to)
      BY <2>2 DEF FlagsOK, dial, Request, session, link, sim, net, request,
         outgoing, inbox, Silent
    <2>3. CASE \E code \in Codes : send_ussd(code)
      BY <2>3 DEF FlagsOK, send_ussd, Request, session, link, sim, net,
         request, outgoing, inbox, Silent
    <2>4. CASE send_at
      BY <2>4 DEF FlagsOK, send_at, Request, session, link, sim, net, request,
         outgoing, inbox, Silent
    <2>5. CASE connect
      BY <2>5 DEF FlagsOK, connect, Request, session, link, sim, net, request,
         outgoing, inbox, Silent
    <2>6. CASE disconnect
      BY <2>6 DEF FlagsOK, disconnect, Request, session, link, sim, net,
         request, outgoing, inbox, Silent
    <2>7. CASE set_debug
      BY <2>7 DEF FlagsOK, set_debug, Request, session, link, sim, net,
         request, outgoing, inbox, Silent
    <2> QED BY <2>1, <2>2, <2>3, <2>4, <2>5, <2>6, <2>7 DEF Requests
  <1> USE DEF Requests, Request, send_sms, dial, send_ussd, send_at, connect,
     disconnect, set_debug, InUse, OutgoingStates, Write, send_cmd,
     send_cmd_ack, send_cmd_ctrlz, Silent, session, link, sim, net, request,
     outgoing, inbox, output, data
  <1>3. SessionOK'
    BY DEF SessionOK, State, Cmd
  <1>4. RequestOK'
    BY DEF RequestOK, CallState, Flag
  <1>5. OutgoingOK'
    BY DEF OutgoingOK, Fragment
  <1>6. InboxOK'
    BY DEF InboxOK, Fragment
  <1>7. PduOK'
    BY DEF PduOK, Fragment
  <1>8. AckDiscipline'
    BY DEF AckDiscipline, DataStates, SessionOK, FlagsOK
  <1>9. SplitsInRange'
    BY DEF SplitsInRange, SessionOK, FlagsOK, OutgoingOK
  <1>10. SmsRequested'
    BY DEF SmsRequested, SmsStates, SessionOK, FlagsOK, RequestOK
  <1> QED BY <1>1, <1>2, <1>3, <1>4, <1>5, <1>6, <1>7, <1>8, <1>9, <1>10

\* A restart of the node.
LEMMA RestartInv ==
  ASSUME Inv, Restart
  PROVE  Inv'
  <1> USE ValuesAssumption DEF Inv, TypeOK
  <1>1. OutputOK'
    BY DEF Restart, Event, OutputOK
  <1> USE DEF Restart
  <1>2. FlagsOK'
    BY DEF FlagsOK
  <1>3. SessionOK'
    BY DEF SessionOK, State, Cmd
  <1>4. RequestOK'
    BY DEF RequestOK, CallState, Flag
  <1>5. OutgoingOK'
    BY DEF OutgoingOK, Fragment
  <1>6. InboxOK'
    <2>1. mixed' \in BOOLEAN
      OBVIOUS
    <2>2. /\ cmcs' = 0 /\ sender' = NoValue /\ message' = <<>>
          /\ parse_index' = 0 /\ parse_stat' = 0
      OBVIOUS
    <2> HIDE DEF Restart
    <2> QED BY <2>1, <2>2 DEF InboxOK
  <1>7. PduOK'
    BY DEF PduOK, Fragment
  <1>8. AckDiscipline'
    BY DEF AckDiscipline, DataStates, SessionOK, FlagsOK
  <1>9. SplitsInRange'
    BY DEF SplitsInRange, SessionOK, FlagsOK, OutgoingOK
  <1>10. SmsRequested'
    BY DEF SmsRequested, SmsStates, SessionOK, FlagsOK, RequestOK
  <1> QED BY <1>1, <1>2, <1>3, <1>4, <1>5, <1>6, <1>7, <1>8, <1>9, <1>10

\* A notification.
LEMMA NotificationInv ==
  ASSUME Inv, NEW l \in Lines, heard' = TRUE,
         modem_ready' = (modem_ready \/ l.k = "ATREADY"), Unblink,
         Notification(l)
  PROVE  Inv'
  <1> USE ValuesAssumption DEF Inv, TypeOK
  <1>1. OutputOK'
    <2>1. CASE OnIgnored(l)
      BY <2>1, SilentOutput DEF Event, OnIgnored
    <2>2. CASE OnCpin(l)
      BY <2>2, SilentOutput DEF Event, OnCpin
    <2>3. CASE OnCreg(l)
      BY <2>3, SilentOutput DEF Event, OnCreg
    <2>4. CASE OnCmti(l)
      BY <2>4, SilentOutput DEF Event, OnCmti
    <2>5. CASE OnCusd(l)
      BY <2>5, SilentOutput DEF Event, OnCusd
    <2>6. CASE OnClcc(l)
      BY <2>6, SilentOutput DEF Event, OnClcc
    <2> QED BY <2>1, <2>2, <2>3, <2>4, <2>5, <2>6 DEF Notification
  <1>2. FlagsOK'
    <2>1. CASE OnIgnored(l)
      BY <2>1 DEF FlagsOK, OnIgnored, Line, Unblink, Silent, session, data,
         sim, net, request
    <2>2. CASE OnCpin(l)
      BY <2>2 DEF FlagsOK, OnCpin, Line, Unblink, Silent, session, data, sim,
         net, request
    <2>3. CASE OnCreg(l)
      BY <2>3 DEF FlagsOK, OnCreg, Line, Unblink, Silent, session, data, sim,
         net, request
    <2>4. CASE OnCmti(l)
      BY <2>4 DEF FlagsOK, OnCmti, Line, Unblink, Silent, session, data, sim,
         net, request
    <2>5. CASE OnCusd(l)
      BY <2>5 DEF FlagsOK, OnCusd, Line, Unblink, Silent, session, data, sim,
         net, request
    <2>6. CASE OnClcc(l)
      BY <2>6 DEF FlagsOK, OnClcc, Line, Unblink, Silent, session, data, sim,
         net, request
    <2> QED BY <2>1, <2>2, <2>3, <2>4, <2>5, <2>6 DEF Notification
  <1> USE DEF Notification, OnIgnored, OnCpin, OnCreg, OnCmti, OnCusd, OnClcc,
     Line, Unblink, Silent, session, link, sim, net, request, outgoing, inbox,
     output, data
  <1>3. SessionOK'
    BY DEF SessionOK, State, Cmd
  <1>4. RequestOK'
    <2>1. CASE OnIgnored(l)
      BY <2>1 DEF RequestOK, CallState, Flag, OnIgnored, Line, data, request
    <2>2. CASE OnCpin(l)
      BY <2>2 DEF RequestOK, CallState, Flag, OnCpin, Line, data, request
    <2>3. CASE OnCreg(l)
      BY <2>3 DEF RequestOK, CallState, Flag, OnCreg, Line, data, request
    <2>4. CASE OnCmti(l)
      BY <2>4 DEF RequestOK, CallState, Flag, OnCmti, Line, data, request
    <2>5. CASE OnCusd(l)
      BY <2>5 DEF RequestOK, CallState, Flag, OnCusd, Line, data, request
    <2>6. CASE OnClcc(l)
      BY <2>6 DEF RequestOK, CallState, Flag, OnClcc, Line, data, request
    <2> QED BY <2>1, <2>2, <2>3, <2>4, <2>5, <2>6 DEF Notification
  <1>5. OutgoingOK'
    BY DEF OutgoingOK, Fragment
  <1>6. InboxOK'
    BY DEF InboxOK, Fragment
  <1>7. PduOK'
    BY DEF PduOK, Fragment
  <1>8. AckDiscipline'
    BY DEF AckDiscipline, DataStates, SessionOK, FlagsOK
  <1>9. SplitsInRange'
    BY DEF SplitsInRange, SessionOK, FlagsOK, OutgoingOK
  <1>10. SmsRequested'
    BY DEF SmsRequested, SmsStates, SessionOK, FlagsOK, RequestOK
  <1> QED BY <1>1, <1>2, <1>3, <1>4, <1>5, <1>6, <1>7, <1>8, <1>9, <1>10

\* A failed acknowledgement.
LEMMA AckFailsInv ==
  ASSUME Inv, NEW l \in Lines, heard' = TRUE,
         modem_ready' = (modem_ready \/ l.k = "ATREADY"), Unblink,
         AckFails(l)
  PROVE  Inv'
  <1> USE ValuesAssumption DEF Inv, TypeOK
  <1>1. OutputOK'
    BY SilentOutput DEF Event, AckFails
  <1> USE DEF AckFails, Unblink, Silent, session, link, sim, net, request,
     outgoing, inbox, output, data
  <1>2. FlagsOK'
    BY DEF FlagsOK
  <1>3. SessionOK'
    BY DEF SessionOK, State, Cmd
  <1>4. RequestOK'
    BY DEF RequestOK, CallState, Flag
  <1>5. OutgoingOK'
    BY DEF OutgoingOK, Fragment
  <1>6. InboxOK'
    BY DEF InboxOK, Fragment
  <1>7. PduOK'
    BY DEF PduOK, Fragment
  <1>8. AckDiscipline'
    BY DEF AckDiscipline, DataStates, SessionOK, FlagsOK
  <1>9. SplitsInRange'
    BY DEF SplitsInRange, SessionOK, FlagsOK, OutgoingOK
  <1>10. SmsRequested'
    BY DEF SmsRequested, SmsStates, SessionOK, FlagsOK, RequestOK
  <1> QED BY <1>1, <1>2, <1>3, <1>4, <1>5, <1>6, <1>7, <1>8, <1>9, <1>10

\* A line in a state that has no flow.
LEMMA InWaitStateInv ==
  ASSUME Inv, NEW l \in Lines, heard' = TRUE,
         modem_ready' = (modem_ready \/ l.k = "ATREADY"), Unblink,
         UNCHANGED call_state, expect_ack => l.k = "OK",
         InWaitState(l)
  PROVE  Inv'
  <1> USE ValuesAssumption DEF Inv, TypeOK
  <1>1. OutputOK'
    BY WriteOneOutput, SilentOutput DEF Event, Cmd, Goto, NextCmd, NextCmdAck,
       send_cmd, send_cmd_ack, send_cmd_ctrlz, InWaitState
  <1> USE DEF InWaitState, Goto, NextCmd, NextCmdAck, Acknowledged, Unblink,
     Line, Write, send_cmd, send_cmd_ack, send_cmd_ctrlz, Silent, session,
     link, sim, net, request, outgoing, inbox, output, data
  <1>2. FlagsOK'
    BY DEF FlagsOK
  <1>3. SessionOK'
    BY DEF SessionOK, State, Cmd
  <1>4. RequestOK'
    BY DEF RequestOK, CallState, Flag
  <1>5. OutgoingOK'
    BY DEF OutgoingOK, Fragment
  <1>6. InboxOK'
    BY DEF InboxOK, Fragment
  <1>7. PduOK'
    BY DEF PduOK, Fragment
  <1>8. AckDiscipline'
    BY DEF AckDiscipline, DataStates, SessionOK, FlagsOK
  <1>9. SplitsInRange'
    BY DEF SplitsInRange, SessionOK, FlagsOK, OutgoingOK
  <1>10. SmsRequested'
    BY DEF SmsRequested, SmsStates, SessionOK, FlagsOK, RequestOK
  <1> QED BY <1>1, <1>2, <1>3, <1>4, <1>5, <1>6, <1>7, <1>8, <1>9, <1>10

\* The start-up flow.
LEMMA InInitInv ==
  ASSUME Inv, NEW l \in Lines, heard' = TRUE,
         modem_ready' = (modem_ready \/ l.k = "ATREADY"), Unblink,
         UNCHANGED call_state, expect_ack => l.k = "OK",
         InInit(l)
  PROVE  Inv'
  <1> USE ValuesAssumption DEF Inv, TypeOK
  <1>1. OutputOK'
    BY WriteOneOutput, SilentOutput DEF Event, Cmd, Goto, NextCmd, NextCmdAck,
       send_cmd, send_cmd_ack, send_cmd_ctrlz, InInit
  <1> USE DEF InInit, Goto, NextCmd, NextCmdAck, Acknowledged, Unblink, Line,
     Write, send_cmd, send_cmd_ack, send_cmd_ctrlz, Silent, session, link,
     sim, net, request, outgoing, inbox, output, data
  <1>2. FlagsOK'
    BY DEF FlagsOK
  <1>3. SessionOK'
    BY DEF SessionOK, State, Cmd
  <1>4. RequestOK'
    BY DEF RequestOK, CallState, Flag
  <1>5. OutgoingOK'
    BY DEF OutgoingOK, Fragment
  <1>6. InboxOK'
    BY DEF InboxOK, Fragment
  <1>7. PduOK'
    BY DEF PduOK, Fragment
  <1>8. AckDiscipline'
    BY DEF AckDiscipline, DataStates, SessionOK, FlagsOK
  <1>9. SplitsInRange'
    BY DEF SplitsInRange, SessionOK, FlagsOK, OutgoingOK
  <1>10. SmsRequested'
    BY DEF SmsRequested, SmsStates, SessionOK, FlagsOK, RequestOK
  <1> QED BY <1>1, <1>2, <1>3, <1>4, <1>5, <1>6, <1>7, <1>8, <1>9, <1>10

\* The dialing flow.
LEMMA InDialingInv ==
  ASSUME Inv, NEW l \in Lines, heard' = TRUE,
         modem_ready' = (modem_ready \/ l.k = "ATREADY"), Unblink,
         UNCHANGED call_state, expect_ack => l.k = "OK",
         InDialing(l)
  PROVE  Inv'
  <1> USE ValuesAssumption DEF Inv, TypeOK
  <1>1. OutputOK'
    BY WriteOneOutput, SilentOutput DEF Event, Cmd, Goto, NextCmd, NextCmdAck,
       send_cmd, send_cmd_ack, send_cmd_ctrlz, ErrorOut, InDialing
  <1> USE DEF InDialing, ErrorOut, Goto, NextCmd, NextCmdAck, Acknowledged,
     Unblink, Line, Write, send_cmd, send_cmd_ack, send_cmd_ctrlz, Silent,
     session, link, sim, net, request, outgoing, inbox, output, data
  <1>2. FlagsOK'
    BY DEF FlagsOK
  <1>3. SessionOK'
    BY DEF SessionOK, State, Cmd
  <1>4. RequestOK'
    BY DEF RequestOK, CallState, Flag
  <1>5. OutgoingOK'
    BY DEF OutgoingOK, Fragment
  <1>6. InboxOK'
    BY DEF InboxOK, Fragment
  <1>7. PduOK'
    BY DEF PduOK, Fragment
  <1>8. AckDiscipline'
    BY DEF AckDiscipline, DataStates, SessionOK, FlagsOK
  <1>9. SplitsInRange'
    BY DEF SplitsInRange, SessionOK, FlagsOK, OutgoingOK
  <1>10. SmsRequested'
    BY DEF SmsRequested, SmsStates, SessionOK, FlagsOK, RequestOK
  <1> QED BY <1>1, <1>2, <1>3, <1>4, <1>5, <1>6, <1>7, <1>8, <1>9, <1>10

\* The USSD flow.
LEMMA InUssdInv ==
  ASSUME Inv, NEW l \in Lines, heard' = TRUE,
         modem_ready' = (modem_ready \/ l.k = "ATREADY"), Unblink,
         UNCHANGED call_state, expect_ack => l.k = "OK",
         InUssd(l)
  PROVE  Inv'
  <1> USE ValuesAssumption DEF Inv, TypeOK
  <1>1. OutputOK'
    BY WriteOneOutput, SilentOutput DEF Event, Cmd, Goto, NextCmd, NextCmdAck,
       send_cmd, send_cmd_ack, send_cmd_ctrlz, ErrorOut, InUssd
  <1> USE DEF InUssd, ErrorOut, Goto, NextCmd, NextCmdAck, Acknowledged,
     Unblink, Line, Write, send_cmd, send_cmd_ack, send_cmd_ctrlz, Silent,
     session, link, sim, net, request, outgoing, inbox, output, data
  <1>2. FlagsOK'
    BY DEF FlagsOK
  <1>3. SessionOK'
    BY DEF SessionOK, State, Cmd
  <1>4. RequestOK'
    BY DEF RequestOK, CallState, Flag
  <1>5. OutgoingOK'
    BY DEF OutgoingOK, Fragment
  <1>6. InboxOK'
    BY DEF InboxOK, Fragment
  <1>7. PduOK'
    BY DEF PduOK, Fragment
  <1>8. AckDiscipline'
    BY DEF AckDiscipline, DataStates, SessionOK, FlagsOK
  <1>9. SplitsInRange'
    BY DEF SplitsInRange, SessionOK, FlagsOK, OutgoingOK
  <1>10. SmsRequested'
    BY DEF SmsRequested, SmsStates, SessionOK, FlagsOK, RequestOK
  <1> QED BY <1>1, <1>2, <1>3, <1>4, <1>5, <1>6, <1>7, <1>8, <1>9, <1>10

\* The listing flow.
LEMMA InListingInv ==
  ASSUME Inv, NEW l \in Lines, heard' = TRUE,
         modem_ready' = (modem_ready \/ l.k = "ATREADY"), Unblink,
         UNCHANGED call_state, expect_ack => l.k = "OK",
         InListing(l)
  PROVE  Inv'
  <1> USE ValuesAssumption DEF Inv, TypeOK
  <1>1. OutputOK'
    BY WriteOneOutput, SilentOutput DEF Event, Cmd, Goto, NextCmd, NextCmdAck,
       send_cmd, send_cmd_ack, send_cmd_ctrlz, InListing
  <1> USE DEF InListing, Header, Goto, NextCmd, NextCmdAck, Acknowledged,
     Unblink, Line, Write, send_cmd, send_cmd_ack, send_cmd_ctrlz, Silent,
     session, link, sim, net, request, outgoing, inbox, output, data
  <1>2. FlagsOK'
    BY DEF FlagsOK
  <1>3. SessionOK'
    BY DEF SessionOK, State, Cmd
  <1>4. RequestOK'
    BY DEF RequestOK, CallState, Flag
  <1>5. OutgoingOK'
    BY DEF OutgoingOK, Fragment
  <1>6. InboxOK'
    BY SMTT(30) DEF InboxOK, Fragment
  <1>7. PduOK'
    BY DEF PduOK, Fragment
  <1>8. AckDiscipline'
    BY DEF AckDiscipline, DataStates, SessionOK, FlagsOK
  <1>9. SplitsInRange'
    BY DEF SplitsInRange, SessionOK, FlagsOK, OutgoingOK
  <1>10. SmsRequested'
    BY DEF SmsRequested, SmsStates, SessionOK, FlagsOK, RequestOK
  <1> QED BY <1>1, <1>2, <1>3, <1>4, <1>5, <1>6, <1>7, <1>8, <1>9, <1>10

-----------------------------------------------------------------------------
(* What decoding and encoding leave. *)

\* What decodePDU leaves in the work buffers is a fragment, a number and a
\* reference, whether it succeeds or not (pdulib.cpp:745).
LEMMA DecodedType ==
  ASSUME PduOK, NEW l \in Lines
  PROVE  decodePDU(l) \in [buf : Fragment, from : Numbers \cup {NoValue},
                           ref : Refs]
  BY ValuesAssumption DEF PduOK, decodePDU, Line, Fragment

\* The text of a message stays a sequence of fragments (a7670.cpp:704).
LEMMA PlusType ==
  ASSUME NEW msg \in Seq(Fragment), NEW text \in Fragment
  PROVE  Plus(msg, text) \in Seq(Fragment)
  BY DEF Plus

\* checkMultipart cuts a text at natural offsets (pdulib.cpp:317).
LEMMA SplitsType ==
  ASSUME NEW to, NEW text \in Texts
  PROVE  SplitsFor(to, text) \in Seq(Nat)
  BY ValuesAssumption DEF SplitsFor

\* The cuts around a part are offsets, because partnum is in range when
\* _send_sms_send_header_ runs.
LEMMA EncodedType ==
  ASSUME Inv, state = "SENDING_SMS_3"
  PROVE  EncodedPart \in Fragment
  <1>1. recipient \in Numbers /\ outgoing_message \in Texts
    BY DEF Inv, SmsRequested, SmsStates
  <1>2. Length[outgoing_message] \in Nat
    BY <1>1, ValuesAssumption
  <1>3. splits \in Seq(Nat) /\ partnum \in Nat
    BY DEF Inv, TypeOK, OutgoingOK
  <1>4. splits # <<>> => partnum <= Len(splits)
    BY DEF Inv, SplitsInRange
  <1>5. PartBegin \in Nat
    BY <1>3, <1>4 DEF PartBegin
  <1>6. PartEnd \in Nat
    BY <1>2, <1>3 DEF PartEnd
  <1>7. Lesser(PartEnd, Length[outgoing_message]) \in Nat
    BY <1>2, <1>6 DEF Lesser
  <1> QED BY <1>1, <1>5, <1>7 DEF EncodedPart, Part, Fragment

\* _parse_sms_header_ sets parse_index_ to a byte (a7670.cpp:689).
LEMMA HeaderType ==
  ASSUME NEW l \in Lines, l.k = "CMGL", Header(l)
  PROVE  parse_index' \in 0..ByteMax /\ parse_stat' \in {0, 1}
  BY ValuesAssumption DEF Line, Header

\* _parse_sms_message_ joins a part to the message or starts a new one
\* (a7670.cpp:694-705).
LEMMA CollectType ==
  ASSUME InboxOK, PduOK, NEW l \in Lines, Collect(l)
  PROVE  /\ cmcs' \in Refs /\ sender' \in Numbers \cup {NoValue}
         /\ message' \in Seq(Fragment) /\ mixed' \in BOOLEAN
  <1>1. decodePDU(l) \in [buf : Fragment, from : Numbers \cup {NoValue},
                          ref : Refs]
    BY DecodedType
  <1>2. cmcs' \in Refs /\ sender' \in Numbers \cup {NoValue}
    BY <1>1 DEF Collect
  <1>3. PICK old \in {<<>>, message} : message' = Plus(old, decodePDU(l).buf)
    BY DEF Collect
  <1>4. old \in Seq(Fragment)
    <2>1. message \in Seq(Fragment) /\ <<>> \in Seq(Fragment)
      BY DEF InboxOK
    <2> QED BY <1>3, <2>1
  <1>5. mixed' \in BOOLEAN
    BY DEF Collect
  <1> QED BY <1>1, <1>2, <1>3, <1>4, <1>5, PlusType

\* The reading of messages.
LEMMA InReceivingInv ==
  ASSUME Inv, NEW l \in Lines, heard' = TRUE,
         modem_ready' = (modem_ready \/ l.k = "ATREADY"), Unblink,
         UNCHANGED call_state, expect_ack => l.k = "OK",
         InReceiving(l)
  PROVE  Inv'
  <1> USE ValuesAssumption DEF Inv, TypeOK
  <1>1. OutputOK'
    BY WriteOneOutput, SilentOutput DEF Event, Cmd, Goto, NextCmd, NextCmdAck,
       send_cmd, send_cmd_ack, send_cmd_ctrlz, Collect, Handled, InReceiving
  <1> USE DEF InReceiving, Header, Collect, decodePDU, NewMessage, Plus, Goto,
     NextCmd, NextCmdAck, Acknowledged, Unblink, Line, Write, send_cmd,
     send_cmd_ack, send_cmd_ctrlz, Silent, session, link, sim, net, request,
     outgoing, inbox, output, data
  <1>2. FlagsOK'
    BY ZenonT(60) DEF FlagsOK
  <1>3. SessionOK'
    BY DEF SessionOK, State, Cmd
  <1>4. RequestOK'
    BY DEF RequestOK, CallState, Flag
  <1>5. OutgoingOK'
    BY DEF OutgoingOK, Fragment
  <1>6. InboxOK'
    <2>1. CASE l.k = "CMGL"
      BY <2>1, HeaderType DEF InboxOK, InReceiving
    <2>2. CASE l.k = "OK"
      <3>1. /\ message' = <<>> /\ sender' = NoValue /\ cmcs' = 0 /\ mixed' = FALSE
            /\ UNCHANGED <<parse_index, parse_stat>>
        BY <2>2 DEF InReceiving
      <3>2. mixed' \in BOOLEAN
        BY <3>1
      <3> QED BY <3>1, <3>2, ValuesAssumption DEF InboxOK
    <2>3. CASE l.k \notin {"CMGL", "OK"} /\ parse_stat = 0
      BY <2>3, CollectType DEF InboxOK, InReceiving
    <2>4. CASE l.k \notin {"CMGL", "OK"} /\ parse_stat # 0
      BY <2>4 DEF InboxOK, InReceiving, inbox
    <2> QED BY <2>1, <2>2, <2>3, <2>4 DEF InReceiving, InboxOK
  <1>7. PduOK'
    BY DecodedType DEF PduOK, InReceiving, Collect
  <1>8. AckDiscipline'
    BY DEF AckDiscipline, DataStates, SessionOK, FlagsOK
  <1>9. SplitsInRange'
    BY DEF SplitsInRange, SessionOK, FlagsOK, OutgoingOK
  <1>10. SmsRequested'
    BY DEF SmsRequested, SmsStates, SessionOK, FlagsOK, RequestOK
  <1> QED BY <1>1, <1>2, <1>3, <1>4, <1>5, <1>6, <1>7, <1>8, <1>9, <1>10

\* The sending of a message.
LEMMA InSendingInv ==
  ASSUME Inv, NEW l \in Lines, heard' = TRUE,
         modem_ready' = (modem_ready \/ l.k = "ATREADY"), Unblink,
         UNCHANGED call_state, expect_ack => l.k = "OK",
         InSending(l)
  PROVE  Inv'
  <1> USE ValuesAssumption DEF Inv, TypeOK
  <1>1. OutputOK'
    <2>1. CASE AskCenter
      BY <2>1, WriteOneOutput DEF Cmd, NextCmd, send_cmd, AskCenter
    <2>2. CASE receive_csca(l)
      BY <2>2, SilentOutput DEF Event, Goto, receive_csca
    <2>3. CASE BeginParts
      BY <2>3, WriteOneOutput DEF Cmd, NextCmdAck, send_cmd_ack, BeginParts
    <2>4. CASE SendHeader
      <3>1. <<"AT+CMGS=", "BODY^Z">> \in Seq(Cmd)
        BY DEF Cmd
      <3>2. "AT+CMGS=" \in Cmd
        BY DEF Cmd
      <3>3. CASE sim8xx
        BY <2>4, <3>1, <3>3, WriteOutput DEF SendHeader
      <3>4. CASE ~sim8xx
        BY <2>4, <3>2, <3>4, WriteOneOutput DEF SendHeader
      <3> QED BY <3>3, <3>4
    <2>5. CASE EncodeFails
      BY <2>5, SilentOutput DEF Event, Goto, EncodeFails
    <2>6. CASE SubstrThrows
      BY <2>6, SilentOutput DEF Event, Goto, SubstrThrows
    <2>7. CASE SendBody(l)
      BY <2>7, WriteOneOutput DEF Cmd, send_cmd_ctrlz, SendBody
    <2>8. CASE PartSent(l)
      BY <2>8, SilentOutput DEF Event, Goto, PartSent
    <2>9. CASE KeepWaiting(l)
      BY <2>9, SilentOutput DEF Event, Goto, KeepWaiting
    <2> QED BY <2>1, <2>2, <2>3, <2>4, <2>5, <2>6, <2>7, <2>8,
       <2>9 DEF InSending
  <1>2. FlagsOK'
    <2>1. CASE AskCenter
      BY <2>1 DEF FlagsOK, InSending, AskCenter, Goto, NextCmd, NextCmdAck,
         Acknowledged, send_cmd, send_cmd_ack, send_cmd_ctrlz, Write, Silent,
         Unblink, sim, net, request, inbox
    <2>2. CASE receive_csca(l)
      BY <2>2 DEF FlagsOK, InSending, receive_csca, Goto, NextCmd, NextCmdAck,
         Acknowledged, send_cmd, send_cmd_ack, send_cmd_ctrlz, Write, Silent,
         Unblink, sim, net, request, inbox
    <2>3. CASE BeginParts
      BY <2>3 DEF FlagsOK, InSending, BeginParts, Goto, NextCmd, NextCmdAck,
         Acknowledged, send_cmd, send_cmd_ack, send_cmd_ctrlz, Write, Silent,
         Unblink, sim, net, request, inbox
    <2>4. CASE SendHeader
      BY <2>4 DEF FlagsOK, InSending, SendHeader, Goto, NextCmd, NextCmdAck,
         Acknowledged, send_cmd, send_cmd_ack, send_cmd_ctrlz, Write, Silent,
         Unblink, sim, net, request, inbox
    <2>5. CASE EncodeFails
      BY <2>5 DEF FlagsOK, InSending, EncodeFails, Goto, NextCmd, NextCmdAck,
         Acknowledged, send_cmd, send_cmd_ack, send_cmd_ctrlz, Write, Silent,
         Unblink, sim, net, request, inbox
    <2>6. CASE SubstrThrows
      BY <2>6 DEF FlagsOK, InSending, SubstrThrows, Goto, NextCmd, NextCmdAck,
         Acknowledged, send_cmd, send_cmd_ack, send_cmd_ctrlz, Write, Silent,
         Unblink, sim, net, request, inbox
    <2>7. CASE SendBody(l)
      BY <2>7 DEF FlagsOK, InSending, SendBody, Goto, NextCmd, NextCmdAck,
         Acknowledged, send_cmd, send_cmd_ack, send_cmd_ctrlz, Write, Silent,
         Unblink, sim, net, request, inbox
    <2>8. CASE PartSent(l)
      BY <2>8 DEF FlagsOK, InSending, PartSent, Goto, NextCmd, NextCmdAck,
         Acknowledged, send_cmd, send_cmd_ack, send_cmd_ctrlz, Write, Silent,
         Unblink, sim, net, request, inbox
    <2>9. CASE KeepWaiting(l)
      BY <2>9 DEF FlagsOK, InSending, KeepWaiting, Goto, NextCmd, NextCmdAck,
         Acknowledged, send_cmd, send_cmd_ack, send_cmd_ctrlz, Write, Silent,
         Unblink, sim, net, request, inbox
    <2> QED BY <2>1, <2>2, <2>3, <2>4, <2>5, <2>6, <2>7, <2>8,
       <2>9 DEF InSending
  <1> USE DEF InSending, AskCenter, receive_csca, BeginParts, SendHeader,
     EncodeFails, SubstrThrows, SendBody, PartSent, KeepWaiting, CountPart,
     PrepareSplits, SplitsFor, MoreParts, Goto, NextCmd, NextCmdAck,
     Acknowledged, Unblink, Line, Write, send_cmd, send_cmd_ack,
     send_cmd_ctrlz, Silent, session, link, sim, net, request, outgoing,
     inbox, output, data
  <1>3. SessionOK'
    BY DEF SessionOK, State, Cmd
  <1>4. RequestOK'
    BY DEF RequestOK, CallState, Flag
  <1>5. OutgoingOK'
    <2>1. CASE AskCenter
      BY <2>1 DEF OutgoingOK, PduOK, Fragment, SmsRequested, SmsStates,
         AskCenter, outgoing
    <2>2. CASE receive_csca(l)
      BY <2>2 DEF OutgoingOK, PduOK, Fragment, SmsRequested, SmsStates,
         receive_csca, outgoing
    <2>3. CASE BeginParts
      BY <2>3, EncodedType, SplitsType DEF OutgoingOK, PduOK, Fragment,
         SmsRequested, SmsStates, BeginParts, PrepareSplits, outgoing
    <2>4. CASE SendHeader
      <3>1. splits' \in Seq(Nat) /\ partnum' \in Nat
        BY <2>4 DEF OutgoingOK, SendHeader, CountPart
      <3>2. EncodedPart \in Fragment
        BY <2>4, EncodedType DEF SendHeader
      <3>3. submitted' \in {submitted, Append(submitted, EncodedPart)}
        BY <2>4 DEF SendHeader
      <3>4. submitted' \in Seq(Fragment)
        <4>1. submitted \in Seq(Fragment)
          BY DEF OutgoingOK
        <4>2. Append(submitted, EncodedPart) \in Seq(Fragment)
          BY <4>1, <3>2
        <4> QED BY <4>1, <4>2, <3>3
      <3> QED BY <3>1, <3>4 DEF OutgoingOK
    <2>5. CASE EncodeFails
      BY <2>5 DEF OutgoingOK, PduOK, Fragment, SmsRequested, SmsStates,
         EncodeFails, CountPart, outgoing
    <2>6. CASE SubstrThrows
      BY <2>6 DEF OutgoingOK, PduOK, Fragment, SmsRequested, SmsStates,
         SubstrThrows, outgoing
    <2>7. CASE SendBody(l)
      BY <2>7 DEF OutgoingOK, PduOK, Fragment, SmsRequested, SmsStates,
         SendBody, outgoing
    <2>8. CASE PartSent(l)
      <3>1. splits' \in {splits, <<>>} /\ partnum' \in {partnum, 0}
        BY <2>8 DEF PartSent
      <3>2. submitted' = submitted
        BY <2>8 DEF PartSent
      <3>3. /\ splits \in Seq(Nat) /\ <<>> \in Seq(Nat) /\ partnum \in Nat
            /\ submitted \in Seq(Fragment)
        BY DEF OutgoingOK
      <3>4. splits' \in Seq(Nat)
        BY <3>1, <3>3
      <3>5. partnum' \in Nat
        BY <3>1, <3>3
      <3> QED BY <3>2, <3>3, <3>4, <3>5 DEF OutgoingOK
    <2>9. CASE KeepWaiting(l)
      BY <2>9 DEF OutgoingOK, PduOK, Fragment, SmsRequested, SmsStates,
         KeepWaiting, outgoing
    <2> QED BY <2>1, <2>2, <2>3, <2>4, <2>5, <2>6, <2>7, <2>8,
       <2>9 DEF InSending
  <1>6. InboxOK'
    BY DEF InboxOK, Fragment
  <1>7. PduOK'
    <2>1. CASE AskCenter
      BY <2>1 DEF PduOK, Fragment, AskCenter
    <2>2. CASE receive_csca(l)
      BY <2>2 DEF PduOK, Fragment, receive_csca
    <2>3. CASE BeginParts
      BY <2>3 DEF PduOK, Fragment, BeginParts
    <2>4. CASE SendHeader
      BY <2>4, EncodedType DEF PduOK, Fragment, SendHeader
    <2>5. CASE EncodeFails
      BY <2>5 DEF PduOK, Fragment, EncodeFails
    <2>6. CASE SubstrThrows
      BY <2>6 DEF PduOK, Fragment, SubstrThrows
    <2>7. CASE SendBody(l)
      BY <2>7 DEF PduOK, Fragment, SendBody
    <2>8. CASE PartSent(l)
      BY <2>8 DEF PduOK, Fragment, PartSent
    <2>9. CASE KeepWaiting(l)
      BY <2>9 DEF PduOK, Fragment, KeepWaiting
    <2> QED BY <2>1, <2>2, <2>3, <2>4, <2>5, <2>6, <2>7, <2>8,
       <2>9 DEF InSending
  <1>8. AckDiscipline'
    BY DEF AckDiscipline, DataStates, SessionOK, FlagsOK
  <1>9. SplitsInRange'
    BY SMTT(60) DEF SplitsInRange, SessionOK, FlagsOK, OutgoingOK
  <1>10. SmsRequested'
    BY DEF SmsRequested, SmsStates, SessionOK, FlagsOK, RequestOK
  <1> QED BY <1>1, <1>2, <1>3, <1>4, <1>5, <1>6, <1>7, <1>8, <1>9, <1>10

-----------------------------------------------------------------------------
(* All steps together. *)

\* A line is a notification, a failed acknowledgement, or goes to the flow.
LEMMA RxInv ==
  ASSUME Inv, NEW l \in Lines, Rx(l)
  PROVE  Inv'
  <1>1. CASE Notification(l)
    BY <1>1, NotificationInv DEF Rx
  <1>2. CASE AckFails(l)
    BY <1>2, AckFailsInv DEF Rx
  <1>3. CASE Dispatch(l)
    <2> USE <1>3 DEF Rx, Dispatch
    <2>1. CASE InWaitState(l)
      BY <2>1, InWaitStateInv
    <2>2. CASE InInit(l)
      BY <2>2, InInitInv
    <2>3. CASE InDialing(l)
      BY <2>3, InDialingInv
    <2>4. CASE InUssd(l)
      BY <2>4, InUssdInv
    <2>5. CASE InListing(l)
      BY <2>5, InListingInv
    <2>6. CASE InReceiving(l)
      BY <2>6, InReceivingInv
    <2>7. CASE InSending(l)
      BY <2>7, InSendingInv
    <2> QED BY <2>1, <2>2, <2>3, <2>4, <2>5, <2>6, <2>7
  <1> QED BY <1>1, <1>2, <1>3 DEF Rx, parse_cmd_

\* A step that changes nothing keeps the invariant.
LEMMA StutterInv == Inv /\ UNCHANGED vars => Inv'
  <1> SUFFICES ASSUME Inv, UNCHANGED vars PROVE Inv'
    OBVIOUS
  <1> USE DEF vars, session, link, sim, net, request, outgoing, inbox, output
  <1>1. FlagsOK' /\ SessionOK' /\ RequestOK'
    BY DEF Inv, TypeOK, FlagsOK, SessionOK, RequestOK
  <1>2. OutgoingOK' /\ InboxOK' /\ PduOK' /\ OutputOK'
    BY DEF Inv, TypeOK, OutgoingOK, InboxOK, PduOK, OutputOK
  <1>3. AckDiscipline' /\ SplitsInRange' /\ SmsRequested'
    BY DEF Inv, AckDiscipline, SplitsInRange, SmsRequested
  <1> QED BY <1>1, <1>2, <1>3 DEF Inv, TypeOK

\* Every step keeps the invariant.
LEMMA NextInv == Inv /\ [Next]_vars => Inv'
  <1> SUFFICES ASSUME Inv, [Next]_vars PROVE Inv'
    OBVIOUS
  <1>1. CASE Timers
    BY <1>1, TimersInv
  <1>2. CASE Loop
    BY <1>2, LoopInv
  <1>3. CASE Requests
    BY <1>3, RequestsInv
  <1>4. CASE \E l \in Lines : Rx(l)
    BY <1>4, RxInv
  <1>5. CASE Restart
    BY <1>5, RestartInv
  <1>6. CASE UNCHANGED vars
    BY <1>6, StutterInv
  <1> QED BY <1>1, <1>2, <1>3, <1>4, <1>5, <1>6 DEF Next

\* Inv holds in every state: an acknowledgement is never expected in a state
\* that waits for data, the part number stays within the cuts, and whoever is
\* to be sent a message has been named (parse_cmd_, a7670.cpp:430-577).
THEOREM Invariance == Spec => []Inv
  BY InitInv, NextInv, PTL DEF Spec

\* Every variable keeps to the values its member can have; in particular
\* parse_index_ stays a byte however often the cleanup counts it down.
THEOREM TypeCorrect == Spec => []TypeOK
  <1>1. Inv => TypeOK
    BY DEF Inv
  <1> QED BY <1>1, Invariance, PTL

\* No acknowledgement is expected where the next line is data: parse_cmd_ never
\* drops a flow because the data came.
THEOREM AcksAndDataApart == Spec => []AckDiscipline
  <1>1. Inv => AckDiscipline
    BY DEF Inv
  <1> QED BY <1>1, Invariance, PTL

\* _send_sms_send_header_ never walks past the end of outgoing_splits_.
THEOREM PartNumberInRange == Spec => []SplitsInRange
  <1>1. Inv => SplitsInRange
    BY DEF Inv
  <1> QED BY <1>1, Invariance, PTL

-----------------------------------------------------------------------------
(* What a step may not write. *)

\* No line of a flow is looked at while an acknowledgement is outstanding in a
\* state of rest, and loop() writes nothing then but the CTRL-Z of a timeout.
THEOREM OneCommandOutstanding == Spec => OneOutstanding
  <1>1. [Next]_vars => [expect_ack /\ state \in RestStates
                          => tx' \in {<<>>, <<"^Z">>}]_vars
    <2> SUFFICES ASSUME Next, expect_ack, state \in RestStates
                 PROVE  tx' \in {<<>>, <<"^Z">>}
      OBVIOUS
    <2>1. CASE Timers
      BY <2>1 DEF Timers, LeaveModemWait, RxTimeout, IdleTimeout, Update,
                  Silent, send_cmd_ctrlz, Write
    <2>2. CASE Loop
      BY <2>2 DEF Loop, SendAt, EnterPin, PinDone, EnableRegistration,
                  Registered, Connect, Disconnect, Dial, PollCall, ReadSms,
                  SendSms, Cleanup, SendUssd, Take, IdleTurn, MayWrite
    <2>3. CASE Requests
      BY <2>3 DEF Requests, send_sms, dial, send_ussd, send_at, connect,
                  disconnect, set_debug, Request, Silent
    <2>4. ASSUME NEW l \in Lines, Rx(l) PROVE tx' = <<>>
      <3>1. CASE Notification(l)
        BY <3>1 DEF Notification, OnIgnored, OnCpin, OnCreg, OnCmti, OnCusd,
                    OnClcc, Silent
      <3>2. CASE AckFails(l)
        BY <3>2 DEF AckFails, Silent
      <3>3. CASE Dispatch(l)
        BY <3>3 DEF Dispatch, InWaitState, InInit, InDialing, InUssd,
                    InListing, InReceiving, InSending, AskCenter,
                    receive_csca, BeginParts, SendHeader, EncodeFails,
                    SubstrThrows, SendBody, PartSent, KeepWaiting, RestStates,
                    Goto, Silent
      <3> QED BY <2>4, <3>1, <3>2, <3>3 DEF Rx, parse_cmd_
    <2>5. CASE Restart
      BY <2>5 DEF Restart
    <2> QED BY <2>1, <2>2, <2>3, <2>4, <2>5 DEF Next
  <1> QED BY <1>1, PTL DEF Spec, OneOutstanding

\* Unless a user breaks in, nothing but the body of a part, or the CTRL-Z of a
\* timeout, is written between AT+CMGS= and +CMGS.
THEOREM NothingInThePrompt == Spec => PromptSilence
  <1>1. [Next]_vars => [~debug /\ state \in {"SENDING_SMS_4", "SENDING_SMS_5"}
                          => tx' \in {<<>>, <<"^Z">>, <<"BODY^Z">>}]_vars
    <2> SUFFICES ASSUME Next, ~debug,
                        state \in {"SENDING_SMS_4", "SENDING_SMS_5"}
                 PROVE  tx' \in {<<>>, <<"^Z">>, <<"BODY^Z">>}
      OBVIOUS
    <2>1. CASE Timers
      BY <2>1 DEF Timers, LeaveModemWait, RxTimeout, IdleTimeout, Update,
                  Silent, send_cmd_ctrlz, Write
    <2>2. CASE Loop
      BY <2>2 DEF Loop, SendAt, EnterPin, PinDone, EnableRegistration,
                  Registered, Connect, Disconnect, Dial, PollCall, ReadSms,
                  SendSms, Cleanup, SendUssd, Take, IdleTurn, UserTurn
    <2>3. CASE Requests
      BY <2>3 DEF Requests, send_sms, dial, send_ussd, send_at, connect,
                  disconnect, set_debug, Request, Silent
    <2>4. ASSUME NEW l \in Lines, Rx(l)
          PROVE  tx' \in {<<>>, <<"BODY^Z">>}
      <3>1. CASE Notification(l)
        BY <3>1 DEF Notification, OnIgnored, OnCpin, OnCreg, OnCmti, OnCusd,
                    OnClcc, Silent
      <3>2. CASE AckFails(l)
        BY <3>2 DEF AckFails, Silent
      <3>3. CASE Dispatch(l)
        BY <3>3 DEF Dispatch, InWaitState, InInit, InDialing, InUssd,
                    InListing, InReceiving, InSending, AskCenter,
                    receive_csca, BeginParts, SendHeader, EncodeFails,
                    SubstrThrows, SendBody, PartSent, KeepWaiting,
                    Goto, Silent, send_cmd_ctrlz, Write
      <3> QED BY <2>4, <3>1, <3>2, <3>3 DEF Rx, parse_cmd_
    <2>5. CASE Restart
      BY <2>5 DEF Restart
    <2> QED BY <2>1, <2>2, <2>3, <2>4, <2>5 DEF Next
  <1> QED BY <1>1, PTL DEF Spec, PromptSilence

-----------------------------------------------------------------------------
(* The mode messages are read and written in. *)

\* Every step keeps the modem in PDU mode where messages are handled.
LEMMA ModeNext == Inv /\ PduMode /\ [Next]_vars => PduMode'
  <1> SUFFICES ASSUME Inv, PduMode, Next PROVE PduMode'
    BY DEF PduMode, vars, session, output
  <1> USE DEF PduMode, SendStates, ListStates, AnyMode, Inv, TypeOK, SessionOK, OutputOK, RequestOK,
       session, link, sim, net, request, outgoing, inbox, output, data,
       Write, send_cmd, send_cmd_ack, send_cmd_ctrlz, Silent
  <1>1. CASE Timers
    BY <1>1 DEF Timers, LeaveModemWait, RxTimeout, IdleTimeout, Update,
       _periodic_check_
  <1>2. CASE Loop
    <2> USE DEF Take, First, CallFlags, Before, IdleTurn, MayWrite,
       _periodic_check_
    <2>1. CASE SendAt
      BY <2>1 DEF SendAt
    <2>2. CASE EnterPin \/ PinDone \/ EnableRegistration \/ Registered
      BY <2>2 DEF EnterPin, PinDone, EnableRegistration, Registered
    <2>3. CASE Connect \/ Disconnect \/ Dial \/ PollCall
      BY <2>3 DEF Connect, Disconnect, Dial, PollCall
    <2>4. CASE ReadSms
      BY <2>4 DEF ReadSms
    <2>5. CASE SendSms
      BY <2>5 DEF SendSms
    <2>6. CASE Cleanup
      BY <2>6 DEF Cleanup
    <2>7. CASE SendUssd
      BY <2>7 DEF SendUssd
    <2> QED BY <1>2, <2>1, <2>2, <2>3, <2>4, <2>5, <2>6, <2>7 DEF Loop
  <1>3. CASE Requests
    BY <1>3 DEF Requests, send_sms, dial, send_ussd, send_at, connect,
       disconnect, set_debug, Request
  <1>4. ASSUME NEW l \in Lines, Rx(l) PROVE PduMode'
    <2>1. CASE Notification(l)
      BY <2>1 DEF Notification, OnIgnored, OnCpin, OnCreg, OnCmti, OnCusd,
         OnClcc
    <2>2. CASE AckFails(l)
      BY <2>2 DEF AckFails
    <2>3. CASE Dispatch(l)
      <3> USE DEF Goto, NextCmd, NextCmdAck, ErrorOut
      <3>1. CASE InWaitState(l)
        BY <3>1 DEF InWaitState
      <3>2. CASE InInit(l)
        BY <3>2 DEF InInit
      <3>3. CASE InDialing(l)
        BY <3>3 DEF InDialing
      <3>4. CASE InUssd(l)
        BY <3>4 DEF InUssd
      <3>5. CASE InListing(l)
        <4>1. pending' = pending
          BY <3>5 DEF InListing
        <4>2. CASE NextCmdAck("AT+CMGF=0", "CHECK_SMS1")
          BY <4>1, <4>2
        <4>3. CASE NextCmd("AT+CMGL=4", "PARSE_SMS_RESPONSE") /\ state = "CHECK_SMS1"
          BY <4>1, <4>3
        <4>4. CASE NextCmdAck("AT+CLCC", "IDLE") /\ state = "PARSE_SMS_RESPONSE"
          BY <4>1, <4>4
        <4>5. CASE state' \in {state, "RECEIVE_SMS"} /\ state = "PARSE_SMS_RESPONSE"
                   /\ msg_mode' = msg_mode
          BY <4>1, <4>5
        <4> QED BY <3>5, <4>2, <4>3, <4>4, <4>5 DEF InListing
      <3>6. CASE InReceiving(l)
        <4>1. /\ state' \in {"RECEIVE_SMS", "IDLE"} /\ state = "RECEIVE_SMS"
              /\ msg_mode' = msg_mode
          BY <3>6 DEF InReceiving, Collect
        <4> QED BY <4>1
      <3>7. CASE InSending(l)
        <4>1. CASE SendHeader
          BY <3>7, <4>1 DEF SendHeader, InSending
        <4>2. CASE EncodeFails \/ SubstrThrows \/ AskCenter
          BY <3>7, <4>2 DEF EncodeFails, SubstrThrows, AskCenter, InSending
        <4>3. CASE BeginParts
          BY <3>7, <4>3 DEF BeginParts, InSending
        <4>4. CASE receive_csca(l) \/ SendBody(l) \/ PartSent(l)
                  \/ KeepWaiting(l)
          BY <3>7, <4>4 DEF InSending, receive_csca, SendBody, PartSent,
             KeepWaiting
        <4> QED BY <3>7, <4>1, <4>2, <4>3, <4>4 DEF InSending
      <3> QED BY <2>3, <3>1, <3>2, <3>3, <3>4, <3>5, <3>6, <3>7 DEF Dispatch
    <2> QED BY <1>4, <2>1, <2>2, <2>3 DEF Rx, parse_cmd_
  <1>5. CASE Restart
    BY <1>5 DEF Restart
  <1> QED BY <1>1, <1>2, <1>3, <1>4, <1>5 DEF Next

\* Messages are sent in PDU mode, and listed and deleted in no text mode the
\* driver has set, although a USSD request leaves the modem in text mode: every
\* way into the states that need PDU mode passes AT+CMGF=0, and the cleanup goes
\* before a USSD request.  Only a user's own command may come between.
THEOREM PduModeKept == Spec => []PduMode
  <1>1. Init => PduMode
    BY DEF Init, PduMode
  <1> QED BY <1>1, ModeNext, Invariance, PTL DEF Spec

-----------------------------------------------------------------------------
(* Who a message is from. *)

\* A piece of text that a line of Lines did bring, from whom, and under which
\* reference; 0 for a line that names none.
Brought(text, from, ref) ==
  \E l \in Lines : /\ l.k = "PDU" /\ l.text = text /\ l.from = from
                   /\ l.ref = ref \/ ref = 0

\* The reference of a message in parts tells its sender.
OneSender ==
  \A l, m \in Lines : /\ l.k = "PDU" /\ m.k = "PDU"
                      /\ l.ref = m.ref /\ l.ref \notin {0, NoValue}
                      => l.from = m.from

\* The pieces kept came with the sender and the reference kept beside them.
Received == ~mixed => \A i \in DOMAIN message : Brought(message[i], sender, cmcs)

\* One more piece is of the sender the others are of, or begins a message.
LEMMA CollectReceived ==
  ASSUME OneSender, Inv, Received, NEW l \in Lines, Collect(l)
  PROVE  Received'
  <1> DEFINE new == decodePDU(l)
             old == IF NewMessage(l) THEN <<>> ELSE message
  <1>1. /\ message' = Plus(old, new.buf) /\ sender' = new.from /\ cmcs' = new.ref
        /\ mixed' = (Stale(l) \/ (mixed /\ ~NewMessage(l)))
    BY DEF Collect
  <1>2. NewMessage(l) <=> cmcs = 0 \/ cmcs # new.ref
    BY DEF NewMessage
  <1>3. message \in Seq(Fragment) /\ cmcs \in Refs /\ NoValue \notin Refs
    BY ValuesAssumption DEF Inv, TypeOK, InboxOK
  <1> SUFFICES ASSUME ~Stale(l), mixed => NewMessage(l)
               PROVE  \A i \in DOMAIN message' : Brought(message'[i], new.from, new.ref)
    BY <1>1 DEF Received, Brought
  <1>4. /\ l.k = "PDU" /\ new.buf = l.text /\ new.from = l.from
        /\ new.ref = l.ref \/ new.ref = 0
    BY DEF Stale, decodePDU
  <1> HIDE DEF new
  <1>5. Brought(new.buf, new.from, new.ref)
    BY <1>4 DEF Brought
  <1>6. ASSUME ~NewMessage(l), NEW i \in DOMAIN message
        PROVE  Brought(message[i], new.from, new.ref)
    <2>1. cmcs = new.ref /\ cmcs # 0 /\ l.ref = cmcs
      BY <1>2, <1>4, <1>6
    <2>2. PICK m \in Lines : /\ m.k = "PDU" /\ m.text = message[i] /\ m.from = sender
                             /\ m.ref = cmcs
      BY <1>6, <2>1 DEF Received, Brought
    <2>3. m.from = l.from
      BY <1>3, <1>4, <2>1, <2>2 DEF OneSender
    <2> QED BY <1>4, <2>1, <2>2, <2>3 DEF Brought
  <1>7. old \in Seq(Fragment) /\ \A i \in DOMAIN old : Brought(old[i], new.from, new.ref)
    BY <1>3, <1>6
  <1>8. message' = IF new.buf = NoValue THEN old ELSE Append(old, new.buf)
    BY <1>1 DEF Plus
  <1> HIDE DEF old
  <1>9. CASE new.buf = NoValue
    BY <1>7, <1>8, <1>9
  <1>10. CASE new.buf # NoValue
    <2>1. \A i \in 1 .. Len(old) + 1 :
            message'[i] = IF i = Len(old) + 1 THEN new.buf ELSE old[i]
      BY <1>7, <1>8, <1>10
    <2>2. DOMAIN message' = 1 .. Len(old) + 1 /\ DOMAIN old = 1 .. Len(old)
          /\ Len(old) \in Nat
      BY <1>7, <1>8, <1>10
    <2> QED BY <1>5, <1>7, <2>1, <2>2
  <1> QED BY <1>9, <1>10

LEMMA ReceivedNext ==
  ASSUME OneSender, Inv, Received, [Next]_vars
  PROVE  Received'
  <1> DEFINE Kept == UNCHANGED <<cmcs, sender, message, mixed>>
  <1>1. ASSUME Kept PROVE Received'
    BY <1>1 DEF Received, Brought
  <1>2. CASE Timers
    BY <1>1, <1>2 DEF Timers, LeaveModemWait, RxTimeout, IdleTimeout, Update,
       inbox, data
  <1>3. CASE Loop
    <2> USE DEF IdleTurn, Take, data, inbox
    <2>1. CASE SendAt \/ EnterPin \/ PinDone \/ EnableRegistration \/ Registered
      BY <1>1, <2>1 DEF SendAt, EnterPin, PinDone, EnableRegistration, Registered
    <2>2. CASE Connect \/ Disconnect \/ Dial \/ PollCall
      BY <1>1, <2>2 DEF Connect, Disconnect, Dial, PollCall
    <2>3. CASE ReadSms \/ Cleanup \/ SendSms \/ SendUssd
      BY <1>1, <2>3 DEF ReadSms, Cleanup, SendSms, SendUssd
    <2> QED BY <1>3, <2>1, <2>2, <2>3 DEF Loop
  <1>4. CASE Requests
    BY <1>1, <1>4 DEF Requests, send_sms, dial, send_ussd, send_at, connect,
       disconnect, set_debug, Request, inbox, data
  <1>5. ASSUME NEW l \in Lines, Rx(l)
        PROVE  Received'
    <2> USE DEF inbox, data
    <2>1. CASE Notification(l)
      BY <1>1, <2>1 DEF Notification, OnIgnored, OnCpin, OnCreg, OnCmti, OnCusd, OnClcc
    <2>2. CASE AckFails(l)
      BY <1>1, <2>2 DEF AckFails
    <2>3. CASE Dispatch(l)
      <3>1. CASE InWaitState(l) \/ InInit(l) \/ InDialing(l) \/ InUssd(l)
        BY <1>1, <3>1 DEF InWaitState, InInit, InDialing, InUssd
      <3>2. CASE InListing(l)
        BY <1>1, <3>2 DEF InListing
      <3>3. CASE InReceiving(l)
        <4>1. CASE Collect(l)
          BY <4>1, CollectReceived
        <4>2. CASE message' = <<>>
          BY <4>2 DEF Received
        <4>3. CASE Kept
          BY <1>1, <4>3
        <4> QED BY <3>3, <4>1, <4>2, <4>3 DEF InReceiving
      <3>4. CASE InSending(l)
        BY <1>1, <3>4 DEF InSending, AskCenter, receive_csca, BeginParts, SendHeader,
           EncodeFails, SubstrThrows, SendBody, PartSent, KeepWaiting
      <3> QED BY <2>3, <3>1, <3>2, <3>3, <3>4 DEF Dispatch
    <2> QED BY <1>5, <2>1, <2>2, <2>3 DEF Rx, parse_cmd_
  <1>6. CASE Restart
    BY <1>6 DEF Restart, Received
  <1>7. CASE UNCHANGED vars
    BY <1>1, <1>7 DEF vars, inbox, data
  <1> QED BY <1>2, <1>3, <1>4, <1>5, <1>6, <1>7 DEF Next

\* If a reference is used by one sender only, what on_sms_received reports was
\* sent by whom it names, whatever is sent, listed, repeated, cut short or left
\* out between (a7670.cpp:688-741); a message with a piece that was filed under
\* what another line had left, as its own could not be decoded or its header
\* named no reference, is the exception FromSender makes.
THEOREM ReceivedFromSender ==
  ASSUME OneSender
  PROVE  Spec => FromSender
  <1>1. Init => Received
    BY DEF Init, Received
  <1>2. Inv /\ Received /\ [Next]_vars => Received'
    BY ReceivedNext
  <1>3. Received =>
          [event' = "sms_received" /\ ~mixed
             => \A i \in DOMAIN message :
                  \E l \in Lines : /\ l.k = "PDU"
                                  /\ l.text = message[i] /\ l.from = sender]_vars
    BY DEF Received, Brought
  <1> QED BY <1>1, <1>2, <1>3, Invariance, PTL DEF Spec, FromSender

-----------------------------------------------------------------------------
(***************************************************************************)
(* The driver sends as asked, if its callers wait: SendsAsAsked, which is  *)
(* the refinement of SmsSending, and NoAbort, for every environment, every *)
(* set of texts and whatever their cuts.                                   *)
(*                                                                         *)
(* Progress says how far the parts of a text are out in each of the states *)
(* that send them.  Most steps have nothing to do with that: what they     *)
(* have in common is Elsewhere.                                            *)
(***************************************************************************)

\* The parts of the text that is being sent.
Parts == PartsOf(recipient, outgoing_message)

\* The part in the work buffer is the next one, the parts written are those
\* before it, and outgoing_partnum_ counts them.
Progress ==
  state \in BodyStates =>
    /\ splits = SplitsFor(recipient, outgoing_message)
    /\ Len(submitted) <= Len(Parts)
    /\ \A i \in 1 .. Len(submitted) : submitted[i] = Parts[i]
    /\ splits # <<>> /\ state # "SENDING_SMS_4" => Len(submitted) = partnum
    /\ splits = <<>> /\ state # "SENDING_SMS_5" => submitted = <<>>
    /\ state = "SENDING_SMS_3" /\ splits # <<>> => partnum <= Len(splits)
    /\ state = "SENDING_SMS_4" =>
         /\ splits # <<>> => Len(submitted) + 1 = partnum
         /\ Len(submitted) < Len(Parts)
         /\ pdu.buf = Parts[Len(submitted) + 1]
    /\ state = "SENDING_SMS_5" => Len(submitted) > 0

\* The variables of SmsSending, as the driver has them.
Asked == IF "send" \in pending THEN Job ELSE NoValue
Doing == IF state \in SmsStates THEN Job ELSE NoValue
Out   == IF state \in BodyStates THEN submitted ELSE <<>>
Told  == event = "sms_sent"

\* A step that leaves the sending of texts alone, or gives it up.
Elsewhere ==
  /\ state' = state \/ state' \notin SmsStates
  /\ "send" \in pending' <=> "send" \in pending
  /\ "send" \in pending \/ state \in SmsStates
       => UNCHANGED <<recipient, outgoing_message>>
  /\ UNCHANGED outgoing
  /\ state \in BodyStates => UNCHANGED pdu
  /\ event' # "sms_sent"

-----------------------------------------------------------------------------
(* The parts of a text. *)

LEMMA JobType ==
  ASSUME Inv, "send" \in pending \/ state \in SmsStates
  PROVE  Job \in Numbers \X Texts /\ Job # NoValue
  <1>1. Job \in Numbers \X Texts
    BY DEF Inv, SmsRequested, Job
  <1> QED BY <1>1, ValuesAssumption

LEMMA PartsFacts ==
  ASSUME NEW to \in Numbers, NEW text \in Texts
  PROVE  LET cuts == SplitsFor(to, text) IN
         /\ cuts \in Seq(Nat)
         /\ \A i \in DOMAIN cuts : cuts[i] <= Length[text]
         /\ PartsOf(to, text) \in Seq(Part)
         /\ Len(PartsOf(to, text)) = Len(cuts) + 1
         /\ \A i \in 1 .. Len(cuts) + 1 :
              PartsOf(to, text)[i] =
                [to |-> to, text |-> text,
                 begin |-> IF i = 1 THEN 0 ELSE cuts[i - 1],
                 end |-> IF i = Len(cuts) + 1 THEN Length[text] ELSE cuts[i]]
  <1> DEFINE cuts == SplitsFor(to, text)
  <1>1. Length[text] \in Nat /\ SplitsOf[text] \in Seq(Nat)
    BY ValuesAssumption
  <1>2. cuts \in Seq(Nat) /\ \A i \in DOMAIN cuts : cuts[i] <= Length[text]
    <2>1. CASE to \in BadNumbers
      BY <1>1, <2>1 DEF SplitsFor
    <2>2. CASE to \notin BadNumbers
      BY <1>1, <2>2, CutsAssumption DEF SplitsFor
    <2> QED BY <2>1, <2>2
  <1> DEFINE n == Len(cuts)
             part(i) == [to |-> to, text |-> text,
                         begin |-> IF i = 1 THEN 0 ELSE cuts[i - 1],
                         end |-> IF i = n + 1 THEN Length[text] ELSE cuts[i]]
  <1>3. PartsOf(to, text) = [i \in 1 .. (n + 1) |-> part(i)]
    BY DEF PartsOf
  <1> HIDE DEF cuts
  <1>4. n \in Nat /\ DOMAIN cuts = 1 .. n
    BY <1>2
  <1>5. ASSUME NEW i \in 1 .. n + 1
        PROVE  part(i) \in Part
    <2>1. (IF i = 1 THEN 0 ELSE cuts[i - 1]) \in Nat
      BY <1>2, <1>4
    <2>2. (IF i = n + 1 THEN Length[text] ELSE cuts[i]) \in Nat
      BY <1>1, <1>2, <1>4
    <2> QED BY <2>1, <2>2 DEF Part
  <1> HIDE DEF part
  <1>6. [i \in 1 .. (n + 1) |-> part(i)] \in Seq(Part)
    BY <1>4, <1>5
  <1>7. Len([i \in 1 .. (n + 1) |-> part(i)]) = n + 1
    BY <1>4
  <1>8. \A i \in 1 .. n + 1 : PartsOf(to, text)[i] = part(i)
    BY <1>3, <1>4
  <1> QED BY <1>2, <1>3, <1>6, <1>7, <1>8 DEF part, cuts

\* What _send_sms_send_header_ encodes is the part after those written.
LEMMA NextPart ==
  ASSUME Inv, Progress, state = "SENDING_SMS_3"
  PROVE  /\ EncodedPart = Parts[Len(submitted) + 1]
         /\ Len(submitted) < Len(Parts) /\ Len(submitted) \in Nat
         /\ PartBegin <= Length[outgoing_message]
  <1> DEFINE m == Len(submitted)
             L == Length[outgoing_message]
  <1>1. recipient \in Numbers /\ outgoing_message \in Texts
    BY DEF Inv, SmsRequested, SmsStates
  <1>2. splits = SplitsFor(recipient, outgoing_message)
    BY DEF Progress, BodyStates
  <1>3. /\ splits \in Seq(Nat) /\ Len(splits) \in Nat /\ partnum \in Nat
        /\ \A i \in 1 .. Len(splits) : splits[i] \in Nat /\ splits[i] <= L
        /\ Len(Parts) = Len(splits) + 1
        /\ \A i \in 1 .. Len(splits) + 1 :
             Parts[i] = [to |-> recipient, text |-> outgoing_message,
                         begin |-> IF i = 1 THEN 0 ELSE splits[i - 1],
                         end |-> IF i = Len(splits) + 1 THEN L ELSE splits[i]]
    <2>1. splits \in Seq(Nat) /\ partnum \in Nat
      BY DEF Inv, TypeOK, OutgoingOK
    <2> QED BY <1>1, <1>2, <2>1, PartsFacts DEF Parts
  <1>4. L \in Nat
    BY <1>1, ValuesAssumption
  <1>5. m \in Nat /\ m <= Len(splits)
        /\ (splits # <<>> => m = partnum) /\ (splits = <<>> => m = 0)
    <2>1. submitted \in Seq(Fragment)
      BY DEF Inv, TypeOK, OutgoingOK
    <2>2. splits # <<>> => m = partnum /\ partnum <= Len(splits)
      BY DEF Progress, BodyStates
    <2>3. splits = <<>> => m = 0
      BY DEF Progress, BodyStates
    <2> QED BY <1>3, <2>1, <2>2, <2>3
  <1> HIDE DEF L
  <1>6. PartBegin = IF m = 0 THEN 0 ELSE splits[m]
    BY <1>5 DEF PartBegin
  <1>7. PartEnd = IF m = Len(splits) THEN L ELSE splits[m + 1]
    <2>1. CASE splits = <<>>
      <3>1. Len(splits) = 0
        BY <2>1
      <3> QED BY <1>5, <2>1, <3>1 DEF PartEnd, L
    <2>2. CASE splits # <<>>
      BY <1>3, <1>5, <2>2 DEF PartEnd, L
    <2> QED BY <2>1, <2>2
  <1>8. PartBegin <= L
    BY <1>3, <1>4, <1>5, <1>6
  <1>9. Lesser(PartEnd, L) = PartEnd
    BY <1>3, <1>4, <1>5, <1>7 DEF Lesser
  <1>10. m + 1 \in 1 .. Len(splits) + 1 /\ (m + 1) - 1 = m
    BY <1>3, <1>5
  <1>11. Parts[m + 1] = [to |-> recipient, text |-> outgoing_message,
                         begin |-> PartBegin, end |-> PartEnd]
    <2>1. Parts[m + 1] = [to |-> recipient, text |-> outgoing_message,
                begin |-> IF m + 1 = 1 THEN 0 ELSE splits[m],
                end |-> IF m + 1 = Len(splits) + 1 THEN L ELSE splits[m + 1]]
      BY <1>3, <1>10
    <2>2. (m + 1 = 1 <=> m = 0) /\ (m + 1 = Len(splits) + 1 <=> m = Len(splits))
      BY <1>3, <1>5
    <2> HIDE DEF m
    <2> QED BY <1>6, <1>7, <2>1, <2>2
  <1>12. EncodedPart = Parts[m + 1]
    BY <1>9, <1>11 DEF EncodedPart, L
  <1> QED BY <1>3, <1>5, <1>8, <1>12 DEF L

-----------------------------------------------------------------------------
(* Steps that are not about sending. *)

LEMMA ElsewhereProgress ==
  ASSUME Progress, Elsewhere
  PROVE  Progress'
  <1> SUFFICES ASSUME state' \in BodyStates PROVE Progress'
    BY DEF Progress
  <1>1. state' = state /\ state \in SmsStates
    BY DEF Elsewhere, SmsStates, BodyStates
  <1>2. UNCHANGED <<recipient, outgoing_message, splits, partnum, submitted, pdu>>
    BY <1>1 DEF Elsewhere, outgoing
  <1>3. Parts' = Parts
        /\ (SplitsFor(recipient, outgoing_message))' = SplitsFor(recipient, outgoing_message)
    BY <1>2 DEF Parts, PartsOf, SplitsFor
  <1> QED BY <1>1, <1>2, <1>3 DEF Progress

LEMMA ElsewhereStep ==
  ASSUME Inv, Elsewhere
  PROVE  [Sending!Step]_<<Asked, Doing, Out, Told>>
  <1>1. Asked' = Asked /\ Told' = FALSE
    BY DEF Elsewhere, Asked, Job, Told
  <1>2. CASE state' = state
    <2>1. Doing' = Doing /\ Out' = Out
      BY <1>2 DEF Elsewhere, Doing, Out, Job, outgoing
    <2>2. CASE Told
      BY <1>1, <2>1, <2>2 DEF Sending!Step, Sending!GoOn, Asked, Doing, Out, Told
    <2>3. CASE ~Told
      <3>1. Told' = Told
        BY <1>1, <2>3, Zenon DEF Told
      <3> QED BY <1>1, <2>1, <3>1
    <2> QED BY <2>2, <2>3
  <1>3. CASE state' # state
    <2>1. Doing' = NoValue /\ Out' = <<>>
      BY <1>3 DEF Elsewhere, Doing, Out, BodyStates, SmsStates
    <2>2. CASE state \in SmsStates
      <3>1. Doing # NoValue
        BY <2>2, JobType DEF Doing
      <3> QED
        BY <1>1, <2>1, <3>1 DEF Sending!Step, Sending!GiveUp, Sending!End,
           Asked, Doing, Out, Told
    <2>3. CASE state \notin SmsStates
      <3>1. Doing = NoValue /\ Out = <<>>
        BY <2>3 DEF Doing, Out, BodyStates, SmsStates
      <3>2. CASE Told
        BY <1>1, <2>1, <3>1, <3>2 DEF Sending!Step, Sending!GoOn, Asked, Doing, Out, Told
      <3>3. CASE ~Told
        <4>1. Told' = Told
          BY <1>1, <3>3, Zenon DEF Told
        <4> QED BY <1>1, <2>1, <3>1, <4>1
      <3> QED BY <3>2, <3>3
    <2> QED BY <2>2, <2>3
  <1> QED BY <1>2, <1>3

LEMMA TimersElsewhere ==
  ASSUME Timers
  PROVE  Elsewhere
  BY DEF Timers, LeaveModemWait, RxTimeout, IdleTimeout, Update,
     _periodic_check_, send_cmd_ctrlz, send_cmd_ack, Write, Silent, data,
     request, outgoing, Elsewhere, SmsStates

LEMMA LoopElsewhere ==
  ASSUME Loop, ~SendSms
  PROVE  Elsewhere
  <1> USE DEF MayWrite, IdleTurn, Take, _periodic_check_, send_cmd_ack, Write,
     Silent, session, request, outgoing, Elsewhere, SmsStates
  <1>1. CASE SendAt \/ EnterPin \/ PinDone \/ EnableRegistration \/ Registered
    BY <1>1 DEF SendAt, EnterPin, PinDone, EnableRegistration, Registered
  <1>2. CASE Connect \/ Disconnect \/ Dial \/ PollCall
    BY <1>2 DEF Connect, Disconnect, Dial, PollCall
  <1>3. CASE ReadSms \/ Cleanup \/ SendUssd
    BY <1>3 DEF ReadSms, Cleanup, SendUssd
  <1> QED BY <1>1, <1>2, <1>3 DEF Loop

\* A caller who waits asks for nothing that would change the text or the
\* number while they are in use.
LEMMA RequestsElsewhere ==
  ASSUME Patient, Requests, ~ \E to \in Numbers, text \in Texts : send_sms(to, text)
  PROVE  Elsewhere
  <1> USE DEF Request, Silent, session, request, outgoing, Elsewhere, SmsStates
  <1>1. CASE \E to \in Numbers : dial(to)
    BY <1>1 DEF dial, InUse, OutgoingStates
  <1>2. CASE \E code \in Codes : send_ussd(code)
    BY <1>2 DEF send_ussd
  <1>3. CASE send_at \/ connect \/ disconnect \/ set_debug
    BY <1>3 DEF send_at, connect, disconnect, set_debug
  <1> QED BY <1>1, <1>2, <1>3 DEF Requests

LEMMA RxElsewhere ==
  ASSUME NEW l \in Lines, Rx(l), ~InSending(l)
  PROVE  Elsewhere
  <1> USE DEF Silent, session, data, request, outgoing, Elsewhere, SmsStates
  <1>1. CASE Notification(l)
    BY <1>1 DEF Notification, OnIgnored, OnCpin, OnCreg, OnCmti, OnCusd, OnClcc
  <1>2. CASE AckFails(l)
    BY <1>2 DEF AckFails
  <1>3. CASE Dispatch(l)
    <2> USE DEF Goto, NextCmd, NextCmdAck, send_cmd, send_cmd_ack, ErrorOut,
       send_cmd_ctrlz, Write
    <2>1. CASE InWaitState(l)
      BY <2>1 DEF InWaitState
    <2>2. CASE InInit(l)
      BY <2>2 DEF InInit
    <2>3. CASE InDialing(l)
      BY <2>3 DEF InDialing
    <2>4. CASE InUssd(l)
      BY <2>4 DEF InUssd
    <2>5. CASE InListing(l)
      BY <2>5 DEF InListing
    <2>6. CASE InReceiving(l)
      BY <2>6 DEF InReceiving, Collect, Handled, BodyStates
    <2> QED BY <1>3, <2>1, <2>2, <2>3, <2>4, <2>5, <2>6 DEF Dispatch
  <1> QED BY <1>1, <1>2, <1>3 DEF Rx, parse_cmd_

-----------------------------------------------------------------------------
(* Steps that are. *)

\* What the proof of a step of the flow comes down to.
Faithful == Progress' /\ [Sending!Step]_<<Asked, Doing, Out, Told>>

\* send_sms: the text is asked for.
LEMMA AskStep ==
  ASSUME Inv, Patient, NEW to \in Numbers, NEW text \in Texts, send_sms(to, text)
  PROVE  Faithful
  <1>1. state \notin SmsStates /\ state' = state /\ "send" \notin pending
    BY DEF send_sms, Request, session, InUse, OutgoingStates, SmsStates
  <1>2. /\ "send" \in pending' /\ event' = "none"
        /\ recipient' = to /\ outgoing_message' = text
    BY DEF send_sms, Request, Silent
  <1>3. Progress'
    BY <1>1 DEF Progress, BodyStates, SmsStates
  <1>4. /\ Asked = NoValue /\ Doing = NoValue /\ Out = <<>>
        /\ Asked' = <<to, text>> /\ Doing' = NoValue /\ Out' = <<>> /\ Told' = FALSE
    BY <1>1, <1>2 DEF Asked, Doing, Out, Told, Job, BodyStates, SmsStates
  <1>5. Sending!Ask(<<to, text>>)
    BY <1>4 DEF Sending!Ask, Asked, Doing, Out, Told
  <1> QED BY <1>3, <1>5 DEF Faithful, Sending!Step

\* The flow begins.
LEMMA BeginStep ==
  ASSUME Inv, SendSms
  PROVE  Faithful
  <1>1. state = "IDLE" /\ state' = "SENDING_SMS" /\ "send" \in pending
        /\ "send" \notin pending' /\ event' = "none"
        /\ UNCHANGED <<recipient, outgoing_message>>
    BY DEF SendSms, Take, First, IdleTurn, send_cmd_ack, Write, request
  <1>2. Progress'
    BY <1>1 DEF Progress, BodyStates
  <1>3. Job # NoValue /\ Job' = Job
    BY <1>1, JobType DEF Job
  <1>4. /\ Asked = Job /\ Doing = NoValue /\ Out = <<>>
        /\ Asked' = NoValue /\ Doing' = Job /\ Out' = <<>> /\ Told' = FALSE
    BY <1>1, <1>3 DEF Asked, Doing, Out, Told, BodyStates, SmsStates
  <1>5. Sending!Begin
    BY <1>3, <1>4 DEF Sending!Begin, Asked, Doing, Out, Told
  <1> QED BY <1>2, <1>5 DEF Faithful, Sending!Step

\* A step of the flow in which no part goes out and the flow does not end.
LEMMA NoPartStep ==
  ASSUME Inv, state \in SmsStates, state' \in SmsStates, Out' = Out,
         event' = "none", UNCHANGED <<recipient, outgoing_message, pending>>
  PROVE  [Sending!Step]_<<Asked, Doing, Out, Told>>
  <1>1. Asked' = Asked /\ Doing' = Doing /\ Told' = FALSE
    BY DEF Asked, Doing, Told, Job
  <1>2. CASE Told
    BY <1>1, <1>2 DEF Sending!Step, Sending!GoOn, Asked, Doing, Out, Told
  <1>3. CASE ~Told
    <2>1. Told' = Told
      BY <1>1, <1>3, Zenon DEF Told
    <2> QED BY <1>1, <2>1
  <1> QED BY <1>2, <1>3

\* The flow ends without a word.
LEMMA GiveUpStep ==
  ASSUME Inv, state \in SmsStates, state' \notin SmsStates,
         event' = "none", UNCHANGED <<recipient, outgoing_message, pending>>
  PROVE  Faithful
  <1>1. Progress'
    BY DEF Progress, BodyStates, SmsStates
  <1>2. /\ Asked' = Asked /\ Told' = FALSE /\ Out' = <<>>
        /\ Doing # NoValue /\ Doing' = NoValue
    BY JobType DEF Asked, Doing, Told, Out, Job, BodyStates, SmsStates
  <1>3. Sending!GiveUp
    BY <1>2 DEF Sending!GiveUp, Sending!End, Asked, Doing, Out, Told
  <1> QED BY <1>1, <1>3 DEF Faithful, Sending!Step

\* A part goes out: it is the next one.
LEMMA PartStep ==
  ASSUME Inv, Progress, state \in BodyStates, state' = "SENDING_SMS_5",
         event' = "none", UNCHANGED <<recipient, outgoing_message, pending, splits>>,
         Len(submitted) < Len(Parts),
         submitted' = Append(submitted, Parts[Len(submitted) + 1]),
         splits # <<>> => partnum' = Len(submitted) + 1
  PROVE  Faithful
  <1> DEFINE m == Len(submitted)
  <1>1. submitted \in Seq(Fragment) /\ m \in Nat
    BY DEF Inv, TypeOK, OutgoingOK
  <1>2. /\ recipient \in Numbers /\ outgoing_message \in Texts
        /\ Job # NoValue /\ Job \in Numbers \X Texts
    BY JobType DEF Inv, SmsRequested, SmsStates, BodyStates
  <1>3. Parts \in Seq(Part) /\ Len(Parts) \in Nat /\ Parts[m + 1] \in Part
    <2>1. Parts \in Seq(Part)
      BY <1>2, PartsFacts DEF Parts
    <2>2. m + 1 \in 1 .. Len(Parts)
      BY <1>1, <2>1
    <2> QED BY <2>1, <2>2
  <1>4. /\ Len(submitted') = m + 1
        /\ \A i \in 1 .. m : submitted'[i] = submitted[i]
        /\ submitted'[m + 1] = Parts[m + 1]
    BY <1>1, <1>3 DEF Fragment
  <1>5. Parts' = Parts
        /\ (SplitsFor(recipient, outgoing_message))' = SplitsFor(recipient, outgoing_message)
    BY DEF Parts, PartsOf, SplitsFor
  <1>6. \A i \in 1 .. m + 1 : submitted'[i] = Parts[i]
    <2>1. \A i \in 1 .. m : submitted[i] = Parts[i]
      BY DEF Progress
    <2> QED BY <1>1, <1>4, <2>1
  <1>7. Progress'
    <2>1. splits = SplitsFor(recipient, outgoing_message)
      BY DEF Progress
    <2> QED BY <1>1, <1>3, <1>4, <1>5, <1>6, <2>1 DEF Progress, BodyStates
  <1>8. /\ Asked' = Asked /\ Told' = FALSE /\ Doing' = Doing /\ Doing = Job
        /\ Out = submitted /\ Out' = submitted'
    BY DEF Asked, Told, Doing, Out, Job, BodyStates, SmsStates
  <1>9. [j \in Numbers \X Texts |-> PartsOf(j[1], j[2])][Job] = Parts
    BY <1>2 DEF Job, Parts
  <1>10. Sending!PutOut
    BY <1>2, <1>8, <1>9 DEF Sending!PutOut, Asked, Doing, Out, Told
  <1> QED BY <1>7, <1>10 DEF Faithful, Sending!Step

LEMMA SendingStep ==
  ASSUME Inv, Progress, NEW l \in Lines, InSending(l)
  PROVE  Faithful
  <1>0. UNCHANGED <<recipient, outgoing_message, pending>>
    BY DEF InSending, request
  <1>1. CASE AskCenter \/ receive_csca(l)
    <2>1. /\ state \in SmsStates /\ state' \in SmsStates /\ event' = "none"
          /\ state \notin BodyStates /\ state' \notin BodyStates
      BY <1>1 DEF AskCenter, receive_csca, NextCmd, send_cmd, Write, Goto, Silent,
         SmsStates, BodyStates
    <2>2. Progress' /\ Out' = Out
      BY <2>1 DEF Progress, Out
    <2> QED BY <1>0, <2>1, <2>2, NoPartStep DEF Faithful
  <1>2. CASE BeginParts
    <2>1. /\ state = "SENDING_SMS_2" /\ state' = "SENDING_SMS_3" /\ event' = "none"
          /\ splits' = SplitsFor(recipient, outgoing_message) /\ submitted' = <<>>
          /\ splits' # <<>> => partnum' = 0
      BY <1>2 DEF BeginParts, PrepareSplits, NextCmdAck, send_cmd_ack, Write
    <2>2. recipient \in Numbers /\ outgoing_message \in Texts
      BY <2>1 DEF Inv, SmsRequested, SmsStates
    <2>3. Parts \in Seq(Part) /\ splits' \in Seq(Nat)
      BY <2>1, <2>2, PartsFacts DEF Parts
    <2>4. Parts' = Parts
          /\ (SplitsFor(recipient, outgoing_message))' = SplitsFor(recipient, outgoing_message)
      BY <1>0 DEF Parts, PartsOf, SplitsFor
    <2>5. Progress'
      BY <2>1, <2>3, <2>4 DEF Progress, BodyStates
    <2>6. Out' = Out
      BY <2>1 DEF Out, BodyStates
    <2> QED BY <1>0, <2>1, <2>5, <2>6, NoPartStep DEF Faithful, SmsStates
  <1>3. CASE SendHeader
    <2>1. state = "SENDING_SMS_3" /\ event' = "none" /\ splits' = splits
      BY <1>3 DEF SendHeader, Write
    <2>2. /\ EncodedPart = Parts[Len(submitted) + 1]
          /\ Len(submitted) < Len(Parts) /\ Len(submitted) \in Nat
      BY <2>1, NextPart
    <2>3. splits # <<>> => partnum' = Len(submitted) + 1
      BY <1>3, <2>1 DEF SendHeader, CountPart, Progress, BodyStates
    <2>4. CASE sim8xx
      <3>1. submitted' = Append(submitted, EncodedPart) /\ state' = "SENDING_SMS_5"
        BY <1>3, <2>4 DEF SendHeader, Write
      <3> QED BY <1>0, <2>1, <2>2, <2>3, <3>1, PartStep DEF BodyStates
    <2>5. CASE ~sim8xx
      <3>1. submitted' = submitted /\ state' = "SENDING_SMS_4"
        BY <1>3, <2>5 DEF SendHeader, Write
      <3>2. pdu'.buf = EncodedPart
        BY <1>3 DEF SendHeader, Inv, TypeOK, PduOK
      <3>3. Parts' = Parts
          /\ (SplitsFor(recipient, outgoing_message))' = SplitsFor(recipient, outgoing_message)
        BY <1>0 DEF Parts, PartsOf, SplitsFor
      <3>4. Progress'
        BY <2>1, <2>2, <2>3, <3>1, <3>2, <3>3 DEF Progress, BodyStates
      <3>5. Out' = Out
        BY <2>1, <3>1 DEF Out, BodyStates
      <3> QED BY <1>0, <2>1, <3>1, <3>4, <3>5, NoPartStep DEF Faithful, SmsStates
    <2> QED BY <2>4, <2>5
  <1>4. CASE EncodeFails \/ SubstrThrows
    <2>1. state \in SmsStates /\ state' \notin SmsStates /\ event' = "none"
      BY <1>4 DEF EncodeFails, SubstrThrows, Goto, Silent, SmsStates
    <2> QED BY <1>0, <2>1, GiveUpStep
  <1>5. CASE SendBody(l)
    <2>1. /\ state = "SENDING_SMS_4" /\ state' = "SENDING_SMS_5" /\ event' = "none"
          /\ splits' = splits /\ partnum' = partnum
          /\ submitted' = Append(submitted, pdu.buf)
      BY <1>5 DEF SendBody, send_cmd_ctrlz, Write
    <2>2. /\ Len(submitted) < Len(Parts) /\ pdu.buf = Parts[Len(submitted) + 1]
          /\ splits # <<>> => partnum = Len(submitted) + 1
      BY <2>1 DEF Progress, BodyStates
    <2> QED BY <1>0, <2>1, <2>2, PartStep DEF BodyStates
  <1>6. CASE PartSent(l)
    <2>1. /\ state = "SENDING_SMS_5" /\ submitted' = submitted
          /\ pdu' = pdu
      BY <1>6 DEF PartSent
    <2>2. /\ recipient \in Numbers /\ outgoing_message \in Texts
          /\ Job # NoValue /\ Job \in Numbers \X Texts
      BY <2>1, JobType DEF Inv, SmsRequested, SmsStates
    <2>3. /\ splits = SplitsFor(recipient, outgoing_message)
          /\ Len(submitted) <= Len(Parts)
          /\ \A i \in 1 .. Len(submitted) : submitted[i] = Parts[i]
          /\ splits # <<>> => Len(submitted) = partnum
          /\ Len(submitted) > 0
      BY <2>1 DEF Progress, BodyStates
    <2>4. /\ Parts \in Seq(Part) /\ Len(Parts) = Len(splits) + 1
          /\ splits \in Seq(Nat) /\ submitted \in Seq(Fragment)
      BY <2>2, <2>3, PartsFacts DEF Parts, Inv, TypeOK, OutgoingOK
    <2>5. CASE MoreParts
      <3>1. /\ state' = "SENDING_SMS_3" /\ event' = "none" /\ splits # <<>>
            /\ partnum <= Len(splits) /\ splits' = splits /\ partnum' = partnum
        BY <1>6, <2>5 DEF PartSent, MoreParts, Goto, Silent
      <3>2. Parts' = Parts
          /\ (SplitsFor(recipient, outgoing_message))' = SplitsFor(recipient, outgoing_message)
        BY <1>0 DEF Parts, PartsOf, SplitsFor
      <3>3. Progress'
        BY <2>1, <2>3, <3>1, <3>2 DEF Progress, BodyStates
      <3>4. Out' = Out
        BY <2>1, <3>1 DEF Out, BodyStates
      <3> QED BY <1>0, <2>1, <3>1, <3>3, <3>4, NoPartStep DEF Faithful, SmsStates
    <2>6. CASE ~MoreParts
      <3>1. state' = "CHECK_SMS" /\ event' = "sms_sent"
        BY <1>6, <2>6 DEF PartSent, Goto, Silent
      <3>2. Len(submitted) = Len(Parts)
        <4>1. CASE splits = <<>>
          BY <2>3, <2>4, <4>1
        <4>2. CASE splits # <<>>
          <5>1. partnum > Len(splits) /\ partnum \in Nat
            BY <2>6, <4>2 DEF MoreParts, Inv, TypeOK, OutgoingOK
          <5> QED BY <2>3, <2>4, <4>2, <5>1
        <4> QED BY <4>1, <4>2
      <3>3. submitted = Parts
        BY <2>3, <2>4, <3>2
      <3>4. Progress'
        BY <3>1 DEF Progress, BodyStates
      <3>5. /\ Asked' = Asked /\ Told' = TRUE /\ Doing = Job /\ Doing' = NoValue
            /\ Out = Parts /\ Out' = <<>>
        BY <1>0, <2>1, <3>1, <3>3 DEF Asked, Told, Doing, Out, Job, BodyStates, SmsStates
      <3>6. [j \in Numbers \X Texts |-> PartsOf(j[1], j[2])][Job] = Parts
        BY <2>2 DEF Job, Parts
      <3>7. Sending!Report
        BY <2>2, <3>5, <3>6 DEF Sending!Report, Sending!End, Asked, Doing, Out, Told
      <3> QED BY <3>4, <3>7 DEF Faithful, Sending!Step
    <2> QED BY <2>5, <2>6
  <1>7. CASE KeepWaiting(l)
    <2>1. /\ state \in SmsStates /\ state' = state /\ event' = "none"
          /\ UNCHANGED outgoing /\ pdu' = pdu
      BY <1>7 DEF KeepWaiting, Goto, Silent, SmsStates
    <2>2. Elsewhere
      BY <1>0, <2>1 DEF Elsewhere
    <2> QED BY <2>2, ElsewhereProgress, ElsewhereStep DEF Faithful
  <1> QED BY <1>1, <1>2, <1>3, <1>4, <1>5, <1>6, <1>7 DEF InSending

LEMMA RestartStep ==
  ASSUME Restart
  PROVE  Faithful
  <1>1. state' = "IDLE" /\ pending' = {} /\ event' = "none"
    BY DEF Restart
  <1>2. Progress'
    BY <1>1 DEF Progress, BodyStates
  <1>3. Asked' = NoValue /\ Doing' = NoValue /\ Out' = <<>> /\ Told' = FALSE
    BY <1>1 DEF Asked, Doing, Out, Told, BodyStates, SmsStates
  <1>4. Sending!Reset
    BY <1>3 DEF Sending!Reset, Asked, Doing, Out, Told
  <1> QED BY <1>2, <1>4 DEF Faithful, Sending!Step

-----------------------------------------------------------------------------
(* All steps together. *)

LEMMA NextFaithful ==
  ASSUME Patient, Inv, Progress, [Next]_vars
  PROVE  Faithful
  <1>1. CASE Elsewhere
    BY <1>1, ElsewhereProgress, ElsewhereStep DEF Faithful
  <1>2. CASE Timers
    BY <1>1, <1>2, TimersElsewhere
  <1>3. CASE Loop
    BY <1>1, <1>3, LoopElsewhere, BeginStep
  <1>4. CASE Requests
    BY <1>1, <1>4, RequestsElsewhere, AskStep
  <1>5. CASE \E l \in Lines : Rx(l)
    BY <1>1, <1>5, RxElsewhere, SendingStep
  <1>6. CASE Restart
    BY <1>6, RestartStep
  <1>7. CASE UNCHANGED vars
    <2> USE <1>7 DEF vars, session, request, outgoing, output
    <2>1. Progress'
      <3>1. Parts' = Parts
            /\ (SplitsFor(recipient, outgoing_message))'
                 = SplitsFor(recipient, outgoing_message)
        BY DEF Parts, PartsOf, SplitsFor
      <3> QED BY <3>1 DEF Progress
    <2>2. UNCHANGED <<Asked, Doing, Out, Told>>
      BY DEF Asked, Doing, Out, Told, Job
    <2> QED BY <2>1, <2>2 DEF Faithful
  <1> QED BY <1>2, <1>3, <1>4, <1>5, <1>6, <1>7 DEF Next

LEMMA InitProgress == Init => Progress
  BY DEF Init, Progress, BodyStates

\* The parts written are those of the text in hand, in order, in every state
\* that sends them.
LEMMA ProgressKept ==
  ASSUME Patient
  PROVE  Spec => []Progress
  <1>1. Inv /\ Progress /\ [Next]_vars => Progress'
    BY NextFaithful DEF Faithful
  <1> QED BY <1>1, InitProgress, Invariance, PTL DEF Spec

\* If callers wait for one text to end, the driver implements SmsSending: a text
\* asked for goes out part by part, each once, in order and to its recipient,
\* and on_sms_sent is called for it when exactly its parts were written, in every
\* environment and for every text and its cuts (a7670.cpp:505-577 and 625-686).
THEOREM SentAsAsked ==
  ASSUME Patient
  PROVE  Spec => SendsAsAsked
  <1>1. Init => Sending!Start
    BY DEF Init, Sending!Start, BodyStates, SmsStates
  <1>2. Inv /\ Progress /\ [Next]_vars => [Sending!Step]_<<Asked, Doing, Out, Told>>
    BY NextFaithful DEF Faithful
  <1> QED
    BY <1>1, <1>2, ProgressKept, Invariance,
       PTL DEF Spec, SendsAsAsked, Sending!SendingSpec, Asked, Doing, Out, Told

\* A part that _send_sms_send_header_ is to send begins within the text.
LEMMA AbortStep ==
  ASSUME Inv, Progress, NoAbort, [Next]_vars
  PROVE  NoAbort'
  <1> SUFFICES ASSUME state' = "ABORTED" PROVE FALSE
    BY DEF NoAbort
  <1> USE DEF NoAbort
  <1>1. state' # state
    OBVIOUS
  <1>2. CASE Timers
    BY <1>2 DEF Timers, LeaveModemWait, RxTimeout, IdleTimeout, Update,
       _periodic_check_, send_cmd_ctrlz, send_cmd_ack, Write
  <1>3. CASE Loop
    BY <1>1, <1>3 DEF Loop, SendAt, EnterPin, PinDone, EnableRegistration,
       Registered, Connect, Disconnect, Dial, PollCall, ReadSms, SendSms,
       Cleanup, SendUssd, Take, _periodic_check_, send_cmd_ack, Write, session
  <1>4. CASE Requests
    BY <1>1, <1>4 DEF Requests, send_sms, dial, send_ussd, send_at, connect,
       disconnect, set_debug, Request, session
  <1>5. ASSUME NEW l \in Lines, Rx(l)
        PROVE  FALSE
    <2>1. CASE Notification(l)
      BY <1>1, <2>1 DEF Notification, OnIgnored, OnCpin, OnCreg, OnCmti,
         OnCusd, OnClcc, session
    <2>2. CASE AckFails(l)
      BY <1>1, <2>2 DEF AckFails
    <2>3. CASE SubstrThrows
      BY <2>3, NextPart DEF SubstrThrows, Substr
    <2>4. CASE Dispatch(l) /\ ~SubstrThrows
      BY <1>1, <2>4 DEF Dispatch, InWaitState, InInit, InDialing, InUssd,
         InListing, InReceiving, Collect, InSending, AskCenter, receive_csca,
         BeginParts, SendHeader, EncodeFails, SendBody, PartSent, KeepWaiting,
         Goto, NextCmd, NextCmdAck, send_cmd, send_cmd_ack, ErrorOut,
         send_cmd_ctrlz, Write
    <2> QED BY <1>5, <2>1, <2>2, <2>3, <2>4 DEF Rx, parse_cmd_
  <1>6. CASE Restart
    BY <1>6 DEF Restart
  <1> QED BY <1>1, <1>2, <1>3, <1>4, <1>5, <1>6 DEF Next, vars, session

\* If callers wait for one text to end, substr() is never asked to begin behind
\* the end of the text (a7670.cpp:652), and the node does not abort.
THEOREM NeverAborts ==
  ASSUME Patient
  PROVE  Spec => []NoAbort
  <1>1. Init => NoAbort
    BY DEF Init, NoAbort
  <1>2. Inv /\ Progress /\ NoAbort /\ [Next]_vars => NoAbort'
    BY AbortStep
  <1> QED BY <1>1, <1>2, ProgressKept, Invariance, PTL DEF Spec

\* Parts that are the first ones of one text continue each other.
LEMMA PartsAgree ==
  ASSUME Inv, Progress, state \in BodyStates
  PROVE  ContinuesMessage
  <1>1. recipient \in Numbers /\ outgoing_message \in Texts
    BY DEF Inv, SmsRequested, SmsStates, BodyStates
  <1>2. /\ submitted \in Seq(Fragment)
        /\ Len(submitted) <= Len(Parts)
        /\ \A i \in 1 .. Len(submitted) : submitted[i] = Parts[i]
    BY DEF Progress, Inv, TypeOK, OutgoingOK
  <1>3. /\ Parts \in Seq(Part) /\ Len(Parts) \in Nat
        /\ \A i \in 1 .. Len(Parts) : /\ Parts[i].to = recipient
                                      /\ Parts[i].text = outgoing_message
    <2> DEFINE n == Len(SplitsFor(recipient, outgoing_message))
    <2>1. Parts \in Seq(Part) /\ Len(Parts) = n + 1 /\ n \in Nat
      BY <1>1, PartsFacts DEF Parts
    <2>2. ASSUME NEW i \in 1 .. n + 1
          PROVE  Parts[i].to = recipient /\ Parts[i].text = outgoing_message
      <3> DEFINE cuts == SplitsFor(recipient, outgoing_message)
                 b == IF i = 1 THEN 0 ELSE cuts[i - 1]
                 e == IF i = n + 1 THEN Length[outgoing_message] ELSE cuts[i]
      <3>1. Parts[i] = [to |-> recipient, text |-> outgoing_message,
                        begin |-> b, end |-> e]
        BY <1>1, PartsFacts, Zenon DEF Parts
      <3> HIDE DEF b, e
      <3> QED BY <3>1
    <2> HIDE DEF n
    <2> QED BY <2>1, <2>2
  <1> QED BY <1>2, <1>3 DEF ContinuesMessage

\* If callers wait, all parts written for one text carry the same text to the
\* same number (a7670.cpp:539 "continue sending message parts"); if they do
\* not, run mixed_parts shows two texts mixed.
THEOREM PartsContinue ==
  ASSUME Patient
  PROVE  Spec => []ContinuesMessage
  <1>1. Init => ContinuesMessage
    BY DEF Init, ContinuesMessage
  <1>2. ASSUME Inv, Inv', Progress, Progress', ContinuesMessage, [Next]_vars
        PROVE  ContinuesMessage'
    <2>1. CASE submitted' = submitted \/ submitted' = <<>>
      BY <1>2, <2>1 DEF ContinuesMessage
    <2>2. CASE state' \in BodyStates
      <3>1. Inv' /\ Progress' /\ (state \in BodyStates)' => ContinuesMessage'
        BY PartsAgree, PTL
      <3> QED BY <1>2, <2>2, <3>1
    <2>3. CASE Elsewhere \/ Restart \/ SendSms
      BY <2>1, <2>3 DEF Elsewhere, Restart, SendSms, Take, IdleTurn, MayWrite, outgoing
    <2>4. CASE \E to \in Numbers, text \in Texts : send_sms(to, text)
      BY <2>1, <2>4 DEF send_sms, Request, outgoing
    <2>5. ASSUME NEW l \in Lines, InSending(l)
          PROVE  ContinuesMessage'
      BY <2>1, <2>2, <2>5 DEF InSending, AskCenter, receive_csca, BeginParts, PrepareSplits,
         SendHeader, EncodeFails, SubstrThrows, SendBody, PartSent, KeepWaiting,
         send_cmd_ctrlz, Write, BodyStates, outgoing
    <2> QED BY <1>2, <2>1, <2>3, <2>4, <2>5, TimersElsewhere, LoopElsewhere,
               RequestsElsewhere, RxElsewhere DEF Next, vars, outgoing
  <1> QED BY <1>1, <1>2, ProgressKept, Invariance, PTL DEF Spec
=============================================================================
