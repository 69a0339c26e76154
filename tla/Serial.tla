------------------------------- MODULE Serial -------------------------------
(***************************************************************************)
(* loop() of the driver (components/a7670/a7670.cpp) against the clock and *)
(* the UART: its timers, which compare times of millis() that wrap around, *)
(* and the buffer it collects a line in.  What a line makes the driver do  *)
(* is left open; module A7670 has that, and leaves open when its timers    *)
(* end.  debug_ is off.                                                    *)
(*                                                                         *)
(* Every step is one call of loop(), or what it does with one octet it     *)
(* reads.  A call takes no time.                                           *)
(***************************************************************************)
EXTENDS Integers, Sequences

CONSTANTS
  READ_BUFFER_LENGTH,
  Plain,     \* octets that are stored as they are, NUL aside
  Word,      \* number of values of millis() (2^32)
  Gap,       \* loop() is called again after this time at most
  rx_timeout, idle_timeout, modem_init_timeout, power_blink,
  MaxClock,  \* bound: end of the time that is looked at
  MaxLine    \* bound: length of a line

VARIABLES
  read_buffer, read_pos,  \* read_buffer_, read_pos_
  line,                   \* history: the characters of the line so far
  message,                \* history: what parse_cmd_ was called with last
  reading,                \* loop() is reading
  clock,                  \* the time since the start
  state,                  \* what the timers tell apart of state_
  last_tx,                \* last_tx_
  heard,                  \* last_rx_ > 0
  modem_ready,            \* modem_ready_
  power_pin,              \* power_pin_ is configured
  power_cycle,            \* power_cycle_, 0: the pin is low
  wrote, pulsed           \* history: the times last_tx and power_cycle stand for

buffer == <<read_buffer, read_pos, line, message>>
timer  == <<state, last_tx, wrote>>
peer   == <<heard, modem_ready, power_pin>>
power  == <<power_cycle, pulsed>>
vars == <<buffer, reading, clock, timer, peer, power>>

CR == "CR"    LF == "LF"    NUL == "NUL"    High == "0x7F.."    Mark == "?"
Stored == Plain \cup {NUL, Mark}
Cells == 0 .. READ_BUFFER_LENGTH - 1
State == {"IDLE", "BUSY", "PIN_WAIT", "MODEM_WAIT"}

ASSUME SerialAssumption ==
  /\ READ_BUFFER_LENGTH \in Nat \ {0} /\ Word \in Nat \ {0} /\ Gap \in Nat \ {0}
  /\ MaxClock \in Nat /\ MaxLine \in Nat
  /\ {rx_timeout, idle_timeout, modem_init_timeout, power_blink} \subseteq Nat \ {0}
  /\ Plain \cap {CR, LF, NUL, High, Mark} = {}

millis == clock % Word
Due(t, timeout) == (t + timeout) % Word < millis

\* What a C string shows of the characters b[0], b[1], ...: those before a NUL.
CString(b) ==
  LET shown == {i \in DOMAIN b : \A j \in 0 .. i : b[j] # NUL}
  IN [i \in {j + 1 : j \in shown} |-> b[i - 1]]

Init ==
  /\ read_buffer = [i \in Cells |-> NUL] /\ read_pos = 0
  /\ line = <<>> /\ message = <<>> /\ reading = FALSE
  /\ clock = 0 /\ state = "IDLE" /\ last_tx = 0 /\ wrote = 0
  /\ heard = FALSE /\ modem_ready = FALSE /\ power_pin \in BOOLEAN
  /\ power_cycle = 0 /\ pulsed = 0

-----------------------------------------------------------------------------
(* The timers. *)

Touch == last_tx' = millis /\ wrote' = clock

\* The call returns.
Return == reading' = FALSE /\ \E d \in 1 .. Gap : clock' = clock + d

\* Mutant of Unblinked: the pulse lasts until the modem is ready.
Unblinked_AfterWait == power_cycle > 0 /\ state # "MODEM_WAIT"
Unblinked == power_cycle > 0 /\ Due(power_cycle, power_blink)

\* The pulse on the power pin is ended before anything else is looked at.
Unblink == IF Unblinked THEN power_cycle' = 0 /\ UNCHANGED pulsed
                        ELSE UNCHANGED power

\* Mutant of WaitOver: only the modem ends the wait.
WaitOver_Ready == state = "MODEM_WAIT" /\ modem_ready
WaitOver ==
  state = "MODEM_WAIT" /\ (modem_ready \/ Due(last_tx, modem_init_timeout))

RxOver ==
  state # "MODEM_WAIT" /\ last_tx > 0 /\ ~heard /\ Due(last_tx, rx_timeout)

\* Mutant of IdleOver: the other timeout.
IdleOver_Rx ==
  /\ state \notin {"MODEM_WAIT", "PIN_WAIT"} /\ ~RxOver
  /\ last_tx > 0 /\ Due(last_tx, rx_timeout)
IdleOver ==
  /\ state \notin {"MODEM_WAIT", "PIN_WAIT"} /\ ~RxOver
  /\ last_tx > 0 /\ Due(last_tx, idle_timeout)

LeaveModemWait ==
  /\ ~reading /\ WaitOver
  /\ state' = "IDLE" /\ Touch /\ Unblink /\ Return
  /\ UNCHANGED <<buffer, peer>>

RxTimeout ==
  /\ ~reading /\ RxOver
  /\ modem_ready' = FALSE
  /\ IF power_pin
     THEN /\ power_cycle' = millis /\ pulsed' = clock
          /\ state' = "MODEM_WAIT" /\ UNCHANGED <<last_tx, wrote>>
     ELSE /\ Touch /\ UNCHANGED <<state, power>>
  /\ Return
  /\ UNCHANGED <<buffer, heard, power_pin>>

IdleTimeout ==
  /\ ~reading /\ IdleOver
  /\ state' = "IDLE" /\ Touch /\ Unblink /\ Return
  /\ UNCHANGED <<buffer, peer>>

\* No timer ends the call.
GoesOn == ~WaitOver /\ ~RxOver /\ ~IdleOver

\* Nothing to read: a command is written, by loop() or by update().
Write ==
  /\ ~reading /\ GoesOn /\ state # "MODEM_WAIT"
  /\ state' \in State \ {"MODEM_WAIT"} /\ Touch /\ Unblink /\ Return
  /\ UNCHANGED <<buffer, peer>>

\* Nothing (more) to read, nothing to write.
Nothing ==
  /\ reading \/ GoesOn
  /\ Unblink /\ Return
  /\ UNCHANGED <<buffer, timer, peer>>

-----------------------------------------------------------------------------
(* Reading. *)

\* Mutants of Wrapped: one cell more than there is, and one less.
Wrapped_Late == IF read_pos = READ_BUFFER_LENGTH + 1 THEN 0 ELSE read_pos
Wrapped_Early == IF read_pos = READ_BUFFER_LENGTH - 1 THEN 0 ELSE read_pos
Wrapped == IF read_pos = READ_BUFFER_LENGTH THEN 0 ELSE read_pos

Put(c) == [read_buffer EXCEPT ![Wrapped] = c]

\* parse_cmd_ may go on with the flow, end it, and learn that the modem is ready.
parse_cmd_ ==
  /\ \/ state = "BUSY" /\ state' \in State \ {"MODEM_WAIT"} /\ Touch
     \/ state' \in {state, IF state = "MODEM_WAIT" THEN state ELSE "IDLE"}
        /\ UNCHANGED <<last_tx, wrote>>
  /\ modem_ready' \in {modem_ready, TRUE}

\* Mutant of EndLine: the line is not ended in the buffer.
EndLine_NoEnd ==
  /\ read_buffer' = read_buffer /\ read_pos' = 0
  /\ message' = CString(read_buffer)
  /\ heard' = (millis > 0) /\ parse_cmd_
EndLine ==
  /\ read_buffer' = Put(NUL) /\ read_pos' = 0
  /\ message' = CString(read_buffer')
  /\ heard' = (millis > 0) /\ parse_cmd_

Read(o) ==
  CASE o = LF -> EndLine /\ line' = <<>> /\ UNCHANGED power_pin
    [] o = CR -> /\ read_pos' = Wrapped
                 /\ UNCHANGED <<read_buffer, line, message, timer, peer>>
    [] OTHER  -> LET c == IF o = High THEN Mark ELSE o IN
                 /\ Len(line) < MaxLine /\ line' = Append(line, c)
                 /\ read_buffer' = Put(c) /\ read_pos' = Wrapped + 1
                 /\ UNCHANGED <<message, timer, peer>>

ReadOctet ==
  /\ reading \/ GoesOn
  /\ \E o \in Plain \cup {CR, LF, NUL, High} : Read(o)
  /\ reading' = TRUE /\ Unblink /\ UNCHANGED clock

Next ==
  /\ clock < MaxClock
  /\ \/ LeaveModemWait \/ RxTimeout \/ IdleTimeout
     \/ Write \/ Nothing \/ ReadOctet

Spec == Init /\ [][Next]_vars

-----------------------------------------------------------------------------
(* Properties. *)

TypeOK ==
  /\ read_buffer \in [Cells -> Stored] /\ read_pos \in 0 .. READ_BUFFER_LENGTH
  /\ line \in Seq(Stored) /\ message \in Seq(Stored) /\ reading \in BOOLEAN
  /\ clock \in Nat /\ state \in State
  /\ last_tx \in 0 .. Word - 1 /\ power_cycle \in 0 .. Word - 1
  /\ {heard, modem_ready, power_pin} \subseteq BOOLEAN
  /\ wrote \in Nat /\ pulsed \in Nat

\* A line that fits in the buffer with its end reaches parse_cmd_ as it came,
\* whatever was read before (a7670.cpp:127).
LinesWhole ==
  [][line # <<>> /\ line' = <<>> /\ Len(line) < READ_BUFFER_LENGTH
       => message' = CString([i \in 0 .. Len(line) - 1 |-> line[i + 1]])]_vars

\* The deadline lies in this turn of millis(), with room for the next call.
InTurn(t, timeout) == t > 0 /\ t + timeout + Gap < Word

\* A timer ends no earlier than its timeout says, unless the deadline is past
\* the turn of millis().
NotEarly ==
  /\ [][IdleTimeout /\ InTurn(last_tx, idle_timeout)
          => clock - wrote > idle_timeout]_vars
  /\ [][RxTimeout /\ InTurn(last_tx, rx_timeout)
          => clock - wrote > rx_timeout]_vars
  /\ [][LeaveModemWait /\ ~modem_ready /\ InTurn(last_tx, modem_init_timeout)
          => clock - wrote > modem_init_timeout]_vars

\* A flow the modem has stopped to answer is given up, and the wait for a modem
\* that does not start, with the next call after the timeout; unless the
\* deadline is past the turn of millis(), when it may take a whole turn.  For a
\* modem that was never heard, and that no power pin starts, the wait begins
\* again each time; and one whose last line was read at millis() = 0 counts as
\* never heard, so that it may be power-cycled a turn after the last command.
NotLate ==
  /\ state = "BUSY" /\ InTurn(last_tx, idle_timeout)
       => clock - wrote <= idle_timeout + Gap
  /\ state = "MODEM_WAIT" /\ InTurn(last_tx, modem_init_timeout)
       /\ pulsed - wrote <= rx_timeout + Gap
       => clock - wrote <= modem_init_timeout + Gap

\* The power pin is not held longer than the pulse takes, with the same
\* exception.
PinReleased ==
  power_cycle > 0 /\ InTurn(power_cycle, power_blink)
    => clock - pulsed <= power_blink + Gap

\* The buffer with its position is a channel of lines that loses the lines it
\* has no room for, and no others.
Channel == INSTANCE LineChannel
  WITH Chars <- Stored, Room <- READ_BUFFER_LENGTH, End <- NUL,
       collected <- [i \in 1 .. read_pos |-> read_buffer[i - 1]],
       handed <- message
ImplementsChannel == Channel!ChannelSpec
=============================================================================
