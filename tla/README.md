# Specifications of the ESPHome components

TLA+ models of the three ESPHome components of this repository, with model
checking (TLC) and machine-checked proofs (TLAPS): `a7670`, a driver for
A7670X and SIM8xx modems; `acl`, an access list kept on an SD card and served
over HTTP; `sdmmc`, the SD card below it.

    tlc -config sending.cfg MCA7670        any run: its cfg, its module
    tlapm ModemLink_proofs.tla             any module of theorems: seconds to ten minutes

## The system

Everything but the web server runs in one task, the main loop of ESPHome: it
calls `loop()` of each component every few milliseconds and `update()` at the
polling interval, and runs the automations that call the public methods in
between. So no handler of the modem driver is interrupted by another one. What
makes the driver hard is that the modem answers later: a flow (start-up, send,
list, dial, USSD) is spread over many calls of `loop()`, and requests, timers,
notifications and the answers to other commands come in the middle of it. The
web server of `acl` runs in a task of its own, without any lock.

| part | state it keeps | operations | interacts with |
|---|---|---|---|
| `A7670Component` (a7670.cpp, a7670.h) | `state_`, `expect_ack_`, `current_cmd_`, timestamps, SIM and registration flags, `call_state_`, eight `*_pending_` flags, the outgoing text with its cuts and part number, the message being received | `update`, `loop` (timers, one line or one write), `parse_cmd_`, `send_sms`, `dial`, `send_ussd`, `send_at`, `connect`, `disconnect`, `set_debug` | the modem over the UART; callbacks `on_sms_received`, `on_sms_sent`, `on_incoming_call` ...; `pdulib` |
| `pdulib` (pdulib.cpp, vendored from mgaman/PDUlib and changed) | one work buffer for encoding and decoding, the sender and the concatenation data of the last PDU | `encodePDU`, `decodePDU`, `checkMultipart`, getters | called by the driver, its buffers outlive the call |
| modem, SIM, network (not in the repository) | message slots, call, SIM state | one reply per command, notifications at any time | the UART |
| `AclComponent` (acl.cpp) | the map `acl_`, `reload_required_`, `pending_logs_` | `setup`, `loop`, `check`, `add_acl`, `remove_acl`, `clear_acl`, `reload_acl` | `AclStore`; called by automations and, for `reload_acl`, by the web server's task |
| `AclStore` (acl_store.cpp) | none, but the files `acl.csv` and `logs/<day>.log` | load, store, append logs | `SdFs` |
| `AclServer` (acl_server_esp_idf.cpp) | the server handle | GET and POST of `acl.csv`, GET of a log | `AclStore`, and `reload_acl` after a POST |
| `SdFs`, `SdMmcComponent` (sdmmc) | the mounted card, usage figures | read, write, append, directories | FAT driver of ESP-IDF |
| code generation (`__init__.py`, `sensor.py`, `binary_sensor.py`) | none at run time | validates the YAML, generates the set-up | |

What can go wrong, and what must hold, part by part:

* **Driver.** Lines that arrive on their own are taken for acknowledgements;
  flows that time out leave their data behind; requests overwrite what a flow is
  using; the index of the cleanup is a byte that is counted down; a poll writes
  into an SMS prompt; the modem is left in text mode by USSD. It must keep
  commands and answers paired, send what was asked for, and report only what it
  has read from the sender it names.
* **Clock and UART.** Times of `millis()` wrap around after 49 days, 0 stands for
  "never", a line may be longer than the buffer. Timers must not fire early, must
  fire in time, and a line that fits must arrive as it was sent.
* **Codec.** Two passes over a text must agree, one that measures and cuts and one
  that encodes; septets are packed behind a header that ends in the middle of one;
  buffers and surrogate halves outlive a call. What is sent must read, by the
  standard, as what was asked for; what arrives must be handed on as written.
* **Driver and modem.** It must bring the modem up, notice the end of calls,
  report a message sent only when the modem has taken it, hand on every message
  once, and not delete what it has not read.
* **Access list.** Memory and file must agree again after every sequence of
  POSTs, calls, failed writes and restarts, a change must survive its trip
  through the file, and each check must be logged once under its day.

PROJECT.json lists these hazards at their lines, with the properties that
cover them or the reason why none does.

## Modules

| module | what it is |
|---|---|
| `A7670` | the driver, against the most general environment |
| `SmsSending` | abstract: what `send_sms` promises; implemented by `A7670` |
| `ModemLink` | the driver and one modem, network and SIM, joined by the serial line |
| `Serial` | `loop()` against `millis()` and the UART: the timers and the read buffer |
| `LineChannel` | abstract: a channel of lines with little room; implemented by `Serial` |
| `SmsSplit` | cutting a text and encoding its parts, a character per step |
| `Cutting` | abstract: which cuts are right; implemented by `SmsSplit` |
| `Pdu` | the PDU object: `encodePDU` and `decodePDU` on octets, in any order |
| `Alphabets` | its conversions: UTF-8, UCS-2, the GSM alphabet, packing of septets |
| `UserData` | external: user data by 3GPP TS 23.040, the reference for `Pdu` |
| `Acl` | access list, its files, its web server, and the card's failures: two tasks |
| `MCA7670`, `MCModemLink`, `MCSmsSplit`, `MCPdu`, `MCAcl` | values of the constants for TLC |
| `A7670_proofs`, `ModemLink_proofs`, `Inbound_proofs` | theorems on the driver and its refinement of `SmsSending`, on the driver with its modem, on the messages it hands on |
| `SmsSplit_proofs`, `Serial_proofs`, `Pdu_proofs`, `Acl_proofs` | theorems on cutting, on clock and line, on the codec, on the access list |
| `LeastNumber` | the least and the greatest number of a set: induction without the library's theorems |

### A7670

One variable per member or group of members, named like it (`state_` is
`state`, the eight flags are the set `pending`). An action is what one call does
from entry to return:

* `Rx(l)` is a `loop()` that finds the line `l`: `parse_cmd_` and all it
  calls. `Notification` (a7670.cpp:281-402) comes first, then `AckFails` (409-432),
  then the flow of the state: `InInit`, `InDialing`, `InUssd`, `InListing`,
  `InReceiving`, `InSending`.
* `Loop` is a `loop()` that finds none: one disjunct per thing it may start, in the
  order of the `if` chain (`Before` is the order of the idle branch).
* `Timers` are the expired time-outs and `update()`; `Requests` the public
  methods; `Restart` a reboot, after an abort or at any time.

`millis()` is abstracted: a timer whose other conditions hold may expire at any
time (`Serial` has the clock). Lines are the classes that `parse_cmd_` tells apart.
A text is a model value with a length and the offsets at which `checkMultipart`
cuts it (`SmsSplit` has the cutting). `pdu` is the work buffer of the PDU object with
what encoding or decoding left in it, so that a buffer, a sender or a reference
used again after a failure is seen: `decodePDU` has the address that cannot be read and
the header that names no reference. `Patient` says whether callers wait for
`on_sms_sent` before the next request. `submitted` (parts written), `msg_mode` (last AT+CMGF, `AnyMode` after a user's
command, which may have been one) and `mixed` (a piece of the message being received was
filed under what another line had left) are history.
`MaxFragments` bounds the received text.

`SmsSending` is the caller's view: a text is asked for, begun, put on the line part
by part, and reported or given up. The refinement mapping reads "asked" off the
send flag, the job off the state, the parts that are out off `submitted`, and the
report off the callback of the last step.

### ModemLink

`up` and `down` are the two directions of the line; the modem answers commands in
order. Its replies, and a SIM that is busy, locked, unlocking or ready, are
external: taken from the commands and comparisons of a7670.cpp. Messages go to the
lowest free slot and are announced with +CMTI; listed messages become read; the
index of AT+CMGD is what the driver wrote. A timer may be early, before the modem
has answered, at most `MaxLate` times: `late` counts them. It is not early if nothing
is under way (`Quiet`), or if it power-cycles a modem that is waited for
(`AwaitingModem`). A modem has at most as many slots as a byte can count.

### Serial

The other half of `loop()`, with what a line means left open: any line may go on
with the flow, end it, or tell that the modem is ready. `clock` is the time since
the start and grows by up to `Gap` from one call to the next; `millis` is its value
in `Word` values. `Due` is the comparison of the code, `last + timeout < millis()`.
`wrote` and `pulsed` are the times that `last_tx_` and `power_cycle_` stand for, so that
the properties can speak of time that has really passed. `ReadOctet` is one turn of
the read loop (a7670.cpp:121-148), `EndLine` the newline that calls `parse_cmd_`;
`line` is what the UART delivered of the line so far.

The mapping to `LineChannel` takes the first `read_pos_` characters of the buffer for
the line collected. The abstract channel forgets a line that grows to the size of
the buffer and collects what follows as a new one: this is what overwriting the
beginning of the buffer amounts to.

### SmsSplit

A text is a sequence of octets in which the octet that starts a character is the
kind of the character and the others are `Cont`; `Utf8`, `Septets`, `Ucs2` are the
sizes of a kind, so that ASCII, characters of the extension table, letters outside
the GSM alphabet and surrogate pairs are all there. `Prepare` begins
`_prepare_sms_multipart_`; `Check` is the head of `doCheckMultipart`; `TakeChar`,
`Overrun` and `RestFits` are the three ways its inner loop goes on (pdulib.cpp:317-409);
`TooLong` is what the driver makes of the result. `SendWhole` and `SendPart` encode
(`Encoded`), with the reference cut to an unsigned short and the numbers to a char.
`GiveUp` is the idle timeout between two parts.

Widths are constants (`CsmsMod` for 65536, `CharMod` for 256), and so are the limits
of a message and the size of a header, so that TLC can use small ones.

`Cutting` says which cuts are right without saying how they are found: at the ends
of characters, each piece the longest that fits with a header, and none if the
text fits whole. The mapping reads the stage off `pc`.

### Pdu

The buffers of the PDU object and the two globals of `ucs2_to_utf8` are the
variables, `Encode` and `Decode` the calls, each as one action: nothing comes in
between. All octets are the real ones, from `setAddress` to the packed septets
(`Alphabets!Pack`, with the bits of the septet nobody wrote as the parameter `g`, out
of `Garbage`). `encodePDU` is compared with a reader that follows the standard
(`UserData!Submitted`), `decodePDU` is fed by a writer that follows it (`Deliver`).
`dangling` remembers the half of a pair a text ended in.

### Acl

`acl_`, `reload_required_`, `pending_logs_` as in the code. `file` holds the rows of
acl.csv, `logs` the entries of each day's file. A text is the sequence of the fields
between its commas, so that a name with a comma is written and read back as the
code does it (`RowOf`, `NameIn`, `KeyIn`), and `Cut` has what is left of rows that were
torn. `pc` says what each task is doing:

* the loop task takes the reload flag, opens the file, loads it; starts and appends
  logs, one append per batch of one day; or it runs `add_acl`, `remove_acl`,
  `clear_acl`: change the map, open the file (which truncates it), write and close
  it, ask for the reload, and for `remove_acl` go on with the next entry;
* the httpd task takes a POST, opens, writes, answers, and asks for the reload.

Between these steps the other task may do any of its own. A FAT file is empty for
others from its truncation to `fclose`, and a reader that had it open sees a
prefix of the old or of the new rows; this is how the directory entry of the
card's file system behaves and is external to the repository. Opening, writing,
reading and appending may fail and the power may fail at any step, `MaxFaults`
times in all. The clock may go back or give no date. `want`, `unread` and `asked`
remember what the properties speak of: `want` is computed from what the caller meant
(`With`, `Without`, `Meant`), not by the operators that model the code, and is given up
(`None`) where nothing says what holds (`Refused`, a body that is not well-formed, a failed operation).
An append that fails may have written a part of its batch. Of `check` only the entry in
the log is modelled: the look-up changes nothing. The retry of `loop()` (acl.cpp:51-58) and
`store_required_` are unreachable and left out.

## Runs

Each passing run explores its state space completely.

| run | shows | bounds |
|---|---|---|
| `sending` | callers that wait, through start-up, registration changes, calls and power cycles: `NoAbort`, `AckDiscipline`, `SplitsInRange`, `OneOutstanding`, `PromptSilence`, and `SendsAsAsked`, the refinement of `SmsSending` | a number that can be encoded and one that cannot, a text of one part and one of three, a modem with a power pin; 1.4 million states |
| `reading` | listings in any order of headers and bodies, some not to decode or naming no reference, USSD, user commands that may set any mode, restarts: `TypeOK`, `PduMode`, `FromSender` | bytes up to 2, two senders with texts of their own, two fragments; 1.5 million states |
| `link_inbound` | a modem that is off and a locked SIM, two messages, a call, `connect` and `disconnect`: `NoDuplicates`, `HandledEventually`, `PinOnce`, `ComesUp`, `CallEndNoticed` | two slots, one call; 233 thousand states |
| `link_sending` | `SentMeansAccepted`, `SentAtLeastOnce`, `SendEnds` | three timers that are early; 430 thousand states |
| `serial` | `TypeOK`, `LinesWhole`, `NotEarly`, `NotLate`, `PinReleased`, and `ImplementsChannel`, the refinement of `LineChannel` | 12 values of `millis()`, two turns and a bit; calls at most 2 apart; timeouts 2, 3, 5, pulse 1; a buffer of 2, lines up to 3; 1.5 million states |
| `split` | `TypeOK`, `CutsInside`, `PartsFit`, `Fewest`, `Ends`, and `Implements`, the refinement of `Cutting` | every text of up to 4 characters of 4 kinds, messages of 5 septets or 8 octets with headers of 2 and 3; references modulo 2, three of them, parts modulo 4; 337 thousand states |
| `pdu` | `SentAsWritten`, `TempbufFits`, `TextReceived`, `HeaderReceived`, `FailureEmpties` | real limits, senders and numbers of up to 19 octets; see below; 5 thousand states |
| `acl` | `TypeOK`, `InStep`, `ChangeHolds`, `LogBook`, `LogsWritten`, `CatchesUp` | two changes, two checks on two days or none, one fault; names with a comma; 1.0 million states |
| `mixed_parts`, `link_lost`, `link_pin_stuck`, `pdu_ref16` | the findings below | the least that shows them |

Why these bounds are enough to be of use. The driver has no counters that grow:
its state space under any environment is finite for a finite set of lines, so
`sending` and `reading` are limited by the alphabet of lines and requests only, which
is chosen per question; three parts are the least with a first, a middle and a last
one; `ByteMax` 2 still lets the cleanup count below zero. A message in a slot below
another, and one that joins another by reference, need two messages. Three early
timers let an answer be taken for one of the next flow and of the two after it; with
five `SentAtLeastOnce` is no longer true (see Findings).

In `serial` the clock goes round twice, so that every timer is armed in the last
moments of a turn, at 0, and with its deadline on either side of the wrap; lines
of every length from 0 to one more than the buffer come in, with carriage returns,
NULs and octets above 0x7F anywhere. In `split` the room that is left by a header
is no multiple of a character, as in the real messages, a wide character makes
the alphabet of the parts that have none of it, the longest texts need more parts than
`CharMod` can count, and the counter passes `CsmsMod`, so that a reference is 0 and
its parts are refused. `pdu` uses the real limits: all
characters of the GSM alphabet, one- and two-character texts of every width, texts
of 6 to 9 septets around the octet boundary, and the longest text of each kind
with and without a header, and one more. In `acl` a POST and a removal of
two entries take two changes, and the fault may come anywhere in between.

CHECK_DEADLOCK is off where a bound ends the run: changes, checks and faults in `acl`,
`MaxCounter` in `split`, `MaxClock` in `serial`, `Followed` (the calls after which
another one is made) in `pdu` and `pdu_ref16`. The driver and the link always have
a step, and TLC checks that they do.

### Fairness

`FairLinkSpec`: weak fairness on `loop()` reading and writing, on `update()` and on
the timers (ESPHome calls them for ever), on the modem's answers and the SIM
becoming ready. Strong fairness on `DriverTakesUp`, a `loop()` that starts a pending
request: polls and requests alternate in the idle state, and `update()` runs at an
interval of seconds, `loop()` every few milliseconds, so the poll cannot always
come first. Nothing is assumed of callers, calls or messages, but that
`HandledEventually` supposes that the line is free again and again: while a call is
up the driver asks for nothing else.

`Spec` of SmsSplit: weak fairness on the functions going on and on the flow, which
goes on with the next part or is given up by the idle timeout.

`FairSpec` of Acl: weak fairness on each task. Nothing is assumed of callers and
nothing needs to fail. `MaxChanges` matters to `LogsWritten`: automations that ask
for a reload in every pass of the loop would keep the logs waiting.

## Findings

* `mixed_parts` - a second `send_sms` while a split text is being sent: the parts
  that are left are cut from the new text and go to the new number
  (a7670.cpp:646, 748).
* `link_lost` - the cleanup deletes slots down from the last one listed, and with
  them a message that has just arrived in a free slot below (a7670.cpp:260).
* `link_pin_stuck` - a +CPIN notification during ATE0 is taken for a failed
  acknowledgement; the replies are then one off, `init_done_` is set, and the PIN is
  never entered (a7670.cpp:427, 457).
* `pdu_ref16` - a part with a reference of 16 bits is decoded with one septet too
  many: 7 are taken off for a header that stands for 8 (pdulib.cpp:823).

Seen while modelling, and part of the models without a run of their own:

* Lines are tied to commands by their order alone. Five timeouts in a row before
  the modem has answered leave the driver five lines behind it: a whole flow runs on
  the answers to the one before, the +CMGS of an earlier text counts for the last part
  of this one, and on_sms_sent is called before the modem has it (a7670.cpp:115,
  534). TLC finds it if `MaxLate` is 5 in link_sending.cfg; with 4 `SentAtLeastOnce` holds.
* The result of `decodePDU` is not looked at (a7670.cpp:695). After a PDU whose address
  cannot be read, `on_sms_received` gets what was in the work buffer. All other
  failures leave an empty text (`FailureEmpties`).
* A header of 5 or 6 octets that is no concatenation, a port address, makes `decodePDU`
  give up after it has copied the sender and emptied the text, with the reference of the
  last message still there (pdulib.cpp:835). Such a message of one number, listed behind
  a part of another number's text, joins that part, and `on_sms_received` reports it
  under the later number. `FromSender` has the exception `mixed` for this and for the
  lines above.
* A user's command (`send_at`) goes out before a pending cleanup (a7670.cpp:155). If it is
  AT+CMGF=1, the cleanup runs in text mode; the listing sets the mode itself unless it
  follows the cleanup (a7670.cpp:263). `PduMode` excepts the user's choice.
* Senders are decoded into `addressBuff`, 20 octets, without a bound (pdulib.cpp:1098):
  what is longer than 19 runs over into `generalWorkBuffLength`.
* `add_acl` of a key that has another name is dropped by `emplace` (acl.cpp:88), and
  reported as "ACL added" in the next line; `ChangeHolds` says nothing of it (`Refused`).
* An acl.csv that cannot be read counts as an empty list, so "try again later"
  (acl.cpp:52) is never reached (acl_store.cpp:15); hence the exception in `InStep` and
  `CatchesUp`.
* A part with a reference of 8 bits that begins with @ loses it (the exception in
  `Readable`); two characters of the alphabet, U+00A6 and U+00C8, have a negated table
  entry and are sent as something else (the exception in `SentAsWritten`); a message
  in septets with a header is one octet longer than its length says.
* A deadline in the last moments of a turn of `millis()` is missed for a whole turn, one
  behind the wrap may fire at once (`InTurn`); a modem that was never heard and has
  no power pin keeps the idle timeout from ending a flow (`NotLate`).
* A name with a comma is read back with a part of it in the key (`Clean`).

## Proofs

For every value of the constants: every set of lines, numbers, texts with any
cuts, requests; every set of texts, sizes of characters and limits of messages;
every width of `millis()`, size of the buffer and set of timeouts; for the access
list every set of names, keys, bodies and days and any number of changes and faults.
The assumptions named below give the constants their types and are evaluated by
TLC in the runs. Where a theorem has a hypothesis besides, it is stated with the
reason.

**A7670_proofs** assumes `ValuesAssumption` (the types of the constants, 0 is
no reference, a byte has more than one value, nothing but a value is `NoValue`).
The inductive invariant is

    Inv == TypeOK /\ AckDiscipline /\ SplitsInRange /\ SmsRequested

`TypeOK` alone is not inductive: `EncodedPart` takes its text and its end from
members that are empty at first and from the cut at `partnum`. `SmsRequested` (who is to
be sent a message has been named) and `SplitsInRange` make it well typed, and
`SplitsInRange` needs to know that the states that send are reached in order, with
splits and part number reset at the start. There is one lemma for each class of
steps (timers, writes, requests, notifications, each flow), put together in
`NextInv`. From `Invariance` follow:

* `TypeCorrect`, `AcksAndDataApart`, `PartNumberInRange`: the parts of `Inv`;
* `OneCommandOutstanding`, `NothingInThePrompt`: action properties, shown for each
  action;
* `PduModeKept`: inductive together with `Inv`;
* `ReceivedFromSender`: `Received` says that the pieces kept, unless one of them was filed
  under what another line had left (`mixed`), were each `Brought` by a line with the
  sender and the reference kept beside them. Nothing is supposed of the work buffer: it
  is shared with sending, but what encoding leaves there gets into a message by a
  failed `decodePDU` only. The one hypothesis is that a reference tells its sender
  (`OneSender`): the code joins parts by their reference alone (a7670.cpp:698-706), so
  that parts of two senders with the same reference are mixed. Run `reading` has lines
  that keep to it.

The refinement of `SmsSending` needs `CutsAssumption`, too (no text is cut behind its
end), and `Patient`, callers that wait for one text to end: run `mixed_parts` shows that nothing
of this holds for others. `Progress` says for each state that sends which parts
have been written (`submitted`, a beginning of `Parts`), how `partnum` counts them, and
that the part in the work buffer is the next one. Most steps have nothing to do
with sending; what they have in common is `Elsewhere`, shown once for each class of
steps, and from it both that `Progress` is kept and that the abstract state stutters
or is reset. The steps of `InSending` are taken one by one. Then

* `SentAsAsked`: the refinement, each step is a step of `SmsSending` or a stutter;
* `NeverAborts`: what is encoded begins within the text, for `substr()`;
* `PartsContinue`: the claim of a7670.cpp:539, which `mixed_parts` refutes for callers
  that do not wait.

**ModemLink_proofs** proves about the driver and the modem together.

* `DriverImplemented`: `LinkSpec` implies `Spec`. The lines the modem says are lines
  of the environment of `A7670` (`Lines = Line`, which the runs of the link set, too:
  `Lines` plays no part in `LinkSpec` itself), the modem and the world leave the driver
  alone, and `Restart` is the only step of `Spec` it lacks; that it never needs the one
  after an abort is `NeverAborts`, hence `Patient`. The invariant is `Joined`: that of
  the driver, `Progress`, and the types of the two directions, `LinkOK`. So each safety
  theorem above is one about the driver with its modem.
* `SentIsAccepted`: `Taken` says where the part sent last is while no timer has been
  early: on its way down (`One(down, Bodies, o)`), taken over with its answer on its
  way up, or answered and counted. That nothing of an earlier flow is under way when a
  part is sent is what needs the work; the modem's answers are gone through command by
  command. The theorem supposes that no user's command breaks in (`send_at` in debug
  mode): it makes the driver leave the flow, and the next text then finds the answer
  to the part left behind. TLC shows the part accepted twice.
* `PinEnteredOnce`: the SIM may tell twice that it wants its PIN, once when it has been
  busy and once in answer to AT+CPIN?, so the driver must not enter it for the first
  while the answer to AT+CPIN? is still to come. The invariant, `Pinned`, has three parts.
  `StartUp`: AT+CPIN? and AT+CPIN= are not under way before the state that writes the
  former. `SimTells`: which reports of the SIM and which of these commands are on the line,
  for each state of the SIM. `Lockstep`: as long as a first report may come or has been
  noted (`EarlyReport`), the driver expects the acknowledgement that comes next and
  no other (`Paired`), from ATE0 on; its next acknowledgement in PIN_WAIT is then the one
  of AT+CPIN?. The part is about the dialogue, so each step is gone through by what it
  writes and which lines it reads (`Orderly`, `GoesOn`). Like the property it supposes
  that every answer came in time (`late = 0`): acknowledgements left over from early
  timers are one off. A user's command (`send_at`) may break in.

**Inbound_proofs** is about the way of a message from its slot through a listing and
the driver to `on_sms_received`.

* `HandedOnOnce`: the invariant is `Once`. `Framed` says what the line holds: headers
  and bodies in turn, with a slot, a status and a message that fit each other and the
  state of the driver. `ShownOnce`: no message is shown twice as unread. `StoredOnce`,
  `MessageOnce`, `DeliveredSeen`: a message that is in a slot, on the line, among the
  pieces kept or handed on is in one of these places only, unless as a line that says it
  was read before, which the driver passes over. `Listing` is recursive, so what it
  says comes from the least slot for which it would not. The hypothesis `Apart` is
  what the code takes for granted: texts of one sender differ, a reference has one
  sender, and a message can be decoded and names a reference or has no header. Otherwise
  the old content of the work buffer is handed on, or filed under an old reference
  (see Findings).

**SmsSplit_proofs** assumes `SplitAssumption`: texts are well-formed
(`TextsAssumption`), `Upto(a, t, p)` adds up the units of the characters in p octets
(`UptoAssumption`), and every character fits a message with a header
(`CharsAssumption`). TLC evaluates them for the instance of `split`. `Upto` is what
keeps induction out of the proof: the units of a piece are the difference of two of
its values, and one character more is one step of it. The invariant has a
part for each stage: `Cutting_Inv` and `Filling_Inv` (the units counted so far are
those between the last cut and the pointer, the alphabet is the one of the whole
text, a header is counted as soon as there is a cut), `Sending_Inv`, and
`PartsMeasured`: every piece between two cuts was found to fit. With it

* `TypeCorrect`, with the size of the buffer for the septets;
* `CutsInText`: cuts are inside the text, in order, at the ends of characters;
* `MeasuredPartsFit`: what was measured is what `encodePDU` accepts, because a piece
  of a text in the GSM alphabet is in it, too, and a piece of any other is forced
  to 16 bits;
* `CutsAsSpecified`: the refinement of `Cutting`, one lemma for each action;
* `NoFewerCuts`: that taking the longest piece each time is best. `Greedy` adds to the
  invariant that each piece was the longest. Of any other set of cuts, if it is
  smaller, some piece of the driver's has none in it (`PieceUncut`, by counting); the
  piece of the other set that spans it and one character more does not fit.

**Serial_proofs** assumes `SerialAssumption` (the types of the constants; a buffer has a
cell, the octets stored as they are do not include those with a meaning). The
invariant is

    IInv == TypeOK /\ HoldsLine /\ Stamped

`HoldsLine`: while the line is shorter than the buffer, `read_pos_` is its length and the
buffer begins with it. Nothing is claimed of a longer line, so that the claim
starts again with the newline. `Stamped`: `last_tx_` is the time `wrote`, which is past,
modulo `Word`. From it follow

* `TypeCorrect`; that a message is a sequence needs that the characters before the
  first NUL are an interval, shown by counting them (`Initial`), not by induction;
* `WholeLines`: what is in the buffer behind the NUL does not matter (`CStringEnds`);
* `NeverEarly`: two times differ by no less than what is left of them modulo `Word`
  (`ModDiff`);
* `PulseEnds`, `NeverLate`: the invariants say how far the clock may be past the
  deadline: not at all while a line is read (the call found it not due), and by
  one `Gap` after a return (`Slack`). In MODEM_WAIT the time is that of the last command,
  and a power cycle only keeps it if it comes soon after: hence the hypothesis
  `rx_timeout + Gap <= modem_init_timeout`, 5 s and 30 s in the code (a7670.cpp:16-18);
* `ChannelImplemented`: the refinement of `LineChannel`, one lemma for each kind of octet.

**Pdu_proofs** assumes `PduAssumption`: a text to send is any sequence of characters, one
that arrives any sequence of characters of the GSM alphabet or of units of 16
bits whose pairs are cut at its ends only, neither with a NUL, which ends a C string;
numbers, references, headers of 5 and 6 octets, and senders of each kind with room in
`addressBuff`, that is of up to 19 octets (`HasRoom`). Texts have any length, and calls come in any
order. The codec goes from octet to octet, so each of its loops has a lemma on what
it leaves behind, by the least index at which that would fail:

* `EncodedFits`: the largest PDU, two numbers of 19 digits and a full message, is 27 and
  143 octets, exactly the 170 of `tmpbuf`;
* `Emptied`: a `decodePDU` that fails leaves an empty text, but for the address;
* `Received`: the sender and the concatenation data of a message that `decodePDU` accepts
  are those `UserData` wrote. It
  rests on the layout of a PDU (`Layout`, `Decoded`): where `decodePDU` finds each field
  that `Deliver` wrote, for numbers of either kind (`NumberRead`) and headers of 5 and
  6 octets;
* `Sent`: what `encodePDU` makes of a text reads by the standard as that text. The septets
  come back out of the octets they are packed in, behind a header or not
  (`SeptetRead`, `SeptetOfBits`, `SeptetsBack`), the characters out of the septets
  (`GsmShape`, `GsmRead`) or the units of 16 bits (`PointsRead`), and the octets out of the
  characters (`Utf8Read`), one after another (`FrontTaken`, `Taken`);
* `TextsArrive`: what arrives is handed on as it was written, unless `Readable` excepts
  it. The invariant that needs is `HalfHeld`: the two globals of `ucs2_to_utf8` hold
  a first half of a pair exactly if the text before ended in one (`dangling`). `WholeRead` is
  a text that begins with nothing held, `SpoiltRead` one that finds a half.

**Acl_proofs** assumes `AclAssumption` (types; texts are not empty sequences of
fields). Its first part is about operators: what is loaded is a list again
(`LoadType`, `CutType`), the order of the keys is total (`Total`), so that every finite
set of them can be sorted (`CanBeSorted`), and a list whose names have no comma comes
back from its rows as it was (`LoadRows`). The second is about the tasks:

* `ListInStep`: who changed the file since it was read and who still owes a reload;
  what is in it does not matter. `Inv` strengthens `InStep` by the states in which the
  loop task writes logs or the httpd task has a body but no open file, and adds that
  a file being read is what was opened, unless a reload is still to come;
* `ChangesHold`: the list asked for (`want`) is what the caller meant, in terms of its own:
  the entries with one more (`With`) or without a name (`Without`), or the entries of a
  well-formed body (`Meant`), none of them computed by the code's `emplace` or loading.
  `EmplaceMeans`, `LoadMeans` and `NothingMeans` say that the code does the same unless the call is
  one the property excepts. The list asked for is on its way: in the body being written (`InBody`),
  in memory (`InMemory`, with `remove_acl` still to erase the rest), or in the file and
  after the reload in memory (`InFile`);
* `EachCheckLogged`: the messages in memory and in the files are those of the checks
  made, in their order and under their days, those in the files first, also behind a
  batch of which only a part was appended, and while nothing failed each check is in
  one of them (`LogInv`);
* `TypesKept`.

**LeastNumber** holds what takes the place of induction: a set of numbers has a
least element, from the well-foundedness of inclusion of finite sets. The theorem
about a recursive function is then that the least argument it fails for does not
exist. This is how far it goes: functions with values in one type, in modules that
declare no RECURSIVE operator.

**Model-checked only.**

* All liveness (`HandledEventually`, `SendEnds`, `ComesUp`, `CallEndNoticed`, `Ends`,
  `LogsWritten`, `CatchesUp`), which is out of the prover's reach.
* `SentAtLeastOnce`, which does not hold for every `MaxLate` (see Findings).

## Not modelled

* In the codec: the hexadecimal digits PDUs travel in; the service center and time
  stamp of a message, which nothing reads; headers of other lengths than 5 and 6,
  over which `decodePDU` skips by a wrong number of digits.
* The conversion of USSD texts from hexadecimal; names with newlines in acl.csv.
* Addresses longer than the 19 octets their buffers have room for: what is behind the
  buffer is not modelled. A text with a NUL inside, which a C string cannot have.
* The tables of characters (`Alphabets`) are the program's own: the packing and the order
  of the conversions are checked against the standard, a wrong entry would not be
  found.
* GET requests, directories, renaming, mounting: they read, or happen once at start-up.
  If the card cannot be mounted, `mount()` returns no file system and `setup()` calls
  `update_usage()` on it (sdmmc.cpp:47): the node restarts for ever.
  The usage sensors: every write publishes them through `update_callback_`, from the
  httpd task after a POST and from the loop task otherwise; that the two may publish at
  once is not modelled.
* The URLs: src/README.md speaks of /acl/acl.json, the code serves /<path>/acl.csv.
* Code generation and the example configurations.
* Two `acl` components at once.

## Plan

The driver came first, being the largest part and the one everything else waits
for; then the link, which asks whether the dialogue works; the access list; then
what the driver takes for granted: cutting, the clock and the line, the codec. The
proofs followed in the same order. Every invariant and action property the passing runs
check is stated by a theorem, but for those under "Model-checked only". What is left:

1. `SentAtLeastOnce` for a modem that is late: a bound on `MaxLate` under which no
   acknowledgement is one off when a part is sent, instead of the instance of `link_sending`.
2. The parts listed under "Not modelled", the conversion of USSD texts first: `std::stoul`
   throws on a text that is not hexadecimal (a7670.cpp:812).
