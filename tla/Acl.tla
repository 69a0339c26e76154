-------------------------------- MODULE Acl --------------------------------
(***************************************************************************)
(* The access list: AclComponent (components/acl/acl.cpp), its files       *)
(* (AclStore, acl_store.cpp, over SdFs, sdmmc/sdfs_esp_idf.cpp) and its    *)
(* web server (AclServer, acl_server_esp_idf.cpp).                         *)
(*                                                                         *)
(* Two tasks work on them.  The loop task runs loop() and the calls of the *)
(* automations, add_acl, remove_acl, clear_acl, reload_acl and check, one  *)
(* after the other.  The httpd task runs one POST of acl.csv at a time: it *)
(* overwrites the file and sets reload_required_.  Nothing locks the file  *)
(* or the flag.                                                            *)
(*                                                                         *)
(* FAT keeps the size and the start of a file in its directory entry: it   *)
(* is written when fopen "w" truncates and when fclose ends the write.  In *)
(* between, others see an empty file; of two writers, the one that closes  *)
(* last wins.  A reader that opened the file before may see the old rows   *)
(* or those that overwrite them.                                           *)
(*                                                                         *)
(* A text is the sequence of the fields between its commas; names with     *)
(* newlines are not modelled.  load_acl never returns "no value"           *)
(* (load_acl_entry_ is always true), so the retries of loop(),             *)
(* acl.cpp:51-58, are unreachable and left out, and so is store_required_, *)
(* which nothing sets.                                                     *)
(***************************************************************************)
EXTENDS Integers, Sequences, FiniteSetsExt, SequencesExt

CONSTANTS
  Fields,       \* fields of a text, numbered in their order; 0 is the empty one
  Names,        \* names add_acl and remove_acl are called with, texts
  Keys,         \* keys add_acl is called with, texts
  Bodies,       \* bodies of POST requests, sequences of rows
  Days,         \* dates of the clock, which may be set back
  None,         \* no name, no date, no expectation
  MaxChanges,   \* bound: changes of the list, local or by POST
  MaxChecks,    \* bound: calls of check
  MaxFaults     \* bound: failed card operations and restarts

ASSUME AclAssumption ==
  /\ 0 \in Fields /\ Fields \subseteq Nat
  /\ Names \cup Keys \subseteq Seq(Fields) \ {<<>>}
  /\ Bodies \subseteq Seq(Seq(Fields) \ {<<>>})
  /\ None \notin Names /\ None \notin Days

VARIABLES
  acl_,              \* the list in memory, a map from keys to names
  reload_required_,
  pending_logs_,
  removing,          \* the name remove_acl() is going through the list for
  file,              \* rows of /sdcard/<path>/acl.csv
  logs,              \* ids of the checks in each day's log file
  pc,                \* what each task is doing
  out,               \* rows each task is writing
  seen,              \* rows of the file when read_file() opened it
  overtaken,         \* the file has been opened for writing since
  changes, faults,   \* counters
  \* What a reader of the design remembers, no state of the program:
  asked,             \* the days on which check() was called
  unread,            \* the last load found the file unreadable
  want               \* the list the last change asks for, None if disputed

list == <<acl_, reload_required_, removing>>
card == <<file, seen, overtaken>>
log  == <<pending_logs_, logs, asked>>
vars == <<list, card, log, pc, out, changes, faults, unread, want>>

Tasks == {"loop", "httpd"}
Text  == Seq(Fields) \ {<<>>}

\* load_acl_entry_(): the name ends at the first comma.  Without one, name and
\* key are both the whole row: substr(npos + 1) begins at 0.
NameIn(row) == IF Len(row) = 1 THEN row ELSE <<row[1]>>
KeyIn(row)  == IF Len(row) = 1 THEN row ELSE Tail(row)

\* store_acl(): name, comma and key.
RowOf(n, k) == n \o k

\* load_acl_(): a row whose key is there already is skipped by emplace().
FirstWith(rows, k) == Min({i \in DOMAIN rows : KeyIn(rows[i]) = k})
Load(rows) == [k \in {KeyIn(rows[i]) : i \in DOMAIN rows} |->
                 NameIn(rows[FirstWith(rows, k)])]

\* The order of the std::map: fields stand for the strings they are.
Before(s, t) == \E i \in DOMAIN t : /\ i \in DOMAIN s => s[i] < t[i]
                                   /\ i <= Len(s) + 1
                                   /\ \A j \in 1 .. (i - 1) : s[j] = t[j]
FirstKey(ks) == CHOOSE k \in ks : \A other \in ks \ {k} : Before(k, other)

\* store_acl_(): one row for each entry, in the order of the map.
Sorted(S) == CHOOSE ks \in SetToSeqs(S) :
               \A i, j \in DOMAIN ks : i < j => Before(ks[i], ks[j])
Rows(l) == LET ks == Sorted(DOMAIN l)
           IN  [i \in DOMAIN ks |-> RowOf(l[ks[i]], ks[i])]

\* What is left of rows that were cut off somewhere: some of the rows, and
\* maybe a part of the next one, where 0 stands for what is left of a field.
CutRow(row) == {SubSeq(row, 1, m) \o <<0>> : m \in 0 .. (Len(row) - 1)}
Cut(rows) == Prefixes(rows) \cup
  UNION {{Append(SubSeq(rows, 1, n - 1), row) : row \in CutRow(rows[n])} :
           n \in DOMAIN rows}

Emplace(l, n, k) == [x \in DOMAIN l \cup {k} |-> IF x \in DOMAIN l THEN l[x] ELSE n]
Erase(l, k)      == [x \in DOMAIN l \ {k} |-> l[x]]
KeysOf(l, n)     == {k \in DOMAIN l : l[k] = n}
Without(l, n)    == [x \in DOMAIN l \ KeysOf(l, n) |-> l[x]]

\* No name has a comma: the file can tell name and key apart.
Clean(l) == \A k \in DOMAIN l : Len(l[k]) = 1

Init ==
  /\ acl_ = Load(<<>>) /\ reload_required_ = TRUE /\ removing = None
  /\ file = <<>> /\ seen = <<>> /\ overtaken = FALSE
  /\ pending_logs_ = <<>> /\ logs = [d \in Days |-> <<>>] /\ asked = <<>>
  /\ pc = [t \in Tasks |-> "idle"] /\ out = [t \in Tasks |-> <<>>]
  /\ changes = 0 /\ faults = 0 /\ unread = FALSE /\ want = None

Goto(t, from, to) == pc[t] = from /\ pc' = [pc EXCEPT ![t] = to]

Fault == faults < MaxFaults /\ faults' = faults + 1
Change == changes < MaxChanges /\ changes' = changes + 1

Writing(t) == pc[t] \in {"store", "writing", "erase"}

----------------------------------------------------------------------------
(* Writing the list: AclStore::store_acl_content and SdFs::write_file.      *)

\* Where a task goes once its write is over.  The loop task calls
\* reload_acl() at once and goes on with remove_acl(); the httpd task
\* answers 200 OK first, whether the write failed or not.
AfterWrite_NoCheck(t) ==
  IF t = "httpd" THEN "answer" ELSE IF removing # None THEN "erase" ELSE "idle"
AfterWrite_FirstOnly(t) == IF t = "httpd" THEN "answer" ELSE "idle"
AfterWrite(t) ==
  IF t = "httpd" THEN "answer"
  ELSE IF removing # None /\ KeysOf(acl_, removing) # {} THEN "erase" ELSE "idle"

Written(t) ==
  /\ out' = [out EXCEPT ![t] = <<>>]
  /\ reload_required_' = (reload_required_ \/ t = "loop")
  /\ UNCHANGED <<acl_, removing, log, changes, unread>>

\* fopen(path, "w") truncates the file.
OpenForWriting(t) ==
  /\ Goto(t, "store", "writing")
  /\ file' = <<>>
  /\ overtaken' = (pc["loop"] = "reading")
  /\ UNCHANGED <<list, log, seen, out, changes, faults, unread, want>>

\* fopen fails.
OpenFails(t) ==
  /\ Fault /\ Goto(t, "store", AfterWrite(t))
  /\ Written(t)
  /\ want' = None
  /\ UNCHANGED card

\* fwrite and fclose.
CloseWritten(t) ==
  /\ Goto(t, "writing", AfterWrite(t))
  /\ file' = out[t]
  /\ Written(t)
  /\ UNCHANGED <<seen, overtaken, faults, want>>

\* fwrite writes only a part.
WriteFails(t) ==
  /\ Fault /\ Goto(t, "writing", AfterWrite(t))
  /\ file' \in Cut(out[t])
  /\ Written(t)
  /\ want' = None
  /\ UNCHANGED <<seen, overtaken>>

----------------------------------------------------------------------------
(* Calls of the automations, in the loop task.                              *)

\* What a caller means, said without the program's own emplace() and loading:
\* a name for a key, and rows of one name and one key each, no key twice.
With(l, n, k) == [x \in DOMAIN l \cup {k} |-> IF x = k THEN n ELSE l[x]]
WellFormed(rows) == /\ \A i \in DOMAIN rows : Len(rows[i]) > 1
                    /\ \A i, j \in DOMAIN rows : Tail(rows[i]) = Tail(rows[j]) => i = j
Meant(rows) == [k \in {Tail(rows[i]) : i \in DOMAIN rows} |->
                  <<Head(rows[CHOOSE i \in DOMAIN rows : Tail(rows[i]) = k])>>]

\* Two writers at once: which list is asked for is disputed.
Wanted(l, other) == IF Writing(other) \/ ~Clean(l) THEN None ELSE l

Store(l) ==
  /\ acl_' = l
  /\ out' = [out EXCEPT !["loop"] = Rows(l)]

\* emplace() keeps the name of a key that is there already: the call is then
\* refused, although acl.cpp:89 logs it as added, and what holds is disputed.
Refused(n, k) == k \in DOMAIN acl_ /\ acl_[k] # n
add_acl(n, k) ==
  /\ Change /\ Goto("loop", "idle", "store")
  /\ Store(Emplace(acl_, n, k))
  /\ want' = IF Refused(n, k) THEN None ELSE Wanted(With(acl_, n, k), "httpd")
  /\ removing' = None
  /\ UNCHANGED <<reload_required_, card, log, faults, unread>>

\* clear_acl() does nothing to an empty list.
clear_acl ==
  /\ Change /\ Goto("loop", "idle", "store")
  /\ acl_ # Load(<<>>)
  /\ Store(Load(<<>>))
  /\ want' = Wanted(Meant(<<>>), "httpd")
  /\ removing' = None
  /\ UNCHANGED <<reload_required_, card, log, faults, unread>>

\* remove_acl() goes through the list, storing it after each entry erased.
remove_acl(n) ==
  /\ Change /\ Goto("loop", "idle", "erase")
  /\ KeysOf(acl_, n) # {}
  /\ removing' = n
  /\ want' = Wanted(Without(acl_, n), "httpd")
  /\ UNCHANGED <<acl_, reload_required_, card, log, out, faults, unread>>

EraseNext ==
  /\ Goto("loop", "erase", "store")
  /\ Store(Erase(acl_, FirstKey(KeysOf(acl_, removing))))
  /\ UNCHANGED <<reload_required_, removing, card, log, changes, faults, unread, want>>

\* The automations may ask for a reload, too.
reload_acl ==
  /\ Change
  /\ pc["loop"] = "idle" /\ reload_required_' = TRUE
  /\ UNCHANGED <<acl_, removing, card, log, pc, out, faults, unread, want>>

\* check() logs its answer, with the date of the clock.  Without a clock, or if
\* strftime gives up, the stamp is no date.  The answer itself only reads the
\* list and is left out.
check(d) ==
  /\ pc["loop"] = "idle" /\ Len(asked) < MaxChecks
  /\ asked' = Append(asked, d)
  /\ pending_logs_' = Append(pending_logs_, [day |-> d, id |-> Len(asked')])
  /\ UNCHANGED <<list, card, logs, pc, out, changes, faults, unread, want>>

----------------------------------------------------------------------------
(* loop(): a reload comes before the logs.                                  *)

TakeReload_KeepsFlag ==
  /\ reload_required_
  /\ Goto("loop", "idle", "reload")
  /\ UNCHANGED <<list, card, log, out, changes, faults, unread, want>>
TakeReload ==
  /\ reload_required_
  /\ Goto("loop", "idle", "reload")
  /\ reload_required_' = FALSE
  /\ UNCHANGED <<acl_, removing, card, log, out, changes, faults, unread, want>>

\* read_file() opens the file ...
OpenForReading ==
  /\ Goto("loop", "reload", "reading")
  /\ seen' = file /\ overtaken' = FALSE
  /\ UNCHANGED <<list, log, file, out, changes, faults, unread, want>>

\* ... reads it, and load_acl_() replaces the list.
Readable ==
  IF overtaken THEN UNION {Cut(rows) : rows \in {seen, out["httpd"], file}} ELSE {seen}
ReadOver == seen' = <<>> /\ overtaken' = FALSE /\ UNCHANGED file

LoadList_ClearsFlag ==
  /\ Goto("loop", "reading", "idle")
  /\ \E rows \in Readable : acl_' = Load(rows)
  /\ ReadOver /\ reload_required_' = FALSE /\ unread' = FALSE
  /\ UNCHANGED <<removing, log, out, changes, faults, want>>
LoadList ==
  /\ Goto("loop", "reading", "idle")
  /\ \E rows \in Readable : acl_' = Load(rows)
  /\ ReadOver /\ unread' = FALSE
  /\ UNCHANGED <<reload_required_, removing, log, out, changes, faults, want>>

\* fopen or fread fails: load_acl() returns what was read all the same.
ReadFails ==
  /\ Fault /\ Goto("loop", "reading", "idle")
  /\ \E rows \in Readable : \E part \in Cut(rows) : acl_' = Load(part)
  /\ ReadOver /\ unread' = TRUE /\ want' = None
  /\ UNCHANGED <<reload_required_, removing, log, out, changes>>

\* store_logs() collects the messages of one day and appends them to the
\* day's file; it passes over a message without a date.  What it returns is
\* ignored.
Dated(msgs) ==
  LET of[i \in 0 .. Len(msgs)] == IF i = 0 THEN <<>>
                                  ELSE IF msgs[i].day = None THEN of[i - 1]
                                  ELSE Append(of[i - 1], msgs[i])
  IN  of[Len(msgs)]
Day == Dated(pending_logs_)[1].day

\* Mutant of Batch: the change of the day is not noticed.
Batch_AnyDay == Len(pending_logs_)
Batch ==
  LET other == {i \in DOMAIN pending_logs_ : pending_logs_[i].day \notin {Day, None}}
  IN  IF Dated(pending_logs_) = <<>> \/ other = {} THEN Len(pending_logs_)
      ELSE Min(other) - 1

StartLogs ==
  /\ ~reload_required_ /\ pending_logs_ # <<>>
  /\ Goto("loop", "idle", "logging")
  /\ UNCHANGED <<list, card, log, out, changes, faults, unread, want>>

Flushed ==
  /\ pending_logs_' = SubSeq(pending_logs_, Batch + 1, Len(pending_logs_))
  /\ Goto("loop", "logging", IF pending_logs_' = <<>> THEN "idle" ELSE "logging")
  /\ UNCHANGED <<list, card, asked, out, changes, unread, want>>

\* append_file() adds the first n messages of the batch to the day's file.
Collected == Dated(SubSeq(pending_logs_, 1, Batch))
Appended(n) == logs' = IF n = 0 THEN logs
                       ELSE [logs EXCEPT ![Day] = @ \o [i \in 1 .. n |-> Collected[i].id]]

AppendLogs == Flushed /\ Appended(Len(Collected)) /\ UNCHANGED faults

\* fopen fails, or fwrite writes only a part: some whole lines, and maybe a
\* torn one, which counts as not written.
AppendFails == Fault /\ Flushed /\ \E n \in 0 .. Len(Collected) : Appended(n)

----------------------------------------------------------------------------
(* The web server, in the httpd task.                                       *)

acl_post(body) ==
  /\ Change /\ Goto("httpd", "idle", "store")
  /\ out' = [out EXCEPT !["httpd"] = body]
  /\ want' = IF WellFormed(body) THEN Wanted(Meant(body), "loop") ELSE None
  /\ UNCHANGED <<list, card, log, faults, unread>>

\* Mutant of AskReload: the component is not told.
AskReload_Quiet ==
  /\ Goto("httpd", "answer", "idle")
  /\ UNCHANGED <<list, card, log, out, changes, faults, unread, want>>

\* After the answer: reload_(), which is reload_acl() of the component.
AskReload ==
  /\ Goto("httpd", "answer", "idle")
  /\ reload_required_' = TRUE
  /\ UNCHANGED <<acl_, removing, card, log, out, changes, faults, unread, want>>

----------------------------------------------------------------------------
\* The power fails and setup() runs again: only the card is left.
Restart ==
  /\ Fault
  /\ acl_' = Load(<<>>) /\ reload_required_' = TRUE /\ removing' = None
  /\ pending_logs_' = <<>>
  /\ pc' = [t \in Tasks |-> "idle"] /\ out' = [t \in Tasks |-> <<>>]
  /\ ReadOver /\ unread' = FALSE /\ want' = None
  /\ UNCHANGED <<logs, asked, changes>>

LoopTask  == \/ TakeReload \/ OpenForReading \/ LoadList
             \/ StartLogs \/ AppendLogs
             \/ EraseNext \/ OpenForWriting("loop") \/ CloseWritten("loop")
HttpdTask == OpenForWriting("httpd") \/ CloseWritten("httpd") \/ AskReload
Calls == \/ \E n \in Names, k \in Keys : add_acl(n, k)
         \/ \E n \in Names : remove_acl(n)
         \/ clear_acl \/ reload_acl
         \/ \E d \in Days \cup {None} : check(d)
         \/ \E body \in Bodies : acl_post(body)
CardFails == \/ \E t \in Tasks : OpenFails(t) \/ WriteFails(t)
             \/ ReadFails \/ AppendFails

Next == LoopTask \/ HttpdTask \/ Calls \/ CardFails \/ Restart
Spec == Init /\ [][Next]_vars

\* The scheduler runs both tasks, whatever is asked of them.
FairSpec == Spec /\ WF_vars(LoopTask) /\ WF_vars(HttpdTask)

----------------------------------------------------------------------------
\* Types, and: remove_acl() goes on only while there is an entry to erase
\* (acl.cpp:95-104, the end of the iteration).
IsList(l) == /\ DOMAIN l \subseteq Text
             /\ \A k \in DOMAIN l : l[k] \in Text
TypeOK ==
  /\ IsList(acl_) /\ (want = None \/ IsList(want))
  /\ reload_required_ \in BOOLEAN /\ unread \in BOOLEAN /\ overtaken \in BOOLEAN
  /\ removing \in Names \cup {None}
  /\ {file, seen, out["loop"], out["httpd"]} \subseteq Seq(Text)
  /\ asked \in Seq(Days \cup {None})
  /\ pending_logs_ \in Seq([day : Days \cup {None}, id : DOMAIN asked])
  /\ logs \in [Days -> Seq(DOMAIN asked)]
  /\ pc["loop"] \in {"idle", "reload", "reading", "logging", "erase", "store", "writing"}
  /\ pc["httpd"] \in {"idle", "store", "writing", "answer"}
  /\ pc["loop"] = "erase" => KeysOf(acl_, removing) # {}

\* Neither task is at work and no reload is asked for.
AtRest == pc["loop"] = "idle" /\ pc["httpd"] = "idle" /\ ~reload_required_

\* At rest the list in memory is the one in acl.csv, whatever POSTs, calls,
\* failed writes and restarts came before and however the two tasks took
\* turns, unless the last load could not read the file (acl.cpp:49-61 and
\* 128-131, acl_server_esp_idf.cpp:127-135).
InStep == AtRest => acl_ = Load(file) \/ unread

\* At rest the list is what the last change asked for: storing, truncating,
\* loading and the entry-by-entry removal lose and add nothing, and the file is
\* read back as it was meant (acl.cpp:86-114, acl_store.cpp:23-61).  Nothing is
\* said once the other task disputed the change, a card operation failed, a
\* name had a comma, a POST was not well-formed, or add_acl() was called for a
\* key held under another name, which it drops.
ChangeHolds == AtRest /\ want # None => acl_ = want

\* The log files: each check is in the file of its own day, once and in
\* order, what is still pending is newer than what was written, and nothing
\* is lost unless the card or the power failed or the clock gave no date
\* (acl_store.cpp:74-97, acl.cpp:62-66).
LogBook ==
  LET pending == {pending_logs_[i].id : i \in DOMAIN pending_logs_}
      written == UNION {Range(logs[d]) : d \in Days}
  IN  /\ \A d \in Days : /\ \A i, j \in DOMAIN logs[d] : i < j => logs[d][i] < logs[d][j]
                         /\ \A id \in Range(logs[d]) : asked[id] = d
      /\ \A p \in pending, w \in written : w < p
      /\ faults = 0 => \A id \in DOMAIN asked : asked[id] = None
                                               \/ id \in pending \cup written

\* Messages do not wait for ever: reloads come first in loop(), but each one
\* ends and, when no more are asked for, gives way (acl.cpp:49-66).
LogsWritten == (pending_logs_ # <<>>) ~> (pending_logs_ = <<>>)

\* A list that differs from the file is replaced in the end, unless the file
\* could not be read: a POST takes effect though the httpd task cannot load it.
\* (After a failed read nothing tries again, although loop() means to, acl.cpp:52
\* "try again later".)
CatchesUp == (acl_ # Load(file)) ~> (acl_ = Load(file) \/ unread)
=============================================================================
