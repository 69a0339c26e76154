-------------------------- MODULE ModemLink_proofs --------------------------
(***************************************************************************)
(* The driver joined to a modem is the driver of module A7670: every step  *)
(* of LinkSpec is one of its steps, or none of the driver.  So what is     *)
(* proved there of every environment holds here too.  And what on_sms_sent *)
(* tells the caller is what the modem has taken over.                      *)
(*                                                                         *)
(* LinkOK types the two directions of the line, Taken says where the part  *)
(* sent last is: on its way down, taken over with the answer on its way    *)
(* up, or answered.                                                        *)
(*                                                                         *)
(* The last part is about the start: the PIN is entered once, because the  *)
(* driver stays in step with the modem (Pinned).                           *)
(***************************************************************************)
EXTENDS ModemLink, A7670_proofs, LeastNumber

\* What travels down: a command and what it carries.
Carried == (0..ByteMax) \cup Fragment \cup {NoValue}
Order   == [c : Cmd, arg : Carried]

LinkOK == /\ up \in Seq(Line) /\ down \in Seq(Order)
          /\ call \in CallState
          /\ store \in [1..Slots -> Inbound \cup {NoValue}]
          /\ late \in Nat /\ accepted \in Seq(Carried)

\* No element of q is in M; exactly one element of q is in M, and it is o.
None(q, M)   == \A i \in DOMAIN q : q[i] \notin M
One(q, M, o) == /\ o \in M
                /\ \E i \in DOMAIN q : /\ q[i] = o
                                       /\ \A j \in DOMAIN q : q[j] \in M => j = i

\* A part on its way to the modem, and the answer that it was taken over.
Bodies == {o \in Order : o.c = "BODY^Z"}
Taking == [k |-> "CMGS"]

-----------------------------------------------------------------------------
(* Sequences. *)

LEMMA Concat ==
  ASSUME NEW S, NEW s \in Seq(S), NEW t \in Seq(S)
  PROVE  /\ s \o t \in Seq(S) /\ Len(s \o t) = Len(s) + Len(t)
         /\ \A i \in 1 .. Len(s) : (s \o t)[i] = s[i]
         /\ \A i \in 1 .. Len(t) : (s \o t)[Len(s) + i] = t[i]
  <1>1. s \o t \in Seq(S) /\ Len(s \o t) = Len(s) + Len(t)
    OBVIOUS
  <1>2. \A i \in 1 .. Len(s) : (s \o t)[i] = s[i]
    OBVIOUS
  <1>3. \A i \in 1 .. Len(t) : (s \o t)[Len(s) + i] = t[i]
    OBVIOUS
  <1> QED BY <1>1, <1>2, <1>3

\* An element of a concatenation is one of either sequence.
LEMMA Places ==
  ASSUME NEW S, NEW s \in Seq(S), NEW t \in Seq(S), NEW i \in DOMAIN (s \o t)
  PROVE  \/ i \in DOMAIN s /\ (s \o t)[i] = s[i]
         \/ /\ i - Len(s) \in DOMAIN t /\ i = Len(s) + (i - Len(s))
            /\ (s \o t)[i] = t[i - Len(s)]
  <1>1. Len(s) \in Nat /\ Len(t) \in Nat /\ i \in 1 .. Len(s) + Len(t)
    <2>1. s \o t \in Seq(S) /\ Len(s \o t) = Len(s) + Len(t)
      BY Concat
    <2> QED BY <2>1
  <1>2. CASE i <= Len(s)
    BY <1>1, <1>2, Concat
  <1>3. CASE i > Len(s)
    <2>1. i - Len(s) \in 1 .. Len(t) /\ i = Len(s) + (i - Len(s))
      BY <1>1, <1>3
    <2> DEFINE j == i - Len(s)
    <2>2. (s \o t)[Len(s) + j] = t[j]
      <3> HIDE DEF j
      <3> QED BY <2>1, Concat DEF j
    <2> QED BY <2>1, <2>2
  <1> QED BY <1>1, <1>2, <1>3

LEMMA NoneConcat ==
  ASSUME NEW S, NEW s \in Seq(S), NEW t \in Seq(S), NEW M, None(s, M), None(t, M)
  PROVE  None(s \o t, M)
  <1> SUFFICES ASSUME NEW i \in DOMAIN (s \o t) PROVE (s \o t)[i] \notin M
    BY DEF None
  <1> QED BY Places DEF None

LEMMA OneFirst ==
  ASSUME NEW S, NEW s \in Seq(S), NEW t \in Seq(S), NEW M, NEW o,
         One(s, M, o), None(t, M)
  PROVE  One(s \o t, M, o)
  <1>1. PICK i \in DOMAIN s : s[i] = o /\ \A j \in DOMAIN s : s[j] \in M => j = i
    BY DEF One
  <1>2. i \in DOMAIN (s \o t) /\ (s \o t)[i] = o
    <2>1. s \o t \in Seq(S) /\ Len(s \o t) = Len(s) + Len(t) /\ (s \o t)[i] = s[i]
      BY <1>1, Concat
    <2> QED BY <1>1, <2>1
  <1>3. ASSUME NEW j \in DOMAIN (s \o t), (s \o t)[j] \in M
        PROVE  j = i
    BY <1>1, <1>3, Places DEF None
  <1> QED BY <1>2, <1>3 DEF One

LEMMA OneSecond ==
  ASSUME NEW S, NEW s \in Seq(S), NEW t \in Seq(S), NEW M, NEW o,
         None(s, M), One(t, M, o)
  PROVE  One(s \o t, M, o)
  <1>1. PICK i \in DOMAIN t : t[i] = o /\ \A j \in DOMAIN t : t[j] \in M => j = i
    BY DEF One
  <1>2. Len(s) + i \in DOMAIN (s \o t) /\ (s \o t)[Len(s) + i] = o
    <2>1. s \o t \in Seq(S) /\ Len(s \o t) = Len(s) + Len(t)
          /\ (s \o t)[Len(s) + i] = t[i]
      BY <1>1, Concat
    <2> QED BY <1>1, <2>1
  <1>3. ASSUME NEW j \in DOMAIN (s \o t), (s \o t)[j] \in M
        PROVE  j = Len(s) + i
    <2>1. j - Len(s) \in DOMAIN t /\ j = Len(s) + (j - Len(s))
          /\ (s \o t)[j] = t[j - Len(s)]
      BY <1>3, Places DEF None
    <2>2. j - Len(s) = i
      BY <1>1, <1>3, <2>1
    <2> QED BY <2>1, <2>2
  <1> QED BY <1>2, <1>3 DEF One

LEMMA HeadTail ==
  ASSUME NEW S, NEW s \in Seq(S), s # <<>>
  PROVE  /\ Head(s) \in S /\ Tail(s) \in Seq(S) /\ 1 \in DOMAIN s /\ s[1] = Head(s)
         /\ \A i \in DOMAIN Tail(s) : i + 1 \in DOMAIN s /\ Tail(s)[i] = s[i + 1]
         /\ \A i \in DOMAIN s : i # 1 => i - 1 \in DOMAIN Tail(s) /\ i = (i - 1) + 1
  <1>1. Len(s) \in Nat \ {0} /\ Len(Tail(s)) = Len(s) - 1 /\ Tail(s) \in Seq(S)
    OBVIOUS
  <1>2. Head(s) \in S /\ 1 \in DOMAIN s /\ s[1] = Head(s)
    OBVIOUS
  <1>3. \A i \in DOMAIN Tail(s) : i + 1 \in DOMAIN s /\ Tail(s)[i] = s[i + 1]
    OBVIOUS
  <1> QED BY <1>1, <1>2, <1>3

LEMMA NoneTail ==
  ASSUME NEW S, NEW s \in Seq(S), s # <<>>, NEW M, None(s, M)
  PROVE  Head(s) \notin M /\ None(Tail(s), M)
  BY HeadTail DEF None

LEMMA OneTail ==
  ASSUME NEW S, NEW s \in Seq(S), s # <<>>, NEW M, NEW o, One(s, M, o)
  PROVE  IF Head(s) \in M THEN Head(s) = o /\ None(Tail(s), M)
                          ELSE One(Tail(s), M, o)
  <1>1. PICK i \in DOMAIN s : s[i] = o /\ \A j \in DOMAIN s : s[j] \in M => j = i
    BY DEF One
  <1>2. CASE Head(s) \in M
    <2>1. i = 1
      BY <1>1, <1>2, HeadTail
    <2>2. ASSUME NEW j \in DOMAIN Tail(s), Tail(s)[j] \in M
          PROVE  FALSE
      <3>1. j + 1 \in DOMAIN s /\ s[j + 1] \in M /\ j \in Nat \ {0}
        BY <2>2, HeadTail
      <3> QED BY <1>1, <2>1, <3>1
    <2> QED BY <1>1, <1>2, <2>1, <2>2, HeadTail DEF None
  <1>3. CASE Head(s) \notin M
    <2>1. i # 1
      BY <1>1, <1>3, HeadTail DEF One
    <2>2. i - 1 \in DOMAIN Tail(s) /\ Tail(s)[i - 1] = o
      <3>1. i - 1 \in DOMAIN Tail(s) /\ i = (i - 1) + 1
        BY <2>1, HeadTail
      <3>2. Tail(s)[i - 1] = s[(i - 1) + 1]
        BY <3>1, HeadTail
      <3> QED BY <1>1, <3>1, <3>2
    <2>3. ASSUME NEW j \in DOMAIN Tail(s), Tail(s)[j] \in M
          PROVE  j = i - 1
      <3>1. j + 1 \in DOMAIN s /\ s[j + 1] \in M /\ j \in Nat
        BY <2>3, HeadTail
      <3> QED BY <1>1, <3>1
    <2> QED BY <1>3, <2>2, <2>3 DEF One
  <1> QED BY <1>2, <1>3

-----------------------------------------------------------------------------
(* What the modem says. *)

\* The lines that are nothing but their kind.
Kinds == {"OK", "ERROR", "CMEERROR", "ATREADY", "IGNORED", "CMTI", "CSCA",
          "PROMPT", "CMGS", "SIM868", "OTHER"}

\* The lines with which the modem tells that it has taken over a part, or what
\* the SIM or the network is like; q is something it may send without them.
Telling  == {l \in Line : l.k \in {"CMGS", "CPIN", "CREG"}}
Plain(q) == q \in Seq(Line) /\ None(q, Telling)

LEMMA PlainType ==
  ASSUME NEW q, Plain(q)
  PROVE  q \in Seq(Line) /\ None(q, {Taking})
  <1>1. Taking \in Telling
    BY DEF Taking, Telling, Line
  <1> QED BY <1>1 DEF Plain, None

LEMMA TypeOfLines ==
  /\ \A k \in Kinds : [k |-> k] \in Line
  /\ \A b \in BOOLEAN : /\ [k |-> "CPIN", ready |-> b] \in Line
                        /\ [k |-> "CREG", n |-> 1, reg |-> b] \in Line
  /\ \A c \in CallState : [k |-> "CLCC", stat |-> c] \in Line
  /\ \A i \in 0..ByteMax, b \in {0, 1} : [k |-> "CMGL", idx |-> i, stat |-> b] \in Line
  <1>1. \A k \in Kinds : [k |-> k] \in Line
    BY DEF Line, Kinds
  <1>2. \A b \in BOOLEAN : [k |-> "CPIN", ready |-> b] \in Line
    BY DEF Line
  <1>3. \A b \in BOOLEAN : [k |-> "CREG", n |-> 1, reg |-> b] \in Line
    BY DEF Line
  <1>4. \A c \in CallState : [k |-> "CLCC", stat |-> c] \in Line
    BY DEF Line
  <1>5. \A i \in 0..ByteMax, b \in {0, 1} : [k |-> "CMGL", idx |-> i, stat |-> b] \in Line
    BY DEF Line
  <1> QED BY <1>1, <1>2, <1>3, <1>4, <1>5

\* A line of another kind is not the answer to a part.
LEMMA OtherKind ==
  ASSUME NEW l, l.k # "CMGS"
  PROVE  l # Taking
  BY DEF Taking

LEMMA OneLine ==
  ASSUME NEW l \in Line, l.k \notin {"CMGS", "CPIN", "CREG"}
  PROVE  Plain(<<l>>)
  <1>1. l \notin Telling
    BY DEF Telling
  <1> QED BY <1>1 DEF Plain, None

LEMMA PlainConcat ==
  ASSUME NEW q, NEW r, Plain(q), Plain(r)
  PROVE  Plain(q \o r)
  <1>1. q \in Seq(Line) /\ r \in Seq(Line)
    BY DEF Plain
  <1> QED BY <1>1, NoneConcat, Concat DEF Plain

LEMMA Pair ==
  ASSUME NEW a, NEW b
  PROVE  <<a>> \o <<b>> = <<a, b>>
  <1> DEFINE S == {a, b}
  <1>1. <<a>> \in Seq(S) /\ <<b>> \in Seq(S) /\ <<a, b>> \in Seq(S)
    OBVIOUS
  <1>2. /\ <<a>> \o <<b>> \in Seq(S) /\ Len(<<a>> \o <<b>>) = 2
        /\ (<<a>> \o <<b>>)[1] = a /\ (<<a>> \o <<b>>)[2] = b
    OBVIOUS
  <1> DEFINE q == <<a>> \o <<b>>
             r == <<a, b>>
  <1>3. Len(q) = Len(r) /\ \A i \in 1 .. Len(r) : q[i] = r[i]
    <2>1. Len(r) = 2 /\ r[1] = a /\ r[2] = b
      OBVIOUS
    <2> HIDE DEF q, r
    <2>2. Len(q) = 2 /\ q[1] = a /\ q[2] = b
      BY <1>2 DEF q
    <2>3. \A i \in 1 .. 2 : i = 1 \/ i = 2
      OBVIOUS
    <2> QED BY <2>1, <2>2, <2>3
  <1>4. q \in Seq(S) /\ r \in Seq(S)
    BY <1>1, <1>2
  <1> HIDE DEF S, q, r
  <1>5. q = r
    BY <1>3, <1>4
  <1> QED BY <1>5 DEF q, r

LEMMA Says ==
  ASSUME NEW k \in Kinds
  PROVE  Say(<<k>>) = <<[k |-> k]>>
  BY DEF Say

LEMMA SaysTwo ==
  ASSUME NEW k \in Kinds, NEW m \in Kinds
  PROVE  Say(<<k, m>>) = <<[k |-> k], [k |-> m]>>
  BY DEF Say

LEMMA SaysPlain ==
  ASSUME NEW k \in Kinds \ {"CMGS"}
  PROVE  /\ Plain(Say(<<k>>))
         /\ \A m \in Kinds \ {"CMGS"} : Plain(Say(<<k, m>>))
  <1>1. Plain(<<[k |-> k]>>)
    BY TypeOfLines, OneLine DEF Kinds
  <1>2. ASSUME NEW m \in Kinds \ {"CMGS"}
        PROVE  Plain(<<[k |-> k], [k |-> m]>>)
    <2>1. Plain(<<[k |-> m]>>)
      BY TypeOfLines, OneLine DEF Kinds
    <2>2. <<[k |-> k]>> \o <<[k |-> m]>> = <<[k |-> k], [k |-> m]>>
      BY Pair
    <2>3. Plain(<<[k |-> k]>> \o <<[k |-> m]>>)
      BY <1>1, <2>1, PlainConcat
    <2> QED BY <2>2, <2>3
  <1> QED BY <1>1, <1>2, Says, SaysTwo

-----------------------------------------------------------------------------
(* Listings and replies. *)

\* The recursion of Listing, unfolded: up to every slot there is a function
\* that satisfies it.
LEMMA ListingBuilt ==
  \E upTo : /\ upTo[0] = <<>> /\ Listing = upTo[Slots]
            /\ \A s \in 1 .. Slots :
                 upTo[s] = upTo[s - 1] \o (IF s \in Occupied THEN Listed(s) ELSE <<>>)
  <1> DEFINE More(s) == IF s \in Occupied THEN Listed(s) ELSE <<>>
             Body(f, s) == IF s = 0 THEN <<>> ELSE f[s - 1] \o More(s)
             T == {m \in 0 .. Slots : \E f : f = [s \in 0 .. m |-> Body(f, s)]}
             upTo == CHOOSE f : f = [s \in 0 .. Slots |-> Body(f, s)]
  <1> HIDE DEF More
  <1>1. Slots \in Nat
    BY LinkAssumption, ValuesAssumption
  <1>2. 0 \in T
    <2> DEFINE f == [s \in 0 .. 0 |-> <<>>]
    <2>1. f = [s \in 0 .. 0 |-> Body(f, s)]
      OBVIOUS
    <2> HIDE DEF f, Body
    <2> QED BY <1>1, <2>1
  <1>3. ASSUME NEW m \in 0 .. Slots - 1, m \in T PROVE m + 1 \in T
    <2>1. PICK f : f = [s \in 0 .. m |-> Body(f, s)]
      BY <1>3
    <2> DEFINE g == [s \in 0 .. m + 1 |-> IF s <= m THEN f[s] ELSE Body(f, s)]
    <2>2. \A s \in 0 .. m + 1 : Body(g, s) = Body(f, s)
      <3> SUFFICES ASSUME NEW s \in 0 .. m + 1, s # 0 PROVE g[s - 1] = f[s - 1]
        OBVIOUS
      <3> QED BY <1>1
    <2>3. \A s \in 0 .. m : f[s] = Body(f, s)
      <3> HIDE DEF Body
      <3> QED BY <2>1
    <2>4. g = [s \in 0 .. m + 1 |-> Body(g, s)]
      <3> HIDE DEF Body
      <3>1. \A s \in 0 .. m + 1 : g[s] = Body(g, s)
        BY <1>1, <2>2, <2>3
      <3>2. g = [s \in 0 .. m + 1 |-> g[s]]
        OBVIOUS
      <3> HIDE DEF g
      <3> QED BY <3>1, <3>2
    <2> HIDE DEF g, Body
    <2> QED BY <1>1, <2>4
  <1>4. Slots \in T
    <2> HIDE DEF T
    <2>1. 0 .. Slots \subseteq T
      BY <1>1, <1>2, <1>3, UpTo
    <2> QED BY <1>1, <2>1
  <1>5. upTo = [s \in 0 .. Slots |-> Body(upTo, s)]
    <2>1. \E f : f = [s \in 0 .. Slots |-> Body(f, s)]
      BY <1>4
    <2> HIDE DEF Body
    <2> QED BY <2>1
  <1>6. Listing = upTo[Slots]
    BY DEF Listing, More
  <1> HIDE DEF upTo
  <1>7. upTo[0] = <<>> /\ \A s \in 1 .. Slots : upTo[s] = upTo[s - 1] \o More(s)
    <2>1. \A s \in 0 .. Slots : upTo[s] = Body(upTo, s)
      <3> HIDE DEF Body
      <3> QED BY <1>5
    <2>2. 0 \in 0 .. Slots /\ \A s \in 1 .. Slots : s \in 0 .. Slots /\ s # 0
      BY <1>1
    <2> QED BY <2>1, <2>2
  <1> QED BY <1>6, <1>7 DEF More

LEMMA ListedPlain ==
  ASSUME LinkOK, NEW s \in Occupied
  PROVE  Plain(Listed(s))
  <1>1. s \in 0 .. ByteMax /\ store[s] \in Inbound
    BY LinkAssumption, ValuesAssumption DEF Occupied, LinkOK
  <1>2. store[s] \in Line /\ store[s].k = "PDU"
    BY <1>1, LinkAssumption
  <1> DEFINE stat == IF s \in read THEN 1 ELSE 0
             header == [k |-> "CMGL", idx |-> s, stat |-> stat]
  <1>3. stat \in {0, 1} /\ header.k = "CMGL"
    OBVIOUS
  <1>4. header \in Line
    <2> HIDE DEF stat
    <2> QED BY <1>1, <1>3, TypeOfLines
  <1>5. Listed(s) = <<header, store[s]>>
    BY DEF Listed
  <1> HIDE DEF header
  <1>6. Plain(<<header>>) /\ Plain(<<store[s]>>)
    BY <1>2, <1>3, <1>4, OneLine
  <1> QED BY <1>5, <1>6, Pair, PlainConcat

LEMMA EmptyPlain == Plain(<<>>)
  BY DEF Plain, None

LEMMA ListingPlain ==
  ASSUME LinkOK
  PROVE  Plain(Listing)
  <1>1. PICK upTo :
          /\ upTo[0] = <<>> /\ Listing = upTo[Slots]
          /\ \A s \in 1 .. Slots :
               upTo[s] = upTo[s - 1] \o (IF s \in Occupied THEN Listed(s) ELSE <<>>)
    BY ListingBuilt
  <1> DEFINE T == {m \in 0 .. Slots : Plain(upTo[m])}
  <1>2. Slots \in Nat
    BY LinkAssumption, ValuesAssumption
  <1>3. 0 \in T
    BY <1>1, <1>2, EmptyPlain
  <1>4. ASSUME NEW m \in 0 .. Slots - 1, m \in T PROVE m + 1 \in T
    <2>1. m + 1 \in 1 .. Slots /\ (m + 1) - 1 = m /\ Plain(upTo[m])
      BY <1>2, <1>4
    <2> DEFINE q == IF m + 1 \in Occupied THEN Listed(m + 1) ELSE <<>>
    <2>2. Plain(q)
      BY ListedPlain, EmptyPlain
    <2>3. upTo[m + 1] = upTo[m] \o q
      BY <1>1, <2>1
    <2> HIDE DEF q
    <2>4. Plain(upTo[m + 1])
      BY <2>1, <2>2, <2>3, PlainConcat
    <2>5. m + 1 \in 0 .. Slots
      BY <1>2, <1>4
    <2> QED BY <2>4, <2>5
  <1> HIDE DEF T
  <1>5. 0 .. Slots \subseteq T
    BY <1>2, <1>3, <1>4, UpTo
  <1> QED BY <1>1, <1>2, <1>5 DEF T

\* A reply tells of a part, of the SIM or the network only if it was asked to.
LEMMA ReplyPlain ==
  ASSUME LinkOK, NEW c, c \notin {"BODY^Z", "AT+CPIN?", "AT+CREG?"}
  PROVE  Plain(Reply(c))
  <1>1. Plain(OK) /\ Plain(Listing) /\ Plain(<<>>)
    BY ListingPlain, EmptyPlain, SaysPlain DEF OK, Kinds
  <1>2. Plain(Say(<<"CMEERROR">>)) /\ Plain(Say(<<"ERROR">>)) /\ Plain(Say(<<"PROMPT">>))
    BY SaysPlain DEF Kinds
  <1>3. /\ Plain(Say(<<"OTHER", "OK">>)) /\ Plain(Say(<<"IGNORED", "OK">>))
        /\ Plain(Say(<<"CSCA", "OK">>))
    BY SaysPlain DEF Kinds
  <1>4. \A s \in CallState : Plain(CallLine(s))
    BY TypeOfLines, OneLine DEF CallLine
  <1>5. call \in CallState /\ "ACTIVE" \in CallState /\ "DISCONNECTED" \in CallState
    BY DEF LinkOK, CallState
  <1>6. /\ Plain(Listing \o OK) /\ Plain(CallLine(call) \o OK)
        /\ Plain(OK \o CallLine("ACTIVE")) /\ Plain(OK \o CallLine("DISCONNECTED"))
    BY <1>1, <1>4, <1>5, PlainConcat
  <1> HIDE DEF OK
  <1> QED BY <1>1, <1>2, <1>3, <1>6, Zenon DEF Reply

\* The replies that tell of the SIM and the network.
LEMMA ReplyTells ==
  /\ Reply("AT+CPIN?") = IF sim_state \in {"locked", "ready"}
                         THEN <<[k |-> "CPIN", ready |-> sim_state = "ready"], [k |-> "OK"]>>
                         ELSE <<[k |-> "CMEERROR"]>>
  /\ Reply("AT+CREG?") = <<[k |-> "CREG", n |-> 1, reg |-> sim_state = "ready"], [k |-> "OK"]>>
  <1>1. OK = <<[k |-> "OK"]>> /\ Say(<<"CMEERROR">>) = <<[k |-> "CMEERROR"]>>
    BY Says DEF OK, Kinds
  <1> QED BY <1>1, Pair DEF Reply, SimLine, RegLine

\* Every reply is made of lines; none but that to a part tells of a part.
LEMMA ReplyOther ==
  ASSUME LinkOK, NEW c, c # "BODY^Z"
  PROVE  Reply(c) \in Seq(Line) /\ None(Reply(c), {Taking})
  <1> DEFINE cpin == [k |-> "CPIN", ready |-> sim_state = "ready"]
             creg == [k |-> "CREG", n |-> 1, reg |-> sim_state = "ready"]
             ok   == [k |-> "OK"]
             fail == [k |-> "CMEERROR"]
  <1>1. (sim_state = "ready") \in BOOLEAN
    OBVIOUS
  <1>2. /\ cpin \in Line /\ creg \in Line /\ ok \in Line /\ fail \in Line
        /\ cpin # Taking /\ creg # Taking /\ ok # Taking /\ fail # Taking
    BY <1>1, TypeOfLines, OtherKind DEF Kinds
  <1>3. c = "AT+CPIN?" => Reply(c) = <<cpin, ok>> \/ Reply(c) = <<fail>>
    BY ReplyTells
  <1>4. c = "AT+CREG?" => Reply(c) = <<creg, ok>>
    BY ReplyTells
  <1> HIDE DEF cpin, creg, ok, fail
  <1>5. /\ \A l \in Line : l # Taking => <<l>> \in Seq(Line) /\ None(<<l>>, {Taking})
        /\ \A l, m \in Line : l # Taking /\ m # Taking
              => <<l, m>> \in Seq(Line) /\ None(<<l, m>>, {Taking})
    BY DEF None
  <1>6. CASE c \in {"AT+CPIN?", "AT+CREG?"}
    BY <1>2, <1>3, <1>4, <1>5, <1>6
  <1>7. CASE c \notin {"AT+CPIN?", "AT+CREG?"}
    BY <1>7, ReplyPlain, PlainType
  <1> QED BY <1>6, <1>7

LEMMA ReplyToPart ==
  /\ Reply("BODY^Z") \in Seq(Line)
  /\ One(Reply("BODY^Z"), {Taking}, Taking)
  <1>1. Reply("BODY^Z") = <<Taking, [k |-> "OK"]>>
    BY SaysTwo DEF Reply, Kinds, Taking
  <1>2. Taking \in Line /\ [k |-> "OK"] \in Line /\ [k |-> "OK"] # Taking
    BY TypeOfLines, OtherKind DEF Kinds, Taking
  <1> DEFINE q == <<Taking, [k |-> "OK"]>>
  <1>3. DOMAIN q = {1, 2} /\ q[1] = Taking /\ q[2] = [k |-> "OK"]
    OBVIOUS
  <1>4. q \in Seq(Line)
    BY <1>2
  <1> HIDE DEF Taking, q
  <1>5. One(q, {Taking}, Taking)
    BY <1>2, <1>3 DEF One
  <1> QED BY <1>1, <1>4, <1>5 DEF q

-----------------------------------------------------------------------------
(* The driver's steps. *)

\* The steps of the modem and of the world are none of the driver.
LEMMA ModemStutters == ModemSteps \/ Outside => UNCHANGED vars /\ UNCHANGED late
  BY DEF ModemSteps, Outside, ModemAnswers, ModemOff, SwitchedOn, MessageArrives,
     CallComesIn, CallEnds, SimGetsReady

\* A step of the joined system is one of the driver alone.
LEMMA DriverStep ==
  ASSUME Lines = Line, LinkOK, NoAbort, [LinkNext]_joined
  PROVE  [Next]_vars
  <1>1. CASE DriverReads
    <2>1. Head(up) \in Lines
      BY <1>1, HeadTail DEF DriverReads, LinkOK
    <2>2. Rx(Head(up))
      BY <1>1 DEF DriverReads
    <2> QED BY <2>1, <2>2 DEF Next, NoAbort
  <1>2. CASE DriverWrites \/ DriverPolls \/ DriverTimesOut \/ DriverAsked
    BY <1>2 DEF DriverWrites, DriverPolls, DriverTimesOut, DriverAsked, Driver,
       Next, NoAbort, Timers
  <1>3. CASE ModemSteps \/ Outside \/ UNCHANGED joined
    BY <1>3, ModemStutters DEF joined
  <1> QED BY <1>1, <1>2, <1>3 DEF LinkNext

\* What a step of the driver puts on the line.
Written == [i \in DOMAIN tx' |-> [c |-> tx'[i], arg |-> Arg(tx'[i])]]

LEMMA WrittenType ==
  ASSUME Inv, Inv'
  PROVE  Written \in Seq(Order)
  <1>1. tx' \in Seq(Cmd)
    BY DEF Inv, TypeOK, OutputOK
  <1>2. ASSUME NEW c PROVE Arg(c) \in Carried
    <2>1. parse_index \in 0..ByteMax /\ pdu'.buf \in Fragment
      BY DEF Inv, TypeOK, InboxOK, PduOK
    <2>2. parse_index \in Carried /\ pdu'.buf \in Carried /\ NoValue \in Carried
      BY <2>1 DEF Carried
    <2> QED BY <2>2, Zenon DEF Arg
  <1>3. \A i \in 1 .. Len(tx') : [c |-> tx'[i], arg |-> Arg(tx'[i])] \in Order
    BY <1>1, <1>2 DEF Order
  <1>4. DOMAIN tx' = 1 .. Len(tx') /\ Len(tx') \in Nat
    BY <1>1
  <1> QED BY <1>3, <1>4 DEF Written

\* What every step of the driver has in common.
LEMMA DriverShares ==
  ASSUME DriverReads \/ DriverWrites \/ DriverPolls \/ DriverTimesOut \/ DriverAsked
  PROVE  /\ down' = down \o Written /\ UNCHANGED <<call, store>>
         /\ up' = up \/ (up # <<>> /\ up' = Tail(up))
         /\ accepted' = accepted \/ accepted' = <<>>
         /\ late' = late \/ late' = late + 1
  BY DEF DriverReads, DriverWrites, DriverPolls, DriverTimesOut, DriverAsked,
     Driver, Transmit, Written, OnTime, modem, phone, sms

-----------------------------------------------------------------------------
(* The types of the line and of the modem. *)

LEMMA InitLinkOK == LinkInit => LinkOK
  BY DEF LinkInit, LinkOK, CallState

LEMMA SwitchedLines ==
  /\ Say(<<"ATREADY">>) \in Seq(Line) /\ Say(<<"CMTI">>) \in Seq(Line)
  /\ None(Say(<<"ATREADY">>), {Taking}) /\ None(Say(<<"CMTI">>), {Taking})
  /\ \A s \in CallState : /\ CallLine(s) \in Seq(Line)
                           /\ None(CallLine(s), {Taking})
  <1>1. Plain(Say(<<"ATREADY">>)) /\ Plain(Say(<<"CMTI">>))
    BY SaysPlain DEF Kinds
  <1>2. ASSUME NEW s \in CallState PROVE Plain(CallLine(s))
    BY TypeOfLines, OneLine DEF CallLine
  <1> QED BY <1>1, <1>2, PlainType

\* The reply to any command is made of lines.
LEMMA ReplyType ==
  ASSUME LinkOK, NEW c
  PROVE  Reply(c) \in Seq(Line)
  BY ReplyOther, ReplyToPart

\* What the modem or the world sends up.
LEMMA UpFromModem ==
  ASSUME LinkOK, ModemSteps \/ Outside
  PROVE  \E q \in Seq(Line) :
            /\ up' = up \o q
            /\ ~ModemAnswers => None(q, {Taking})
            /\ ModemAnswers => q = Reply(Head(down).c)
  <1>1. CASE ModemAnswers
    <2>1. up' = up \o Reply(Head(down).c) /\ Reply(Head(down).c) \in Seq(Line)
      BY <1>1, ReplyType DEF ModemAnswers
    <2> QED BY <1>1, <2>1
  <1>2. CASE ModemOff /\ ~ModemAnswers
    <2>1. up' = up \o <<>> /\ <<>> \in Seq(Line) /\ None(<<>>, {Taking})
      <3>1. <<>> \in Seq(Line) /\ None(<<>>, {Taking})
        BY EmptyPlain, PlainType
      <3>2. up' = up /\ up \in Seq(Line)
        BY <1>2 DEF ModemOff, LinkOK
      <3> QED BY <3>1, <3>2
    <2> QED BY <1>2, <2>1
  <1>3. CASE SwitchedOn /\ ~ModemAnswers
    BY <1>3, SwitchedLines DEF SwitchedOn
  <1>4. CASE MessageArrives /\ ~ModemAnswers
    BY <1>4, SwitchedLines DEF MessageArrives
  <1>5. CASE CallComesIn /\ ~ModemAnswers
    BY <1>5, SwitchedLines DEF CallComesIn, CallState
  <1>6. CASE CallEnds /\ ~ModemAnswers
    BY <1>6, SwitchedLines DEF CallEnds, CallState
  <1>7. CASE SimGetsReady /\ ~ModemAnswers
    <2> DEFINE l == [k |-> "CPIN", ready |-> sim_state' = "ready"]
    <2>1. l \in Line /\ l # Taking
      BY TypeOfLines, OtherKind
    <2>2. up' = Append(up, l) /\ up \in Seq(Line)
      BY <1>7 DEF SimGetsReady, LinkOK
    <2> HIDE DEF l
    <2>3. up' = up \o <<l>>
      BY <2>1, <2>2
    <2>4. <<l>> \in Seq(Line) /\ None(<<l>>, {Taking})
      BY <2>1 DEF None
    <2> QED BY <1>7, <2>3, <2>4
  <1> QED BY <1>1, <1>2, <1>3, <1>4, <1>5, <1>6, <1>7 DEF ModemSteps, Outside

LEMMA LinkOKStep ==
  ASSUME LinkOK, Inv, Inv', [LinkNext]_joined
  PROVE  LinkOK'
  <1>1. CASE DriverReads \/ DriverWrites \/ DriverPolls \/ DriverTimesOut \/ DriverAsked
    <2>1. down' \in Seq(Order)
      BY <1>1, DriverShares, WrittenType, Concat, ZenonT(60) DEF LinkOK
    <2>2. up' \in Seq(Line)
      BY <1>1, DriverShares, HeadTail DEF LinkOK
    <2>3. accepted' \in Seq(Carried) /\ late' \in Nat
      <3>1. accepted' = accepted \/ accepted' = <<>>
        BY <1>1, DriverShares
      <3>2. late' = late \/ late' = late + 1
        BY <1>1, DriverShares
      <3>3. accepted \in Seq(Carried) /\ late \in Nat
        BY DEF LinkOK
      <3>4. <<>> \in Seq(Carried) /\ late + 1 \in Nat
        BY <3>3
      <3> QED BY <3>1, <3>2, <3>3, <3>4, Zenon
    <2>4. call' \in CallState /\ store' \in [1..Slots -> Inbound \cup {NoValue}]
      BY <1>1, DriverShares DEF LinkOK
    <2> QED BY <2>1, <2>2, <2>3, <2>4 DEF LinkOK
  <1>2. CASE ModemSteps \/ Outside
    <2>1. up' \in Seq(Line)
      <3>1. PICK q \in Seq(Line) : up' = up \o q
        BY <1>2, UpFromModem
      <3> QED BY <3>1, Concat DEF LinkOK
    <2>2. call' \in CallState
      BY <1>2 DEF LinkOK, ModemSteps, Outside, ModemAnswers, ModemOff, SwitchedOn,
         MessageArrives, CallComesIn, CallEnds, SimGetsReady, CallAfter, CallState,
         modem, phone, sms
    <2>3. late' \in Nat
      BY <1>2, ModemStutters DEF LinkOK
    <2>4. CASE ModemAnswers
      <3>1. Head(down) \in Order /\ down' \in Seq(Order)
        BY <2>4, HeadTail DEF ModemAnswers, LinkOK
      <3>2. Head(down).arg \in Carried
        BY <3>1 DEF Order
      <3>3. accepted' = accepted \/ accepted' = Append(accepted, Head(down).arg)
        BY <2>4 DEF ModemAnswers
      <3>4. accepted' \in Seq(Carried)
        <4>1. accepted \in Seq(Carried)
          BY DEF LinkOK
        <4>2. Append(accepted, Head(down).arg) \in Seq(Carried)
          <5> HIDE DEF LinkOK
          <5> QED BY <3>2, <4>1
        <4> QED BY <3>3, <4>1, <4>2, Zenon
      <3>5. store' \in [1..Slots -> Inbound \cup {NoValue}]
        <4> DEFINE del == IF Head(down).c = "AT+CMGD=" THEN {Head(down).arg} \cap Occupied
                                                       ELSE {}
        <4>1. store' = [s \in 1..Slots |-> IF s \in del THEN NoValue ELSE store[s]]
          BY <2>4 DEF ModemAnswers
        <4> HIDE DEF del
        <4> QED BY <4>1 DEF LinkOK
      <3> QED BY <2>1, <2>2, <2>3, <3>1, <3>4, <3>5 DEF LinkOK
    <2>5. CASE ~ModemAnswers
      <3>1. accepted' = accepted /\ (down' = down \/ down' = <<>>)
        BY <1>2, <2>5 DEF ModemSteps, Outside, ModemOff, SwitchedOn,
           MessageArrives, CallComesIn, CallEnds, SimGetsReady
      <3>2. accepted' \in Seq(Carried) /\ down' \in Seq(Order)
        <4>1. <<>> \in Seq(Order)
          OBVIOUS
        <4> QED BY <3>1, <4>1, Zenon DEF LinkOK
      <3>3. CASE MessageArrives
        <4>1. \E m, s : store' = [store EXCEPT ![s] = m] /\ m \in Inbound
          BY <3>3 DEF MessageArrives
        <4>2. store' \in [1..Slots -> Inbound \cup {NoValue}]
          BY <4>1 DEF LinkOK
        <4> QED BY <2>1, <2>2, <2>3, <3>2, <4>2 DEF LinkOK
      <3>4. CASE ~MessageArrives
        <4>1. store' = store
          BY <1>2, <2>5, <3>4 DEF ModemSteps, Outside, ModemOff, SwitchedOn,
             CallComesIn, CallEnds, SimGetsReady, modem, sms
        <4> QED BY <2>1, <2>2, <2>3, <3>2, <4>1 DEF LinkOK
      <3> QED BY <3>3, <3>4
    <2> QED BY <2>4, <2>5
  <1>3. CASE UNCHANGED joined
    BY <1>3 DEF LinkOK, joined, modem, phone, sms
  <1> QED BY <1>1, <1>2, <1>3 DEF LinkNext

-----------------------------------------------------------------------------
(* The joined driver is the driver. *)

Joined == Inv /\ Progress /\ NoAbort /\ LinkOK

LEMMA JoinedInit == LinkInit => Joined
  BY InitInv, InitProgress, InitLinkOK DEF LinkInit, Joined, NoAbort, Init

LEMMA JoinedStep ==
  ASSUME Patient, Lines = Line, Joined, [LinkNext]_joined
  PROVE  Joined' /\ [Next]_vars
  <1>1. [Next]_vars
    BY DriverStep DEF Joined
  <1>2. Inv'
    BY <1>1, NextInv DEF Joined
  <1>3. Progress'
    BY <1>1, NextFaithful DEF Joined, Faithful
  <1>4. NoAbort'
    BY <1>1, AbortStep DEF Joined
  <1>5. LinkOK'
    BY <1>2, LinkOKStep DEF Joined
  <1> QED BY <1>1, <1>2, <1>3, <1>4, <1>5 DEF Joined

LEMMA JoinedKept ==
  ASSUME Patient, Lines = Line
  PROVE  LinkSpec => []Joined
  <1>1. Joined /\ [LinkNext]_joined => Joined'
    BY JoinedStep
  <1> QED BY <1>1, JoinedInit, PTL DEF LinkSpec

\* Behind its serial line the driver does nothing that module A7670 does not
\* allow: the lines of this modem are among those of its environment, every
\* step of the modem and of the world leaves it alone, and it never aborts.  So
\* SendsAsAsked, PduMode, SplitsInRange and all else that Spec implies hold of
\* the driver joined to the modem.  Lines plays no part in LinkSpec.
THEOREM DriverImplemented ==
  ASSUME Patient, Lines = Line
  PROVE  LinkSpec => Spec
  <1>1. LinkInit => Init
    BY DEF LinkInit
  <1>2. Joined /\ [LinkNext]_joined => [Next]_vars
    BY JoinedStep
  <1> QED BY <1>1, <1>2, JoinedKept, PTL DEF LinkSpec, Spec

-----------------------------------------------------------------------------
(* Where the part sent last is, while every answer has come in time. *)

NothingUnderWay == None(down, Bodies) /\ None(up, {Taking})

UnderWay ==
  \/ NothingUnderWay
  \/ /\ None(up, {Taking})
     /\ \E o \in Bodies : /\ One(down, Bodies, o)
                          /\ submitted = Append(accepted, o.arg)
  \/ None(down, Bodies) /\ One(up, {Taking}, Taking) /\ accepted = submitted

Taken ==
  late = 0 =>
    /\ state # "SENDING_SMS_5" => NothingUnderWay
    /\ state = "SENDING_SMS_5" => UnderWay
    /\ state \in {"SENDING_SMS_3", "SENDING_SMS_4"} => accepted = submitted
    /\ "send" \in pending \/ state \in {"SENDING_SMS", "SENDING_SMS_1", "SENDING_SMS_2"}
         => accepted = <<>>

\* No user breaks in with a command of his own.
NoUser == "send_at" \notin pending

\* A caller who waits asks for no text while one is being sent.
OneText == "send" \in pending => state \notin SmsStates

NoBodyWritten == \A i \in DOMAIN tx' : tx'[i] # "BODY^Z"

LEMMA WrittenNone ==
  ASSUME NoBodyWritten
  PROVE  None(Written, Bodies)
  <1> SUFFICES ASSUME NEW i \in DOMAIN Written, Written[i] \in Bodies PROVE FALSE
    BY DEF None
  <1>1. i \in DOMAIN tx' /\ Written[i].c = tx'[i]
    BY DEF Written
  <1> QED BY <1>1 DEF NoBodyWritten, Bodies

LEMMA WriteNoBody ==
  ASSUME NEW c, c # "BODY^Z", NEW next, Write(<<c>>, next)
  PROVE  NoBodyWritten
  BY DEF Write, NoBodyWritten

LEMMA SilentNoBody ==
  ASSUME NEW e, Silent(e)
  PROVE  NoBodyWritten
  BY DEF Silent, NoBodyWritten

LEMMA TimersLoopNoBody ==
  ASSUME Timers \/ Loop
  PROVE  NoBodyWritten
  <1> USE DEF NoBodyWritten, _periodic_check_, send_cmd_ack, send_cmd_ctrlz, Write, Silent
  <1>1. CASE Timers
    BY <1>1 DEF Timers, LeaveModemWait, RxTimeout, IdleTimeout, Update
  <1>2. CASE SendAt \/ EnterPin \/ PinDone \/ EnableRegistration \/ Registered
    BY <1>2 DEF SendAt, EnterPin, PinDone, EnableRegistration, Registered
  <1>3. CASE Connect \/ Disconnect \/ Dial \/ PollCall
    BY <1>3 DEF Connect, Disconnect, Dial, PollCall, Take
  <1>4. CASE ReadSms \/ SendSms \/ Cleanup \/ SendUssd
    BY <1>4 DEF ReadSms, SendSms, Cleanup, SendUssd, Take
  <1> QED BY <1>1, <1>2, <1>3, <1>4 DEF Loop

LEMMA RequestsNoBody ==
  ASSUME Requests
  PROVE  NoBodyWritten /\ state' = state
  BY DEF Requests, send_sms, dial, send_ussd, send_at, connect, disconnect,
     set_debug, Request, Silent, NoBodyWritten, session

LEMMA RxNoBody ==
  ASSUME NEW l, Rx(l), ~InSending(l)
  PROVE  NoBodyWritten
  <1> USE DEF NoBodyWritten, Silent
  <1>1. CASE Notification(l) \/ AckFails(l)
    BY <1>1 DEF Notification, OnIgnored, OnCpin, OnCreg, OnCmti, OnCusd, OnClcc,
       AckFails
  <1>2. CASE Dispatch(l)
    <2> HIDE DEF NoBodyWritten, Silent
    <2> USE WriteNoBody, SilentNoBody DEF Goto, NextCmd, NextCmdAck, send_cmd,
       send_cmd_ack
    <2>1. CASE InWaitState(l) \/ InInit(l)
      BY <2>1 DEF InWaitState, InInit
    <2>2. CASE InDialing(l) \/ InUssd(l)
      BY <2>2 DEF InDialing, InUssd, ErrorOut, send_cmd_ctrlz
    <2>3. CASE InListing(l) \/ InReceiving(l)
      BY <2>3 DEF InListing, InReceiving, Collect
    <2> QED BY <1>2, <2>1, <2>2, <2>3 DEF Dispatch
  <1> QED BY <1>1, <1>2 DEF Rx, parse_cmd_

\* While a part is with the modem, the line that says so is what moves the flow on.
LEMMA RxWaiting ==
  ASSUME Inv, NEW l, Rx(l), state = "SENDING_SMS_5", ~PartSent(l)
  PROVE  state' = state /\ l.k # "CMGS" /\ NoBodyWritten
  <1>1. ~expect_ack
    BY DEF Inv, AckDiscipline, DataStates
  <1>2. CASE Notification(l)
    BY <1>2 DEF Notification, OnIgnored, OnCpin, OnCreg, OnCmti, OnCusd, OnClcc,
       Silent, session, NoBodyWritten
  <1>3. CASE Dispatch(l)
    <2>1. KeepWaiting(l)
      BY <1>3 DEF Dispatch, InWaitState, InInit, InDialing, InUssd, InListing,
         InReceiving, InSending, AskCenter, receive_csca, BeginParts, SendHeader,
         EncodeFails, SubstrThrows, SendBody
    <2> QED BY <2>1 DEF KeepWaiting, Goto, Silent, NoBodyWritten
  <1> QED BY <1>1, <1>2, <1>3 DEF Rx, parse_cmd_, AckFails

\* What travels up when the driver has read a line, or none.
LEMMA UpAfter ==
  ASSUME LinkOK, up' = up \/ (up # <<>> /\ up' = Tail(up))
  PROVE  /\ None(up, {Taking}) => None(up', {Taking})
         /\ One(up, {Taking}, Taking) /\ (up' = up \/ Head(up).k # "CMGS")
              => One(up', {Taking}, Taking)
  <1>1. CASE up' = up
    BY <1>1
  <1>2. CASE up # <<>> /\ up' = Tail(up)
    <2>1. None(up, {Taking}) => None(up', {Taking})
      BY <1>2, NoneTail DEF LinkOK
    <2>2. ASSUME One(up, {Taking}, Taking), Head(up).k # "CMGS"
          PROVE  One(up', {Taking}, Taking)
      <3>1. Head(up) \notin {Taking}
        BY <2>2, OtherKind
      <3> QED BY <1>2, <2>2, <3>1, OneTail DEF LinkOK
    <2>3. ASSUME One(up, {Taking}, Taking), up' = up
          PROVE  One(up', {Taking}, Taking)
      BY <2>3
    <2> QED BY <2>1, <2>2, <2>3
  <1> QED BY <1>1, <1>2

\* What travels down when the driver has written no part.
LEMMA DownAfter ==
  ASSUME LinkOK, Inv, Inv', NoBodyWritten, down' = down \o Written
  PROVE  /\ None(down, Bodies) => None(down', Bodies)
         /\ \A o \in Bodies : One(down, Bodies, o) => One(down', Bodies, o)
  <1>1. down \in Seq(Order) /\ Written \in Seq(Order) /\ None(Written, Bodies)
    BY WrittenType, WrittenNone DEF LinkOK
  <1>2. None(down, Bodies) => None(down', Bodies)
    BY <1>1, NoneConcat
  <1>3. ASSUME NEW o \in Bodies, One(down, Bodies, o)
        PROVE  One(down', Bodies, o)
    BY <1>1, <1>3, OneFirst
  <1> QED BY <1>2, <1>3

\* A step of the driver that is not about sending leaves the part where it is,
\* if it does not give up waiting for it.
LEMMA ElsewhereTaken ==
  ASSUME LinkOK, Inv, Inv', Taken, Elsewhere, NoBodyWritten,
         down' = down \o Written, up' = up \/ (up # <<>> /\ up' = Tail(up)),
         accepted' = accepted, late' = 0 => late = 0,
         state = "SENDING_SMS_5" => up' = up \/ Head(up).k # "CMGS",
         late' = 0 /\ state = "SENDING_SMS_5" /\ state' # state => NothingUnderWay
  PROVE  Taken'
  <1> SUFFICES ASSUME late' = 0 PROVE Taken'
    BY DEF Taken
  <1>1. NothingUnderWay => NothingUnderWay'
    BY UpAfter, DownAfter DEF NothingUnderWay
  <1>2. state' # "SENDING_SMS_5" => NothingUnderWay'
    BY <1>1 DEF Taken
  <1>3. state' = "SENDING_SMS_5" => UnderWay'
    <2> SUFFICES ASSUME state' = "SENDING_SMS_5" PROVE UnderWay'
      OBVIOUS
    <2>1. state = "SENDING_SMS_5" /\ submitted' = submitted
      BY DEF Elsewhere, SmsStates, outgoing
    <2>2. UnderWay
      BY <2>1 DEF Taken
    <2>3. CASE NothingUnderWay
      BY <1>1, <2>3 DEF UnderWay
    <2>4. CASE None(up, {Taking}) /\ \E o \in Bodies : /\ One(down, Bodies, o)
                                                      /\ submitted = Append(accepted, o.arg)
      BY <2>1, <2>4, UpAfter, DownAfter DEF UnderWay
    <2>5. CASE None(down, Bodies) /\ One(up, {Taking}, Taking) /\ accepted = submitted
      BY <2>1, <2>5, UpAfter, DownAfter DEF UnderWay
    <2> QED BY <2>2, <2>3, <2>4, <2>5 DEF UnderWay
  <1>4. state' \in {"SENDING_SMS_3", "SENDING_SMS_4"} => accepted' = submitted'
    BY DEF Taken, Elsewhere, SmsStates, outgoing
  <1>5. "send" \in pending' \/ state' \in {"SENDING_SMS", "SENDING_SMS_1", "SENDING_SMS_2"}
          => accepted' = <<>>
    BY DEF Taken, Elsewhere, SmsStates
  <1> QED BY <1>2, <1>3, <1>4, <1>5 DEF Taken

LEMMA QuietLine == Quiet => up = <<>> /\ down = <<>>
  BY DEF Quiet

\* On a line where nothing travels nothing is under way.
LEMMA EmptyLine ==
  ASSUME up = <<>>, down = <<>>
  PROVE  NothingUnderWay
  BY DEF NothingUnderWay, None

LEMMA TimesOutTaken ==
  ASSUME LinkOK, Inv, Inv', Taken, DriverTimesOut
  PROVE  Taken'
  <1>1. /\ LeaveModemWait \/ RxTimeout \/ IdleTimeout
        /\ down' = down \o Written /\ up' = up /\ accepted' = accepted
    BY DEF DriverTimesOut, Driver, Transmit, Written
  <1>2. Elsewhere /\ NoBodyWritten
    BY <1>1, TimersElsewhere, TimersLoopNoBody DEF Timers
  <1>3. late' = 0 => late = 0
    BY DEF DriverTimesOut, OnTime, LinkOK
  <1>4. ASSUME late' = 0, state = "SENDING_SMS_5"
        PROVE  NothingUnderWay
    <2>1. ~AwaitingModem
      BY <1>4 DEF AwaitingModem
    <2>2. Quiet
      BY <1>4, <2>1 DEF DriverTimesOut, LinkOK
    <2> QED BY <2>2, QuietLine, EmptyLine
  <1> QED BY <1>1, <1>2, <1>3, <1>4, ElsewhereTaken

LEMMA WritesTaken ==
  ASSUME LinkOK, Inv, Inv', Taken, NoUser, DriverWrites \/ DriverPolls
  PROVE  Taken'
  <1>1. /\ Timers \/ Loop
        /\ down' = down \o Written /\ up' = up /\ UNCHANGED <<accepted, late>>
    BY DEF DriverWrites, DriverPolls, Driver, Transmit, Written, OnTime, Timers
  <1>2. NoBodyWritten
    BY <1>1, TimersLoopNoBody
  <1>3. state # "SENDING_SMS_5"
    <2>1. Loop \/ Update
      BY DEF DriverWrites, DriverPolls, Driver
    <2> QED
      BY <2>1 DEF NoUser, Loop, SendAt, EnterPin, PinDone, EnableRegistration,
         Registered, Connect, Disconnect, Dial, PollCall, ReadSms, SendSms,
         Cleanup, SendUssd, Take, IdleTurn, UserTurn, Update
  <1>4. CASE SendSms
    <2>1. /\ state = "IDLE" /\ state' = "SENDING_SMS" /\ "send" \in pending
      BY <1>4 DEF SendSms, Take, IdleTurn, First, send_cmd_ack, Write
    <2>2. NothingUnderWay => NothingUnderWay'
      BY <1>1, <1>2, UpAfter, DownAfter DEF NothingUnderWay
    <2> QED BY <1>1, <2>1, <2>2 DEF Taken
  <1>5. CASE ~SendSms
    <2>1. Elsewhere
      BY <1>1, <1>5, TimersElsewhere, LoopElsewhere
    <2> QED BY <1>1, <1>2, <1>3, <2>1, ElsewhereTaken
  <1> QED BY <1>4, <1>5

LEMMA AskedTaken ==
  ASSUME Patient, LinkOK, Inv, Inv', Taken, DriverAsked
  PROVE  Taken'
  <1>1. /\ Requests /\ down' = down \o Written /\ up' = up /\ late' = late
        /\ accepted' = IF "send" \in pending' \ pending THEN <<>> ELSE accepted
    BY DEF DriverAsked, Transmit, Written, OnTime
  <1>2. NoBodyWritten /\ state' = state
    BY <1>1, RequestsNoBody
  <1>3. CASE \E to \in Numbers, text \in Texts : send_sms(to, text)
    <2>1. state \notin SmsStates /\ "send" \notin pending /\ "send" \in pending'
      BY <1>3 DEF send_sms, Request, InUse, OutgoingStates, SmsStates
    <2>2. NothingUnderWay => NothingUnderWay'
      BY <1>1, <1>2, UpAfter, DownAfter DEF NothingUnderWay
    <2> QED BY <1>1, <1>2, <2>1, <2>2 DEF Taken, SmsStates
  <1>4. CASE ~ \E to \in Numbers, text \in Texts : send_sms(to, text)
    <2>1. Elsewhere
      BY <1>1, <1>4, RequestsElsewhere
    <2>2. accepted' = accepted
      BY <1>1, <2>1 DEF Elsewhere
    <2> QED BY <1>1, <1>2, <2>1, <2>2, ElsewhereTaken
  <1> QED BY <1>3, <1>4

-----------------------------------------------------------------------------
(* The driver reads a line. *)

LEMMA TakingOnly ==
  ASSUME NEW l \in Line, l.k = "CMGS"
  PROVE  l = Taking
  BY DEF Line, Taking

\* A part goes down: nothing was under way, and what was written is that part.
LEMMA BodyGoesDown ==
  ASSUME LinkOK, Inv, Inv', NothingUnderWay, accepted = submitted, accepted' = accepted,
         down' = down \o Written, up' = up \/ (up # <<>> /\ up' = Tail(up)),
         tx' = <<"BODY^Z">> \/ tx' = <<"AT+CMGS=", "BODY^Z">>,
         submitted' = Append(submitted, pdu'.buf)
  PROVE  UnderWay'
  <1> DEFINE o == [c |-> "BODY^Z", arg |-> pdu'.buf]
  <1>1. o \in Bodies
    <2>1. pdu'.buf \in Fragment
      BY DEF Inv, TypeOK, PduOK
    <2> QED BY <2>1 DEF Bodies, Order, Carried, Cmd
  <1>2. o.arg = pdu'.buf
    OBVIOUS
  <1>3. One(Written, Bodies, o)
    <2>1. Arg("BODY^Z") = pdu'.buf
      BY DEF Arg
    <2>2. CASE tx' = <<"BODY^Z">>
      <3>1. DOMAIN Written = {1} /\ Written[1] = o
        BY <2>1, <2>2 DEF Written
      <3> HIDE DEF o
      <3> QED BY <1>1, <3>1 DEF One
    <2>3. CASE tx' = <<"AT+CMGS=", "BODY^Z">>
      <3>1. DOMAIN Written = {1, 2} /\ Written[2] = o /\ Written[1].c = "AT+CMGS="
        BY <2>1, <2>3 DEF Written
      <3>2. Written[1] \notin Bodies
        BY <3>1 DEF Bodies
      <3> HIDE DEF o
      <3> QED BY <1>1, <3>1, <3>2 DEF One
    <2> QED BY <2>2, <2>3
  <1> HIDE DEF o
  <1>4. One(down', Bodies, o)
    BY <1>3, WrittenType, OneSecond DEF LinkOK, NothingUnderWay
  <1>5. None(up', {Taking})
    BY UpAfter DEF NothingUnderWay
  <1> QED BY <1>1, <1>2, <1>4, <1>5 DEF UnderWay

\* The answer to a part finds everything taken over.
LEMMA AnswerFinds ==
  ASSUME LinkOK, Inv, Taken, late = 0, up # <<>>, PartSent(Head(up))
  PROVE  accepted = submitted /\ None(down, Bodies) /\ None(Tail(up), {Taking})
  <1>1. state = "SENDING_SMS_5" /\ Head(up) = Taking
    BY HeadTail, TakingOnly DEF PartSent, LinkOK
  <1>2. ~None(up, {Taking})
    BY <1>1, NoneTail DEF LinkOK
  <1>3. None(down, Bodies) /\ One(up, {Taking}, Taking) /\ accepted = submitted
    BY <1>1, <1>2 DEF Taken, UnderWay, NothingUnderWay
  <1> QED BY <1>1, <1>3, OneTail DEF LinkOK

LEMMA SendingTaken ==
  ASSUME LinkOK, Inv, Inv', Taken, DriverReads, InSending(Head(up))
  PROVE  Taken'
  <1> DEFINE l == Head(up)
  <1>1. /\ up # <<>> /\ up' = Tail(up) /\ down' = down \o Written
        /\ UNCHANGED <<accepted, late>>
    BY DEF DriverReads, Transmit, Written
  <1>2. UNCHANGED <<recipient, outgoing_message, pending>>
    BY DEF InSending, request
  <1> SUFFICES ASSUME late = 0 PROVE Taken'
    BY <1>1 DEF Taken
  <1>3. NothingUnderWay /\ NoBodyWritten => NothingUnderWay'
    BY <1>1, UpAfter, DownAfter DEF NothingUnderWay
  <1>4. "send" \in pending' => accepted' = <<>>
    BY <1>1, <1>2 DEF Taken
  <1>5. CASE AskCenter \/ receive_csca(l)
    <2>1. /\ state \in {"SENDING_SMS", "SENDING_SMS_1"}
          /\ state' \in {"SENDING_SMS_1", "SENDING_SMS_2"} /\ NoBodyWritten
      BY <1>5, WriteNoBody, SilentNoBody DEF AskCenter, receive_csca, NextCmd,
         send_cmd, Goto, Write
    <2> QED BY <1>1, <1>3, <1>4, <2>1 DEF Taken
  <1>6. CASE BeginParts
    <2>1. /\ state = "SENDING_SMS_2" /\ state' = "SENDING_SMS_3"
          /\ submitted' = <<>> /\ NoBodyWritten
      BY <1>6, WriteNoBody DEF BeginParts, PrepareSplits, NextCmdAck, send_cmd_ack, Write
    <2> QED BY <1>1, <1>3, <1>4, <2>1 DEF Taken
  <1>7. CASE SendHeader
    <2>1. state = "SENDING_SMS_3" /\ pdu'.buf = EncodedPart
      BY <1>7 DEF SendHeader, Inv, TypeOK, PduOK
    <2>2. NothingUnderWay /\ accepted = submitted
      BY <2>1 DEF Taken
    <2>3. CASE sim8xx
      <3>1. /\ tx' = <<"AT+CMGS=", "BODY^Z">> /\ state' = "SENDING_SMS_5"
            /\ submitted' = Append(submitted, pdu'.buf)
        BY <1>7, <2>1, <2>3 DEF SendHeader, Write
      <3>2. UnderWay'
        BY <1>1, <2>2, <3>1, BodyGoesDown
      <3> QED BY <1>4, <3>1, <3>2 DEF Taken
    <2>4. CASE ~sim8xx
      <3>1. /\ NoBodyWritten /\ state' = "SENDING_SMS_4" /\ submitted' = submitted
        BY <1>7, <2>4, WriteNoBody DEF SendHeader, Write
      <3> QED BY <1>1, <1>3, <1>4, <2>2, <3>1 DEF Taken
    <2> QED BY <2>3, <2>4
  <1>8. CASE EncodeFails \/ SubstrThrows
    <2>1. /\ state = "SENDING_SMS_3" /\ state' \in {"IDLE", "ABORTED"} /\ NoBodyWritten
      BY <1>8, SilentNoBody DEF EncodeFails, SubstrThrows, Goto
    <2> QED BY <1>3, <1>4, <2>1 DEF Taken
  <1>9. CASE SendBody(l)
    <2>1. /\ state = "SENDING_SMS_4" /\ state' = "SENDING_SMS_5"
          /\ tx' = <<"BODY^Z">> /\ submitted' = Append(submitted, pdu'.buf)
      BY <1>9 DEF SendBody, send_cmd_ctrlz, Write
    <2>2. NothingUnderWay /\ accepted = submitted
      BY <2>1 DEF Taken
    <2>3. UnderWay'
      BY <1>1, <2>1, <2>2, BodyGoesDown
    <2> QED BY <1>4, <2>1, <2>3 DEF Taken
  <1>10. CASE PartSent(l)
    <2>1. accepted = submitted /\ None(down, Bodies) /\ None(Tail(up), {Taking})
      BY <1>1, <1>10, AnswerFinds
    <2>2. /\ state' \in {"SENDING_SMS_3", "CHECK_SMS"} /\ submitted' = submitted
          /\ NoBodyWritten
      BY <1>10, SilentNoBody DEF PartSent, Goto
    <2>3. NothingUnderWay'
      BY <1>1, <2>1, <2>2, DownAfter DEF NothingUnderWay
    <2> QED BY <1>1, <1>4, <2>1, <2>2, <2>3 DEF Taken
  <1>11. CASE KeepWaiting(l)
    <2>1. /\ state' = state /\ NoBodyWritten /\ event' # "sms_sent"
          /\ UNCHANGED <<outgoing, pdu>>
          /\ state = "SENDING_SMS_5" => l.k # "CMGS"
      BY <1>11, SilentNoBody DEF KeepWaiting, Goto, Silent
    <2>2. Elsewhere
      BY <1>2, <2>1 DEF Elsewhere
    <2> QED BY <1>1, <2>1, <2>2, ElsewhereTaken
  <1> QED BY <1>5, <1>6, <1>7, <1>8, <1>9, <1>10, <1>11 DEF InSending

LEMMA ReadsTaken ==
  ASSUME Lines = Line, LinkOK, Inv, Inv', Taken, DriverReads
  PROVE  Taken'
  <1> DEFINE l == Head(up)
  <1>1. /\ Rx(l) /\ up # <<>> /\ up' = Tail(up) /\ down' = down \o Written
        /\ UNCHANGED <<accepted, late>>
    BY DEF DriverReads, Transmit, Written
  <1>2. l \in Lines
    BY <1>1, HeadTail DEF LinkOK
  <1>3. CASE InSending(l)
    BY <1>3, SendingTaken
  <1>4. CASE ~InSending(l)
    <2>1. Elsewhere /\ NoBodyWritten
      BY <1>1, <1>2, <1>4, RxElsewhere, RxNoBody
    <2>2. ~PartSent(l)
      <3>1. ASSUME PartSent(l), Dispatch(l)
            PROVE  FALSE
        BY <1>4, <3>1 DEF Dispatch, PartSent, InWaitState, InInit, InDialing,
           InUssd, InListing, InReceiving
      <3>2. ASSUME PartSent(l), ~Dispatch(l)
            PROVE  FALSE
        <4>1. l.k = "CMGS" /\ ~expect_ack
          BY <3>2 DEF PartSent, Inv, AckDiscipline, DataStates
        <4> QED
          BY <1>1, <3>2, <4>1 DEF Rx, parse_cmd_, AckFails, Notification, OnIgnored,
             OnCpin, OnCreg, OnCmti, OnCusd, OnClcc
      <3> QED BY <3>1, <3>2
    <2>3. state = "SENDING_SMS_5" => state' = state /\ l.k # "CMGS"
      BY <1>1, <2>2, RxWaiting
    <2> QED BY <1>1, <2>1, <2>3, ElsewhereTaken
  <1> QED BY <1>3, <1>4

-----------------------------------------------------------------------------
(* The modem and the world. *)

LEMMA AnswersTaken ==
  ASSUME LinkOK, OneText, Taken, ModemAnswers
  PROVE  Taken'
  <1> DEFINE c == Head(down).c
  <1>1. /\ down # <<>> /\ down' = Tail(down) /\ up' = up \o Reply(c)
        /\ UNCHANGED <<vars, late>>
        /\ accepted' = IF c = "BODY^Z" THEN Append(accepted, Head(down).arg)
                                       ELSE accepted
    BY DEF ModemAnswers
  <1>2. UNCHANGED <<state, pending, submitted>>
    BY <1>1 DEF vars, session, outgoing
  <1>3. /\ up \in Seq(Line) /\ down \in Seq(Order) /\ Head(down) \in Order
        /\ Reply(c) \in Seq(Line)
    BY <1>1, HeadTail, ReplyType DEF LinkOK
  <1> SUFFICES ASSUME late = 0 PROVE Taken'
    BY <1>1 DEF Taken
  <1>4. CASE c = "BODY^Z"
    <2>1. Head(down) \in Bodies
      BY <1>3, <1>4 DEF Bodies
    <2>2. ~None(down, Bodies)
      BY <1>1, <1>3, <2>1, NoneTail
    <2>3. state = "SENDING_SMS_5"
      BY <2>2 DEF Taken, NothingUnderWay
    <2>4. PICK o \in Bodies : /\ None(up, {Taking}) /\ One(down, Bodies, o)
                              /\ submitted = Append(accepted, o.arg)
      BY <2>2, <2>3 DEF Taken, UnderWay, NothingUnderWay
    <2>5. Head(down) = o /\ None(Tail(down), Bodies)
      BY <1>1, <1>3, <2>1, <2>4, OneTail
    <2>6. accepted' = submitted
      BY <1>1, <1>4, <2>4, <2>5
    <2>7. One(up', {Taking}, Taking)
      BY <1>1, <1>3, <1>4, <2>4, ReplyToPart, OneSecond
    <2>8. "send" \notin pending
      BY <2>3 DEF OneText, SmsStates
    <2>9. UnderWay'
      BY <1>1, <1>2, <2>5, <2>6, <2>7 DEF UnderWay
    <2> QED BY <1>2, <2>3, <2>8, <2>9 DEF Taken
  <1>5. CASE c # "BODY^Z"
    <2>1. accepted' = accepted /\ None(Reply(c), {Taking}) /\ Head(down) \notin Bodies
      BY <1>1, <1>5, ReplyOther DEF Bodies
    <2>2. None(down, Bodies) => None(down', Bodies)
      BY <1>1, <1>3, NoneTail
    <2>3. \A o \in Bodies : One(down, Bodies, o) => One(down', Bodies, o)
      BY <1>1, <1>3, <2>1, OneTail
    <2>4. None(up, {Taking}) => None(up', {Taking})
      BY <1>1, <1>3, <2>1, NoneConcat
    <2>5. One(up, {Taking}, Taking) => One(up', {Taking}, Taking)
      BY <1>1, <1>3, <2>1, OneFirst
    <2>6. NothingUnderWay => NothingUnderWay'
      BY <2>2, <2>4 DEF NothingUnderWay
    <2>7. UnderWay => UnderWay'
      BY <1>2, <2>1, <2>2, <2>3, <2>4, <2>5, <2>6 DEF UnderWay
    <2> QED BY <1>2, <2>1, <2>6, <2>7 DEF Taken
  <1> QED BY <1>4, <1>5

LEMMA WorldTaken ==
  ASSUME LinkOK, Taken, ModemSteps \/ Outside, ~ModemAnswers
  PROVE  Taken'
  <1>1. /\ UNCHANGED <<vars, late>> /\ accepted' = accepted
        /\ down' = down \/ down' = <<>>
    BY DEF ModemSteps, Outside, ModemOff, SwitchedOn, MessageArrives,
       CallComesIn, CallEnds, SimGetsReady
  <1>2. UNCHANGED <<state, pending, submitted>>
    BY <1>1 DEF vars, session, outgoing
  <1>3. PICK q \in Seq(Line) : up' = up \o q /\ None(q, {Taking})
    BY UpFromModem
  <1>4. /\ None(up, {Taking}) => None(up', {Taking})
        /\ One(up, {Taking}, Taking) => One(up', {Taking}, Taking)
    BY <1>3, NoneConcat, OneFirst DEF LinkOK
  <1>5. None(<<>>, Bodies)
    BY DEF None
  <1>6. NothingUnderWay => NothingUnderWay'
    BY <1>1, <1>4, <1>5 DEF NothingUnderWay
  <1>7. UnderWay => UnderWay'
    BY <1>1, <1>2, <1>4, <1>5, <1>6 DEF UnderWay, NothingUnderWay
  <1> QED BY <1>1, <1>2, <1>6, <1>7 DEF Taken

-----------------------------------------------------------------------------
(* What on_sms_sent tells. *)

LEMMA UserStep ==
  ASSUME "send_at" \notin Api, NoUser, [Next]_vars
  PROVE  NoUser'
  <1> USE DEF NoUser
  <1>1. CASE Timers
    BY <1>1 DEF Timers, LeaveModemWait, RxTimeout, IdleTimeout, Update, data
  <1>2. CASE Loop
    BY <1>2 DEF Loop, SendAt, EnterPin, PinDone, EnableRegistration, Registered,
       Connect, Disconnect, Dial, PollCall, ReadSms, SendSms, Cleanup, SendUssd, Take
  <1>3. CASE Requests
    BY <1>3 DEF Requests, send_sms, dial, send_ussd, send_at, connect,
       disconnect, set_debug, Request
  <1>4. ASSUME NEW l \in Lines, Rx(l)
        PROVE  NoUser'
    <2>1. CASE Notification(l) \/ AckFails(l)
      BY <2>1 DEF Notification, OnIgnored, OnCpin, OnCreg, OnCmti, OnCusd, OnClcc,
         AckFails, data
    <2>2. CASE InReceiving(l)
      <3>1. pending' = pending \/ pending' = pending \cup {"message_cleanup"}
        BY <2>2, Zenon DEF InReceiving
      <3> QED BY <3>1
    <2>3. CASE Dispatch(l) /\ ~InReceiving(l)
      <3>1. pending' = pending
        BY <2>3 DEF Dispatch, InWaitState, InInit, InDialing, InUssd, InListing,
           InSending
      <3> QED BY <3>1
    <2> QED BY <1>4, <2>1, <2>2, <2>3 DEF Rx, parse_cmd_
  <1>5. CASE Restart
    BY <1>5 DEF Restart
  <1>6. CASE UNCHANGED vars
    BY <1>6 DEF vars
  <1> QED BY <1>1, <1>2, <1>3, <1>4, <1>5, <1>6 DEF Next

LEMMA OneTextStep ==
  ASSUME Patient, OneText, [Next]_vars
  PROVE  OneText'
  <1> USE DEF OneText
  <1>1. CASE Elsewhere
    BY <1>1 DEF Elsewhere
  <1>2. CASE Timers
    BY <1>1, <1>2, TimersElsewhere
  <1>3. CASE Loop
    <2>1. CASE SendSms
      BY <2>1 DEF SendSms, Take
    <2> QED BY <1>1, <1>3, <2>1, LoopElsewhere
  <1>4. CASE Requests
    <2>1. CASE \E to \in Numbers, text \in Texts : send_sms(to, text)
      BY <2>1 DEF send_sms, Request, InUse, OutgoingStates, SmsStates, session
    <2> QED BY <1>1, <1>4, <2>1, RequestsElsewhere
  <1>5. ASSUME NEW l \in Lines, Rx(l)
        PROVE  OneText'
    <2>1. CASE InSending(l)
      <3>1. pending' = pending /\ state \in SmsStates
        BY <2>1 DEF InSending, AskCenter, receive_csca, BeginParts, SendHeader,
           EncodeFails, SubstrThrows, SendBody, PartSent, KeepWaiting, SmsStates
      <3> QED BY <3>1
    <2> QED BY <1>1, <1>5, <2>1, RxElsewhere
  <1>6. CASE Restart
    BY <1>6 DEF Restart
  <1>7. CASE UNCHANGED vars
    BY <1>7 DEF vars, session
  <1> QED BY <1>2, <1>3, <1>4, <1>5, <1>6, <1>7 DEF Next

\* Nobody but the caller of one text is heard.
Alone == NoUser /\ OneText

LEMMA TakenInit == LinkInit => Taken /\ Alone
  BY DEF LinkInit, Init, Taken, NothingUnderWay, None, Alone, NoUser, OneText

LEMMA TakenStep ==
  ASSUME Patient, Lines = Line, Joined, Joined', Alone, Taken, [LinkNext]_joined
  PROVE  Taken'
  <1> USE DEF Joined, Alone
  <1>1. CASE DriverReads
    BY <1>1, ReadsTaken
  <1>2. CASE DriverWrites \/ DriverPolls
    BY <1>2, WritesTaken
  <1>3. CASE DriverTimesOut
    BY <1>3, TimesOutTaken
  <1>4. CASE DriverAsked
    BY <1>4, AskedTaken
  <1>5. CASE ModemAnswers
    BY <1>5, AnswersTaken
  <1>6. CASE (ModemSteps \/ Outside) /\ ~ModemAnswers
    BY <1>6, WorldTaken
  <1>7. CASE UNCHANGED joined
    <2>1. UNCHANGED <<late, up, down, accepted, state, pending, submitted>>
      BY <1>7 DEF joined, vars, session, outgoing
    <2> QED BY <2>1 DEF Taken, NothingUnderWay, UnderWay
  <1> QED BY <1>1, <1>2, <1>3, <1>4, <1>5, <1>6, <1>7 DEF LinkNext

\* When on_sms_sent is called, exactly the parts of the text have been written.
LEMMA SentAll ==
  ASSUME Lines = Line, Joined, DriverReads, event' = "sms_sent"
  PROVE  PartSent(Head(up)) /\ submitted = Parts
  <1> DEFINE l == Head(up)
  <1>1. l \in Lines /\ Rx(l)
    BY HeadTail DEF DriverReads, Joined, LinkOK
  <1>2. InSending(l)
    BY <1>1, RxElsewhere DEF Elsewhere
  <1>3. PartSent(l)
    BY <1>2 DEF InSending, AskCenter, receive_csca, BeginParts, SendHeader,
       EncodeFails, SubstrThrows, SendBody, KeepWaiting, Goto, Silent, NextCmd,
       NextCmdAck, send_cmd, send_cmd_ack, send_cmd_ctrlz, Write
  <1>4. state = "SENDING_SMS_5" /\ state' = "CHECK_SMS"
    BY <1>3 DEF PartSent, Goto, Silent
  <1>5. [Sending!Step]_<<Asked, Doing, Out, Told>>
    BY <1>1, <1>2, SendingStep DEF Joined, Faithful
  <1>6. Doing = Job /\ Job # NoValue /\ Doing' = NoValue /\ Told' /\ Out = submitted
    BY <1>4, JobType DEF Joined, Doing, Told, Out, SmsStates, BodyStates
  <1>7. Sending!Report
    BY <1>5, <1>6 DEF Sending!Step, Sending!Begin, Sending!PutOut, Sending!GiveUp,
       Sending!Reset, Sending!GoOn, Sending!Ask, Asked, Doing, Out, Told
  <1>8. Job \in Numbers \X Texts
    BY <1>4, JobType DEF Joined, SmsStates
  <1>9. [j \in Numbers \X Texts |-> PartsOf(j[1], j[2])][Job] = Parts
    BY <1>8 DEF Job, Parts
  <1>10. Out = Parts
    BY <1>6, <1>7, <1>9 DEF Sending!Report, Doing, Out
  <1> QED BY <1>3, <1>6, <1>10

\* When on_sms_sent is called the modem has taken over the parts of the text
\* asked for, in order, to the number asked for, and no others, if every answer
\* came in time (a7670.cpp:625-686).  No user may break in: a command written by
\* send_at in debug mode makes the driver leave the flow while a part is under
\* way, and the next text then finds the answer to it.
THEOREM SentIsAccepted ==
  ASSUME Patient, "send_at" \notin Api, Lines = Line
  PROVE  LinkSpec => SentMeansAccepted
  <1> DEFINE A == DriverReads /\ event' = "sms_sent" /\ late = 0
                    => accepted = PartsOf(recipient, outgoing_message)
  <1>1. Joined /\ Taken /\ [LinkNext]_joined => A
    <2> SUFFICES ASSUME Joined, Taken, DriverReads, event' = "sms_sent", late = 0
                 PROVE  accepted = Parts
      BY DEF Parts
    <2>1. PartSent(Head(up)) /\ submitted = Parts
      BY SentAll
    <2>2. up # <<>>
      BY DEF DriverReads
    <2> QED BY <2>1, <2>2, AnswerFinds DEF Joined
  <1>2. Joined /\ Alone /\ [LinkNext]_joined => Alone'
    BY JoinedStep, UserStep, OneTextStep DEF Alone
  <1>3. Joined /\ Joined' /\ Alone /\ Taken /\ [LinkNext]_joined => Taken'
    BY TakenStep
  <1>4. [](Joined /\ Alone /\ Taken) /\ [][LinkNext]_joined => [][A]_joined
    BY <1>1, PTL
  <1> QED BY <1>2, <1>3, <1>4, TakenInit, JoinedKept, PTL DEF LinkSpec, SentMeansAccepted

-----------------------------------------------------------------------------
(* The PIN is entered once.  The SIM tells at most twice that it wants its *)
(* PIN: when it has been busy, and in the answer to AT+CPIN?, which is     *)
(* written once.  So it matters that the driver does not enter the PIN for *)
(* the first while AT+CPIN? has not been answered: that it is in step with *)
(* the modem from ATE0 on.                                                 *)

NotReady == [k |-> "CPIN", ready |-> FALSE]
ReadyNow == [k |-> "CPIN", ready |-> TRUE]
Okay     == [k |-> "OK"]
Detected == [k |-> "OTHER"]

\* While the SIM is not ready, what the modem says of its own accord is that it
\* has started or what the SIM is like.  All other lines answer a command.
Answers  == {l \in Line : l.k \notin {"CPIN", "ATREADY"}}
Network  == {l \in Line : l.k = "CREG"}
Answered == {o \in Order : o.c # "^Z"}
Asking   == {o \in Order : o.c = "AT+CPIN?"}
Entering == {o \in Order : o.c = "AT+CPIN="}
Polling  == {o \in Order : o.c = "AT+CREG?"}

Single(q, M) == \E o \in M : One(q, M, o)

\* AT+CPIN? has not been written yet, but may be.
Starting == ~init_done \/ state \in {"MODEM_DETECT", "INIT2"}

StartUp ==
  /\ ~init_done => /\ state \in {"IDLE", "MODEM_WAIT", "INIT"}
                   /\ ~registered /\ ~pin_required
                   /\ None(up, Network) /\ None(down, Polling)
  /\ state = "INIT" => ~init_done
  /\ Starting => None(down, Asking) /\ None(down, Entering)

SimTells ==
  /\ sim_state # "locked" => /\ ~pin_required
                             /\ None(up, {NotReady}) /\ None(down, Entering)
  /\ sim_state # "ready" => call = "DISCONNECTED" /\ None(up, {ReadyNow})
  /\ ~init_done => None(up, {NotReady}) \/ One(up, {NotReady}, NotReady)
  /\ None(down, Asking) \/ Single(down, Asking)
  /\ \/ None(down, Entering)
     \/ /\ Single(down, Entering) /\ None(down, Asking)
        /\ None(up, {NotReady}) /\ ~pin_required

\* The first of the two may still come, or has been noted.
EarlyReport == sim_state = "busy" \/ ~None(up, {NotReady}) \/ pin_required

NothingDue == None(down, Answered) /\ None(up, Answers)

\* One of these commands is under way, or its OK.
Due(cs) ==
  \/ NothingDue
  \/ /\ None(up, Answers)
     /\ \E o \in Answered : o.c \in cs /\ One(down, Answered, o)
  \/ None(down, Answered) /\ One(up, Answers, Okay)

\* So is AT+CGMM, or its answer, a line and the OK.
TwoLines(q) ==
  \E i, j \in DOMAIN q : /\ i < j /\ q[i] = Detected /\ q[j] = Okay
                         /\ \A n \in DOMAIN q : q[n] \in Answers => n \in {i, j}
ModelDue ==
  \/ NothingDue
  \/ /\ None(up, Answers)
     /\ \E o \in Answered : o.c = "AT+CGMM" /\ One(down, Answered, o)
  \/ None(down, Answered) /\ TwoLines(up)

\* The driver expects the acknowledgement that comes, and none before it.
Paired ==
  /\ ~init_done => /\ Due({"ATE0", "USER"})
                   /\ ~expect_ack => NothingDue
                   /\ state = "INIT" => expect_ack
  /\ state = "MODEM_DETECT" => ModelDue
  /\ state = "INIT2" => Due({})
  /\ state = "PIN_WAIT" /\ ~None(down, Asking)
       => expect_ack /\ None(up, Answers) /\ Single(down, Answered)

Lockstep == EarlyReport => Paired

Pinned == late = 0 => StartUp /\ SimTells /\ Lockstep

LEMMA KindsApart ==
  /\ NotReady \in Line /\ ReadyNow \in Line /\ Okay \in Answers /\ Detected \in Answers
  /\ NotReady \notin Answers /\ ReadyNow \notin Answers
  /\ NotReady # ReadyNow /\ Okay # NotReady /\ Okay # ReadyNow
  /\ Detected # NotReady /\ Detected # ReadyNow /\ Okay # Detected
  /\ [k |-> "ATREADY"] \notin Answers
  <1> USE DEF NotReady, ReadyNow, Okay, Detected
  <1>1. NotReady \in Line /\ ReadyNow \in Line
    BY TypeOfLines
  <1>2. Okay \in Line /\ Detected \in Line
    BY TypeOfLines DEF Kinds
  <1>3. Okay \in Answers /\ Detected \in Answers
    BY <1>2 DEF Answers
  <1>4. /\ NotReady \notin Answers /\ ReadyNow \notin Answers
        /\ [k |-> "ATREADY"] \notin Answers
    BY DEF Answers
  <1>5. NotReady.k = "CPIN" /\ ReadyNow.k = "CPIN" /\ Okay.k = "OK" /\ Detected.k = "OTHER"
    OBVIOUS
  <1>6. NotReady # ReadyNow
    <2>1. NotReady.ready = FALSE /\ ReadyNow.ready = TRUE
      OBVIOUS
    <2> QED BY <2>1
  <1> HIDE DEF NotReady, ReadyNow, Okay, Detected
  <1> QED BY <1>1, <1>3, <1>4, <1>5, <1>6

\* A line about the SIM is one of two.
LEMMA SimLines ==
  ASSUME NEW l \in Line, l.k = "CPIN"
  PROVE  l = IF l.ready THEN ReadyNow ELSE NotReady
  BY DEF Line, ReadyNow, NotReady

LEMMA NoneMeans ==
  ASSUME NEW q, NEW M, Single(q, M)
  PROVE  ~None(q, M)
  BY DEF Single, One, None

LEMMA SingleTail ==
  ASSUME NEW S, NEW s \in Seq(S), s # <<>>, NEW M, Single(s, M)
  PROVE  IF Head(s) \in M THEN None(Tail(s), M) ELSE Single(Tail(s), M)
  BY OneTail DEF Single

LEMMA SingleFirst ==
  ASSUME NEW S, NEW s \in Seq(S), NEW t \in Seq(S), NEW M, Single(s, M), None(t, M)
  PROVE  Single(s \o t, M)
  BY OneFirst DEF Single

LEMMA SingleSecond ==
  ASSUME NEW S, NEW s \in Seq(S), NEW t \in Seq(S), NEW M, None(s, M), Single(t, M)
  PROVE  Single(s \o t, M)
  BY OneSecond DEF Single

LEMMA Lonely ==
  ASSUME NEW o, NEW M
  PROVE  /\ o \in M => One(<<o>>, M, o) /\ Single(<<o>>, M)
         /\ o \notin M => None(<<o>>, M)
  <1>1. DOMAIN <<o>> = {1} /\ <<o>>[1] = o
    OBVIOUS
  <1> QED BY <1>1 DEF One, None, Single

LEMMA NoneEmpty == ASSUME NEW M PROVE None(<<>>, M)
  BY DEF None

LEMMA TwoTail ==
  ASSUME NEW q \in Seq(Line), q # <<>>, TwoLines(q)
  PROVE  IF Head(q) \in Answers THEN One(Tail(q), Answers, Okay) ELSE TwoLines(Tail(q))
  <1>1. PICK i \in DOMAIN q, j \in DOMAIN q :
          /\ i < j /\ q[i] = Detected /\ q[j] = Okay
          /\ \A n \in DOMAIN q : q[n] \in Answers => n \in {i, j}
    BY DEF TwoLines
  <1>2. i \in Nat /\ j \in Nat /\ Detected \in Answers /\ Okay \in Answers /\ j # 1
    BY <1>1, KindsApart
  <1>3. j - 1 \in DOMAIN Tail(q) /\ Tail(q)[j - 1] = Okay
    <2>1. j - 1 \in DOMAIN Tail(q) /\ j = (j - 1) + 1
      BY <1>1, <1>2, HeadTail
    <2>2. Tail(q)[j - 1] = q[(j - 1) + 1]
      BY <2>1, HeadTail
    <2> QED BY <1>1, <2>1, <2>2
  <1>4. ASSUME NEW n \in DOMAIN Tail(q), Tail(q)[n] \in Answers
        PROVE  n \in Nat /\ n + 1 \in {i, j} /\ n # 0
    <2>1. n + 1 \in DOMAIN q /\ q[n + 1] \in Answers
      BY <1>4, HeadTail
    <2>2. n \in Nat \ {0}
      <3>1. Tail(q) \in Seq(Line)
        BY HeadTail
      <3> QED BY <3>1
    <2> QED BY <1>1, <2>1, <2>2
  <1>5. CASE i = 1
    <2>1. Head(q) \in Answers
      BY <1>1, <1>2, <1>5, HeadTail
    <2>2. \A n \in DOMAIN Tail(q) : Tail(q)[n] \in Answers => n = j - 1
      BY <1>2, <1>4, <1>5
    <2> QED BY <1>2, <1>3, <2>1, <2>2 DEF One
  <1>6. CASE i # 1
    <2>1. Head(q) \notin Answers
      BY <1>1, <1>2, <1>6, HeadTail
    <2>2. i - 1 \in DOMAIN Tail(q) /\ Tail(q)[i - 1] = Detected
      <3>1. i - 1 \in DOMAIN Tail(q) /\ i = (i - 1) + 1
        BY <1>1, <1>2, <1>6, HeadTail
      <3>2. Tail(q)[i - 1] = q[(i - 1) + 1]
        BY <3>1, HeadTail
      <3> QED BY <1>1, <3>1, <3>2
    <2>3. i - 1 < j - 1 /\ \A n \in DOMAIN Tail(q) : Tail(q)[n] \in Answers => n \in {i - 1, j - 1}
      BY <1>1, <1>2, <1>4
    <2> QED BY <1>3, <2>1, <2>2, <2>3 DEF TwoLines
  <1> QED BY <1>5, <1>6

LEMMA TwoFirst ==
  ASSUME NEW q \in Seq(Line), NEW t \in Seq(Line), TwoLines(q), None(t, Answers)
  PROVE  TwoLines(q \o t)
  <1>1. PICK i \in DOMAIN q, j \in DOMAIN q :
          /\ i < j /\ q[i] = Detected /\ q[j] = Okay
          /\ \A n \in DOMAIN q : q[n] \in Answers => n \in {i, j}
    BY DEF TwoLines
  <1>2. /\ i \in DOMAIN (q \o t) /\ (q \o t)[i] = Detected
        /\ j \in DOMAIN (q \o t) /\ (q \o t)[j] = Okay
    <2>1. /\ q \o t \in Seq(Line) /\ Len(q \o t) = Len(q) + Len(t)
          /\ (q \o t)[i] = q[i] /\ (q \o t)[j] = q[j]
      BY <1>1, Concat
    <2> QED BY <1>1, <2>1
  <1>3. ASSUME NEW n \in DOMAIN (q \o t), (q \o t)[n] \in Answers
        PROVE  n \in {i, j}
    BY <1>1, <1>3, Places DEF None
  <1> QED BY <1>1, <1>2, <1>3 DEF TwoLines

LEMMA TwoSecond ==
  ASSUME NEW q \in Seq(Line), None(q, Answers)
  PROVE  TwoLines(q \o <<Detected, Okay>>)
  <1> DEFINE t == <<Detected, Okay>>
             n == Len(q)
  <1>1. t \in Seq(Line) /\ Len(t) = 2 /\ DOMAIN t = {1, 2} /\ t[1] = Detected /\ t[2] = Okay
    BY KindsApart DEF Answers
  <1> HIDE DEF t
  <1>2. n \in Nat
    OBVIOUS
  <1>3. /\ n + 1 \in DOMAIN (q \o t) /\ (q \o t)[n + 1] = Detected
        /\ n + 2 \in DOMAIN (q \o t) /\ (q \o t)[n + 2] = Okay
    <2>1. q \o t \in Seq(Line) /\ Len(q \o t) = n + Len(t)
      BY <1>1, Concat, Zenon
    <2>2. \A i \in 1 .. Len(t) : (q \o t)[n + i] = t[i]
      <3>1. t \in Seq(Line)
        BY <1>1
      <3> QED BY <3>1, Concat
    <2>3. 1 \in 1 .. Len(t) /\ 2 \in 1 .. Len(t)
      BY <1>1
    <2>4. (q \o t)[n + 1] = t[1] /\ (q \o t)[n + 2] = t[2]
      BY <2>2, <2>3
    <2> QED BY <1>1, <1>2, <2>1, <2>4
  <1>4. ASSUME NEW m \in DOMAIN (q \o t), (q \o t)[m] \in Answers
        PROVE  m \in {n + 1, n + 2}
    <2>1. m - n \in DOMAIN t /\ m = n + (m - n)
      BY <1>1, <1>4, Places DEF None
    <2> QED BY <1>1, <2>1
  <1>5. n + 1 < n + 2
    BY <1>2
  <1> HIDE DEF n
  <1>6. TwoLines(q \o t)
    BY <1>3, <1>4, <1>5 DEF TwoLines
  <1> QED BY <1>6 DEF t

-----------------------------------------------------------------------------
(* The start-up, step by step. *)

Writes(c) == \E i \in DOMAIN tx' : tx'[i] = c

\* What every step of the driver keeps to.
Orderly ==
  /\ init_done => init_done'
  /\ ~init_done' => /\ state' \in {"IDLE", "MODEM_WAIT", "INIT"}
                    /\ ~registered' /\ ~pin_required' /\ ~Writes("AT+CREG?")
  /\ state' = "INIT" => ~init_done'
  /\ Starting' => Starting
  /\ Writes("AT+CPIN?") => Starting /\ ~Starting' /\ tx' = <<"AT+CPIN?">>
  /\ Writes("AT+CPIN=") => /\ tx' = <<"AT+CPIN=">> /\ state = "PIN_WAIT"
                           /\ ~expect_ack /\ pin_required /\ ~pin_required'

LEMMA WritesOne ==
  ASSUME NEW c, NEW next, Write(<<c>>, next)
  PROVE  /\ tx' = <<c>> /\ state' = next
         /\ \A d : Writes(d) <=> d = c
  <1>1. tx' = <<c>> /\ state' = next
    BY DEF Write
  <1>2. DOMAIN tx' = {1} /\ tx'[1] = c
    BY <1>1
  <1> QED BY <1>1, <1>2 DEF Writes

LEMMA WritesNothing ==
  ASSUME tx' = <<>>
  PROVE  \A d : ~Writes(d)
  BY DEF Writes

LEMMA TimersOrderly ==
  ASSUME Inv, StartUp, Timers
  PROVE  Orderly /\ pin_required' = pin_required
  <1>1. UNCHANGED <<init_done, registered, pin_required>>
    BY DEF Timers, LeaveModemWait, RxTimeout, IdleTimeout, Update, data, sim, net
  <1>2. CASE LeaveModemWait \/ RxTimeout
    <2>1. /\ tx' = <<>> /\ state' \in {state, "IDLE", "MODEM_WAIT"}
      BY <1>2 DEF LeaveModemWait, RxTimeout, Silent
    <2> QED BY <1>1, <2>1, WritesNothing DEF StartUp, Orderly, Starting
  <1>3. CASE IdleTimeout
    <2>1. Write(<<"^Z">>, "IDLE")
      BY <1>3 DEF IdleTimeout, send_cmd_ctrlz
    <2> QED BY <1>1, <2>1, WritesOne DEF StartUp, Orderly, Starting
  <1>4. CASE Update
    <2>1. /\ state = "IDLE"
          /\ IF init_done THEN Write(<<"AT+CREG?">>, "REG_WAIT")
                          ELSE Write(<<"ATE0">>, "INIT")
      BY <1>4 DEF Update, _periodic_check_, send_cmd_ack
    <2> QED BY <1>1, <2>1, WritesOne DEF StartUp, Orderly, Starting
  <1> QED BY <1>2, <1>3, <1>4, <1>1 DEF Timers

LEMMA RequestsOrderly ==
  ASSUME StartUp, Requests
  PROVE  /\ Orderly /\ tx' = <<>>
         /\ UNCHANGED <<state, expect_ack, init_done, registered, pin_required>>
  <1>1. tx' = <<>> /\ UNCHANGED <<session, sim, net>>
    BY DEF Requests, send_sms, dial, send_ussd, send_at, connect, disconnect,
       set_debug, Request, Silent
  <1> QED BY <1>1, WritesNothing DEF StartUp, Orderly, Starting, session, sim, net

\* What loop() writes, and where it goes on.
LEMMA LoopWrites ==
  ASSUME StartUp, Loop
  PROVE  /\ ~expect_ack /\ UNCHANGED init_done
         /\ pin_required' => pin_required
         /\ registered' = registered
         /\ \/ state' = "IDLE" /\ Write(<<"USER">>, "IDLE") /\ expect_ack'
            \/ /\ state = "PIN_WAIT" /\ init_done /\ pin_required /\ ~pin_required'
               /\ state' = "PIN_WAIT" /\ (tx' = <<>> \/ Write(<<"AT+CPIN=">>, "PIN_WAIT"))
            \/ /\ init_done /\ state' \notin {"INIT", "MODEM_DETECT", "INIT2", "PIN_WAIT"}
               /\ tx' = <<>> \/ \E c : /\ c \notin {"AT+CPIN?", "AT+CPIN="}
                                       /\ Write(<<c>>, state')
  <1> USE DEF send_cmd_ack
  <1>1. CASE SendAt
    <2>1. Write(<<"USER">>, "IDLE") /\ expect_ack' /\ ~expect_ack /\ UNCHANGED <<sim, net>>
      BY <1>1 DEF SendAt, MayWrite
    <2> QED BY <2>1, WritesOne DEF sim, net
  <1>2. CASE EnterPin
    <2>1. /\ ~expect_ack /\ state = "PIN_WAIT" /\ pin_required /\ ~pin_required'
          /\ UNCHANGED <<init_done, net>>
          /\ \/ Write(<<"AT+CPIN=">>, "PIN_WAIT")
             \/ tx' = <<>> /\ UNCHANGED session
      BY <1>2 DEF EnterPin, MayWrite, Silent
    <2>2. init_done
      BY <2>1 DEF StartUp
    <2> QED BY <2>1, <2>2, WritesOne DEF session, net
  <1>3. CASE PinDone
    <2>1. /\ ~expect_ack /\ state = "PIN_WAIT" /\ UNCHANGED <<sim, net>>
          /\ IF init_done THEN Write(<<"AT+CREG?">>, "REG_WAIT")
                          ELSE Write(<<"ATE0">>, "INIT")
      BY <1>3 DEF PinDone, MayWrite, _periodic_check_
    <2>2. init_done
      BY <2>1 DEF StartUp
    <2>3. Write(<<"AT+CREG?">>, "REG_WAIT") /\ state' = "REG_WAIT"
      BY <2>1, <2>2, WritesOne
    <2> QED BY <2>1, <2>2, <2>3 DEF sim, net
  <1>4. CASE EnableRegistration
    <2>1. /\ ~expect_ack /\ state = "REG_WAIT" /\ UNCHANGED <<sim, registered>>
          /\ Write(<<"AT+CREG=1">>, "IDLE")
      BY <1>4 DEF EnableRegistration, MayWrite
    <2>2. init_done
      BY <2>1 DEF StartUp
    <2> QED BY <2>1, <2>2, WritesOne DEF sim
  <1>5. CASE Registered
    <2>1. /\ ~expect_ack /\ state = "REG_WAIT" /\ UNCHANGED <<sim, net>>
          /\ Write(<<"AT+CSQ">>, "CHECK_SMS")
      BY <1>5 DEF Registered, MayWrite
    <2>2. init_done
      BY <2>1 DEF StartUp
    <2>3. state' = "CHECK_SMS"
      BY <2>1, WritesOne
    <2> QED BY <2>1, <2>2, <2>3 DEF sim, net
  <1>6. CASE IdleTurn
    <2>1. ~expect_ack /\ state = "IDLE" /\ registered /\ UNCHANGED <<sim, net>>
      BY <1>6 DEF IdleTurn, MayWrite
    <2>2. init_done
      BY <2>1 DEF StartUp
    <2>3. \/ tx' = <<>> /\ state' = state
          \/ \E c, next : /\ c \notin {"AT+CPIN?", "AT+CPIN="}
                          /\ next \notin {"INIT", "MODEM_DETECT", "INIT2", "PIN_WAIT"}
                          /\ Write(<<c>>, next)
      <3> USE DEF Take, Silent, session
      <3>1. CASE Connect \/ Disconnect \/ Dial \/ PollCall
        BY <3>1 DEF Connect, Disconnect, Dial, PollCall
      <3>2. CASE ReadSms \/ SendSms \/ Cleanup \/ SendUssd
        BY <3>2 DEF ReadSms, SendSms, Cleanup, SendUssd
      <3>3. CASE SendAt \/ EnterPin \/ PinDone \/ EnableRegistration \/ Registered
        BY <3>3, <1>6 DEF SendAt, EnterPin, PinDone, EnableRegistration, Registered,
           IdleTurn
      <3> QED BY <3>1, <3>2, <3>3 DEF Loop
    <2> QED BY <2>1, <2>2, <2>3, WritesOne DEF sim, net
  <1> QED BY <1>1, <1>2, <1>3, <1>4, <1>5, <1>6 DEF Loop, Connect, Disconnect,
       Dial, PollCall, ReadSms, SendSms, Cleanup, SendUssd, Take

LEMMA LoopOrderly ==
  ASSUME StartUp, Loop
  PROVE  Orderly
  <1>1. CASE Write(<<"USER">>, "IDLE")
    BY <1>1, LoopWrites, WritesOne DEF StartUp, Orderly, Starting
  <1>2. CASE tx' = <<>>
    BY <1>2, LoopWrites, WritesNothing, WritesOne DEF StartUp, Orderly, Starting
  <1>3. CASE Write(<<"AT+CPIN=">>, "PIN_WAIT")
    BY <1>3, LoopWrites, WritesOne DEF StartUp, Orderly, Starting
  <1>4. ASSUME NEW c, c \notin {"AT+CPIN?", "AT+CPIN="}, Write(<<c>>, state'), init_done,
               state' \notin {"INIT", "MODEM_DETECT", "INIT2", "PIN_WAIT"}
        PROVE  Orderly
    <2>1. UNCHANGED init_done /\ \A d : Writes(d) <=> d = c
      BY <1>4, LoopWrites, WritesOne
    <2> QED BY <1>4, <2>1 DEF Orderly, Starting
  <1> QED BY <1>1, <1>2, <1>3, <1>4, LoopWrites

\* The ways in which a line is read: it passes by, it is no acknowledgement, it
\* ends a wait, it moves the start-up on, or another flow.
Passes(l) ==
  /\ UNCHANGED <<state, expect_ack, init_done>> /\ tx' = <<>>
  /\ pin_required' = pin_required \/ (l.k = "CPIN" /\ init_done /\ pin_required' = ~l.ready)
  /\ registered' = registered \/ l.k = "CREG"
  /\ l.k \notin {"OK", "OTHER"}
Fails(l) ==
  /\ expect_ack /\ ~expect_ack' /\ l.k \notin {"OK", "ATREADY"}
  /\ l.k = "CPIN" => ~init_done
  /\ state' = IF l.k = "CMEERROR" THEN state ELSE "IDLE"
  /\ tx' = <<>>
  /\ UNCHANGED <<init_done, registered, pin_required>>
Waits(l) ==
  /\ state \in {"IDLE", "MODEM_WAIT", "REG_WAIT", "PIN_WAIT"} /\ state' = state
  /\ expect_ack => l.k = "OK"
  /\ ~expect_ack' /\ tx' = <<>>
  /\ UNCHANGED <<init_done, registered, pin_required>>
Starts(l) ==
  /\ expect_ack => l.k = "OK"
  /\ l.k # "ATREADY" /\ (l.k = "CPIN" => ~init_done)
  /\ \/ /\ state = "INIT" /\ Write(<<"AT+CGMM">>, "MODEM_DETECT") /\ init_done'
     \/ /\ state = "MODEM_DETECT" /\ init_done' = init_done
        /\ tx' = <<>> /\ state' = "INIT2" /\ expect_ack'
     \/ /\ state = "INIT2" /\ init_done' = init_done
        /\ Write(<<"AT+CPIN?">>, "PIN_WAIT") /\ expect_ack'
  /\ UNCHANGED <<registered, pin_required>>
GoesOn ==
  /\ state \notin {"IDLE", "MODEM_WAIT", "INIT"}
  /\ state' \notin {"INIT", "MODEM_DETECT", "INIT2", "PIN_WAIT"}
  /\ \A d \in {"AT+CPIN?", "AT+CPIN="} : ~Writes(d)
  /\ UNCHANGED <<init_done, pin_required>>

LEMMA PassesBy ==
  ASSUME NEW l, Notification(l)
  PROVE  Passes(l)
  <1> USE DEF Passes, Silent, session
  <1>1. CASE OnIgnored(l)
    BY <1>1 DEF OnIgnored, data, sim, net
  <1>2. CASE OnCpin(l)
    BY <1>2 DEF OnCpin, net
  <1>3. CASE OnCreg(l)
    BY <1>3 DEF OnCreg, sim
  <1>4. CASE OnCmti(l)
    BY <1>4 DEF OnCmti, sim, net
  <1>5. CASE OnCusd(l)
    BY <1>5 DEF OnCusd, sim, net
  <1>6. CASE OnClcc(l)
    BY <1>6 DEF OnClcc, sim, net
  <1> QED BY <1>1, <1>2, <1>3, <1>4, <1>5, <1>6 DEF Notification

LEMMA SendsOn ==
  ASSUME NEW c, NEW next, NextCmd(c, next) \/ NextCmdAck(c, next) \/ send_cmd_ctrlz(c, next)
  PROVE  state' = next /\ \A d : Writes(d) <=> d = c
  <1>1. Write(<<c>>, next)
    BY DEF NextCmd, NextCmdAck, send_cmd, send_cmd_ack, send_cmd_ctrlz
  <1> QED BY <1>1, WritesOne

LEMMA GoesTo ==
  ASSUME NEW next, NEW again, NEW e, Goto(next, again, e)
  PROVE  state' = next /\ \A d : ~Writes(d)
  BY WritesNothing DEF Goto, Silent

LEMMA FlowGoesOn ==
  ASSUME NEW l,
         InDialing(l) \/ InUssd(l) \/ InListing(l) \/ InReceiving(l) \/ InSending(l)
  PROVE  GoesOn
  <1> USE DEF GoesOn, sim
  <1>1. CASE InDialing(l)
    <2>1. UNCHANGED <<init_done, pin_required>> /\ state \in {"DIALING1", "DIALING2"}
      BY <1>1 DEF InDialing
    <2>2. \/ NextCmd("ATD", "DIALING2") \/ Goto("IDLE", FALSE, "none")
          \/ send_cmd_ctrlz("AT+CMEE=2^Z", "IDLE")
      BY <1>1 DEF InDialing, ErrorOut
    <2>3. state' \in {"DIALING2", "IDLE"} /\ \A d : Writes(d) => d \in {"ATD", "AT+CMEE=2^Z"}
      BY <2>2, SendsOn, GoesTo
    <2> QED BY <2>1, <2>3
  <1>2. CASE InUssd(l)
    <2>1. /\ UNCHANGED <<init_done, pin_required>>
          /\ state \in {"SEND_USSD1", "SEND_USSD2", "SEND_USSD3"}
      BY <1>2 DEF InUssd
    <2>2. \/ NextCmdAck("AT+CSCS=?", "SEND_USSD2") \/ NextCmdAck("AT+CUSD=1", "SEND_USSD3")
          \/ Goto("IDLE", FALSE, "none") \/ send_cmd_ctrlz("AT+CMEE=2^Z", "IDLE")
      BY <1>2 DEF InUssd, ErrorOut
    <2>3. /\ state' \in {"SEND_USSD2", "SEND_USSD3", "IDLE"}
          /\ \A d : Writes(d) => d \in {"AT+CSCS=?", "AT+CUSD=1", "AT+CMEE=2^Z"}
      BY <2>2, SendsOn, GoesTo
    <2> QED BY <2>1, <2>3
  <1>3. CASE InListing(l)
    <2>1. /\ UNCHANGED <<init_done, pin_required>>
          /\ state \in {"CHECK_SMS", "CHECK_SMS1", "PARSE_SMS_RESPONSE"}
      BY <1>3 DEF InListing
    <2>2. \/ NextCmdAck("AT+CMGF=0", "CHECK_SMS1") \/ NextCmd("AT+CMGL=4", "PARSE_SMS_RESPONSE")
          \/ Goto("RECEIVE_SMS", FALSE, "none") \/ NextCmdAck("AT+CLCC", "IDLE")
          \/ state = "PARSE_SMS_RESPONSE" /\ Goto(state, FALSE, "none")
      BY <1>3 DEF InListing
    <2>3. /\ state' \in {"CHECK_SMS1", "PARSE_SMS_RESPONSE", "RECEIVE_SMS", "IDLE"}
          /\ \A d : Writes(d) => d \in {"AT+CMGF=0", "AT+CMGL=4", "AT+CLCC"}
      BY <2>2, SendsOn, GoesTo
    <2> QED BY <2>1, <2>3
  <1>4. CASE InReceiving(l)
    <2>1. UNCHANGED <<init_done, pin_required>> /\ state = "RECEIVE_SMS"
      BY <1>4 DEF InReceiving
    <2>2. \E next \in {state, "IDLE"} : \E e : Goto(next, FALSE, e)
      BY <1>4 DEF InReceiving, Collect
    <2> QED BY <2>1, <2>2, GoesTo
  <1>5. CASE InSending(l)
    <2>1. UNCHANGED sim
      BY <1>5 DEF InSending
    <2>2. CASE AskCenter \/ receive_csca(l) \/ BeginParts
      <3>1. /\ state \in {"SENDING_SMS", "SENDING_SMS_1", "SENDING_SMS_2"}
            /\ \/ NextCmd("AT+CSCA?", "SENDING_SMS_1")
               \/ NextCmdAck("AT+CMGF=0", "SENDING_SMS_3")
               \/ \E next \in {"SENDING_SMS_1", "SENDING_SMS_2"} :
                    \E again : Goto(next, again, "none")
        BY <2>2 DEF AskCenter, receive_csca, BeginParts
      <3>2. /\ state' \in {"SENDING_SMS_1", "SENDING_SMS_2", "SENDING_SMS_3"}
            /\ \A d : Writes(d) => d \in {"AT+CSCA?", "AT+CMGF=0"}
        BY <3>1, SendsOn, GoesTo
      <3> QED BY <2>1, <3>1, <3>2
    <2>3. CASE SendHeader
      <3>1. /\ state = "SENDING_SMS_3" /\ state' \in {"SENDING_SMS_4", "SENDING_SMS_5"}
            /\ tx' = <<"AT+CMGS=">> \/ tx' = <<"AT+CMGS=", "BODY^Z">>
        BY <2>3 DEF SendHeader, Write
      <3>2. DOMAIN tx' \in {{1}, {1, 2}} /\ tx'[1] = "AT+CMGS="
            /\ (2 \in DOMAIN tx' => tx'[2] = "BODY^Z")
        BY <3>1
      <3> QED BY <2>1, <3>1, <3>2 DEF Writes
    <2>4. CASE EncodeFails \/ SubstrThrows
      <3>1. /\ state = "SENDING_SMS_3"
            /\ \E next \in {"IDLE", "ABORTED"} : Goto(next, FALSE, "none")
        BY <2>4 DEF EncodeFails, SubstrThrows
      <3> QED BY <2>1, <3>1, GoesTo
    <2>5. CASE SendBody(l) \/ PartSent(l) \/ KeepWaiting(l)
      <3>1. /\ state \in {"SENDING_SMS_4", "SENDING_SMS_5"}
            /\ \/ send_cmd_ctrlz("BODY^Z", "SENDING_SMS_5")
               \/ \E next \in {"SENDING_SMS_3", "CHECK_SMS", state} : \E again, e :
                    Goto(next, again, e)
        BY <2>5 DEF SendBody, PartSent, KeepWaiting
      <3>2. /\ state' \in {"SENDING_SMS_3", "SENDING_SMS_4", "SENDING_SMS_5", "CHECK_SMS"}
            /\ \A d : Writes(d) => d = "BODY^Z"
        BY <3>1, SendsOn, GoesTo
      <3> QED BY <2>1, <3>1, <3>2
    <2> QED BY <1>5, <2>2, <2>3, <2>4, <2>5 DEF InSending
  <1> QED BY <1>1, <1>2, <1>3, <1>4, <1>5

LEMMA ReadsSomehow ==
  ASSUME NEW l, Rx(l)
  PROVE  Passes(l) \/ Fails(l) \/ Waits(l) \/ Starts(l) \/ GoesOn
  <1>1. CASE Notification(l)
    BY <1>1, PassesBy
  <1>2. CASE Solicited(l) /\ AckFails(l)
    BY <1>2 DEF Solicited, AckFails, Fails, Silent, data, sim, net
  <1>3. CASE Solicited(l) /\ Dispatch(l)
    <2>1. (expect_ack => l.k = "OK") /\ l.k # "ATREADY" /\ (l.k = "CPIN" => ~init_done)
      BY <1>3 DEF Dispatch, Solicited
    <2>2. CASE InWaitState(l)
      BY <2>1, <2>2 DEF InWaitState, Waits, Goto, Acknowledged, Silent, sim, net
    <2>3. CASE InInit(l)
      BY <2>1, <2>3 DEF InInit, Starts, Goto, Acknowledged, Silent, NextCmd, NextCmdAck,
         send_cmd, send_cmd_ack, net
    <2> QED BY <1>3, <2>2, <2>3, FlowGoesOn DEF Dispatch
  <1> QED BY <1>1, <1>2, <1>3 DEF Rx, parse_cmd_

LEMMA RxOrderly ==
  ASSUME LinkOK, Inv, StartUp, up # <<>>, Rx(Head(up))
  PROVE  /\ Orderly /\ ~Writes("AT+CPIN=")
         /\ pin_required' => pin_required \/ Head(up) = NotReady
  <1> DEFINE l == Head(up)
  <1>1. l \in Line /\ (l.k = "CREG" => init_done)
    <2>1. l \in Line
      BY HeadTail DEF LinkOK
    <2>2. l.k = "CREG" => ~None(up, Network)
      BY <2>1, NoneTail DEF LinkOK, Network
    <2> QED BY <2>1, <2>2 DEF StartUp
  <1> HIDE DEF l
  <1>2. CASE Passes(l)
    <2>1. l.k = "CPIN" /\ ~l.ready => l = NotReady
      BY <1>1, SimLines
    <2>2. pin_required' => pin_required \/ l = NotReady
      BY <1>2, <2>1 DEF Passes
    <2>3. Orderly /\ ~Writes("AT+CPIN=")
      BY <1>1, <1>2, WritesNothing DEF Passes, StartUp, Orderly, Starting
    <2> QED BY <2>2, <2>3 DEF l
  <1>3. CASE Fails(l)
    BY <1>3, WritesNothing DEF Fails, StartUp, Orderly, Starting
  <1>4. CASE Waits(l)
    BY <1>4, WritesNothing DEF Waits, StartUp, Orderly, Starting
  <1>5. CASE Starts(l)
    <2>1. CASE state = "INIT"
      <3>1. Write(<<"AT+CGMM">>, "MODEM_DETECT") /\ init_done' /\ pin_required' = pin_required
        BY <1>5, <2>1 DEF Starts
      <3> QED BY <2>1, <3>1, WritesOne DEF StartUp, Orderly, Starting
    <2>2. CASE state = "MODEM_DETECT"
      BY <1>5, <2>2, WritesNothing DEF Starts, StartUp, Orderly, Starting
    <2>3. CASE state = "INIT2"
      <3>1. /\ Write(<<"AT+CPIN?">>, "PIN_WAIT") /\ init_done' = init_done
            /\ pin_required' = pin_required
        BY <1>5, <2>3 DEF Starts
      <3> QED BY <2>3, <3>1, WritesOne DEF StartUp, Orderly, Starting
    <2> QED BY <1>5, <2>1, <2>2, <2>3 DEF Starts
  <1>6. CASE GoesOn
    BY <1>6 DEF GoesOn, StartUp, Orderly, Starting
  <1> QED BY <1>2, <1>3, <1>4, <1>5, <1>6, ReadsSomehow DEF l

DriverSteps == DriverReads \/ DriverWrites \/ DriverPolls \/ DriverTimesOut \/ DriverAsked

LEMMA DriverOrderly ==
  ASSUME LinkOK, Inv, StartUp, DriverSteps
  PROVE  /\ Orderly
         /\ pin_required' => pin_required \/ (/\ up # <<>> /\ Head(up) = NotReady
                                              /\ up' = Tail(up))
         /\ Writes("AT+CPIN=") => up = <<>>
  <1>1. CASE DriverReads
    <2>1. up # <<>> /\ up' = Tail(up) /\ Rx(Head(up))
      BY <1>1 DEF DriverReads
    <2> QED BY <2>1, RxOrderly
  <1>2. CASE DriverWrites
    <2>1. up = <<>> /\ Loop
      BY <1>2 DEF DriverWrites, Driver
    <2> QED BY <2>1, LoopOrderly, LoopWrites
  <1>3. CASE DriverPolls \/ DriverTimesOut
    <2>1. Timers
      BY <1>3 DEF DriverPolls, DriverTimesOut, Driver, Timers
    <2>2. Orderly /\ pin_required' = pin_required
      BY <2>1, TimersOrderly
    <2> QED BY <2>2 DEF Orderly
  <1>4. CASE DriverAsked
    <2>1. Requests
      BY <1>4 DEF DriverAsked
    <2> QED BY <2>1, RequestsOrderly, WritesNothing
  <1> QED BY <1>1, <1>2, <1>3, <1>4 DEF DriverSteps

LEMMA WritesNoneOf ==
  ASSUME NEW c, ~Writes(c)
  PROVE  None(Written, {o \in Order : o.c = c})
  <1> SUFFICES ASSUME NEW i \in DOMAIN Written, Written[i].c = c PROVE FALSE
    BY DEF None
  <1>1. i \in DOMAIN tx' /\ Written[i].c = tx'[i]
    BY DEF Written
  <1> QED BY <1>1 DEF Writes

LEMMA WrittenOne ==
  ASSUME Inv, Inv', NEW c, tx' = <<c>>
  PROVE  \E o \in Order : o.c = c /\ Written = <<o>>
  <1> DEFINE o == [c |-> c, arg |-> Arg(c)]
  <1>1. Written \in Seq(Order)
    BY WrittenType
  <1>2. Len(Written) = 1 /\ Written[1] = o
    BY <1>1 DEF Written
  <1>3. o.c = c
    OBVIOUS
  <1> HIDE DEF o
  <1>4. Written = <<o>> /\ o \in Order
    BY <1>1, <1>2
  <1> QED BY <1>3, <1>4

LEMMA WrittenEmpty ==
  ASSUME LinkOK, tx' = <<>>
  PROVE  Written = <<>> /\ down \o Written = down
  <1>1. Written = <<>>
    BY DEF Written
  <1> QED BY <1>1 DEF LinkOK

\* What is under way when the driver has written the command c, or has not.
LEMMA DownGrows ==
  ASSUME LinkOK, Inv, Inv', down' = down \o Written, NEW c
  PROVE  LET M == {o \in Order : o.c = c} IN
         /\ ~Writes(c) => /\ None(down, M) => None(down', M)
                          /\ Single(down, M) => Single(down', M)
         /\ tx' = <<c>> /\ None(down, M) => Single(down', M)
  <1> DEFINE M == {o \in Order : o.c = c}
  <1>1. down \in Seq(Order) /\ Written \in Seq(Order)
    BY WrittenType DEF LinkOK
  <1>2. ASSUME ~Writes(c)
        PROVE  /\ None(down, M) => None(down', M)
               /\ Single(down, M) => Single(down', M)
    <2>1. None(Written, M)
      BY <1>2, WritesNoneOf
    <2> HIDE DEF M
    <2> QED BY <1>1, <2>1, NoneConcat, SingleFirst
  <1>3. ASSUME tx' = <<c>>, None(down, M)
        PROVE  Single(down', M)
    <2>1. PICK o \in Order : o.c = c /\ Written = <<o>>
      BY <1>3, WrittenOne
    <2>2. o \in M
      BY <2>1
    <2> HIDE DEF M
    <2>3. Single(Written, M)
      BY <2>1, <2>2, Lonely
    <2> QED BY <1>1, <1>3, <2>3, SingleSecond
  <1> QED BY <1>2, <1>3

LEMMA UpRead ==
  ASSUME LinkOK, up' = up \/ (up # <<>> /\ up' = Tail(up)), NEW M
  PROVE  None(up, M) => None(up', M)
  <1>1. up # <<>> /\ None(up, M) => None(Tail(up), M)
    BY NoneTail DEF LinkOK
  <1> QED BY <1>1

LEMMA DriverTells ==
  ASSUME LinkOK, Inv, Inv', StartUp, SimTells, Lockstep, DriverSteps
  PROVE  StartUp' /\ SimTells'
  <1>1. /\ Orderly
        /\ pin_required' => pin_required \/ (/\ up # <<>> /\ Head(up) = NotReady
                                             /\ up' = Tail(up))
        /\ Writes("AT+CPIN=") => up = <<>>
    BY DriverOrderly
  <1>2. /\ down' = down \o Written /\ UNCHANGED <<call, sim_state>>
        /\ up' = up \/ (up # <<>> /\ up' = Tail(up))
    BY DriverShares DEF DriverSteps, DriverReads, DriverWrites, DriverPolls, DriverTimesOut,
       DriverAsked, Driver, modem, phone
  <1>3. \A M : None(up, M) => None(up', M)
    BY <1>2, UpRead
  <1>4. /\ ~Writes("AT+CPIN?") => /\ None(down, Asking) => None(down', Asking)
                                  /\ Single(down, Asking) => Single(down', Asking)
        /\ tx' = <<"AT+CPIN?">> /\ None(down, Asking) => Single(down', Asking)
    BY <1>2, DownGrows DEF Asking
  <1>5. /\ ~Writes("AT+CPIN=") => /\ None(down, Entering) => None(down', Entering)
                                  /\ Single(down, Entering) => Single(down', Entering)
        /\ tx' = <<"AT+CPIN=">> /\ None(down, Entering) => Single(down', Entering)
    BY <1>2, DownGrows DEF Entering
  <1>6. ~Writes("AT+CREG?") /\ None(down, Polling) => None(down', Polling)
    BY <1>2, DownGrows DEF Polling
  <1>7. tx' = <<"AT+CPIN=">> => ~Writes("AT+CPIN?")
    <2>1. tx' = <<"AT+CPIN=">> => DOMAIN tx' = {1} /\ tx'[1] = "AT+CPIN="
      OBVIOUS
    <2> QED BY <2>1 DEF Writes
  <1>8. StartUp'
    BY <1>1, <1>3, <1>4, <1>5, <1>6 DEF StartUp, Orderly, Starting
  <1>9. pin_required' => pin_required \/ ~None(up, {NotReady})
    BY <1>1, NoneTail DEF LinkOK
  <1>10. ~init_done' => None(up', {NotReady}) \/ One(up', {NotReady}, NotReady)
    <2>1. One(up, {NotReady}, NotReady) => None(up', {NotReady}) \/ One(up', {NotReady}, NotReady)
      <3>1. up # <<>> /\ One(up, {NotReady}, NotReady)
              => None(Tail(up), {NotReady}) \/ One(Tail(up), {NotReady}, NotReady)
        BY OneTail DEF LinkOK
      <3> QED BY <1>2, <3>1
    <2> QED BY <1>1, <1>3, <2>1 DEF SimTells, Orderly
  <1>11. None(down', Asking) \/ Single(down', Asking)
    BY <1>1, <1>4 DEF SimTells, StartUp, Orderly
  <1>12. CASE Writes("AT+CPIN=")
    <2>1. /\ tx' = <<"AT+CPIN=">> /\ pin_required /\ ~pin_required' /\ ~expect_ack
          /\ state = "PIN_WAIT" /\ up = <<>>
      BY <1>1, <1>12 DEF Orderly
    <2>2. None(down, Asking)
      BY <2>1 DEF Lockstep, EarlyReport, Paired
    <2>3. None(down, Entering)
      BY <2>1 DEF SimTells
    <2>4. None(up', {NotReady})
      BY <1>3, <2>1, NoneEmpty
    <2>5. None(down', Asking) /\ Single(down', Entering)
      BY <1>4, <1>5, <1>7, <2>1, <2>2, <2>3
    <2>6. sim_state = "locked"
      BY <2>1 DEF SimTells
    <2> QED BY <1>2, <1>3, <1>8, <1>10, <1>11, <2>1, <2>4, <2>5, <2>6 DEF SimTells
  <1>13. CASE ~Writes("AT+CPIN=")
    <2>1. /\ None(down, Entering) => None(down', Entering)
          /\ Single(down, Entering) => Single(down', Entering)
      BY <1>5, <1>13
    <2>2. ~None(down, Entering) => ~Writes("AT+CPIN?")
      BY <1>1 DEF StartUp, Orderly
    <2> QED BY <1>2, <1>3, <1>4, <1>8, <1>9, <1>10, <1>11, <2>1, <2>2 DEF SimTells
  <1> QED BY <1>12, <1>13

-----------------------------------------------------------------------------
(* In step with the modem. *)

\* The driver is in the start-up, or waits for the answer to AT+CPIN?.
Watched == \/ ~init_done \/ state \in {"MODEM_DETECT", "INIT2"}
           \/ state = "PIN_WAIT" /\ ~None(down, Asking)

LEMMA Unwatched ==
  ASSUME ~Watched'
  PROVE  Paired'
  BY DEF Watched, Paired

LEMMA AskingAnswered == \A q : None(q, Answered) => None(q, Asking)
  BY DEF None, Answered, Asking

\* Answers are neither sent nor read, and no command is written.
LEMMA Kept ==
  ASSUME Paired, UNCHANGED <<state, expect_ack, init_done>>,
         None(up, Answers) => None(up', Answers),
         One(up, Answers, Okay) => One(up', Answers, Okay),
         TwoLines(up) => TwoLines(up'),
         None(down, Asking) => None(down', Asking),
         \/ None(down', Answered)
         \/ /\ None(down, Answered) => None(down', Answered)
            /\ \A o : One(down, Answered, o) => One(down', Answered, o)
  PROVE  Paired'
  <1>1. NothingDue => NothingDue'
    BY NoneMeans DEF NothingDue
  <1>2. ASSUME NEW cs, Due(cs) PROVE Due(cs)'
    BY <1>1, <1>2 DEF Due, NothingDue
  <1>3. ModelDue => ModelDue'
    BY <1>1 DEF ModelDue, NothingDue
  <1>4. ASSUME ~None(down', Asking), Single(down, Answered) PROVE Single(down', Answered)
    BY <1>4, AskingAnswered DEF Single
  <1> QED BY <1>1, <1>2, <1>3, <1>4 DEF Paired

LEMMA OkayOnly ==
  ASSUME NEW l \in Line, l.k = "OK"
  PROVE  l = Okay
  BY DEF Line, Okay

\* The answer that is read in the start-up is the one that is due.
LEMMA HeadDue ==
  ASSUME LinkOK, StartUp, Paired, Watched, up # <<>>, Head(up) \in Answers
  PROVE  /\ state # "PIN_WAIT" /\ None(down, Answered)
         /\ IF state = "MODEM_DETECT"
            THEN Head(up) = Detected /\ One(Tail(up), Answers, Okay)
            ELSE Head(up) = Okay /\ None(Tail(up), Answers)
  <1>1. up \in Seq(Line) /\ ~None(up, Answers)
    BY NoneTail DEF LinkOK
  <1>2. ASSUME One(up, Answers, Okay)
        PROVE  Head(up) = Okay /\ None(Tail(up), Answers)
    BY <1>1, <1>2, OneTail
  <1>3. CASE ~init_done
    <2>1. Due({"ATE0", "USER"}) /\ state \in {"IDLE", "MODEM_WAIT", "INIT"}
      BY <1>3 DEF Paired, StartUp
    <2>2. One(up, Answers, Okay) /\ None(down, Answered)
      BY <1>1, <2>1 DEF Due, NothingDue
    <2> QED BY <1>2, <2>1, <2>2
  <1>4. CASE state = "INIT2"
    <2>1. One(up, Answers, Okay) /\ None(down, Answered)
      BY <1>1, <1>4 DEF Due, NothingDue, Paired
    <2> QED BY <1>2, <1>4, <2>1
  <1>5. CASE state = "MODEM_DETECT"
    <2>1. TwoLines(up) /\ None(down, Answered)
      BY <1>1, <1>5 DEF ModelDue, NothingDue, Paired
    <2>2. Head(up) = Detected
      <3>1. PICK i \in DOMAIN up, j \in DOMAIN up :
              /\ i < j /\ up[i] = Detected /\ up[j] = Okay
              /\ \A n \in DOMAIN up : up[n] \in Answers => n \in {i, j}
        BY <2>1 DEF TwoLines
      <3>2. 1 \in DOMAIN up /\ up[1] = Head(up) /\ 1 \in {i, j}
        BY <1>1, <3>1, HeadTail
      <3>3. 1 = i
        BY <1>1, <3>1, <3>2
      <3> QED BY <3>1, <3>2, <3>3
    <2>3. One(Tail(up), Answers, Okay)
      BY <1>1, <2>1, TwoTail
    <2> QED BY <1>5, <2>1, <2>2, <2>3
  <1>6. CASE state = "PIN_WAIT" /\ ~None(down, Asking)
    BY <1>1, <1>6 DEF Paired
  <1> QED BY <1>3, <1>4, <1>5, <1>6 DEF Watched

\* A line that answers nothing is read.
LEMMA TailKept ==
  ASSUME LinkOK, up # <<>>, Head(up) \notin Answers, up' = Tail(up)
  PROVE  /\ None(up, Answers) => None(up', Answers)
         /\ One(up, Answers, Okay) => One(up', Answers, Okay)
         /\ TwoLines(up) => TwoLines(up')
  <1>1. up \in Seq(Line)
    BY DEF LinkOK
  <1>2. None(up, Answers) => None(Tail(up), Answers)
    BY <1>1, NoneTail
  <1>3. One(up, Answers, Okay) => One(Tail(up), Answers, Okay)
    BY <1>1, OneTail
  <1>4. TwoLines(up) => TwoLines(Tail(up))
    BY <1>1, TwoTail
  <1> QED BY <1>2, <1>3, <1>4

\* A command is written after which an answer is due.
LEMMA CommandDue ==
  ASSUME LinkOK, Inv, Inv', down' = down \o Written, NEW c, c # "^Z", tx' = <<c>>,
         None(down, Answered)
  PROVE  \E o \in Answered : o.c = c /\ One(down', Answered, o)
  <1>1. PICK o \in Order : o.c = c /\ Written = <<o>>
    BY WrittenOne
  <1>2. o \in Answered
    BY <1>1 DEF Answered
  <1>3. One(Written, Answered, o)
    BY <1>1, <1>2, Lonely
  <1>4. One(down', Answered, o)
    BY <1>3, WrittenType, OneSecond DEF LinkOK
  <1> QED BY <1>1, <1>2, <1>4

LEMMA ReadsPaired ==
  ASSUME LinkOK, Inv, Inv', StartUp, SimTells, Paired, EarlyReport, EarlyReport', DriverReads
  PROVE  Paired'
  <1> DEFINE l == Head(up)
  <1>1. /\ up # <<>> /\ up' = Tail(up) /\ Rx(l) /\ down' = down \o Written
        /\ sim_state' = sim_state
    BY DEF DriverReads, Transmit, Written, modem, phone
  <1>2. l \in Line /\ l.k # "CPIN" /\ l.k # "ATREADY" => l \in Answers
    BY DEF Answers
  <1>3. l \in Line
    BY <1>1, HeadTail DEF LinkOK
  <1>4. l = Okay => l.k = "OK"
    BY DEF Okay
  <1>5. l = Detected => l.k = "OTHER"
    BY DEF Detected
  <1>6. Watched /\ l \in Answers
          => /\ state # "PIN_WAIT" /\ None(down, Answered)
             /\ IF state = "MODEM_DETECT"
                THEN l = Detected /\ One(up', Answers, Okay)
                ELSE l = Okay /\ None(up', Answers)
    BY <1>1, HeadDue
  <1>7. l \notin Answers => /\ None(up, Answers) => None(up', Answers)
                            /\ One(up, Answers, Okay) => One(up', Answers, Okay)
                            /\ TwoLines(up) => TwoLines(up')
    BY <1>1, TailKept
  <1>8. tx' = <<>> => down' = down
    BY <1>1, WrittenEmpty
  <1> HIDE DEF l
  <1>9. CASE Passes(l)
    <2>1. UNCHANGED <<state, expect_ack, init_done, down>> /\ l.k \notin {"OK", "OTHER"}
      BY <1>8, <1>9 DEF Passes
    <2>2. CASE ~Watched
      <3>1. ~Watched'
        BY <2>1, <2>2 DEF Watched
      <3> QED BY <3>1, Unwatched
    <2>3. CASE Watched
      <3>1. l \notin Answers
        BY <1>4, <1>5, <1>6, <2>1, <2>3
      <3> QED BY <1>7, <2>1, <3>1, Kept
    <2> QED BY <2>2, <2>3
  <1>10. CASE Fails(l)
    <2>1. /\ expect_ack /\ l.k \notin {"OK", "ATREADY"} /\ (l.k = "CPIN" => ~init_done)
          /\ state' = IF l.k = "CMEERROR" THEN state ELSE "IDLE"
          /\ UNCHANGED <<init_done, pin_required, down>>
      BY <1>8, <1>10 DEF Fails
    <2>2. CASE ~init_done
      <3>1. l \notin Answers
        BY <1>4, <1>5, <1>6, <2>1, <2>2 DEF Watched, StartUp
      <3>2. l.k = "CPIN"
        BY <1>2, <1>3, <2>1, <3>1
      <3>3. l = NotReady \/ l = ReadyNow
        BY <1>3, <3>2, SimLines
      <3>4. CASE l = NotReady
        <4>1. ~None(up, {NotReady})
          BY <1>1, <3>4, NoneTail DEF LinkOK, l
        <4>2. One(up, {NotReady}, NotReady) /\ sim_state = "locked" /\ ~pin_required
          BY <2>2, <4>1 DEF SimTells, StartUp
        <4>3. None(up', {NotReady})
          BY <1>1, <3>4, <4>2, OneTail DEF LinkOK, l
        <4> QED BY <1>1, <2>1, <4>2, <4>3 DEF EarlyReport
      <3>5. CASE l = ReadyNow
        <4>1. ~None(up, {ReadyNow})
          BY <1>1, <3>5, NoneTail DEF LinkOK, l
        <4>2. sim_state = "ready"
          BY <4>1 DEF SimTells
        <4> QED BY <4>2 DEF EarlyReport, SimTells
      <3> QED BY <3>3, <3>4, <3>5
    <2>3. CASE init_done
      <3>1. l \in Answers
        BY <1>2, <1>3, <2>1, <2>3
      <3>2. state # "MODEM_DETECT"
        BY <2>1 DEF Inv, AckDiscipline, DataStates
      <3>3. ~Watched
        BY <1>4, <1>6, <2>1, <3>1, <3>2
      <3>4. ~Watched'
        BY <2>1, <2>3, <3>3 DEF Watched
      <3> QED BY <3>4, Unwatched
    <2> QED BY <2>2, <2>3
  <1>11. CASE Waits(l)
    <2>1. /\ state \in {"IDLE", "MODEM_WAIT", "REG_WAIT", "PIN_WAIT"}
          /\ expect_ack => l.k = "OK"
          /\ UNCHANGED <<state, init_done, down>>
      BY <1>8, <1>11 DEF Waits
    <2>2. CASE ~init_done
      <3>1. state \in {"IDLE", "MODEM_WAIT"}
        BY <2>1, <2>2 DEF StartUp
      <3>2. NothingDue'
        <4>1. CASE expect_ack
          <5>1. l \in Answers
            BY <1>2, <1>3, <2>1, <4>1
          <5> QED BY <1>6, <2>1, <2>2, <3>1, <5>1 DEF Watched, NothingDue
        <4>2. CASE ~expect_ack
          <5>1. NothingDue
            BY <2>2, <4>2 DEF Paired
          <5>2. None(Tail(up), Answers)
            BY <1>1, <5>1, NoneTail DEF LinkOK, NothingDue
          <5> QED BY <1>1, <2>1, <5>1, <5>2 DEF NothingDue
        <4> QED BY <4>1, <4>2
      <3> QED BY <2>1, <2>2, <3>1, <3>2 DEF Paired, Due
    <2>3. CASE init_done
      <3>1. ~Watched
        <4>1. Watched => expect_ack /\ state = "PIN_WAIT"
          BY <2>1, <2>3 DEF Watched, Paired
        <4>2. expect_ack => l \in Answers
          BY <1>2, <1>3, <2>1
        <4> QED BY <1>6, <4>1, <4>2
      <3>2. ~Watched'
        BY <2>1, <3>1 DEF Watched
      <3> QED BY <3>2, Unwatched
    <2> QED BY <2>2, <2>3
  <1>12. CASE Starts(l)
    <2>1. /\ expect_ack => l.k = "OK"
          /\ l.k # "ATREADY" /\ (l.k = "CPIN" => ~init_done)
      BY <1>12 DEF Starts
    <2>2. CASE state = "INIT"
      <3>1. ~init_done /\ expect_ack
        BY <2>2 DEF StartUp, Paired
      <3>2. l \in Answers
        BY <1>2, <1>3, <2>1, <3>1
      <3>3. None(down, Answered) /\ None(up', Answers)
        BY <1>6, <2>2, <3>1, <3>2 DEF Watched
      <3>4. Write(<<"AT+CGMM">>, "MODEM_DETECT") /\ init_done'
        BY <1>12, <2>2 DEF Starts
      <3>5. tx' = <<"AT+CGMM">> /\ state' = "MODEM_DETECT"
        BY <3>4 DEF Write
      <3>6. ModelDue'
        BY <1>1, <3>3, <3>5, CommandDue DEF ModelDue
      <3> QED BY <3>4, <3>5, <3>6 DEF Paired
    <2>3. CASE state = "MODEM_DETECT"
      <3>1. init_done /\ l \in Answers
        BY <1>2, <1>3, <2>1, <2>3 DEF StartUp
      <3>2. None(down, Answered) /\ One(up', Answers, Okay)
        BY <1>6, <2>3, <3>1 DEF Watched
      <3>3. init_done' /\ tx' = <<>> /\ state' = "INIT2"
        BY <1>12, <2>3, <3>1 DEF Starts
      <3>4. \A cs : Due(cs)'
        BY <1>8, <3>2, <3>3 DEF Due
      <3> QED BY <3>3, <3>4 DEF Paired
    <2>4. CASE state = "INIT2"
      <3>1. init_done /\ l \in Answers
        BY <1>2, <1>3, <2>1, <2>4 DEF StartUp
      <3>2. None(down, Answered) /\ None(up', Answers)
        BY <1>6, <2>4, <3>1 DEF Watched
      <3>3. init_done' /\ expect_ack' /\ Write(<<"AT+CPIN?">>, "PIN_WAIT")
        BY <1>12, <2>4, <3>1 DEF Starts
      <3>4. tx' = <<"AT+CPIN?">> /\ state' = "PIN_WAIT"
        BY <3>3 DEF Write
      <3>5. Single(down', Answered)
        BY <1>1, <3>2, <3>4, CommandDue DEF Single
      <3> QED BY <3>2, <3>3, <3>4, <3>5 DEF Paired
    <2> QED BY <1>12, <2>2, <2>3, <2>4 DEF Starts
  <1>13. CASE GoesOn
    <2>1. ~Watched'
      BY <1>13 DEF GoesOn, Watched, StartUp
    <2> QED BY <2>1, Unwatched
  <1> QED BY <1>1, <1>9, <1>10, <1>11, <1>12, <1>13, ReadsSomehow

LEMMA WritesPaired ==
  ASSUME LinkOK, Inv, Inv', StartUp, Paired, DriverWrites
  PROVE  Paired'
  <1>1. Loop /\ up' = up /\ down' = down \o Written
    BY DEF DriverWrites, Driver, Transmit, Written
  <1>2. ~expect_ack /\ UNCHANGED init_done
    BY <1>1, LoopWrites
  <1>3. CASE state' = "IDLE" /\ Write(<<"USER">>, "IDLE") /\ expect_ack'
    <2>1. CASE init_done
      <3>1. ~Watched'
        BY <1>2, <1>3, <2>1 DEF Watched
      <3> QED BY <3>1, Unwatched
    <2>2. CASE ~init_done
      <3>1. NothingDue
        BY <1>2, <2>2 DEF Paired
      <3>2. \E o \in Answered : o.c = "USER" /\ One(down', Answered, o)
        BY <1>1, <1>3, <3>1, CommandDue DEF Write, NothingDue
      <3>3. Due({"ATE0", "USER"})'
        BY <1>1, <3>1, <3>2 DEF Due, NothingDue
      <3> QED BY <1>3, <3>3 DEF Paired
    <2> QED BY <2>1, <2>2
  <1>4. CASE /\ state = "PIN_WAIT" /\ init_done
             /\ state' = "PIN_WAIT" /\ (tx' = <<>> \/ Write(<<"AT+CPIN=">>, "PIN_WAIT"))
    <2>1. None(down, Asking)
      BY <1>2, <1>4 DEF Paired
    <2>2. ~Writes("AT+CPIN?")
      BY <1>4, WritesNothing, WritesOne
    <2>3. None(down', Asking)
      BY <1>1, <2>1, <2>2, DownGrows DEF Asking
    <2>4. ~Watched'
      BY <1>2, <1>4, <2>3 DEF Watched
    <2> QED BY <2>4, Unwatched
  <1>5. CASE init_done /\ state' \notin {"INIT", "MODEM_DETECT", "INIT2", "PIN_WAIT"}
    <2>1. ~Watched'
      BY <1>2, <1>5 DEF Watched
    <2> QED BY <2>1, Unwatched
  <1> QED BY <1>1, <1>3, <1>4, <1>5, LoopWrites

LEMMA PollsPaired ==
  ASSUME LinkOK, Inv, Inv', StartUp, Paired, DriverPolls
  PROVE  Paired'
  <1>1. /\ Update /\ up' = up /\ down' = down \o Written
    BY DEF DriverPolls, Driver, Transmit, Written
  <1>2. ~expect_ack /\ UNCHANGED init_done
    BY <1>1 DEF Update, data, sim
  <1>3. CASE init_done
    <2>1. state' = "REG_WAIT"
      BY <1>1, <1>3 DEF Update, _periodic_check_, send_cmd_ack, Write
    <2>2. ~Watched'
      BY <1>2, <1>3, <2>1 DEF Watched
    <2> QED BY <2>2, Unwatched
  <1>4. CASE ~init_done
    <2>1. tx' = <<"ATE0">> /\ state' = "INIT" /\ expect_ack'
      BY <1>1, <1>4 DEF Update, _periodic_check_, send_cmd_ack, Write
    <2>2. NothingDue
      BY <1>2, <1>4 DEF Paired
    <2>3. \E o \in Answered : o.c = "ATE0" /\ One(down', Answered, o)
      BY <1>1, <2>1, <2>2, CommandDue DEF NothingDue
    <2>4. Due({"ATE0", "USER"})'
      BY <1>1, <2>2, <2>3 DEF Due, NothingDue
    <2> QED BY <2>1, <2>4 DEF Paired
  <1> QED BY <1>3, <1>4

LEMMA AskedPaired ==
  ASSUME LinkOK, StartUp, Paired, DriverAsked
  PROVE  Paired'
  <1>1. Requests /\ up' = up /\ down' = down \o Written
    BY DEF DriverAsked, Transmit, Written
  <1>2. UNCHANGED <<state, expect_ack, init_done, up, down>>
    BY <1>1, RequestsOrderly, WrittenEmpty
  <1> QED BY <1>2, Kept

\* A timer that is not early finds nothing under way, or the modem there.
LEMMA TimesOutPaired ==
  ASSUME LinkOK, Inv, Inv', StartUp, Paired, DriverTimesOut, late' = 0
  PROVE  Paired'
  <1>1. /\ LeaveModemWait \/ RxTimeout \/ IdleTimeout
        /\ up' = up /\ down' = down \o Written
    BY DEF DriverTimesOut, Driver, Transmit, Written
  <1>2. init_done' = init_done
    BY <1>1 DEF LeaveModemWait, RxTimeout, IdleTimeout, data, sim
  <1>3. CASE LeaveModemWait
    <2>1. state = "MODEM_WAIT" /\ state' = "IDLE" /\ expect_ack' = expect_ack /\ tx' = <<>>
      BY <1>3 DEF LeaveModemWait
    <2>2. down' = down
      BY <1>1, <2>1, WrittenEmpty
    <2>3. NothingDue => NothingDue'
      BY <1>1, <2>2 DEF NothingDue
    <2>4. Due({"ATE0", "USER"}) => Due({"ATE0", "USER"})'
      BY <1>1, <2>2 DEF Due, NothingDue
    <2> QED BY <1>2, <2>1, <2>3, <2>4 DEF Paired
  <1>4. CASE RxTimeout \/ IdleTimeout
    <2>1. ~AwaitingModem
      BY <1>4 DEF AwaitingModem, RxTimeout, IdleTimeout
    <2>2. Quiet
      BY <2>1 DEF DriverTimesOut, LinkOK
    <2>3. up = <<>> /\ down = <<>>
      BY <2>2, QuietLine
    <2>4. down' = Written
      BY <1>1, <2>3, WrittenType
    <2>5. tx' = <<>> \/ tx' = <<"^Z">>
      BY <1>4 DEF RxTimeout, IdleTimeout, Silent, send_cmd_ctrlz, Write
    <2>6. None(down', Answered)
      <3>1. CASE tx' = <<>>
        BY <2>4, <3>1, WrittenEmpty, NoneEmpty
      <3>2. CASE tx' = <<"^Z">>
        <4>1. PICK o \in Order : o.c = "^Z" /\ Written = <<o>>
          BY <3>2, WrittenOne
        <4> QED BY <2>4, <4>1, Lonely DEF Answered
      <3> QED BY <2>5, <3>1, <3>2
    <2>7. NothingDue' /\ \A cs : Due(cs)'
      BY <1>1, <2>3, <2>6, NoneEmpty DEF NothingDue, Due
    <2>8. ModelDue' /\ None(down', Asking)
      BY <2>6, <2>7, AskingAnswered DEF ModelDue, NothingDue
    <2>9. state' = "INIT" => state = "INIT" /\ expect_ack' = expect_ack
      BY <1>4 DEF RxTimeout, IdleTimeout, send_cmd_ctrlz, Write
    <2>10. state' = "INIT" => expect_ack'
      BY <2>9 DEF Paired, StartUp
    <2> QED BY <2>7, <2>8, <2>10 DEF Paired
  <1> QED BY <1>1, <1>3, <1>4

LEMMA DriverKeepsStep ==
  ASSUME LinkOK, Inv, Inv', StartUp, SimTells, Lockstep, DriverSteps, late' = 0
  PROVE  Lockstep'
  <1> SUFFICES ASSUME EarlyReport' PROVE Paired'
    BY DEF Lockstep
  <1>1. EarlyReport
    <2>1. /\ sim_state' = sim_state /\ (None(up, {NotReady}) => None(up', {NotReady}))
      <3>1. up' = up \/ (up # <<>> /\ up' = Tail(up))
        BY DriverShares DEF DriverSteps
      <3>2. sim_state' = sim_state
        BY DEF DriverSteps, DriverReads, DriverWrites, DriverPolls, DriverTimesOut,
           DriverAsked, Driver, modem, phone
      <3> QED BY <3>1, <3>2, UpRead
    <2>2. pin_required' => pin_required \/ ~None(up, {NotReady})
      BY DriverOrderly, NoneTail DEF LinkOK
    <2> QED BY <2>1, <2>2 DEF EarlyReport
  <1>2. Paired
    BY <1>1 DEF Lockstep
  <1> QED BY <1>1, <1>2, ReadsPaired, WritesPaired, PollsPaired, AskedPaired, TimesOutPaired
       DEF DriverSteps

-----------------------------------------------------------------------------
(* The modem answers. *)

\* What the replies tell of the SIM and the network.
LEMMA ReplyTelling ==
  ASSUME LinkOK, NEW c
  PROVE  /\ c \notin {"AT+CPIN?", "AT+CREG?"} => None(Reply(c), Network)
         /\ ~(c = "AT+CPIN?" /\ sim_state = "locked") => None(Reply(c), {NotReady})
         /\ ~(c = "AT+CPIN?" /\ sim_state = "ready") => None(Reply(c), {ReadyNow})
  <1> DEFINE creg == [k |-> "CREG", n |-> 1, reg |-> sim_state = "ready"]
             fail == [k |-> "CMEERROR"]
  <1>1. /\ Taking \notin Network /\ Okay \notin Network
        /\ \A l \in {Taking, creg, fail} : l # NotReady /\ l # ReadyNow
    <2>1. Taking.k = "CMGS" /\ creg.k = "CREG" /\ fail.k = "CMEERROR"
      BY DEF Taking
    <2>2. NotReady.k = "CPIN" /\ ReadyNow.k = "CPIN" /\ Okay.k = "OK"
      BY DEF NotReady, ReadyNow, Okay
    <2> HIDE DEF creg, fail
    <2> QED BY <2>1, <2>2 DEF Network
  <1>2. CASE c \notin {"AT+CPIN?", "AT+CREG?", "BODY^Z"}
    <2>1. None(Reply(c), Telling)
      BY <1>2, ReplyPlain DEF Plain
    <2>2. NotReady \in Telling /\ ReadyNow \in Telling /\ Network \subseteq Telling
      BY KindsApart DEF Telling, Network, NotReady, ReadyNow
    <2> QED BY <2>1, <2>2 DEF None
  <1>3. CASE c = "BODY^Z"
    <2>1. Reply(c) = <<Taking, Okay>>
      BY <1>3, SaysTwo DEF Reply, Kinds, Taking, Okay
    <2>2. \A M : Taking \notin M /\ Okay \notin M => None(<<Taking, Okay>>, M)
      BY DEF None
    <2> QED BY <1>1, <1>3, <2>1, <2>2, KindsApart
  <1>4. CASE c = "AT+CREG?"
    <2>1. Reply(c) = <<creg, Okay>>
      BY <1>4, ReplyTells DEF Okay
    <2> HIDE DEF creg
    <2>2. \A M : creg \notin M /\ Okay \notin M => None(<<creg, Okay>>, M)
      BY DEF None
    <2> QED BY <1>1, <1>4, <2>1, <2>2, KindsApart
  <1>5. CASE c = "AT+CPIN?"
    <2>1. \/ Reply(c) = <<ReadyNow, Okay>> /\ sim_state = "ready"
          \/ Reply(c) = <<NotReady, Okay>> /\ sim_state = "locked"
          \/ Reply(c) = <<fail>>
      BY <1>5, ReplyTells DEF Okay, ReadyNow, NotReady
    <2> HIDE DEF fail
    <2>2. \A l : \A M : l \notin M /\ Okay \notin M => None(<<l, Okay>>, M)
      BY DEF None
    <2>3. \A M : fail \notin M => None(<<fail>>, M)
      BY Lonely
    <2> QED BY <1>1, <1>5, <2>1, <2>2, <2>3, KindsApart
  <1> QED BY <1>2, <1>3, <1>4, <1>5

LEMMA AnswersTell ==
  ASSUME LinkOK, StartUp, SimTells, ModemAnswers
  PROVE  StartUp' /\ SimTells'
  <1> DEFINE o == Head(down)
             c == o.c
  <1>1. /\ down # <<>> /\ down' = Tail(down) /\ up' = up \o Reply(c)
        /\ UNCHANGED <<state, init_done, registered, pin_required>>
        /\ call' = CallAfter(c)
        /\ sim_state' = IF c = "AT+CPIN=" /\ sim_state = "locked" THEN "unlocking" ELSE sim_state
    BY DEF ModemAnswers, vars, session, sim, net
  <1>2. down \in Seq(Order) /\ o \in Order /\ up \in Seq(Line) /\ Reply(c) \in Seq(Line)
    BY <1>1, HeadTail, ReplyType DEF LinkOK
  <1>3. /\ (c = "AT+CPIN?") = (o \in Asking) /\ (c = "AT+CPIN=") = (o \in Entering)
        /\ (c = "AT+CREG?") = (o \in Polling)
    BY <1>2 DEF Asking, Entering, Polling
  <1>4. \A M : None(up, M) /\ None(Reply(c), M) => None(up', M)
    BY <1>1, <1>2, NoneConcat
  <1>5. \A M : None(down, M) => o \notin M /\ None(down', M)
    BY <1>1, <1>2, NoneTail
  <1>6. \A M : Single(down, M) => IF o \in M THEN None(down', M) ELSE Single(down', M)
    BY <1>1, <1>2, SingleTail
  <1>7. /\ c \notin {"AT+CPIN?", "AT+CREG?"} => None(Reply(c), Network)
        /\ ~(c = "AT+CPIN?" /\ sim_state = "locked") => None(Reply(c), {NotReady})
        /\ ~(c = "AT+CPIN?" /\ sim_state = "ready") => None(Reply(c), {ReadyNow})
    BY ReplyTelling
  <1>8. One(up, {NotReady}, NotReady) /\ None(Reply(c), {NotReady})
          => One(up', {NotReady}, NotReady)
    BY <1>1, <1>2, OneFirst
  <1>9. call = "DISCONNECTED" => call' = "DISCONNECTED"
    BY <1>1 DEF CallAfter
  <1> HIDE DEF o, c
  <1>10. StartUp'
    BY <1>1, <1>3, <1>4, <1>5, <1>7 DEF StartUp, Starting
  <1>11. /\ sim_state' # "locked" => /\ ~pin_required' /\ None(up', {NotReady})
                                    /\ None(down', Entering)
    <2>1. CASE sim_state # "locked"
      BY <1>1, <1>4, <1>5, <1>7, <2>1 DEF SimTells
    <2>2. CASE sim_state = "locked" /\ c = "AT+CPIN="
      <3>1. o \in Entering /\ ~None(down, Entering)
        BY <1>3, <1>5, <2>2
      <3> QED BY <1>1, <1>4, <1>6, <1>7, <2>2, <3>1 DEF SimTells
    <2> QED BY <1>1, <2>1, <2>2
  <1>12. sim_state' # "ready" => call' = "DISCONNECTED" /\ None(up', {ReadyNow})
    BY <1>1, <1>4, <1>7, <1>9 DEF SimTells
  <1>13. ~init_done' => None(up', {NotReady}) \/ One(up', {NotReady}, NotReady)
    BY <1>1, <1>3, <1>4, <1>5, <1>7, <1>8 DEF SimTells, StartUp, Starting
  <1>14. None(down', Asking) \/ Single(down', Asking)
    BY <1>5, <1>6 DEF SimTells
  <1>15. \/ None(down', Entering)
         \/ /\ Single(down', Entering) /\ None(down', Asking)
            /\ None(up', {NotReady}) /\ ~pin_required'
    BY <1>1, <1>3, <1>4, <1>5, <1>6, <1>7 DEF SimTells
  <1> QED BY <1>10, <1>11, <1>12, <1>13, <1>14, <1>15 DEF SimTells

\* The replies that matter in the start-up.
LEMMA StartReplies ==
  /\ Reply("ATE0") = <<Okay>> /\ Reply("USER") = <<Okay>> /\ Reply("^Z") = <<>>
  /\ Reply("AT+CGMM") = <<Detected, Okay>>
  BY Says, SaysTwo DEF Reply, OK, Kinds, Okay, Detected

LEMMA AnswersPaired ==
  ASSUME LinkOK, StartUp, SimTells, Lockstep, ModemAnswers
  PROVE  Lockstep'
  <1> SUFFICES ASSUME EarlyReport' PROVE Paired'
    BY DEF Lockstep
  <1> DEFINE o == Head(down)
             c == o.c
  <1>1. /\ down # <<>> /\ down' = Tail(down) /\ up' = up \o Reply(c)
        /\ UNCHANGED <<state, expect_ack, init_done, pin_required>>
        /\ sim_state' = IF c = "AT+CPIN=" /\ sim_state = "locked" THEN "unlocking" ELSE sim_state
    BY DEF ModemAnswers, vars, session, sim
  <1>2. down \in Seq(Order) /\ o \in Order /\ up \in Seq(Line) /\ Reply(c) \in Seq(Line)
    BY <1>1, HeadTail, ReplyType DEF LinkOK
  <1>3. (c = "AT+CPIN?") = (o \in Asking) /\ (c # "^Z") = (o \in Answered)
    BY <1>2 DEF Asking, Answered
  <1>4. \A M : None(down, M) => o \notin M /\ None(down', M)
    BY <1>1, <1>2, NoneTail
  <1>5. \A M : Single(down, M) => IF o \in M THEN None(down', M) ELSE Single(down', M)
    BY <1>1, <1>2, SingleTail
  <1>6. \A p : One(down, Answered, p) => IF o \in Answered THEN o = p /\ None(down', Answered)
                                                           ELSE One(down', Answered, p)
    BY <1>1, <1>2, OneTail
  <1>7. c # "AT+CPIN?" => EarlyReport
    <2>1. c # "AT+CPIN?" /\ None(up, {NotReady}) => None(up', {NotReady})
      BY <1>1, <1>2, ReplyTelling, NoneConcat
    <2> QED BY <1>1, <2>1 DEF EarlyReport
  <1>8. /\ c \in {"ATE0", "USER"} => Reply(c) = <<Okay>>
        /\ c = "^Z" => Reply(c) = <<>>
        /\ c = "AT+CGMM" => Reply(c) = <<Detected, Okay>>
    BY StartReplies
  <1> HIDE DEF o, c
  <1>9. CASE c = "AT+CPIN?"
    <2>1. o \in Asking /\ ~None(down, Asking)
      BY <1>3, <1>4, <1>9
    <2>2. None(down', Asking)
      BY <1>5, <2>1 DEF SimTells
    <2>3. ~Starting
      BY <2>1 DEF StartUp
    <2>4. ~Watched'
      BY <1>1, <2>2, <2>3 DEF Starting, Watched
    <2> QED BY <2>4, Unwatched
  <1>10. CASE c = "^Z"
    <2>1. Paired /\ o \notin Answered
      BY <1>3, <1>7, <1>10 DEF Lockstep
    <2>2. up' = up
      BY <1>1, <1>2, <1>8, <1>10
    <2> QED BY <1>1, <1>4, <1>6, <2>1, <2>2, Kept
  <1>11. CASE c \notin {"AT+CPIN?", "^Z"}
    <2>1. Paired /\ o \in Answered /\ ~None(down, Answered)
      BY <1>3, <1>4, <1>7, <1>11 DEF Lockstep
    <2>2. ~None(down', Asking) => ~(state = "PIN_WAIT")
      <3>1. ~None(down', Asking) => ~None(down, Asking) /\ ~None(down', Answered)
        BY <1>4, AskingAnswered
      <3>2. Single(down, Answered) => None(down', Answered)
        BY <1>5, <2>1
      <3> QED BY <2>1, <3>1, <3>2 DEF Paired
    <2>3. state # "INIT2"
      BY <2>1 DEF Paired, Due, NothingDue
    <2>4. CASE ~init_done
      <3>1. /\ None(up, Answers) /\ c \in {"ATE0", "USER"} /\ None(down', Answered)
            /\ expect_ack
        <4>1. Due({"ATE0", "USER"}) /\ expect_ack
          BY <2>1, <2>4 DEF Paired, NothingDue
        <4>2. /\ None(up, Answers)
              /\ \E p \in Answered : p.c \in {"ATE0", "USER"} /\ One(down, Answered, p)
          BY <2>1, <4>1 DEF Due, NothingDue
        <4> QED BY <1>6, <2>1, <4>1, <4>2 DEF c
      <3>2. One(up', Answers, Okay)
        <4>1. One(<<Okay>>, Answers, Okay) /\ <<Okay>> \in Seq(Line)
          BY KindsApart, Lonely DEF Answers
        <4>2. up' = up \o <<Okay>>
          BY <1>1, <1>8, <3>1
        <4> QED BY <1>2, <3>1, <4>1, <4>2, OneSecond
      <3>3. Due({"ATE0", "USER"})'
        BY <3>1, <3>2 DEF Due
      <3>4. state \in {"IDLE", "MODEM_WAIT", "INIT"}
        BY <2>4 DEF StartUp
      <3> QED BY <1>1, <3>1, <3>3, <3>4 DEF Paired
    <2>5. CASE state = "MODEM_DETECT"
      <3>1. None(up, Answers) /\ c = "AT+CGMM" /\ None(down', Answered)
        <4>1. ModelDue
          BY <2>1, <2>5 DEF Paired
        <4>2. /\ None(up, Answers)
              /\ \E p \in Answered : p.c = "AT+CGMM" /\ One(down, Answered, p)
          BY <2>1, <4>1 DEF ModelDue, NothingDue
        <4> QED BY <1>6, <2>1, <4>2 DEF c
      <3>2. TwoLines(up')
        <4>1. up' = up \o <<Detected, Okay>>
          BY <1>1, <1>8, <3>1
        <4> QED BY <1>2, <3>1, <4>1, TwoSecond
      <3>3. ModelDue'
        BY <3>1, <3>2 DEF ModelDue
      <3>4. init_done
        BY <2>5 DEF StartUp
      <3> QED BY <1>1, <2>5, <3>3, <3>4 DEF Paired
    <2>6. CASE init_done /\ state # "MODEM_DETECT"
      <3>1. ~Watched'
        BY <1>1, <2>2, <2>3, <2>6 DEF Watched
      <3> QED BY <3>1, Unwatched
    <2> QED BY <2>4, <2>5, <2>6
  <1> QED BY <1>9, <1>10, <1>11

-----------------------------------------------------------------------------
(* The world, and the theorem. *)

\* The modem says one line of its own accord.
LEMMA Added ==
  ASSUME LinkOK, NEW l \in Line, up' = up \o <<l>>
  PROVE  /\ \A M : None(up, M) /\ l \notin M => None(up', M)
         /\ \A M : None(up, M) /\ l \in M => One(up', M, l)
         /\ l \notin Answers => /\ One(up, Answers, Okay) => One(up', Answers, Okay)
                                /\ TwoLines(up) => TwoLines(up')
  <1>1. up \in Seq(Line) /\ <<l>> \in Seq(Line)
    BY DEF LinkOK
  <1>2. \A M : None(up, M) /\ l \notin M => None(up', M)
    BY <1>1, Lonely, NoneConcat
  <1>3. \A M : None(up, M) /\ l \in M => One(up', M, l)
    BY <1>1, Lonely, OneSecond
  <1>4. ASSUME l \notin Answers
        PROVE  /\ One(up, Answers, Okay) => One(up', Answers, Okay)
               /\ TwoLines(up) => TwoLines(up')
    <2>1. None(<<l>>, Answers)
      BY <1>4, Lonely
    <2> QED BY <1>1, <2>1, OneFirst, TwoFirst
  <1> QED BY <1>2, <1>3, <1>4

LEMMA OffTells ==
  ASSUME LinkOK, StartUp, SimTells, Lockstep, ModemOff
  PROVE  StartUp' /\ SimTells' /\ Lockstep'
  <1>1. /\ UNCHANGED <<state, expect_ack, init_done, registered, pin_required, up, call,
                       sim_state>>
        /\ down' = <<>>
    BY DEF ModemOff, vars, session, sim, net, modem, phone
  <1>2. \A M : None(down', M)
    BY <1>1, NoneEmpty
  <1>3. StartUp'
    BY <1>1, <1>2 DEF StartUp, Starting
  <1>4. SimTells'
    BY <1>1, <1>2 DEF SimTells
  <1>5. Paired => Paired'
    BY <1>1, <1>2, Kept
  <1> QED BY <1>1, <1>3, <1>4, <1>5 DEF Lockstep, EarlyReport

LEMMA SwitchedTells ==
  ASSUME LinkOK, StartUp, SimTells, Lockstep, SwitchedOn
  PROVE  StartUp' /\ SimTells' /\ Lockstep'
  <1> DEFINE l == [k |-> "ATREADY"]
  <1>1. /\ UNCHANGED <<state, expect_ack, init_done, registered, pin_required, down, call,
                       sim_state>>
        /\ up' = up \o Say(<<"ATREADY">>)
    BY DEF SwitchedOn, vars, session, sim, net
  <1>2. l \in Line /\ up' = up \o <<l>>
    BY <1>1, TypeOfLines, Says DEF Kinds
  <1>3. l \notin Answers /\ l \notin Network /\ l # NotReady /\ l # ReadyNow
    BY KindsApart DEF Network, NotReady, ReadyNow
  <1> HIDE DEF l
  <1>4. \A M : None(up, M) /\ l \notin M => None(up', M)
    BY <1>2, Added
  <1>5. One(up, {NotReady}, NotReady) => One(up', {NotReady}, NotReady)
    <2>1. None(<<l>>, {NotReady}) /\ <<l>> \in Seq(Line)
      BY <1>2, <1>3, Lonely
    <2> QED BY <1>2, <2>1, OneFirst DEF LinkOK
  <1>6. StartUp'
    BY <1>1, <1>3, <1>4 DEF StartUp, Starting
  <1>7. SimTells'
    BY <1>1, <1>3, <1>4, <1>5 DEF SimTells
  <1>8. Paired => Paired'
    BY <1>1, <1>2, <1>3, Added, Kept
  <1>9. EarlyReport' => EarlyReport
    BY <1>1, <1>3, <1>4 DEF EarlyReport
  <1> QED BY <1>6, <1>7, <1>8, <1>9 DEF Lockstep

\* Messages and calls come when the SIM is ready, and the start-up is over or
\* its outcome does not matter any more.
LEMMA TrafficTells ==
  ASSUME LinkOK, StartUp, SimTells, Lockstep, MessageArrives \/ CallComesIn \/ CallEnds
  PROVE  StartUp' /\ SimTells' /\ Lockstep'
  <1>1. UNCHANGED <<state, expect_ack, init_done, registered, pin_required, down, sim_state>>
    BY DEF MessageArrives, CallComesIn, CallEnds, vars, session, sim, net, phone
  <1>2. sim_state = "ready"
    BY DEF MessageArrives, CallComesIn, CallEnds, SimTells
  <1>3. PICK l \in Line : up' = up \o <<l>> /\ l.k \in {"CMTI", "CLCC"}
    <2>1. CASE MessageArrives
      BY <2>1, TypeOfLines, Says DEF MessageArrives, Kinds
    <2>2. CASE CallComesIn
      BY <2>2, TypeOfLines DEF CallComesIn, CallLine, CallState
    <2>3. CASE CallEnds
      BY <2>3, TypeOfLines DEF CallEnds, CallLine, CallState
    <2> QED BY <2>1, <2>2, <2>3
  <1>4. l \notin Network /\ l # NotReady /\ l # ReadyNow
    BY <1>3 DEF Network, NotReady, ReadyNow
  <1>5. \A M : None(up, M) /\ l \notin M => None(up', M)
    BY <1>3, Added
  <1>6. StartUp'
    BY <1>1, <1>4, <1>5 DEF StartUp, Starting
  <1>7. SimTells' /\ ~EarlyReport'
    BY <1>1, <1>2, <1>4, <1>5 DEF SimTells, EarlyReport
  <1> QED BY <1>6, <1>7 DEF Lockstep

LEMMA ReadyTells ==
  ASSUME LinkOK, StartUp, SimTells, Lockstep, SimGetsReady
  PROVE  StartUp' /\ SimTells' /\ Lockstep'
  <1> DEFINE l == [k |-> "CPIN", ready |-> sim_state' = "ready"]
  <1>1. /\ UNCHANGED <<state, expect_ack, init_done, registered, pin_required, down, call>>
        /\ sim_state \in {"busy", "unlocking"}
        /\ sim_state' = IF sim_state = "busy" /\ Locked THEN "locked" ELSE "ready"
        /\ up' = Append(up, l)
    BY DEF SimGetsReady, vars, session, sim, net
  <1>2. l \in Line /\ l = (IF sim_state' = "ready" THEN ReadyNow ELSE NotReady)
    BY <1>1, TypeOfLines DEF ReadyNow, NotReady
  <1> HIDE DEF l
  <1>3. up' = up \o <<l>>
    <2>1. up \in Seq(Line)
      BY DEF LinkOK
    <2> QED BY <1>1, <1>2, <2>1
  <1>4. l \notin Answers /\ l \notin Network
    <2>1. l.k = "CPIN"
      BY <1>2 DEF ReadyNow, NotReady
    <2> QED BY <2>1 DEF Answers, Network
  <1>5. /\ \A M : None(up, M) /\ l \notin M => None(up', M)
        /\ \A M : None(up, M) /\ l \in M => One(up', M, l)
    BY <1>2, <1>3, Added
  <1>6. StartUp'
    BY <1>1, <1>4, <1>5 DEF StartUp, Starting
  <1>7. /\ ~pin_required /\ None(up, {NotReady}) /\ None(down, Entering)
        /\ call = "DISCONNECTED" /\ None(up, {ReadyNow})
    BY <1>1 DEF SimTells
  <1>8. CASE sim_state' = "ready"
    <2>1. None(up', {NotReady})
      BY <1>2, <1>5, <1>7, <1>8, KindsApart
    <2> QED BY <1>1, <1>6, <1>7, <1>8, <2>1 DEF SimTells, Lockstep, EarlyReport
  <1>9. CASE sim_state' # "ready"
    <2>1. l = NotReady /\ sim_state = "busy"
      BY <1>1, <1>2, <1>9
    <2>2. None(up', {ReadyNow}) /\ One(up', {NotReady}, NotReady)
      BY <1>5, <1>7, <2>1, KindsApart
    <2>3. SimTells'
      BY <1>1, <1>7, <1>9, <2>2 DEF SimTells
    <2>4. Paired'
      <3>1. Paired
        BY <2>1 DEF Lockstep, EarlyReport
      <3> QED BY <1>1, <1>2, <1>3, <1>4, <3>1, Added, Kept
    <2> QED BY <1>6, <2>3, <2>4 DEF Lockstep
  <1> QED BY <1>8, <1>9

LEMMA PinnedInit == LinkInit => Pinned
  <1> SUFFICES ASSUME LinkInit PROVE Pinned
    OBVIOUS
  <1>1. /\ state = "IDLE" /\ ~expect_ack /\ ~init_done /\ ~registered /\ ~pin_required
        /\ up = <<>> /\ down = <<>> /\ call = "DISCONNECTED"
    BY DEF LinkInit, Init
  <1>2. \A M : None(up, M) /\ None(down, M)
    BY <1>1, NoneEmpty
  <1>3. StartUp /\ SimTells
    BY <1>1, <1>2 DEF StartUp, SimTells
  <1>4. Paired
    BY <1>1, <1>2 DEF Paired, Due, NothingDue
  <1> QED BY <1>3, <1>4 DEF Pinned, Lockstep

LEMMA PinnedStep ==
  ASSUME Joined, Joined', Pinned, [LinkNext]_joined
  PROVE  Pinned'
  <1> SUFFICES ASSUME late' = 0 PROVE StartUp' /\ SimTells' /\ Lockstep'
    BY DEF Pinned
  <1>1. late' = late \/ late' = late + 1
    BY DriverShares, ModemStutters DEF LinkNext, joined
  <1>2. late = 0 /\ StartUp /\ SimTells /\ Lockstep
    BY <1>1 DEF Pinned, Joined, LinkOK
  <1> USE DEF Joined
  <1>3. CASE DriverSteps
    BY <1>2, <1>3, DriverTells, DriverKeepsStep
  <1>4. CASE ModemAnswers
    BY <1>2, <1>4, AnswersTell, AnswersPaired
  <1>5. CASE ModemOff \/ SwitchedOn
    BY <1>2, <1>5, OffTells, SwitchedTells
  <1>6. CASE Outside
    BY <1>2, <1>6, TrafficTells, ReadyTells DEF Outside
  <1>7. CASE UNCHANGED joined
    <2>1. UNCHANGED <<state, expect_ack, init_done, registered, pin_required, up, down, call,
                      sim_state>>
      BY <1>7 DEF joined, vars, session, sim, net, modem, phone
    <2>2. StartUp' /\ SimTells'
      BY <1>2, <2>1 DEF StartUp, SimTells, Starting
    <2>3. Lockstep'
      BY <1>2, <2>1, Kept DEF Lockstep, EarlyReport
    <2> QED BY <2>2, <2>3
  <1> QED BY <1>3, <1>4, <1>5, <1>6, <1>7 DEF LinkNext, ModemSteps, DriverSteps

\* AT+CPIN= is taken by the modem only while its SIM waits for it, if every
\* answer came in time: a PIN is entered for one report that the SIM wants it, and
\* the driver does not enter one while the answer to AT+CPIN?, which may be a
\* second report, is still to come (a7670.cpp:163).
THEOREM PinEnteredOnce ==
  ASSUME Patient, Lines = Line
  PROVE  LinkSpec => PinOnce
  <1> DEFINE A == ModemAnswers /\ Head(down).c = "AT+CPIN=" /\ late = 0
                    => sim_state = "locked"
  <1>1. Joined /\ Pinned => A
    <2> SUFFICES ASSUME Joined, Pinned, ModemAnswers, Head(down).c = "AT+CPIN=", late = 0
                 PROVE  sim_state = "locked"
      OBVIOUS
    <2>1. down \in Seq(Order) /\ down # <<>>
      BY DEF Joined, LinkOK, ModemAnswers
    <2>2. Head(down) \in Entering
      BY <2>1, HeadTail DEF Entering
    <2>3. ~None(down, Entering)
      BY <2>1, <2>2, NoneTail
    <2> QED BY <2>3 DEF Pinned, SimTells
  <1>2. Joined /\ Joined' /\ Pinned /\ [LinkNext]_joined => Pinned'
    BY PinnedStep
  <1>3. [](Joined /\ Pinned) => [][A]_joined
    BY <1>1, PTL
  <1> QED BY <1>2, <1>3, PinnedInit, JoinedKept, PTL DEF LinkSpec, PinOnce
=============================================================================
