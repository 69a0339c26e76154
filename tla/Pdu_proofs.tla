----------------------------- MODULE Pdu_proofs -----------------------------
(***************************************************************************)
(* Theorems about the PDU object, for every text, number and message.      *)
(***************************************************************************)
EXTENDS Pdu, LeastNumber, TLAPS

-----------------------------------------------------------------------------
(* Sequences. *)

LEMMA Elements ==
  ASSUME NEW S, NEW s \in Seq(S)
  PROVE  Len(s) \in Nat /\ DOMAIN s = 1 .. Len(s) /\ \A i \in 1 .. Len(s) : s[i] \in S
OBVIOUS

LEMMA Wider ==
  ASSUME NEW S, NEW T, S \subseteq T, NEW s \in Seq(S)
  PROVE  s \in Seq(T)
OBVIOUS

LEMMA Joined2 ==
  ASSUME NEW S, NEW s \in Seq(S), NEW t \in Seq(S)
  PROVE  /\ s \o t \in Seq(S) /\ Len(s \o t) = Len(s) + Len(t)
         /\ \A i \in 1 .. Len(s) : (s \o t)[i] = s[i]
         /\ \A i \in 1 .. Len(t) : (s \o t)[Len(s) + i] = t[i]
OBVIOUS

\* Concat puts one piece behind the other.
LEMMA ConcatBuilt ==
  ASSUME NEW seqs, Len(seqs) \in Nat
  PROVE  \E upto : /\ upto[0] = <<>> /\ Concat(seqs) = upto[Len(seqs)]
                   /\ \A i \in 1 .. Len(seqs) : upto[i] = upto[i - 1] \o seqs[i]
<1> DEFINE n == Len(seqs)
           Body(f, i) == IF i = 0 THEN <<>> ELSE f[i - 1] \o seqs[i]
           upto == CHOOSE f : f = [i \in 0 .. n |-> Body(f, i)]
           T == {m \in 0 .. n : \E f : f = [i \in 0 .. m |-> Body(f, i)]}
<1>1. n \in Nat /\ 0 \in 0 .. n
  OBVIOUS
<1>2. 0 \in T
  <2> DEFINE g == [i \in 0 .. 0 |-> <<>>]
  <2>1. g = [i \in 0 .. 0 |-> Body(g, i)]
    OBVIOUS
  <2> HIDE DEF g, Body, n
  <2> QED BY <1>1, <2>1
<1>3. ASSUME NEW m \in 0 .. n - 1, m \in T PROVE m + 1 \in T
  <2>1. PICK f : f = [i \in 0 .. m |-> Body(f, i)]
    BY <1>3
  <2> DEFINE g == [i \in 0 .. m + 1 |-> IF i <= m THEN f[i] ELSE Body(f, i)]
  <2>2. \A i \in 0 .. m + 1 : Body(g, i) = Body(f, i)
    <3> SUFFICES ASSUME NEW i \in 0 .. m + 1, i # 0 PROVE g[i - 1] = f[i - 1]
      OBVIOUS
    <3> QED BY <1>1
  <2>3. \A i \in 0 .. m : f[i] = Body(f, i)
    <3> HIDE DEF Body
    <3> QED BY <2>1
  <2>4. g = [i \in 0 .. m + 1 |-> Body(g, i)]
    <3> HIDE DEF Body
    <3>1. \A i \in 0 .. m + 1 : g[i] = Body(g, i)
      BY <1>1, <2>2, <2>3
    <3>2. g = [i \in 0 .. m + 1 |-> g[i]]
      OBVIOUS
    <3> HIDE DEF g
    <3> QED BY <3>1, <3>2
  <2> HIDE DEF g, Body
  <2> QED BY <1>1, <2>4
<1>4. n \in T
  <2> HIDE DEF T, n
  <2>1. 0 .. n \subseteq T
    BY <1>1, <1>2, <1>3, UpTo
  <2> QED BY <1>1, <2>1
<1>5. upto = [i \in 0 .. n |-> Body(upto, i)]
  <2>1. \E f : f = [i \in 0 .. n |-> Body(f, i)]
    BY <1>4
  <2> HIDE DEF Body, n
  <2> QED BY <2>1
<1>6. Concat(seqs) = upto[n]
  BY DEF Concat
<1> HIDE DEF upto, n
<1>7. \A i \in 0 .. n : upto[i] = Body(upto, i)
  <2> HIDE DEF Body
  <2> QED BY <1>5
<1>8. upto[0] = <<>> /\ \A i \in 1 .. n : upto[i] = upto[i - 1] \o seqs[i]
  <2>1. \A i \in 1 .. n : i \in 0 .. n /\ i # 0
    BY <1>1
  <2> QED BY <1>1, <1>7, <2>1, Zenon
<1> QED BY <1>6, <1>8 DEF n

\* What is put together of sequences over a set is one, and what the first
\* pieces come to is a beginning of it.
Built(upto, seqs, T) ==
  /\ upto[0] = <<>> /\ Concat(seqs) = upto[Len(seqs)]
  /\ \A i \in 1 .. Len(seqs) : upto[i] = upto[i - 1] \o seqs[i]
  /\ \A i \in 0 .. Len(seqs) : upto[i] \in Seq(T)

LEMMA ConcatType ==
  ASSUME NEW T, NEW seqs \in Seq(Seq(T))
  PROVE  Concat(seqs) \in Seq(T) /\ \E upto : Built(upto, seqs, T)
<1>1. PICK upto : /\ upto[0] = <<>> /\ Concat(seqs) = upto[Len(seqs)]
                  /\ \A i \in 1 .. Len(seqs) : upto[i] = upto[i - 1] \o seqs[i]
  <2>1. Len(seqs) \in Nat
    OBVIOUS
  <2> QED BY <2>1, ConcatBuilt
<1> DEFINE n == Len(seqs)
           S == {i \in 0 .. n : upto[i] \in Seq(T)}
<1>2. n \in Nat /\ \A i \in 1 .. n : seqs[i] \in Seq(T)
  BY Elements
<1>3. 0 \in S
  <2>1. <<>> \in Seq(T)
    OBVIOUS
  <2>2. upto[0] \in Seq(T)
    BY <1>1, <2>1, Zenon
  <2> QED BY <1>2, <2>2
<1>4. ASSUME NEW i \in 0 .. n - 1, i \in S PROVE i + 1 \in S
  <2>1. i + 1 \in 1 .. n /\ (i + 1) - 1 = i
    BY <1>2
  <2>2. upto[i + 1] = upto[i] \o seqs[i + 1]
    BY <1>1, <2>1
  <2>3. upto[i] \in Seq(T) /\ seqs[i + 1] \in Seq(T)
    BY <1>2, <1>4, <2>1
  <2>4. upto[i] \o seqs[i + 1] \in Seq(T)
    BY <2>3, Joined2
  <2>5. upto[i + 1] \in Seq(T)
    BY <2>2, <2>4, Zenon
  <2> QED BY <2>1, <2>5
<1>5. 0 .. n \subseteq S
  <2> HIDE DEF S, n
  <2> QED BY <1>2, <1>3, <1>4, UpTo
<1>6. n \in 0 .. n
  BY <1>2
<1> QED BY <1>1, <1>5, <1>6 DEF Built
\* t begins with s.
Inside(s, t) ==
  /\ Len(s) \in Nat /\ Len(t) \in Nat /\ Len(s) <= Len(t)
  /\ \A k \in 1 .. Len(s) : t[k] = s[k]

LEMMA InsideBoth ==
  ASSUME NEW s, NEW t, NEW u, Inside(s, t), Inside(t, u)
  PROVE  Inside(s, u)
BY DEF Inside

\* u is s and t, one behind the other.
Follow(s, t, u) ==
  /\ Inside(s, u) /\ Len(t) \in Nat /\ Len(u) = Len(s) + Len(t)
  /\ \A k \in 1 .. Len(t) : u[Len(s) + k] = t[k]

LEMMA BuiltStep ==
  ASSUME NEW T, NEW seqs \in Seq(Seq(T)), NEW upto, Built(upto, seqs, T),
         NEW i \in 1 .. Len(seqs)
  PROVE  Follow(upto[i - 1], seqs[i], upto[i])
<1>1. i - 1 \in 0 .. Len(seqs) /\ Len(seqs) \in Nat /\ seqs[i] \in Seq(T)
  BY Elements
<1>2. PICK s \in Seq(T) : s = upto[i - 1]
  BY <1>1 DEF Built
<1>3. PICK t \in Seq(T) : t = seqs[i]
  BY <1>1
<1>4. PICK u : u = upto[i]
  OBVIOUS
<1>5. u = s \o t
  BY <1>2, <1>3, <1>4, Zenon DEF Built
<1>6. /\ Len(u) = Len(s) + Len(t) /\ Len(s) \in Nat /\ Len(t) \in Nat
      /\ \A k \in 1 .. Len(s) : u[k] = s[k]
      /\ \A k \in 1 .. Len(t) : u[Len(s) + k] = t[k]
  BY <1>5
<1>7. Follow(s, t, u)
  BY <1>6 DEF Inside, Follow
<1> QED BY <1>2, <1>3, <1>4, <1>7, Zenon

\* Where the pieces are.
Placed(upto, seqs, i) ==
  /\ Len(upto[i - 1]) \in Nat
  /\ Len(upto[i]) = Len(upto[i - 1]) + Len(seqs[i])
  /\ Len(upto[i]) <= Len(Concat(seqs))
  /\ \A j \in 1 .. Len(seqs[i]) :
       Concat(seqs)[Len(upto[i - 1]) + j] = seqs[i][j]

LEMMA Pieces ==
  ASSUME NEW T, NEW seqs \in Seq(Seq(T)), NEW upto, Built(upto, seqs, T),
         NEW i \in 1 .. Len(seqs)
  PROVE  Placed(upto, seqs, i)
<1>1. Follow(upto[i - 1], seqs[i], upto[i])
  BY BuiltStep
<1> DEFINE n == Len(seqs)
<1>2. n \in Nat /\ seqs[i] \in Seq(T) /\ Len(seqs[i]) \in Nat
  BY Elements
<1>3. Concat(seqs) = upto[n]
  BY DEF Built
<1>4. Inside(upto[i], upto[n])
  <2> DEFINE S == {d \in 0 .. n - i : Inside(upto[i], upto[i + d])}
  <2>1. n - i \in Nat /\ 0 \in S
    <3>1. i \in 0 .. n /\ i + 0 = i
      BY <1>2
    <3>2. upto[i] \in Seq(T)
      BY <3>1 DEF Built
    <3>3. Inside(upto[i], upto[i])
      BY <3>2, Elements DEF Inside
    <3> QED BY <1>2, <3>1, <3>3
  <2>2. ASSUME NEW d \in 0 .. (n - i) - 1, d \in S PROVE d + 1 \in S
    <3>1. i + d + 1 \in 1 .. n /\ (i + d + 1) - 1 = i + d
          /\ i + (d + 1) = i + d + 1 /\ d + 1 \in 0 .. n - i
      BY <1>2
    <3>2. Inside(upto[(i + d + 1) - 1], upto[i + d + 1])
      BY <3>1, BuiltStep DEF Follow
    <3>3. Inside(upto[i], upto[i + d + 1])
      BY <2>2, <3>1, <3>2, InsideBoth
    <3> QED BY <3>1, <3>3
  <2>3. 0 .. n - i \subseteq S
    <3> HIDE DEF S, n
    <3> QED BY <2>1, <2>2, UpTo
  <2>4. n - i \in 0 .. n - i /\ i + (n - i) = n
    BY <1>2
  <2> QED BY <2>3, <2>4
<1>5. Len(upto[i - 1]) \in Nat
  BY <1>1 DEF Follow, Inside
<1>6. ASSUME NEW j \in 1 .. Len(seqs[i])
      PROVE  upto[n][Len(upto[i - 1]) + j] = seqs[i][j]
  <2>1. ASSUME NEW a \in Nat, NEW b \in Nat, NEW k \in 1 .. b
        PROVE  a + k \in 1 .. a + b
    OBVIOUS
  <2>2. Len(upto[i - 1]) + j \in 1 .. Len(upto[i])
    BY <1>2, <1>5, <1>1, <2>1, Zenon DEF Follow
  <2>3. upto[n][Len(upto[i - 1]) + j] = upto[i][Len(upto[i - 1]) + j]
    BY <1>4, <2>2 DEF Inside
  <2>4. upto[i][Len(upto[i - 1]) + j] = seqs[i][j]
    BY <1>1 DEF Follow
  <2> QED BY <2>3, <2>4
<1>7. Len(upto[i]) <= Len(upto[n])
  BY <1>4 DEF Inside
<1> HIDE DEF n
<1> QED BY <1>3, <1>5, <1>1, <1>6, <1>7, Zenon DEF Follow, Placed
-----------------------------------------------------------------------------
(* UTF-8. *)

Unicode == {c \in Nat : c \div 65536 < 17}
Continues(o) == o \in 128 .. 191

LEMMA TrailOctet ==
  ASSUME NEW x \in Nat
  PROVE  Trail(x) \in 128 .. 191 /\ Trail(x) % 64 = x % 64
BY SMT DEF Trail

\* A character in UTF-8 is up to four octets, of which the first one is the
\* only one that does not continue another, and is read as that character.
\* UtfOf: what is needed of it, for the octets u.
UtfOf(cp, u) ==
  /\ u \in Seq(Byte) /\ Len(u) \in 1 .. 4
  /\ ~Continues(u[1]) /\ \A k \in 2 .. Len(u) : Continues(u[k])
  /\ \A i \in Nat : \A text :
       (\A k \in 1 .. Len(u) : text[i + k] = u[k]) => CodePoint(text, i + 1) = cp

LEMMA UtfOne == ASSUME NEW cp \in 0 .. 127 PROVE UtfOf(cp, <<cp>>)
<1>1. ASSUME NEW text, NEW i \in Nat, text[i + 1] = cp
      PROVE  CodePoint(text, i + 1) = cp
  BY <1>1, SMT DEF CodePoint
<1>2. <<cp>> \in Seq(Byte) /\ Len(<<cp>>) = 1 /\ ~Continues(cp)
  BY SMT DEF Byte, Continues
<1> QED BY <1>1, <1>2 DEF UtfOf

LEMMA UtfTwo ==
  ASSUME NEW cp \in Nat, NEW x \in 192 .. 223, NEW y \in 128 .. 191,
         cp = (x % 32) * 64 + (y % 64)
  PROVE  UtfOf(cp, <<x, y>>)
<1>1. ASSUME NEW text, NEW i \in Nat, text[i + 1] = x, text[i + 2] = y
      PROVE  CodePoint(text, i + 1) = cp
  <2>1. i + 1 + 1 = i + 2
    BY SMT
  <2> QED BY <1>1, <2>1, SMT DEF CodePoint
<1>2. <<x, y>> \in Seq(Byte) /\ Len(<<x, y>>) = 2 /\ ~Continues(x) /\ Continues(y)
  BY SMT DEF Byte, Continues
<1> QED BY <1>1, <1>2 DEF UtfOf

LEMMA UtfThree ==
  ASSUME NEW cp \in Nat, NEW x \in 224 .. 239, NEW y \in 128 .. 191,
         NEW z \in 128 .. 191, cp = ((x % 16) * 64 + (y % 64)) * 64 + (z % 64)
  PROVE  UtfOf(cp, <<x, y, z>>)
<1>1. ASSUME NEW text, NEW i \in Nat,
             text[i + 1] = x, text[i + 2] = y, text[i + 3] = z
      PROVE  CodePoint(text, i + 1) = cp
  <2>1. i + 1 + 1 = i + 2 /\ i + 1 + 2 = i + 3
    BY SMT
  <2> QED BY <1>1, <2>1, SMT DEF CodePoint
<1>2. /\ <<x, y, z>> \in Seq(Byte) /\ Len(<<x, y, z>>) = 3
      /\ ~Continues(x) /\ Continues(y) /\ Continues(z)
  BY SMT DEF Byte, Continues
<1> QED BY <1>1, <1>2 DEF UtfOf

LEMMA UtfFour ==
  ASSUME NEW cp \in Nat, NEW x \in 240 .. 247, NEW y \in 128 .. 191,
         NEW z \in 128 .. 191, NEW w \in 128 .. 191,
         cp = (((x % 8) * 64 + (y % 64)) * 64 + (z % 64)) * 64 + (w % 64)
  PROVE  UtfOf(cp, <<x, y, z, w>>)
<1>1. ASSUME NEW text, NEW i \in Nat,
             text[i + 1] = x, text[i + 2] = y, text[i + 3] = z, text[i + 4] = w
      PROVE  CodePoint(text, i + 1) = cp
  <2>1. i + 1 + 1 = i + 2 /\ i + 1 + 2 = i + 3 /\ i + 1 + 3 = i + 4
    BY SMT
  <2>2. PICK p, q, r, a : p = y % 64 /\ q = z % 64 /\ r = w % 64 /\ a = x % 8
    OBVIOUS
  <2>3. /\ text[i + 1 + 1] % 64 = p /\ text[i + 1 + 2] % 64 = q
        /\ text[i + 1 + 3] % 64 = r /\ text[i + 1] % 8 = a
    BY <1>1, <2>1, <2>2, Zenon
  <2>4. CodePoint(text, i + 1) = ((a * 64 + p) * 64 + q) * 64 + r
    <3>1. ~(text[i + 1] < 128) /\ ~(text[i + 1] < 224) /\ ~(text[i + 1] < 240)
      BY <1>1, SMT
    <3> QED BY <2>3, <3>1, Zenon DEF CodePoint
  <2> QED BY <2>2, <2>4, Zenon
<1>2. /\ <<x, y, z, w>> \in Seq(Byte) /\ Len(<<x, y, z, w>>) = 4
      /\ ~Continues(x) /\ Continues(y) /\ Continues(z) /\ Continues(w)
  BY SMT DEF Byte, Continues
<1> QED BY <1>1, <1>2 DEF UtfOf

LEMMA UtfShape == ASSUME NEW cp \in Unicode PROVE UtfOf(cp, buildUtf(cp))
<1>1. CASE cp < 128
  <2>1. buildUtf(cp) = <<cp>> /\ cp \in 0 .. 127
    BY <1>1, SMT DEF buildUtf, Unicode
  <2> QED BY <2>1, UtfOne
<1>2. CASE cp \in 128 .. 2047
  <2>1. PICK x, y : x = 192 + (cp \div 64) /\ y = Trail(cp)
    OBVIOUS
  <2>2. buildUtf(cp) = <<x, y>> /\ cp \in Nat
    BY <1>2, <2>1, SMT DEF buildUtf
  <2>3. y \in 128 .. 191 /\ y % 64 = cp % 64
    BY <2>1, <2>2, TrailOctet
  <2>4. x \in 192 .. 223 /\ cp = (x % 32) * 64 + (y % 64)
    BY <1>2, <2>1, <2>3, SMT
  <2> QED BY <2>2, <2>3, <2>4, UtfTwo, Zenon
<1>3. CASE cp \in 2048 .. 65535
  <2>1. PICK b \in Nat : b = cp \div 64
    BY <1>3, SMT
  <2>2. PICK x, y, z : x = 224 + (cp \div 4096) /\ y = Trail(b) /\ z = Trail(cp)
    OBVIOUS
  <2>3. buildUtf(cp) = <<x, y, z>> /\ cp \in Nat
    <3>1. cp \in Nat /\ ~(cp < 128) /\ ~(cp < 2048) /\ cp < 65536
      BY <1>3, SMT
    <3>2. buildUtf(cp) = <<224 + (cp \div 4096), Trail(cp \div 64), Trail(cp)>>
      BY <3>1, SMT DEF buildUtf
    <3>3. x = 224 + (cp \div 4096) /\ y = Trail(cp \div 64) /\ z = Trail(cp)
      BY <2>1, <2>2, SMT
    <3> QED BY <3>1, <3>2, <3>3, SMT
  <2>4. y \in 128 .. 191 /\ y % 64 = b % 64 /\ z \in 128 .. 191 /\ z % 64 = cp % 64
    <3>1. Trail(b) \in 128 .. 191 /\ Trail(b) % 64 = b % 64
      BY TrailOctet
    <3>2. Trail(cp) \in 128 .. 191 /\ Trail(cp) % 64 = cp % 64
      BY <2>3, TrailOctet
    <3> QED BY <2>2, <3>1, <3>2, Zenon
  <2>5. x \in 224 .. 239 /\ x % 16 = b \div 64
    <3>1. cp \div 4096 = b \div 64 /\ b \div 64 \in 0 .. 15
      BY <1>3, <2>1, SMT
    <3> QED BY <2>2, <3>1, SMT
  <2>6. b = (b \div 64) * 64 + (b % 64) /\ cp = b * 64 + (cp % 64)
    BY <1>3, <2>1, SMT
  <2>7. cp = ((x % 16) * 64 + (y % 64)) * 64 + (z % 64)
    BY <2>4, <2>5, <2>6, Zenon
  <2> QED BY <2>3, <2>4, <2>5, <2>7, UtfThree, Zenon
<1>4. CASE cp >= 65536
  <2>1. PICK a \in Nat, b \in Nat : a = cp \div 4096 /\ b = cp \div 64
    BY <1>4, SMT DEF Unicode
  <2>2. PICK x, y, z, w :
          x = 240 + (a \div 64) /\ y = Trail(a) /\ z = Trail(b) /\ w = Trail(cp)
    OBVIOUS
  <2>3. buildUtf(cp) = <<x, y, z, w>> /\ cp \in Nat
    BY <1>4, <2>1, <2>2, SMT DEF buildUtf, Unicode
  <2>4. /\ y \in 128 .. 191 /\ y % 64 = a % 64 /\ z \in 128 .. 191
        /\ z % 64 = b % 64 /\ w \in 128 .. 191 /\ w % 64 = cp % 64
    BY <2>2, <2>3, TrailOctet, a \in Nat, b \in Nat
  <2>5. x \in 240 .. 247 /\ x % 8 = a \div 64
    BY <1>4, <2>1, <2>2, SMT DEF Unicode
  <2>6. /\ a = (a \div 64) * 64 + (a % 64) /\ b = a * 64 + (b % 64)
        /\ cp = b * 64 + (cp % 64)
    BY <1>4, <2>1, SMT DEF Unicode
  <2>7. cp = (((x % 8) * 64 + (y % 64)) * 64 + (z % 64)) * 64 + (w % 64)
    BY <2>4, <2>5, <2>6, Zenon
  <2>8. UtfOf(cp, <<x, y, z, w>>)
    BY <2>3, <2>4, <2>5, <2>7, UtfFour, Zenon
  <2> QED BY <2>3, <2>8
<1> QED BY <1>1, <1>2, <1>3, <1>4, SMT DEF Unicode

\* Pieces of which each has one of the others at its beginning, and nothing
\* behind it, come to the same.
Regroups(pos, Q, R) ==
  /\ pos[0] = 0 /\ pos[Len(R)] = Len(Q)
  /\ \A i \in 1 .. Len(R) :
       /\ pos[i - 1] \in Nat /\ pos[i] \in Nat /\ pos[i - 1] < pos[i]
       /\ pos[i] <= Len(Q)
       /\ Q[pos[i - 1] + 1] = R[i]
       /\ \A k \in pos[i - 1] + 2 .. pos[i] : Q[k] = <<>>

LEMMA Regrouped ==
  ASSUME NEW T, NEW Q \in Seq(Seq(T)), NEW R \in Seq(Seq(T)), NEW pos,
         Regroups(pos, Q, R)
  PROVE  Concat(Q) = Concat(R)
<1>1. PICK c : Built(c, Q, T)
  BY ConcatType
<1>2. PICK d : Built(d, R, T)
  BY ConcatType
<1> DEFINE n == Len(R)
           S == {i \in 0 .. n : c[pos[i]] = d[i]}
<1>3. n \in Nat /\ Len(Q) \in Nat
  OBVIOUS
<1>4. 0 \in S
  <2>1. pos[0] = 0 /\ c[0] = <<>> /\ d[0] = <<>>
    BY <1>1, <1>2 DEF Built, Regroups
  <2>2. c[pos[0]] = d[0]
    BY <2>1, Zenon
  <2> QED BY <1>3, <2>2
<1>5. ASSUME NEW i \in 0 .. n - 1, i \in S PROVE i + 1 \in S
  <2>1. i + 1 \in 1 .. n /\ (i + 1) - 1 = i /\ i + 1 \in 0 .. n
    BY <1>3
  <2>2. PICK lo \in Nat, hi \in Nat : lo = pos[i] /\ hi = pos[i + 1]
    BY <2>1 DEF Regroups
  <2>3. /\ lo < hi /\ hi <= Len(Q) /\ Q[lo + 1] = R[i + 1]
        /\ \A k \in lo + 2 .. hi : Q[k] = <<>>
    BY <2>1, <2>2 DEF Regroups
  <2>4. c[lo + 1] = d[i + 1]
    <3>1. lo + 1 \in 1 .. Len(Q) /\ (lo + 1) - 1 = lo
      BY <2>3
    <3>2. c[lo + 1] = c[lo] \o R[i + 1]
      BY <1>1, <2>3, <3>1, Zenon DEF Built
    <3>3. d[i + 1] = d[i] \o R[i + 1]
      BY <1>2, <2>1, Zenon DEF Built
    <3> QED BY <1>5, <2>2, <3>2, <3>3, Zenon
  <2> DEFINE K == {e \in 0 .. (hi - lo) - 1 : c[lo + 1 + e] = d[i + 1]}
  <2>5. (hi - lo) - 1 \in Nat /\ lo + 1 + 0 = lo + 1
    BY <2>3
  <2>6. 0 \in K
    BY <2>4, <2>5
  <2>7. ASSUME NEW e \in 0 .. ((hi - lo) - 1) - 1, e \in K PROVE e + 1 \in K
    <3>1. /\ lo + 1 + (e + 1) \in lo + 2 .. hi /\ lo + 1 + (e + 1) \in 1 .. Len(Q)
          /\ (lo + 1 + (e + 1)) - 1 = lo + 1 + e /\ lo + 1 + e \in 0 .. Len(Q)
          /\ e + 1 \in 0 .. (hi - lo) - 1
      BY <2>3
    <3>2. c[lo + 1 + (e + 1)] = c[lo + 1 + e] \o <<>>
      BY <1>1, <2>3, <3>1, Zenon DEF Built
    <3>3. PICK x \in Seq(T) : x = c[lo + 1 + e]
      BY <1>1, <3>1, Zenon DEF Built
    <3>4. x \o <<>> = x
      OBVIOUS
    <3>5. c[lo + 1 + (e + 1)] = d[i + 1]
      BY <2>7, <3>2, <3>3, <3>4, Zenon
    <3> QED BY <3>1, <3>5
  <2>8. 0 .. (hi - lo) - 1 \subseteq K
    <3> HIDE DEF K
    <3> QED BY <2>5, <2>6, <2>7, UpTo
  <2>9. (hi - lo) - 1 \in 0 .. (hi - lo) - 1 /\ lo + 1 + ((hi - lo) - 1) = hi
    BY <2>5
  <2>10. c[hi] = d[i + 1]
    <3>1. (hi - lo) - 1 \in K
      BY <2>8, <2>9
    <3>2. c[lo + 1 + ((hi - lo) - 1)] = d[i + 1]
      BY <3>1
    <3> QED BY <2>9, <3>2, Zenon
  <2> QED BY <2>1, <2>2, <2>10
<1>6. 0 .. n \subseteq S
  <2> HIDE DEF S, n
  <2> QED BY <1>3, <1>4, <1>5, UpTo
<1>7. c[pos[n]] = d[n]
  <2>1. n \in 0 .. n
    BY <1>3
  <2> QED BY <1>6, <2>1
<1> QED BY <1>1, <1>2, <1>7, Zenon DEF Built, Regroups

\* Sequences of one element come to the sequence of these.
LEMMA Singles ==
  ASSUME NEW T, NEW s \in Seq(T), NEW R, R = [i \in 1 .. Len(s) |-> <<s[i]>>]
  PROVE  R \in Seq(Seq(T)) /\ Len(R) = Len(s) /\ Concat(R) = s
<1>1. R \in Seq(Seq(T)) /\ Len(R) = Len(s) /\ Len(s) \in Nat
  <2>1. \A i \in 1 .. Len(s) : <<s[i]>> \in Seq(T)
    OBVIOUS
  <2> QED BY <2>1
<1>2. PICK d : Built(d, R, T)
  BY <1>1, ConcatType
<1> DEFINE n == Len(s)
           S == {i \in 0 .. n : Len(d[i]) = i /\ \A k \in 1 .. i : d[i][k] = s[k]}
<1>3. 0 \in S
  <2>1. d[0] = <<>>
    BY <1>2 DEF Built
  <2> QED BY <1>1, <2>1
<1>4. ASSUME NEW i \in 0 .. n - 1, i \in S PROVE i + 1 \in S
  <2>1. i + 1 \in 1 .. n /\ (i + 1) - 1 = i /\ i + 1 \in 0 .. n /\ i \in 0 .. n
    BY <1>1
  <2>2. PICK x \in Seq(T) : x = d[i]
    BY <1>1, <1>2, <2>1, Zenon DEF Built
  <2>3. d[i + 1] = x \o <<s[i + 1]>>
    <3>1. R[i + 1] = <<s[i + 1]>>
      BY <2>1
    <3> QED BY <1>1, <1>2, <2>1, <2>2, <3>1, Zenon DEF Built
  <2>4. Len(x) = i /\ \A k \in 1 .. i : x[k] = s[k]
    BY <1>4, <2>2, Zenon
  <2>5. PICK y : y = x \o <<s[i + 1]>>
    OBVIOUS
  <2>6. Len(y) = i + 1 /\ \A k \in 1 .. i + 1 : y[k] = s[k]
    BY <2>1, <2>4, <2>5
  <2>7. Len(d[i + 1]) = i + 1 /\ \A k \in 1 .. i + 1 : d[i + 1][k] = s[k]
    BY <2>3, <2>5, <2>6, Zenon
  <2> QED BY <2>1, <2>7
<1>5. 0 .. n \subseteq S
  <2> HIDE DEF S, n
  <2>1. n \in Nat
    BY <1>1 DEF n
  <2> QED BY <1>3, <1>4, <2>1, UpTo
<1>6. n \in 0 .. n
  BY <1>1
<1>7. Len(d[n]) = n /\ \A k \in 1 .. n : d[n][k] = s[k]
  BY <1>5, <1>6
<1>8. PICK y \in Seq(T) : y = d[n]
  BY <1>1, <1>2, <1>6, Zenon DEF Built
<1>9. y = s
  <2>1. Len(y) = Len(s) /\ \A k \in 1 .. Len(s) : y[k] = s[k]
    BY <1>7, <1>8, Zenon
  <2> QED BY <2>1
<1>10. Concat(R) = d[n]
  BY <1>1, <1>2, Zenon DEF Built
<1> QED BY <1>1, <1>8, <1>9, <1>10, Zenon

\* A text in UTF-8 reads as the characters it was written for.
LEMMA Utf8Read ==
  ASSUME NEW cps \in Seq(Unicode)
  PROVE  Utf8(cps) \in Seq(Byte) /\ CodePoints(Utf8(cps)) = cps
<1> DEFINE P == [i \in DOMAIN cps |-> buildUtf(cps[i])]
           text == Utf8(cps)
           T == {CodePoint(text, k) : k \in Nat} \cup Unicode
           Q == [i \in 1 .. Len(text) |->
                   IF text[i] \in 128 .. 191 THEN <<>> ELSE <<CodePoint(text, i)>>]
           R == [i \in 1 .. Len(cps) |-> <<cps[i]>>]
<1>1. Len(cps) \in Nat /\ DOMAIN cps = 1 .. Len(cps)
      /\ \A i \in 1 .. Len(cps) : cps[i] \in Unicode
  BY Elements
<1>2. \A i \in 1 .. Len(cps) : UtfOf(cps[i], P[i])
  BY <1>1, UtfShape
<1>3. P \in Seq(Seq(Byte)) /\ Len(P) = Len(cps)
  <2>1. \A i \in 1 .. Len(cps) : P[i] \in Seq(Byte)
    BY <1>2 DEF UtfOf
  <2> HIDE DEF text
  <2> QED BY <1>1, <2>1
<1>4. text = Concat(P)
  BY DEF Utf8
<1> HIDE DEF P, text
<1>5. text \in Seq(Byte) /\ Len(text) \in Nat
  BY <1>3, <1>4, ConcatType
<1>6. PICK u : Built(u, P, Byte)
  BY <1>3, ConcatType
<1> DEFINE pos == [i \in 0 .. Len(cps) |-> Len(u[i])]
<1>7. Q \in Seq(Seq(T)) /\ Len(Q) = Len(text)
  <2>1. \A k \in 1 .. Len(text) : k \in Nat /\ Q[k] \in Seq(T)
    <3>1. \A k \in 1 .. Len(text) : CodePoint(text, k) \in T /\ k \in Nat
      BY <1>5
    <3> HIDE DEF T
    <3> QED BY <3>1
  <2> HIDE DEF T
  <2> QED BY <1>5, <2>1
<1>8. R \in Seq(Seq(T)) /\ Len(R) = Len(cps) /\ Concat(R) = cps
  <2>1. cps \in Seq(T)
    BY <1>1
  <2> HIDE DEF T
  <2> QED BY <2>1, Singles
<1>9. Regroups(pos, Q, R)
  <2>1. pos[0] = 0 /\ pos[Len(R)] = Len(Q)
    <3>1. u[0] = <<>> /\ text = u[Len(cps)]
      BY <1>3, <1>4, <1>6, Zenon DEF Built
    <3>2. 0 \in 0 .. Len(cps) /\ Len(cps) \in 0 .. Len(cps)
      BY <1>1
    <3> QED BY <1>7, <1>8, <3>1, <3>2
  <2>2. ASSUME NEW i \in 1 .. Len(R)
        PROVE  /\ pos[i - 1] \in Nat /\ pos[i] \in Nat /\ pos[i - 1] < pos[i]
               /\ pos[i] <= Len(Q)
               /\ Q[pos[i - 1] + 1] = R[i]
               /\ \A k \in pos[i - 1] + 2 .. pos[i] : Q[k] = <<>>
    <3>1. i \in 1 .. Len(cps) /\ i \in 1 .. Len(P) /\ i \in 0 .. Len(cps)
          /\ i - 1 \in 0 .. Len(cps)
      BY <1>1, <1>3, <1>8
    <3>2. PICK v : v = P[i]
      OBVIOUS
    <3>3. UtfOf(cps[i], v)
      BY <1>2, <3>1, <3>2, Zenon
    <3>4. Placed(u, P, i)
      BY <1>3, <1>6, <3>1, Pieces
    <3>5. PICK lo \in Nat : lo = Len(u[i - 1]) /\ pos[i - 1] = lo
      BY <3>1, <3>4 DEF Placed
    <3>6. /\ Len(u[i]) = lo + Len(v) /\ Len(u[i]) <= Len(text)
          /\ \A j \in 1 .. Len(v) : text[lo + j] = v[j]
      BY <1>4, <3>2, <3>5, <3>4, Zenon DEF Placed
    <3>7. pos[i] = lo + Len(v) /\ Len(v) \in 1 .. 4 /\ lo + Len(v) <= Len(text)
      BY <3>1, <3>3, <3>6 DEF UtfOf
    <3>8. /\ lo < lo + Len(v) /\ lo + Len(v) \in Nat /\ lo \in Nat
          /\ lo + 1 \in 1 .. Len(text) /\ 1 \in 1 .. Len(v)
      <4>1. ASSUME NEW a \in Nat, NEW b \in 1 .. 4, NEW c \in Nat, a + b <= c
            PROVE  a < a + b /\ a + b \in Nat /\ a + 1 \in 1 .. c /\ 1 \in 1 .. b
        BY <4>1
      <4> QED BY <1>5, <3>5, <3>7, <4>1, Zenon
    <3>9. Q[lo + 1] = R[i]
      <4>1. text[lo + 1] = v[1]
        BY <3>6, <3>8
      <4>2. CodePoint(text, lo + 1) = cps[i]
        BY <3>3, <3>6, <3>8, Zenon DEF UtfOf
      <4>3. ~(text[lo + 1] \in 128 .. 191)
        BY <3>3, <4>1, Zenon DEF UtfOf, Continues
      <4>4. Q[lo + 1] = <<cps[i]>>
        BY <3>8, <4>3, <4>2
      <4> QED BY <3>1, <4>4
    <3>10. ASSUME NEW k \in lo + 2 .. lo + Len(v) PROVE Q[k] = <<>>
      <4>1. PICK j \in 2 .. Len(v) : k = lo + j /\ j \in 1 .. Len(v)
              /\ k \in 1 .. Len(text)
        <5>1. k - lo \in 2 .. Len(v) /\ k = lo + (k - lo) /\ k - lo \in 1 .. Len(v)
              /\ k \in 1 .. Len(text)
          BY <1>5, <3>7
        <5> QED BY <5>1
      <4>2. text[k] \in 128 .. 191
        BY <3>3, <3>6, <4>1, Zenon DEF UtfOf, Continues
      <4> QED BY <4>1, <4>2
    <3> HIDE DEF pos, Q, R
    <3> QED BY <1>7, <3>5, <3>7, <3>9, <3>10, <3>8, Zenon
  <2> HIDE DEF pos, Q, R
  <2> QED BY <2>1, <2>2, Zenon DEF Regroups
<1>10. CodePoints(text) = Concat(Q)
  BY DEF CodePoints
<1>11. Concat(Q) = Concat(R)
  <2> HIDE DEF Q, R, T, pos
  <2> QED BY <1>7, <1>8, <1>9, Regrouped, Zenon
<1> QED BY <1>5, <1>8, <1>10, <1>11, Zenon DEF text

-----------------------------------------------------------------------------
(* Where things are in a PDU. *)

\* s is in t from behind offset o on.
Lies(s, o, t) ==
  /\ o \in Nat /\ Len(s) \in Nat /\ Len(t) \in Nat /\ o + Len(s) <= Len(t)
  /\ \A k \in 1 .. Len(s) : t[o + k] = s[k]

LEMMA LiesIn ==
  ASSUME NEW s, NEW t, NEW u, NEW o, NEW p, Lies(s, o, t), Lies(t, p, u)
  PROVE  Lies(s, p + o, u)
<1>1. PICK a \in Nat, b \in Nat, c \in Nat, d \in Nat, e \in Nat :
        a = o /\ b = Len(s) /\ c = Len(t) /\ d = p /\ e = Len(u)
  BY DEF Lies
<1>2. a + b <= c /\ d + c <= e
  BY <1>1 DEF Lies
<1>3. ASSUME NEW k \in 1 .. b PROVE u[(d + a) + k] = s[k]
  <2>1. a + k \in 1 .. c /\ d + (a + k) = (d + a) + k
    BY <1>2
  <2>2. t[a + k] = s[k] /\ u[d + (a + k)] = t[a + k]
    BY <1>1, <2>1, Zenon DEF Lies
  <2> QED BY <2>1, <2>2, Zenon
<1>4. d + a \in Nat /\ (d + a) + b <= e
  BY <1>2
<1> QED BY <1>1, <1>3, <1>4, Zenon DEF Lies

LEMMA LiesJoined ==
  ASSUME NEW S, NEW s \in Seq(S), NEW t \in Seq(S)
  PROVE  /\ s \o t \in Seq(S) /\ Len(s \o t) = Len(s) + Len(t)
         /\ Lies(s, 0, s \o t) /\ Lies(t, Len(s), s \o t)
<1>1. /\ Len(s) \in Nat /\ Len(t) \in Nat /\ Len(s \o t) = Len(s) + Len(t)
      /\ \A k \in 1 .. Len(s) : (s \o t)[0 + k] = s[k]
      /\ \A k \in 1 .. Len(t) : (s \o t)[Len(s) + k] = t[k]
  OBVIOUS
<1>2. s \o t \in Seq(S)
  OBVIOUS
<1>3. ASSUME NEW a \in Nat, NEW b \in Nat
      PROVE  /\ a + b \in Nat /\ 0 + a <= a + b /\ a + b <= a + b /\ 0 \in Nat
  OBVIOUS
<1> QED BY <1>1, <1>2, <1>3, Zenon DEF Lies

\* What is cut out of a sequence is what lies there.
LEMMA Cut ==
  ASSUME NEW S, NEW t \in Seq(S), NEW a \in Nat, NEW n \in Nat, a + n <= Len(t)
  PROVE  /\ SubSeq(t, a + 1, a + n) \in Seq(S) /\ Len(SubSeq(t, a + 1, a + n)) = n
         /\ \A k \in 1 .. n : SubSeq(t, a + 1, a + n)[k] = t[a + k]
<1>1. SubSeq(t, a + 1, a + n) \in Seq(S) /\ Len(SubSeq(t, a + 1, a + n)) = n
  OBVIOUS
<1>2. ASSUME NEW k \in 1 .. n PROVE SubSeq(t, a + 1, a + n)[k] = t[a + k]
  OBVIOUS
<1> QED BY <1>1, <1>2

LEMMA LiesCut ==
  ASSUME NEW S, NEW s \in Seq(S), NEW t \in Seq(S), NEW o, Lies(s, o, t)
  PROVE  SubSeq(t, o + 1, o + Len(s)) = s
<1>1. /\ o \in Nat /\ Len(s) \in Nat /\ Len(t) \in Nat /\ o + Len(s) <= Len(t)
      /\ \A k \in 1 .. Len(s) : t[o + k] = s[k]
  BY DEF Lies
<1>2. PICK u : u = SubSeq(t, o + 1, o + Len(s))
  OBVIOUS
<1>3. /\ u \in Seq(S) /\ Len(u) = Len(s)
      /\ \A k \in 1 .. Len(s) : u[k] = t[o + k]
  <2>1. /\ SubSeq(t, o + 1, o + Len(s)) \in Seq(S)
        /\ Len(SubSeq(t, o + 1, o + Len(s))) = Len(s)
        /\ \A k \in 1 .. Len(s) : SubSeq(t, o + 1, o + Len(s))[k] = t[o + k]
    BY <1>1, Cut
  <2> QED BY <1>2, <2>1, Zenon
<1>4. u = s
  BY <1>1, <1>3
<1> QED BY <1>2, <1>4

-----------------------------------------------------------------------------
(* Numbers. *)

\* The octets b have the digits two by two, and a filler behind an odd one.
BcdOf(digits, b) ==
  /\ b \in Seq(Byte) /\ Len(b) = (Len(digits) + 1) \div 2
  /\ \A m \in 1 .. Len(b) :
       /\ b[m] % 16 = digits[2 * m - 1]
       /\ b[m] \div 16 = IF 2 * m <= Len(digits) THEN digits[2 * m] ELSE 15

LEMMA Bcd ==
  ASSUME NEW digits \in Seq(0 .. 9)
  PROVE  BcdOf(digits, stringToBCD(digits))
<1> DEFINE n == Len(digits)
           b == stringToBCD(digits)
<1>1. n \in Nat /\ \A j \in 1 .. n : digits[j] \in 0 .. 9
  BY Elements
<1>2. \A j \in 1 .. (n + 1) \div 2 :
        b[j] = digits[2 * j - 1] + 16 * (IF 2 * j <= n THEN digits[2 * j] ELSE 15)
  BY DEF stringToBCD
<1> HIDE DEF b, n
<1>3. ASSUME NEW m \in 1 .. (n + 1) \div 2
      PROVE  /\ b[m] \in Byte /\ b[m] % 16 = digits[2 * m - 1]
             /\ b[m] \div 16 = IF 2 * m <= n THEN digits[2 * m] ELSE 15
  <2>1. 2 * m - 1 \in 1 .. n /\ (2 * m <= n => 2 * m \in 1 .. n)
    BY <1>1
  <2>2. digits[2 * m - 1] \in 0 .. 9 /\ (2 * m <= n => digits[2 * m] \in 0 .. 9)
    BY <1>1, <2>1
  <2>3. PICK x, y : x = digits[2 * m - 1] /\ y = IF 2 * m <= n THEN digits[2 * m] ELSE 15
    OBVIOUS
  <2>4. x \in 0 .. 15 /\ y \in 0 .. 15
    BY <2>2, <2>3
  <2>5. b[m] = x + 16 * y
    BY <1>2, <2>3, Zenon
  <2>6. x + 16 * y \in Byte /\ (x + 16 * y) % 16 = x /\ (x + 16 * y) \div 16 = y
    BY <2>4 DEF Byte
  <2> QED BY <2>3, <2>5, <2>6, Zenon
<1>4. b \in Seq(Byte) /\ Len(b) = (n + 1) \div 2
  <2>1. (n + 1) \div 2 \in Nat
    BY <1>1
  <2> QED BY <1>3, <2>1 DEF stringToBCD, b, n
<1> QED BY <1>3, <1>4, Zenon DEF BcdOf, n, b

\* Its nibbles are the digits, and the one behind an odd number of them is 15.
LEMMA Nibbles ==
  ASSUME NEW digits \in Seq(0 .. 9), NEW b, BcdOf(digits, b), NEW j \in 1 .. 2 * Len(b)
  PROVE  (IF j % 2 = 1 THEN b[(j + 1) \div 2] % 16 ELSE b[(j + 1) \div 2] \div 16)
           = IF j <= Len(digits) THEN digits[j] ELSE 15
<1>1. PICK n \in Nat : n = Len(digits)
  OBVIOUS
<1>2. Len(b) = (n + 1) \div 2 /\ Len(b) \in Nat
  BY <1>1 DEF BcdOf
<1>3. CASE j % 2 = 1
  <2>1. PICK m : m = (j + 1) \div 2
    OBVIOUS
  <2>2. m \in 1 .. Len(b) /\ 2 * m - 1 = j /\ j <= n
    BY <1>2, <1>3, <2>1
  <2>3. b[m] % 16 = digits[2 * m - 1]
    BY <2>2, Zenon DEF BcdOf
  <2> QED BY <1>1, <1>3, <2>1, <2>2, <2>3, Zenon
<1>4. CASE j % 2 # 1
  <2>1. PICK m : m = (j + 1) \div 2
    OBVIOUS
  <2>2. m \in 1 .. Len(b) /\ 2 * m = j
    BY <1>2, <1>4, <2>1
  <2>3. b[m] \div 16 = IF 2 * m <= Len(digits) THEN digits[2 * m] ELSE 15
    BY <2>2, Zenon DEF BcdOf
  <2> QED BY <1>4, <2>1, <2>2, <2>3, Zenon
<1> QED BY <1>3, <1>4

\* A number is read as it was written.
LEMMA NumberRead ==
  ASSUME NEW digits \in Seq(0 .. 9), NEW b, BcdOf(digits, b)
  PROVE  BCDtoString(b) = [i \in DOMAIN digits |-> 48 + digits[i]]
<1> DEFINE nibble(j) == LET o == b[(j + 1) \div 2] IN
                        IF j % 2 = 1 THEN o % 16 ELSE o \div 16
           fillers == {k \in 1 .. Len(b) : nibble(2 * k) = 15}
           length == IF fillers = {} THEN 2 * Len(b) ELSE 2 * Min(fillers) - 1
<1>1. PICK n \in Nat : n = Len(digits) /\ DOMAIN digits = 1 .. n
  OBVIOUS
<1>2. Len(b) = (n + 1) \div 2 /\ Len(b) \in Nat
  BY <1>1 DEF BcdOf
<1>3. \A j \in 1 .. n : digits[j] \in 0 .. 9
  BY <1>1
<1>4. \A j \in 1 .. 2 * Len(b) : nibble(j) = IF j <= n THEN digits[j] ELSE 15
  BY <1>1, Nibbles, Zenon
<1> HIDE DEF nibble
<1>5. length = n
  <2>1. CASE n % 2 = 0
    <3>1. 2 * Len(b) = n
      BY <1>2, <2>1
    <3>2. \A k \in 1 .. Len(b) : 2 * k \in 1 .. n
      BY <1>2, <3>1
    <3>3. \A k \in 1 .. Len(b) : nibble(2 * k) # 15
      BY <1>3, <1>4, <3>1, <3>2, SMTT(30)
    <3> QED BY <3>1, <3>3
  <2>2. CASE n % 2 = 1
    <3>1. 2 * Len(b) = n + 1 /\ Len(b) \in 1 .. Len(b)
      BY <1>2, <2>2
    <3>2. \A k \in 1 .. Len(b) : 2 * k \in 1 .. 2 * Len(b) /\ (2 * k <= n \/ k = Len(b))
                                 /\ (2 * k <= n => 2 * k \in 1 .. n)
      BY <1>2, <3>1
    <3>3. \A k \in 1 .. Len(b) : k # Len(b) => nibble(2 * k) # 15
      BY <1>3, <1>4, <3>2
    <3>4. nibble(2 * Len(b)) = 15
      BY <1>2, <1>4, <3>1
    <3>5. fillers = {Len(b)}
      BY <3>1, <3>3, <3>4
    <3>6. Min({Len(b)}) = Len(b)
      BY <1>2 DEF Min
    <3> HIDE DEF fillers
    <3>7. length = 2 * Len(b) - 1
      BY <3>5, <3>6
    <3> QED BY <3>1, <3>7
  <2> QED BY <1>1, <2>1, <2>2
<1>6. BCDtoString(b) = [j \in 1 .. length |-> 48 + nibble(j)]
  BY DEF BCDtoString, nibble
<1> HIDE DEF length
<1>7. \A j \in 1 .. n : nibble(j) = digits[j]
  <2>1. \A j \in 1 .. n : j \in 1 .. 2 * Len(b) /\ j <= n
    BY <1>2
  <2> QED BY <1>4, <2>1
<1> QED BY <1>1, <1>5, <1>6, <1>7

\* An address is the octet with its length, its type and the digits.
AddressOf(a, type, x) ==
  /\ Len(a.digits) \in Nat /\ x \in Seq(Nat) /\ Len(x) = 2 + ((Len(a.digits) + 1) \div 2)
  /\ x[1] = IF type = "NIBBLES" THEN Len(a.digits) ELSE ((Len(a.digits) + 1) \div 2) + 1
  /\ x[2] = IF a.plus THEN 145 ELSE 161
  /\ Lies(stringToBCD(a.digits), 2, x)

LEMMA AddressShape ==
  ASSUME NEW a, a.digits \in Seq(0 .. 9), NEW type
  PROVE  AddressOf(a, type, setAddress(a, type))
<1> DEFINE n == Len(a.digits)
           b == stringToBCD(a.digits)
<1>1. BcdOf(a.digits, b) /\ n \in Nat
  BY Bcd
<1>2. PICK p \in Nat, q \in Nat :
        /\ p = (IF type = "NIBBLES" THEN n ELSE (n + 1) \div 2 + 1)
        /\ q = (IF a.plus THEN 145 ELSE 161)
  <2>1. (IF type = "NIBBLES" THEN n ELSE (n + 1) \div 2 + 1) \in Nat
    <3> HIDE DEF n
    <3>1. n \in Nat /\ (n + 1) \div 2 + 1 \in Nat
      BY <1>1
    <3> QED BY <3>1, Zenon
  <2>2. (IF a.plus THEN 145 ELSE 161) \in Nat
    OBVIOUS
  <2> QED BY <2>1, <2>2, Zenon
<1>3. setAddress(a, type) = <<p, q>> \o b
  BY <1>2, Zenon DEF setAddress
<1>4. b \in Seq(Nat) /\ <<p, q>> \in Seq(Nat) /\ Len(<<p, q>>) = 2
  <2>1. b \in Seq(Byte)
    BY <1>1 DEF BcdOf
  <2> HIDE DEF b
  <2>2. b \in Seq(Nat)
    <3>1. Byte \subseteq Nat
      BY DEF Byte
    <3> QED BY <2>1, <3>1, Wider
  <2>3. p \in Nat /\ q \in Nat
    OBVIOUS
  <2>4. <<p, q>> \in Seq(Nat) /\ Len(<<p, q>>) = 2
    BY <2>3
  <2> QED BY <2>2, <2>4
<1>5. PICK x : x = <<p, q>> \o b
  OBVIOUS
<1> HIDE DEF b
<1>6. x \in Seq(Nat) /\ Len(x) = 2 + Len(b) /\ Lies(b, 2, x)
  BY <1>4, <1>5, LiesJoined, Zenon
<1>7. x[1] = p /\ x[2] = q
  BY <1>4, <1>5
<1> QED BY <1>1, <1>2, <1>3, <1>5, <1>6, <1>7, ZenonT(40) DEF BcdOf, AddressOf, b

\* The numbers of the headers and what may be encoded.
LEMMA RequestText ==
  ASSUME NEW r \in Requests
  PROVE  /\ r.text \in Seq(Unicode) /\ r.to.digits \in Seq(0 .. 9)
         /\ r.to.digits # <<>> /\ r.to.plus \in BOOLEAN
         /\ Asked[r] \in Seq(Byte) /\ CodePoints(Asked[r]) = r.text
         /\ r.numbers \in Numbers
         /\ \A i \in 1 .. Len(r.text) : IsCharacter(r.text[i])
<1>1. RequestOK(r)
  BY PduAssumption
<1>2. r.text \in Seq(Nat) /\ \A i \in 1 .. Len(r.text) : IsCharacter(r.text[i])
  <2>1. r.text \in Seq(Nat) /\ \A i \in DOMAIN r.text : IsCharacter(r.text[i])
    BY <1>1, Zenon DEF RequestOK
  <2> QED BY <2>1, Elements, Zenon
<1>3. r.text \in Seq(Unicode)
  <2>1. \A i \in 1 .. Len(r.text) : r.text[i] \in Unicode
    BY <1>2 DEF IsCharacter, Unicode
  <2>2. PICK s \in Seq(Nat) : s = r.text
    BY <1>2
  <2>3. \A i \in 1 .. Len(s) : s[i] \in Unicode
    BY <2>1, <2>2, Zenon
  <2>4. s \in Seq(Unicode)
    BY <2>3
  <2> QED BY <2>2, <2>4
<1>4. Asked[r] = Utf8(r.text)
  BY DEF Asked
<1>5. Asked[r] \in Seq(Byte) /\ CodePoints(Asked[r]) = r.text
  BY <1>3, <1>4, Utf8Read, Zenon
<1>6. r.to.digits \in Seq(0 .. 9) /\ r.to.digits # <<>> /\ r.to.plus \in BOOLEAN
  <2>1. r.to \in Number
    BY <1>1, Zenon DEF RequestOK
  <2> QED BY <2>1 DEF Number
<1>7. r.numbers \in Numbers
  BY <1>1, Zenon DEF RequestOK
<1> QED BY <1>2, <1>3, <1>5, <1>6, <1>7, Zenon

-----------------------------------------------------------------------------
(* Packing. *)

LEMMA JoinOctet ==
  ASSUME NEW a \in Byte, NEW b \in Byte, NEW k \in 0 .. 6
  PROVE  Join(a, b, k) \in Byte
<1>1. CASE k = 0
  BY <1>1 DEF Join, Byte
<1>2. CASE k = 1
  BY <1>2 DEF Join, Byte
<1>3. CASE k = 2
  BY <1>3 DEF Join, Byte
<1>4. CASE k = 3
  BY <1>4 DEF Join, Byte
<1>5. CASE k = 4
  BY <1>5 DEF Join, Byte
<1>6. CASE k = 5
  BY <1>6 DEF Join, Byte
<1>7. CASE k = 6
  BY <1>7 DEF Join, Byte
<1> QED BY <1>1, <1>2, <1>3, <1>4, <1>5, <1>6, <1>7

\* The octet at w has the last bits of one septet and the first of the next.
LEMMA PackShape ==
  ASSUME NEW s \in Seq(Byte), NEW g \in Byte
  PROVE  LET n == Len(s)
             p == Pack(s, g)
             t == Append(s, g)
         IN /\ p \in Seq(Byte) /\ Len(p) = (7 * n + 7) \div 8
            /\ \A w \in 1 .. Len(p) :
                 LET r == (w - 1) + ((w - 1) \div 7) + 1
                 IN /\ r \in 1 .. n
                    /\ p[w] = Join(s[r], IF r < n THEN s[r + 1] ELSE g, (w - 1) % 7)
<1> DEFINE n == Len(s)
           p == Pack(s, g)
           t == Append(s, g)
           r(w) == (w - 1) + ((w - 1) \div 7) + 1
<1>1. n \in Nat /\ \A i \in 1 .. n : s[i] \in Byte /\ t[i] = s[i]
  BY Elements
<1>2. t[n + 1] = g
  OBVIOUS
<1>3. p = [w \in 1 .. (7 * n + 7) \div 8 |-> Join(t[r(w)], t[r(w) + 1], (w - 1) % 7)]
  BY Zenon DEF Pack, OctetsFor
<1> HIDE DEF n, t, p
<1>4. ASSUME NEW w \in 1 .. (7 * n + 7) \div 8
      PROVE  /\ r(w) \in 1 .. n /\ (w - 1) % 7 \in 0 .. 6
             /\ p[w] = Join(s[r(w)], IF r(w) < n THEN s[r(w) + 1] ELSE g, (w - 1) % 7)
             /\ p[w] \in Byte
  <2>1. /\ r(w) \in 1 .. n /\ (w - 1) % 7 \in 0 .. 6
        /\ r(w) < n => r(w) + 1 \in 1 .. n
        /\ ~(r(w) < n) => r(w) + 1 = n + 1
    BY <1>1
  <2>2. p[w] = Join(t[r(w)], t[r(w) + 1], (w - 1) % 7)
    BY <1>3
  <2> HIDE DEF r
  <2>3. /\ t[r(w)] = s[r(w)]
        /\ t[r(w) + 1] = IF r(w) < n THEN s[r(w) + 1] ELSE g
    BY <1>1, <1>2, <2>1, Zenon
  <2>4. PICK a \in Byte, b \in Byte : a = t[r(w)] /\ b = t[r(w) + 1]
    <3>1. t[r(w)] \in Byte
      BY <1>1, <2>1
    <3>2. CASE r(w) < n
      BY <1>1, <2>1, <3>1, <3>2
    <3>3. CASE ~(r(w) < n)
      BY <1>2, <2>1, <3>1, <3>3
    <3> QED BY <3>2, <3>3
  <2>5. Join(a, b, (w - 1) % 7) \in Byte
    BY <2>1, JoinOctet
  <2> QED BY <2>1, <2>2, <2>3, <2>4, <2>5, Zenon
<1>5. p \in Seq(Byte) /\ Len(p) = (7 * n + 7) \div 8
  <2>1. (7 * n + 7) \div 8 \in Nat
    BY <1>1
  <2>2. \A w \in 1 .. (7 * n + 7) \div 8 : p[w] \in Byte
    BY <1>4
  <2> QED BY <1>3, <2>1, <2>2
<1> HIDE DEF r
<1> QED BY <1>4, <1>5, Zenon DEF n, p, t, r

-----------------------------------------------------------------------------
(* The default alphabet. *)

Functional(rows) == \A p \in rows, q \in rows : p[1] = q[1] => p[2] = q[2]

LEMMA TableValue ==
  ASSUME NEW rows, Functional(rows), NEW q \in rows
  PROVE  q[1] \in DOMAIN Table(rows) /\ Table(rows)[q[1]] = q[2]
<1>1. PICK p : p = CHOOSE x \in rows : x[1] = q[1]
  OBVIOUS
<1>2. p \in rows /\ p[1] = q[1]
  BY <1>1
<1>3. q[1] \in {x[1] : x \in rows} /\ Table(rows)[q[1]] = p[2]
  BY <1>1 DEF Table
<1>4. DOMAIN Table(rows) = {x[1] : x \in rows}
  BY DEF Table
<1> QED BY <1>2, <1>3, <1>4 DEF Functional

LEMMA TableDomain ==
  ASSUME NEW rows, NEW x \in DOMAIN Table(rows)
  PROVE  \E q \in rows : q[1] = x
BY DEF Table

LEMMA TablesFunctional ==
  /\ Functional(MovedRows) /\ Functional(GreekRows) /\ Functional(ReadRows)
  /\ Functional(UngreekRows) /\ Functional(EscapedRows)
<1>1. Functional(MovedRows)
  BY DEF Functional, MovedRows
<1>2. Functional(GreekRows)
  BY DEF Functional, GreekRows
<1>3. Functional(ReadRows)
  BY DEF Functional, ReadRows
<1>4. Functional(UngreekRows)
  BY DEF Functional, UngreekRows
<1>5. Functional(EscapedRows)
  BY DEF Functional, EscapedRows
<1> QED BY <1>1, <1>2, <1>3, <1>4, <1>5

\* A septet as a character, alone and behind an escape.
One(s) == IF s # 63 /\ lookup_gsm7toUnicode(s) = 63
          THEN lookup_Greek7ToUnicode[s] ELSE lookup_gsm7toUnicode(s)
Two(s) == IF s \in DOMAIN Escaped THEN Escaped[s] ELSE 63

\* What has become of a character reads as it.
Single(cp, u) == \E x \in 0 .. 127 : x # 27 /\ u = <<x>> /\ One(x) = cp
Double(cp, u) == \E y \in 0 .. 127 : u = <<27, y>> /\ Two(y) = cp

LEMMA EscapedBack ==
  ASSUME NEW q \in MovedRows, q[2] > 256
  PROVE  <<q[2] - 256, q[1]>> \in EscapedRows /\ q[2] - 256 \in 0 .. 127
BY DEF MovedRows, EscapedRows

LEMMA MovedBack ==
  ASSUME NEW q \in MovedRows, ~(q[2] > 256), q[1] \notin Negated
  PROVE  /\ <<q[2], q[1]>> \in ReadRows /\ q[2] \in 0 .. 127 /\ q[1] # 63
         /\ q[2] # 27 /\ q[2] # 16 /\ q[2] \notin 18 .. 26 /\ q[2] % 256 = q[2]
BY DEF MovedRows, ReadRows, Negated

LEMMA GreekBack ==
  ASSUME NEW q \in GreekRows
  PROVE  <<q[2], q[1]>> \in UngreekRows /\ (q[2] = 16 \/ q[2] \in 18 .. 26)
BY DEF GreekRows, UngreekRows

LEMMA GreekLegal ==
  ASSUME NEW cp \in gsm7_legal, cp >= 915, cp # 8364
  PROVE  \E q \in GreekRows : q[1] = cp
BY DEF gsm7_legal, GreekRows

LEMMA PlainLegal ==
  ASSUME NEW cp \in gsm7_legal, ~(cp >= 915), \A q \in MovedRows : q[1] # cp
  PROVE  /\ cp \in 0 .. 127 /\ cp # 27 /\ cp # 16 /\ cp \notin 18 .. 26
         /\ cp % 256 = cp /\ ~(cp > 256) /\ \A q \in ReadRows : q[1] # cp
<1>1. cp \in 0 .. 127 /\ cp # 27 /\ cp # 16 /\ cp \notin 18 .. 26
  BY DEF gsm7_legal, MovedRows
<1>2. \A q \in ReadRows : q[1] # cp
  BY DEF gsm7_legal, MovedRows, ReadRows
<1>3. cp % 256 = cp /\ ~(cp > 256)
  BY <1>1
<1> QED BY <1>1, <1>2, <1>3

LEMMA GsmShape ==
  ASSUME NEW cp \in Exact
  PROVE  Single(cp, ToGsm7(cp)) \/ Double(cp, ToGsm7(cp))
<1>1. cp \in gsm7_legal /\ cp \notin Negated
  BY DEF Exact
<1>2. CASE cp = 8364
  <2>1. ToGsm7(cp) = <<27, 101>>
    BY <1>2 DEF ToGsm7
  <2>2. <<101, 8364>> \in EscapedRows
    BY DEF EscapedRows
  <2>3. 101 \in DOMAIN Escaped /\ Escaped[101] = 8364
    BY <2>2, TablesFunctional, TableValue DEF Escaped
  <2>4. Two(101) = cp
    BY <1>2, <2>3 DEF Two
  <2> QED BY <2>1, <2>4 DEF Double
<1>3. CASE cp >= 915 /\ cp # 8364
  <2>1. PICK q \in GreekRows : q[1] = cp
    BY <1>1, <1>3, GreekLegal
  <2>2. <<q[2], q[1]>> \in UngreekRows /\ (q[2] = 16 \/ q[2] \in 18 .. 26)
    BY GreekBack
  <2>3. PICK x : x = q[2]
    OBVIOUS
  <2>4. lookup_UnicodeToGreek7[cp] = x
    BY <2>1, <2>3, TablesFunctional, TableValue DEF lookup_UnicodeToGreek7
  <2>5. lookup_Greek7ToUnicode[x] = cp
    <3>1. PICK r \in UngreekRows : r[1] = x /\ r[2] = cp
      BY <2>1, <2>2, <2>3
    <3> QED BY <3>1, TablesFunctional, TableValue DEF lookup_Greek7ToUnicode
  <2>6. ToGsm7(cp) = <<x>>
    BY <1>3, <2>4 DEF ToGsm7
  <2>7. x \in 0 .. 127 /\ x # 27 /\ x # 63 /\ lookup_gsm7toUnicode(x) = 63
    BY <2>2, <2>3 DEF lookup_gsm7toUnicode
  <2>8. One(x) = cp
    BY <2>5, <2>7 DEF One
  <2> QED BY <2>6, <2>7, <2>8 DEF Single
<1>4. CASE ~(cp >= 915) /\ \E q \in MovedRows : q[1] = cp
  <2>1. PICK q \in MovedRows : q[1] = cp
    BY <1>4
  <2>2. PICK v : v = q[2]
    OBVIOUS
  <2>3. cp \in DOMAIN Moved /\ Moved[cp] = v
    BY <2>1, <2>2, TablesFunctional, TableValue DEF Moved
  <2>4. lookup_ascii8to7(cp) = v
    BY <2>3 DEF lookup_ascii8to7
  <2>5. cp # 8364
    BY <1>4
  <2>6. ToGsm7(cp) = IF v > 256 THEN <<27, v - 256>> ELSE <<v % 256>>
    BY <1>4, <2>4, <2>5 DEF ToGsm7
  <2>7. CASE v > 256
    <3>1. <<v - 256, cp>> \in EscapedRows /\ v - 256 \in 0 .. 127
      BY <2>1, <2>2, <2>7, EscapedBack
    <3>2. PICK y \in 0 .. 127 : y = v - 256
      BY <3>1
    <3>3. PICK r \in EscapedRows : r[1] = y /\ r[2] = cp
      BY <3>1, <3>2
    <3>4. y \in DOMAIN Escaped /\ Escaped[y] = cp
      BY <3>3, TablesFunctional, TableValue DEF Escaped
    <3>5. Two(y) = cp
      BY <3>4 DEF Two
    <3>6. ToGsm7(cp) = <<27, y>>
      BY <2>6, <2>7, <3>2
    <3> QED BY <3>5, <3>6, Zenon DEF Double
  <2>8. CASE ~(v > 256)
    <3>1. /\ <<v, cp>> \in ReadRows /\ v \in 0 .. 127 /\ cp # 63
          /\ v # 27 /\ v # 16 /\ v \notin 18 .. 26 /\ v % 256 = v
      BY <1>1, <2>1, <2>2, <2>8, MovedBack
    <3>2. PICK r \in ReadRows : r[1] = v /\ r[2] = cp
      BY <3>1
    <3>3. v \in DOMAIN Read /\ Read[v] = cp
      BY <3>2, TablesFunctional, TableValue DEF Read
    <3>4. lookup_gsm7toUnicode(v) = cp
      BY <3>1, <3>3 DEF lookup_gsm7toUnicode
    <3>5. One(v) = cp
      BY <3>1, <3>4 DEF One
    <3>6. ToGsm7(cp) = <<v>>
      BY <2>6, <2>8, <3>1
    <3> QED BY <3>1, <3>5, <3>6 DEF Single
  <2> QED BY <2>7, <2>8
<1>5. CASE ~(cp >= 915) /\ \A q \in MovedRows : q[1] # cp
  <2>1. /\ cp \in 0 .. 127 /\ cp # 27 /\ cp # 16 /\ cp \notin 18 .. 26
        /\ cp % 256 = cp /\ ~(cp > 256) /\ \A q \in ReadRows : q[1] # cp
    BY <1>1, <1>5, PlainLegal
  <2>2. cp \notin DOMAIN Moved
    BY <1>5, TableDomain DEF Moved
  <2>3. cp \notin DOMAIN Read
    BY <2>1, TableDomain DEF Read
  <2>4. cp # 8364
    BY <1>5
  <2>5. ToGsm7(cp) = <<cp>>
    BY <1>5, <2>1, <2>2, <2>4 DEF ToGsm7, lookup_ascii8to7
  <2>6. One(cp) = cp
    BY <2>1, <2>3 DEF One, lookup_gsm7toUnicode
  <2> QED BY <2>1, <2>5, <2>6 DEF Single
<1> QED BY <1>1, <1>2, <1>3, <1>4, <1>5

\* The two characters that are not read back are one octet, too.
LEMMA GsmType ==
  ASSUME NEW cp \in gsm7_legal
  PROVE  ToGsm7(cp) \in Seq(Byte) /\ Len(ToGsm7(cp)) \in 1 .. 2
<1>1. CASE cp \in Exact
  <2>1. CASE Single(cp, ToGsm7(cp))
    <3>1. PICK x \in 0 .. 127 : ToGsm7(cp) = <<x>>
      BY <2>1 DEF Single
    <3>2. x \in Byte
      BY DEF Byte
    <3> QED BY <3>1, <3>2
  <2>2. CASE Double(cp, ToGsm7(cp))
    <3>1. PICK y \in 0 .. 127 : ToGsm7(cp) = <<27, y>>
      BY <2>2 DEF Double
    <3>2. y \in Byte /\ 27 \in Byte
      BY DEF Byte
    <3> QED BY <3>1, <3>2
  <2> QED BY <1>1, <2>1, <2>2, GsmShape
<1>2. CASE cp \in Negated
  <2>1. PICK q \in MovedRows : q[1] = cp /\ q[2] < 0
    BY <1>2 DEF MovedRows, Negated
  <2>2. PICK v \in Int : v = q[2]
    BY DEF MovedRows
  <2>3. cp \in DOMAIN Moved /\ Moved[cp] = v
    BY <2>1, <2>2, TablesFunctional, TableValue DEF Moved
  <2>4. cp # 8364 /\ ~(cp >= 915) /\ ~(v > 256)
    BY <1>2, <2>1, <2>2 DEF Negated
  <2>5. ToGsm7(cp) = <<v % 256>>
    BY <2>3, <2>4 DEF ToGsm7, lookup_ascii8to7
  <2>6. v % 256 \in Byte
    BY DEF Byte
  <2> QED BY <2>5, <2>6
<1> QED BY <1>1, <1>2 DEF Exact

LEMMA SeptetsType ==
  ASSUME NEW cps \in Seq(gsm7_legal)
  PROVE  Septets7(cps) \in Seq(Byte)
<1> DEFINE P == [i \in DOMAIN cps |-> ToGsm7(cps[i])]
<1>1. Len(cps) \in Nat /\ DOMAIN cps = 1 .. Len(cps)
      /\ \A i \in 1 .. Len(cps) : cps[i] \in gsm7_legal
  BY Elements
<1>2. \A i \in 1 .. Len(cps) : P[i] \in Seq(Byte)
  BY <1>1, GsmType
<1>3. P \in Seq(Seq(Byte))
  BY <1>1, <1>2
<1> HIDE DEF P
<1>4. Concat(P) \in Seq(Byte)
  BY <1>3, ConcatType
<1> QED BY <1>4 DEF Septets7, P

-----------------------------------------------------------------------------
(* Encoded. *)

Three(S, s, t, u, x) ==
  /\ x \in Seq(S) /\ Len(x) = (Len(s) + Len(t)) + Len(u)
  /\ Lies(s, 0, x) /\ Lies(t, Len(s), x) /\ Lies(u, Len(s) + Len(t), x)
Four(S, s, t, u, v, x) ==
  /\ x \in Seq(S) /\ Len(x) = ((Len(s) + Len(t)) + Len(u)) + Len(v)
  /\ Lies(s, 0, x) /\ Lies(t, Len(s), x) /\ Lies(u, Len(s) + Len(t), x)
  /\ Lies(v, (Len(s) + Len(t)) + Len(u), x)

LEMMA LiesThree ==
  ASSUME NEW S, NEW s \in Seq(S), NEW t \in Seq(S), NEW u \in Seq(S)
  PROVE  Three(S, s, t, u, s \o t \o u)
<1>1. PICK y : y = s \o t
  OBVIOUS
<1>2. y \in Seq(S) /\ Len(y) = Len(s) + Len(t) /\ Lies(s, 0, y) /\ Lies(t, Len(s), y)
  BY <1>1, LiesJoined, Zenon
<1>3. PICK x : x = y \o u
  OBVIOUS
<1>4. x \in Seq(S) /\ Len(x) = Len(y) + Len(u) /\ Lies(y, 0, x) /\ Lies(u, Len(y), x)
  BY <1>2, <1>3, LiesJoined, Zenon
<1>5. Lies(s, 0 + 0, x) /\ Lies(t, 0 + Len(s), x)
  BY <1>2, <1>4, LiesIn, Zenon
<1>6. 0 + 0 = 0 /\ 0 + Len(s) = Len(s)
  OBVIOUS
<1> QED BY <1>1, <1>2, <1>3, <1>4, <1>5, <1>6, Zenon DEF Three

LEMMA LiesFour ==
  ASSUME NEW S, NEW s \in Seq(S), NEW t \in Seq(S), NEW u \in Seq(S), NEW v \in Seq(S)
  PROVE  Four(S, s, t, u, v, s \o t \o u \o v)
<1>1. PICK y : y = s \o t \o u
  OBVIOUS
<1>2. /\ y \in Seq(S) /\ Len(y) = (Len(s) + Len(t)) + Len(u)
      /\ Lies(s, 0, y) /\ Lies(t, Len(s), y) /\ Lies(u, Len(s) + Len(t), y)
  <2>1. Three(S, s, t, u, y)
    BY <1>1, LiesThree, Zenon
  <2> QED BY <2>1, Zenon DEF Three
<1>3. PICK x : x = y \o v
  OBVIOUS
<1>4. x \in Seq(S) /\ Len(x) = Len(y) + Len(v) /\ Lies(y, 0, x) /\ Lies(v, Len(y), x)
  BY <1>2, <1>3, LiesJoined, Zenon
<1>5. Lies(s, 0 + 0, x) /\ Lies(t, 0 + Len(s), x) /\ Lies(u, 0 + (Len(s) + Len(t)), x)
  BY <1>2, <1>4, LiesIn, Zenon
<1>6. 0 + 0 = 0 /\ 0 + Len(s) = Len(s) /\ 0 + (Len(s) + Len(t)) = Len(s) + Len(t)
  OBVIOUS
<1> QED BY <1>1, <1>2, <1>3, <1>4, <1>5, <1>6, Zenon DEF Four

\* Each word gives two octets, the high one first.
LEMMA OctetsShape ==
  ASSUME NEW words \in Seq(Word)
  PROVE  /\ Octets(words) \in Seq(Byte) /\ Len(Octets(words)) = 2 * Len(words)
         /\ \A k \in 1 .. Len(words) :
              Octets(words)[2 * k - 1] * 256 + Octets(words)[2 * k] = words[k]
<1> DEFINE n == Len(words)
           o == Octets(words)
<1>1. n \in Nat /\ \A k \in 1 .. n : words[k] \in Word
  BY Elements
<1>2. o = [i \in 1 .. 2 * n |-> LET u == words[(i + 1) \div 2] IN
             IF i % 2 = 1 THEN u \div 256 ELSE u % 256]
  BY DEF Octets
<1> HIDE DEF n, o
<1>3. ASSUME NEW i \in 1 .. 2 * n
      PROVE  o[i] \in Byte
  <2>1. (i + 1) \div 2 \in 1 .. n
    BY <1>1
  <2>2. PICK u \in Word : u = words[(i + 1) \div 2]
    BY <1>1, <2>1
  <2>3. o[i] = IF i % 2 = 1 THEN u \div 256 ELSE u % 256
    BY <1>2, <2>2
  <2>4. u \div 256 \in Byte /\ u % 256 \in Byte
    BY DEF Word, Byte
  <2> QED BY <2>3, <2>4
<1>4. ASSUME NEW k \in 1 .. n
      PROVE  o[2 * k - 1] * 256 + o[2 * k] = words[k]
  <2>1. /\ 2 * k - 1 \in 1 .. 2 * n /\ 2 * k \in 1 .. 2 * n
        /\ ((2 * k - 1) + 1) \div 2 = k /\ (2 * k + 1) \div 2 = k
        /\ (2 * k - 1) % 2 = 1 /\ (2 * k) % 2 = 0
    BY <1>1
  <2>2. PICK u \in Word : u = words[k]
    BY <1>1
  <2>3. o[2 * k - 1] = u \div 256 /\ o[2 * k] = u % 256
    BY <1>2, <2>1, <2>2
  <2>4. (u \div 256) * 256 + (u % 256) = u
    BY DEF Word
  <2> QED BY <2>2, <2>3, <2>4, Zenon
<1>5. o \in Seq(Byte) /\ Len(o) = 2 * n
  BY <1>1, <1>2, <1>3
<1> QED BY <1>4, <1>5, Zenon DEF n, o

\* A character in one or two of them.
LEMMA Ucs2Shape ==
  ASSUME NEW cp \in Unicode
  PROVE  utf8_to_ucs2_single(cp) \in Seq(Word)
<1>1. CASE cp < 65536
  <2>1. cp \in Word
    BY <1>1 DEF Unicode, Word
  <2> QED BY <1>1, <2>1 DEF utf8_to_ucs2_single
<1>2. CASE ~(cp < 65536)
  <2>1. 55296 + ((cp - 65536) \div 1024) \in Word
    BY <1>2 DEF Unicode, Word
  <2>2. 56320 + ((cp - 65536) % 1024) \in Word
    BY <1>2 DEF Unicode, Word
  <2> QED BY <1>2, <2>1, <2>2 DEF utf8_to_ucs2_single
<1> QED BY <1>1, <1>2

LEMMA Ucs2Type ==
  ASSUME NEW text, CodePoints(text) \in Seq(Unicode)
  PROVE  utf8_to_ucs2(text) \in Seq(Byte)
<1>1. PICK cps \in Seq(Unicode) : cps = CodePoints(text)
  OBVIOUS
<1> DEFINE P == [i \in 1 .. Len(cps) |-> Octets(utf8_to_ucs2_single(cps[i]))]
<1>2. Len(cps) \in Nat /\ \A i \in 1 .. Len(cps) : cps[i] \in Unicode
  BY Elements
<1>3. \A i \in 1 .. Len(cps) : P[i] \in Seq(Byte)
  BY <1>2, Ucs2Shape, OctetsShape
<1>4. P \in Seq(Seq(Byte))
  BY <1>2, <1>3
<1>5. utf8_to_ucs2(text) = Concat(P)
  BY <1>1 DEF utf8_to_ucs2
<1> HIDE DEF P
<1> QED BY <1>4, <1>5, ConcatType

\* A PDU without an error is the addresses and the text, and these are not
\* longer than they may be.
Header(n) == IF n[1] = 0 THEN <<>> ELSE buildUDH(n)
Addressed(r) ==
  setAddress(Center, "OCTETS") \o <<IF r.numbers[1] = 0 THEN 1 ELSE 65, 0>>
    \o setAddress(r.to, "NIBBLES") \o <<0>>
UserPart(r, g) ==
  IF Wide(Asked[r], r.force) THEN Words(Header(r.numbers), Asked[r])
  ELSE Septets(Header(r.numbers), Asked[r], g)

LEMMA EncodeOk ==
  ASSUME NEW r \in Requests, NEW g \in Garbage,
         encodePDU(r.to, Asked[r], r.numbers, r.force, g), rc' = "ok"
  PROVE  /\ generalWorkBuff' = Addressed(r) \o UserPart(r, g)
         /\ AddressLegal(Center) /\ AddressLegal(r.to) /\ NumbersLegal(r.numbers)
         /\ Wide(Asked[r], r.force) =>
              ~(Len(utf8_to_ucs2(Asked[r])) > MAX_NUMBER_OCTETS - Len(Header(r.numbers)))
         /\ ~Wide(Asked[r], r.force) =>
              ~(Len(convert_utf8_to_gsm7bit(Asked[r])) > MaxSeptets(Header(r.numbers)))
<1> DEFINE text == Asked[r]
           h == Header(r.numbers)
           wide == Wide(text, r.force)
           long == Len(utf8_to_ucs2(text)) > MAX_NUMBER_OCTETS - Len(h)
           many == Len(convert_utf8_to_gsm7bit(text)) > MaxSeptets(h)
           error == IF ~NumbersLegal(r.numbers) THEN "MULTIPART_NUMBERS"
                    ELSE IF ~AddressLegal(Center) \/ ~AddressLegal(r.to)
                    THEN "ADDRESS_FORMAT"
                    ELSE IF wide /\ long THEN "UCS2_TOO_LONG"
                    ELSE IF ~wide /\ many THEN "GSM7_TOO_LONG" ELSE "ok"
<1>1. /\ rc' = error
      /\ generalWorkBuff' = IF error # "ok" THEN generalWorkBuff
                            ELSE Addressed(r) \o UserPart(r, g)
  BY Zenon DEF encodePDU, Header, Addressed, UserPart
<1>2. error = "ok"
  BY <1>1
<1> HIDE DEF wide, long, many
<1>3. NumbersLegal(r.numbers) /\ AddressLegal(Center) /\ AddressLegal(r.to)
  BY <1>2
<1>4. (wide => ~long) /\ (~wide => ~many)
  BY <1>2
<1> HIDE DEF error
<1> QED BY <1>1, <1>2, <1>3, <1>4, Zenon DEF wide, long, many

\* A text that is not sent in 16 bits has characters of the alphabet only.
LEMMA Narrow ==
  ASSUME NEW r \in Requests, ~Wide(Asked[r], r.force)
  PROVE  /\ r.text \in Seq(gsm7_legal)
         /\ convert_utf8_to_gsm7bit(Asked[r]) = Septets7(r.text)
         /\ Septets7(r.text) \in Seq(Byte)
<1>1. PICK cps \in Seq(Unicode) : cps = r.text /\ CodePoints(Asked[r]) = cps
  BY RequestText
<1>2. Len(cps) \in Nat /\ DOMAIN cps = 1 .. Len(cps)
      /\ \A i \in 1 .. Len(cps) : cps[i] \in Unicode
  BY Elements
<1>3. \A i \in 1 .. Len(cps) : cps[i] \in gsm7_legal
  BY <1>1, <1>2, Zenon DEF Wide, isGSM7
<1>4. cps \in Seq(gsm7_legal)
  BY <1>2, <1>3
<1>5. convert_utf8_to_gsm7bit(Asked[r]) = Septets7(cps)
  BY <1>1, <1>2, Zenon DEF convert_utf8_to_gsm7bit, Septets7
<1> QED BY <1>1, <1>4, <1>5, SeptetsType, Zenon

LEMMA Triple ==
  ASSUME NEW X, NEW Y, NEW Z, NEW n \in X \X Y \X Z
  PROVE  n[1] \in X /\ n[2] \in Y /\ n[3] \in Z
OBVIOUS

LEMMA HeaderShape ==
  ASSUME NEW n \in Numbers
  PROVE  Header(n) \in Seq(Byte) /\ (Header(n) = <<>> \/ Len(Header(n)) = 7)
<1>1. n[1] \in Word /\ n[2] \in Byte /\ n[3] \in Byte
  BY Triple, Zenon DEF Numbers
<1>2. PICK a \in Word, b \in Byte, c \in Byte : a = n[1] /\ b = n[2] /\ c = n[3]
  BY <1>1, Zenon
<1>3. buildUDH(n) = <<6, 8, 4, a \div 256, a % 256, b, c>>
  BY <1>2 DEF buildUDH
<1>4. a \div 256 \in Byte /\ a % 256 \in Byte
  BY DEF Byte, Word
<1>5. 6 \in Byte /\ 8 \in Byte /\ 4 \in Byte
  BY DEF Byte
<1>6. buildUDH(n) \in Seq(Byte) /\ Len(buildUDH(n)) = 7
  BY <1>2, <1>3, <1>5, <1>4
<1> QED BY <1>6 DEF Header

\* The front of a PDU, and its text.
LEMMA FrontShape ==
  ASSUME NEW r \in Requests
  PROVE  Four(Nat, setAddress(Center, "OCTETS"),
              <<IF r.numbers[1] = 0 THEN 1 ELSE 65, 0>>,
              setAddress(r.to, "NIBBLES"), <<0>>, Addressed(r))
<1>1. Center.digits \in Seq(0 .. 9)
  BY PduAssumption DEF Number
<1>2. setAddress(Center, "OCTETS") \in Seq(Nat)
  BY <1>1, AddressShape DEF AddressOf
<1>3. setAddress(r.to, "NIBBLES") \in Seq(Nat)
  BY RequestText, AddressShape DEF AddressOf
<1>4. <<IF r.numbers[1] = 0 THEN 1 ELSE 65, 0>> \in Seq(Nat) /\ <<0>> \in Seq(Nat)
  OBVIOUS
<1> QED BY <1>2, <1>3, <1>4, LiesFour, Zenon DEF Addressed

LEMMA WordsShape ==
  ASSUME NEW r \in Requests
  PROVE  LET h == Header(r.numbers)
             o == utf8_to_ucs2(Asked[r])
         IN /\ o \in Seq(Byte)
            /\ Three(Nat, <<8, Len(o) + Len(h)>>, h, o, Words(h, Asked[r]))
<1> DEFINE h == Header(r.numbers)
           o == utf8_to_ucs2(Asked[r])
<1>1. h \in Seq(Byte) /\ o \in Seq(Byte)
  BY RequestText, HeaderShape, Ucs2Type
<1>2. Words(h, Asked[r]) = <<8, Len(o) + Len(h)>> \o h \o o
  BY DEF Words
<1> HIDE DEF h, o
<1>3. Byte \subseteq Nat
  BY DEF Byte
<1>4. h \in Seq(Nat) /\ o \in Seq(Nat)
  BY <1>1, <1>3, Wider
<1>5. <<8, Len(o) + Len(h)>> \in Seq(Nat)
  BY <1>4
<1>6. Three(Nat, <<8, Len(o) + Len(h)>>, h, o, Words(h, Asked[r]))
  BY <1>2, <1>4, <1>5, LiesThree
<1> QED BY <1>1, <1>6 DEF h, o

LEMMA SeptetsShape ==
  ASSUME NEW r \in Requests, ~Wide(Asked[r], r.force), NEW g \in Garbage
  PROVE  LET h == Header(r.numbers)
             s == Septets7(r.text)
             p == Pack(s, g)
             n == Len(s) + (IF h = <<>> THEN 0 ELSE 8)
         IN Four(Nat, <<0, n>>, h, p, IF h = <<>> THEN <<>> ELSE <<g>>,
                 Septets(h, Asked[r], g))
<1> DEFINE h == Header(r.numbers)
           s == Septets7(r.text)
           p == Pack(s, g)
           n == Len(s) + (IF h = <<>> THEN 0 ELSE 8)
           e == IF h = <<>> THEN <<>> ELSE <<g>>
<1>1. g \in Byte /\ Byte \subseteq Nat
  BY PduAssumption DEF Byte
<1>2. h \in Seq(Byte) /\ s \in Seq(Byte)
  BY RequestText, HeaderShape, Narrow
<1>3. p \in Seq(Byte)
  BY <1>1, <1>2, PackShape
<1>4. Septets(h, Asked[r], g) = <<0, n>> \o h \o p \o e
  BY Narrow, Zenon DEF Septets
<1> HIDE DEF h, s, p
<1>5. h \in Seq(Nat) /\ p \in Seq(Nat) /\ Len(s) \in Nat
  <2>1. h \in Seq(Nat) /\ p \in Seq(Nat)
    BY <1>1, <1>2, <1>3, Wider, Zenon
  <2> QED BY <1>2, <2>1
<1>6. <<0, n>> \in Seq(Nat) /\ e \in Seq(Nat)
  BY <1>1, <1>5
<1> HIDE DEF n, e
<1>7. Four(Nat, <<0, n>>, h, p, e, Septets(h, Asked[r], g))
  BY <1>4, <1>5, <1>6, LiesFour
<1> QED BY <1>7 DEF h, s, p, n, e

LEMMA FrontLength ==
  ASSUME NEW r \in Requests, AddressLegal(Center), AddressLegal(r.to)
  PROVE  Addressed(r) \in Seq(Nat) /\ Len(Addressed(r)) \in 0 .. 27
<1> DEFINE a == setAddress(Center, "OCTETS")
           b == setAddress(r.to, "NIBBLES")
<1>1. Center.digits \in Seq(0 .. 9) /\ r.to.digits \in Seq(0 .. 9)
  BY PduAssumption, RequestText DEF Number
<1>2. PICK m \in Nat, n \in Nat : m = Len(Center.digits) /\ n = Len(r.to.digits)
  BY <1>1
<1>3. m < 20 /\ n < 20
  BY <1>2, Zenon DEF AddressLegal, MAX_NUMBER_LENGTH
<1>4. Len(a) = 2 + (m + 1) \div 2 /\ Len(b) = 2 + (n + 1) \div 2
  BY <1>1, <1>2, AddressShape DEF AddressOf
<1>5. Addressed(r) \in Seq(Nat)
      /\ Len(Addressed(r)) = ((Len(a) + Len(<<IF r.numbers[1] = 0 THEN 1 ELSE 65, 0>>))
                             + Len(b)) + Len(<<0>>)
  BY FrontShape, Zenon DEF Four
<1> HIDE DEF a, b
<1>6. Len(Addressed(r)) = ((Len(a) + 2) + Len(b)) + 1
  BY <1>5
<1> QED BY <1>3, <1>4, <1>5, <1>6

LEMMA BodyLength ==
  ASSUME NEW r \in Requests, NEW g \in Garbage,
         Wide(Asked[r], r.force) =>
           ~(Len(utf8_to_ucs2(Asked[r])) > MAX_NUMBER_OCTETS - Len(Header(r.numbers))),
         ~Wide(Asked[r], r.force) =>
           ~(Len(convert_utf8_to_gsm7bit(Asked[r])) > MaxSeptets(Header(r.numbers)))
  PROVE  UserPart(r, g) \in Seq(Nat) /\ Len(UserPart(r, g)) \in 0 .. 143
<1> DEFINE h == Header(r.numbers)
<1>1. h \in Seq(Byte) /\ (h = <<>> \/ Len(h) = 7)
  BY RequestText, HeaderShape
<1>2. CASE Wide(Asked[r], r.force)
  <2>1. PICK o \in Seq(Byte) : /\ o = utf8_to_ucs2(Asked[r])
               /\ Three(Nat, <<8, Len(o) + Len(h)>>, h, o, Words(h, Asked[r]))
    BY WordsShape
  <2>2. UserPart(r, g) = Words(h, Asked[r])
    BY <1>2 DEF UserPart
  <2>3. ~(Len(o) > 140 - Len(h))
    BY <1>2, <2>1, Zenon DEF MAX_NUMBER_OCTETS
  <2> HIDE DEF h
  <2>4. UserPart(r, g) \in Seq(Nat)
        /\ Len(UserPart(r, g)) = (Len(<<8, Len(o) + Len(h)>>) + Len(h)) + Len(o)
    BY <2>1, <2>2, Zenon DEF Three
  <2>5. Len(<<8, Len(o) + Len(h)>>) = 2
    OBVIOUS
  <2>6. PICK hl \in Nat, ol \in Nat : hl = Len(h) /\ ol = Len(o)
    BY <1>1
  <2>7. Len(UserPart(r, g)) = (2 + hl) + ol /\ ~(ol > 140 - hl)
    BY <2>3, <2>4, <2>5, <2>6, Zenon
  <2>8. (2 + hl) + ol \in 0 .. 143
    BY <2>7
  <2> QED BY <2>4, <2>7, <2>8, Zenon
<1>3. CASE ~Wide(Asked[r], r.force)
  <2> DEFINE s == Septets7(r.text)
             p == Pack(s, g)
             n == Len(s) + (IF h = <<>> THEN 0 ELSE 8)
             e == IF h = <<>> THEN <<>> ELSE <<g>>
  <2>1. Four(Nat, <<0, n>>, h, p, e, Septets(h, Asked[r], g))
    BY <1>3, SeptetsShape
  <2>2. UserPart(r, g) = Septets(h, Asked[r], g)
    BY <1>3 DEF UserPart
  <2>3. ~(Len(s) > MaxSeptets(h)) /\ s \in Seq(Byte)
    BY <1>3, Narrow
  <2>4. g \in Byte
    BY PduAssumption
  <2>5. Len(p) = (7 * Len(s) + 7) \div 8 /\ Len(s) \in Nat
    BY <2>3, <2>4, PackShape
  <2> HIDE DEF h, s, p
  <2>6. UserPart(r, g) \in Seq(Nat)
        /\ Len(UserPart(r, g)) = ((Len(<<0, n>>) + Len(h)) + Len(p)) + Len(e)
    BY <2>1, <2>2, Zenon DEF Four
  <2>7. Len(<<0, n>>) = 2
    OBVIOUS
  <2>8. CASE h = <<>>
    <3>1. Len(h) = 0 /\ Len(e) = 0 /\ Len(s) <= 160
      BY <2>3, <2>5, <2>8 DEF MaxSeptets, MAX_SMS_LENGTH_7BIT
    <3> HIDE DEF e, n
    <3>2. PICK sl \in Nat : sl = Len(s)
      BY <2>5
    <3>3. PICK q \in Nat : q = (7 * sl + 7) \div 8 /\ q <= 140
      <4>1. sl <= 160
        BY <3>1, <3>2
      <4> QED BY <4>1
    <3>4. ((2 + 0) + q) + 0 \in 0 .. 143
      BY <3>3
    <3>5. ((2 + Len(h)) + ((7 * sl + 7) \div 8)) + Len(e) \in 0 .. 143
      BY <3>1, <3>3, <3>4, Zenon
    <3> QED BY <2>5, <2>6, <2>7, <3>2, <3>5, Zenon
  <2>9. CASE h # <<>>
    <3>1. Len(h) = 7 /\ Len(e) = 1 /\ Len(s) <= 152
      BY <1>1, <2>3, <2>5, <2>9 DEF MaxSeptets, MAX_SMS_LENGTH_7BIT
    <3> HIDE DEF e, n
    <3>2. PICK sl \in Nat : sl = Len(s)
      BY <2>5
    <3>3. PICK q \in Nat : q = (7 * sl + 7) \div 8 /\ q <= 133
      <4>1. sl <= 152
        BY <3>1, <3>2
      <4> QED BY <4>1
    <3>4. ((2 + 7) + q) + 1 \in 0 .. 143
      BY <3>3
    <3>5. ((2 + Len(h)) + ((7 * sl + 7) \div 8)) + Len(e) \in 0 .. 143
      BY <3>1, <3>3, <3>4, Zenon
    <3> QED BY <2>5, <2>6, <2>7, <3>2, <3>5, Zenon
  <2> QED BY <2>8, <2>9
<1> QED BY <1>2, <1>3

\* What is encoded fits into tempbuf, whatever is asked for.
THEOREM EncodedFits == Spec => []TempbufFits
<1>1. Init => TempbufFits
  BY DEF Init, None, TempbufFits
<1>2. TempbufFits /\ [Next]_vars => TempbufFits'
  <2> SUFFICES ASSUME TempbufFits, [Next]_vars, call'.op = "encode", rc' = "ok"
               PROVE  Len(generalWorkBuff') <= 170
    BY DEF TempbufFits, PDU_BINARY_MAX_LENGTH
  <2>1. CASE Encode
    <3>1. PICK r \in Requests, g \in Garbage :
            encodePDU(r.to, Asked[r], r.numbers, r.force, g)
      BY <2>1 DEF Encode
    <3>2. generalWorkBuff' = Addressed(r) \o UserPart(r, g)
      BY <3>1, EncodeOk
    <3>3. Addressed(r) \in Seq(Nat) /\ Len(Addressed(r)) \in 0 .. 27
      BY <3>1, EncodeOk, FrontLength
    <3>4. UserPart(r, g) \in Seq(Nat) /\ Len(UserPart(r, g)) \in 0 .. 143
      BY <3>1, EncodeOk, BodyLength
    <3>5. Len(generalWorkBuff') = Len(Addressed(r)) + Len(UserPart(r, g))
      BY <3>2, <3>3, <3>4, LiesJoined
    <3>6. \A x \in 0 .. 27, y \in 0 .. 143 : x + y <= 170
      OBVIOUS
    <3> QED BY <3>3, <3>4, <3>5, <3>6, Zenon
  <2>2. CASE Decode
    BY <2>2 DEF Decode
  <2>3. CASE UNCHANGED vars
    BY <2>3 DEF vars, TempbufFits, PDU_BINARY_MAX_LENGTH
  <2> QED BY <2>1, <2>2, <2>3 DEF Next
<1> QED BY <1>1, <1>2, PTL DEF Spec

-----------------------------------------------------------------------------
(* Bits. *)

SBit(a, e) == (a \div 2^e) % 2

\* The bits of a septet from bit k on, and its first k + 1 ones.
LEMMA LowBits ==
  ASSUME NEW a \in 0 .. 127
  PROVE  /\ SBit(a, 0) + 2 * SBit(a, 1) + 4 * SBit(a, 2) + 8 * SBit(a, 3) + 16 * SBit(a, 4) + 32 * SBit(a, 5) + 64 * SBit(a, 6) = a \div 1
         /\ SBit(a, 1) + 2 * SBit(a, 2) + 4 * SBit(a, 3) + 8 * SBit(a, 4) + 16 * SBit(a, 5) + 32 * SBit(a, 6) = a \div 2
         /\ SBit(a, 2) + 2 * SBit(a, 3) + 4 * SBit(a, 4) + 8 * SBit(a, 5) + 16 * SBit(a, 6) = a \div 4
         /\ SBit(a, 3) + 2 * SBit(a, 4) + 4 * SBit(a, 5) + 8 * SBit(a, 6) = a \div 8
         /\ SBit(a, 4) + 2 * SBit(a, 5) + 4 * SBit(a, 6) = a \div 16
         /\ SBit(a, 5) + 2 * SBit(a, 6) = a \div 32
         /\ SBit(a, 6) = a \div 64
<1>1. SBit(a, 0) + 2 * SBit(a, 1) + 4 * SBit(a, 2) + 8 * SBit(a, 3) + 16 * SBit(a, 4) + 32 * SBit(a, 5) + 64 * SBit(a, 6) = a \div 1
  BY DEF SBit
<1>2. SBit(a, 1) + 2 * SBit(a, 2) + 4 * SBit(a, 3) + 8 * SBit(a, 4) + 16 * SBit(a, 5) + 32 * SBit(a, 6) = a \div 2
  BY DEF SBit
<1>3. SBit(a, 2) + 2 * SBit(a, 3) + 4 * SBit(a, 4) + 8 * SBit(a, 5) + 16 * SBit(a, 6) = a \div 4
  BY DEF SBit
<1>4. SBit(a, 3) + 2 * SBit(a, 4) + 4 * SBit(a, 5) + 8 * SBit(a, 6) = a \div 8
  BY DEF SBit
<1>5. SBit(a, 4) + 2 * SBit(a, 5) + 4 * SBit(a, 6) = a \div 16
  BY DEF SBit
<1>6. SBit(a, 5) + 2 * SBit(a, 6) = a \div 32
  BY DEF SBit
<1>7. SBit(a, 6) = a \div 64
  BY DEF SBit
<1> QED BY <1>1, <1>2, <1>3, <1>4, <1>5, <1>6, <1>7, Zenon

LEMMA HighBits ==
  ASSUME NEW b \in 0 .. 127
  PROVE  /\ 128 * SBit(b, 0) = 128 * (b % 2)
         /\ 64 * SBit(b, 0) + 128 * SBit(b, 1) = 64 * (b % 4)
         /\ 32 * SBit(b, 0) + 64 * SBit(b, 1) + 128 * SBit(b, 2) = 32 * (b % 8)
         /\ 16 * SBit(b, 0) + 32 * SBit(b, 1) + 64 * SBit(b, 2) + 128 * SBit(b, 3) = 16 * (b % 16)
         /\ 8 * SBit(b, 0) + 16 * SBit(b, 1) + 32 * SBit(b, 2) + 64 * SBit(b, 3) + 128 * SBit(b, 4) = 8 * (b % 32)
         /\ 4 * SBit(b, 0) + 8 * SBit(b, 1) + 16 * SBit(b, 2) + 32 * SBit(b, 3) + 64 * SBit(b, 4) + 128 * SBit(b, 5) = 4 * (b % 64)
         /\ 2 * SBit(b, 0) + 4 * SBit(b, 1) + 8 * SBit(b, 2) + 16 * SBit(b, 3) + 32 * SBit(b, 4) + 64 * SBit(b, 5) + 128 * SBit(b, 6) = 2 * (b % 128)
<1>1. 128 * SBit(b, 0) = 128 * (b % 2)
  BY DEF SBit
<1>2. 64 * SBit(b, 0) + 128 * SBit(b, 1) = 64 * (b % 4)
  BY DEF SBit
<1>3. 32 * SBit(b, 0) + 64 * SBit(b, 1) + 128 * SBit(b, 2) = 32 * (b % 8)
  BY DEF SBit
<1>4. 16 * SBit(b, 0) + 32 * SBit(b, 1) + 64 * SBit(b, 2) + 128 * SBit(b, 3) = 16 * (b % 16)
  BY DEF SBit
<1>5. 8 * SBit(b, 0) + 16 * SBit(b, 1) + 32 * SBit(b, 2) + 64 * SBit(b, 3) + 128 * SBit(b, 4) = 8 * (b % 32)
  BY DEF SBit
<1>6. 4 * SBit(b, 0) + 8 * SBit(b, 1) + 16 * SBit(b, 2) + 32 * SBit(b, 3) + 64 * SBit(b, 4) + 128 * SBit(b, 5) = 4 * (b % 64)
  BY DEF SBit
<1>7. 2 * SBit(b, 0) + 4 * SBit(b, 1) + 8 * SBit(b, 2) + 16 * SBit(b, 3) + 32 * SBit(b, 4) + 64 * SBit(b, 5) + 128 * SBit(b, 6) = 2 * (b % 128)
  BY DEF SBit
<1> QED BY <1>1, <1>2, <1>3, <1>4, <1>5, <1>6, <1>7, Zenon

LEMMA JoinValue ==
  ASSUME NEW a \in 0 .. 127, NEW b \in Byte
  PROVE  /\ Join(a, b, 0) = (a \div 1) + 128 * (b % 2)
         /\ Join(a, b, 1) = (a \div 2) + 64 * (b % 4)
         /\ Join(a, b, 2) = (a \div 4) + 32 * (b % 8)
         /\ Join(a, b, 3) = (a \div 8) + 16 * (b % 16)
         /\ Join(a, b, 4) = (a \div 16) + 8 * (b % 32)
         /\ Join(a, b, 5) = (a \div 32) + 4 * (b % 64)
         /\ Join(a, b, 6) = (a \div 64) + 2 * (b % 128)
<1>1. Join(a, b, 0) = (a \div 1) + 128 * (b % 2)
  BY DEF Join, Byte
<1>2. Join(a, b, 1) = (a \div 2) + 64 * (b % 4)
  BY DEF Join, Byte
<1>3. Join(a, b, 2) = (a \div 4) + 32 * (b % 8)
  BY DEF Join, Byte
<1>4. Join(a, b, 3) = (a \div 8) + 16 * (b % 16)
  BY DEF Join, Byte
<1>5. Join(a, b, 4) = (a \div 16) + 8 * (b % 32)
  BY DEF Join, Byte
<1>6. Join(a, b, 5) = (a \div 32) + 4 * (b % 64)
  BY DEF Join, Byte
<1>7. Join(a, b, 6) = (a \div 64) + 2 * (b % 128)
  BY DEF Join, Byte
<1> QED BY <1>1, <1>2, <1>3, <1>4, <1>5, <1>6, <1>7, Zenon


\* The octet that begins k bits behind the beginning of a septet has the rest
\* of this one and the beginning of the next.
Adjoin(bit, p, a, b) ==
  \A e \in 0 .. 6 : bit[p + e] = SBit(a, e) /\ bit[(p + 7) + e] = SBit(b, e)

LEMMA OctetJoin ==
  ASSUME NEW bit, NEW p \in Nat, NEW a \in 0 .. 127, NEW b \in 0 .. 127,
         Adjoin(bit, p, a, b), NEW k \in 0 .. 6
  PROVE  Octet(bit, p + k) = Join(a, b, k)
<1>1. \A e \in 0 .. 6 : SBit(a, e) \in Int /\ SBit(b, e) \in Int
  BY DEF SBit
<1>2. /\ 0 \in 0 .. 6 /\ 1 \in 0 .. 6 /\ 2 \in 0 .. 6 /\ 3 \in 0 .. 6
      /\ 4 \in 0 .. 6 /\ 5 \in 0 .. 6 /\ 6 \in 0 .. 6
  OBVIOUS
<1>3. PICK a0 \in Int, a1 \in Int, a2 \in Int, a3 \in Int, a4 \in Int, a5 \in Int, a6 \in Int :
        /\ a0 = SBit(a, 0) /\ a1 = SBit(a, 1) /\ a2 = SBit(a, 2) /\ a3 = SBit(a, 3)
        /\ a4 = SBit(a, 4) /\ a5 = SBit(a, 5) /\ a6 = SBit(a, 6)
  BY <1>1, <1>2, Zenon
<1>4. PICK b0 \in Int, b1 \in Int, b2 \in Int, b3 \in Int, b4 \in Int, b5 \in Int, b6 \in Int :
        /\ b0 = SBit(b, 0) /\ b1 = SBit(b, 1) /\ b2 = SBit(b, 2) /\ b3 = SBit(b, 3)
        /\ b4 = SBit(b, 4) /\ b5 = SBit(b, 5) /\ b6 = SBit(b, 6)
  BY <1>1, <1>2, Zenon
<1>5. /\ bit[p] = a0 /\ bit[p + 1] = a1 /\ bit[p + 2] = a2 /\ bit[p + 3] = a3
      /\ bit[p + 4] = a4 /\ bit[p + 5] = a5 /\ bit[p + 6] = a6
  <2>1. p + 0 = p
    OBVIOUS
  <2> QED BY <1>2, <1>3, <2>1, Zenon DEF Adjoin
<1>6. /\ bit[p + 7] = b0 /\ bit[p + 8] = b1 /\ bit[p + 9] = b2 /\ bit[p + 10] = b3
      /\ bit[p + 11] = b4 /\ bit[p + 12] = b5 /\ bit[p + 13] = b6
  <2>1. /\ (p + 7) + 0 = p + 7 /\ (p + 7) + 1 = p + 8 /\ (p + 7) + 2 = p + 9
        /\ (p + 7) + 3 = p + 10 /\ (p + 7) + 4 = p + 11 /\ (p + 7) + 5 = p + 12
        /\ (p + 7) + 6 = p + 13
    OBVIOUS
  <2> QED BY <1>2, <1>4, <2>1, Zenon DEF Adjoin
<1>7. b \in Byte
  BY DEF Byte
<1>8. CASE k = 0
  <2>1. /\ (p + 0) + 1 = p + 1 /\ (p + 0) + 2 = p + 2 /\ (p + 0) + 3 = p + 3 /\ (p + 0) + 4 = p + 4
        /\ (p + 0) + 5 = p + 5 /\ (p + 0) + 6 = p + 6 /\ (p + 0) + 7 = p + 7 /\ p + 0 = p
    OBVIOUS
  <2>2. Octet(bit, p + 0) = a0 + 2 * a1 + 4 * a2 + 8 * a3
          + 16 * a4 + 32 * a5 + 64 * a6 + 128 * b0
    BY <1>5, <1>6, <2>1, Zenon DEF Octet, Septet
  <2>3. a0 + 2 * a1 + 4 * a2 + 8 * a3 + 16 * a4 + 32 * a5 + 64 * a6 = a \div 1
    BY <1>3, LowBits, Zenon
  <2>4. 128 * b0 = 128 * (b % 2)
    BY <1>4, HighBits, Zenon
  <2>5. Join(a, b, 0) = (a \div 1) + 128 * (b % 2)
    BY <1>7, JoinValue, Zenon
  <2>6. Octet(bit, p + 0) = Join(a, b, 0)
    BY <2>2, <2>3, <2>4, <2>5
  <2> QED BY <1>8, <2>6, Zenon
<1>9. CASE k = 1
  <2>1. /\ (p + 1) + 1 = p + 2 /\ (p + 1) + 2 = p + 3 /\ (p + 1) + 3 = p + 4 /\ (p + 1) + 4 = p + 5
        /\ (p + 1) + 5 = p + 6 /\ (p + 1) + 6 = p + 7 /\ (p + 1) + 7 = p + 8
    OBVIOUS
  <2>2. Octet(bit, p + 1) = a1 + 2 * a2 + 4 * a3 + 8 * a4
          + 16 * a5 + 32 * a6 + 64 * b0 + 128 * b1
    BY <1>5, <1>6, <2>1, Zenon DEF Octet, Septet
  <2>3. a1 + 2 * a2 + 4 * a3 + 8 * a4 + 16 * a5 + 32 * a6 = a \div 2
    BY <1>3, LowBits, Zenon
  <2>4. 64 * b0 + 128 * b1 = 64 * (b % 4)
    BY <1>4, HighBits, Zenon
  <2>5. Join(a, b, 1) = (a \div 2) + 64 * (b % 4)
    BY <1>7, JoinValue, Zenon
  <2>6. Octet(bit, p + 1) = Join(a, b, 1)
    BY <2>2, <2>3, <2>4, <2>5
  <2> QED BY <1>9, <2>6, Zenon
<1>10. CASE k = 2
  <2>1. /\ (p + 2) + 1 = p + 3 /\ (p + 2) + 2 = p + 4 /\ (p + 2) + 3 = p + 5 /\ (p + 2) + 4 = p + 6
        /\ (p + 2) + 5 = p + 7 /\ (p + 2) + 6 = p + 8 /\ (p + 2) + 7 = p + 9
    OBVIOUS
  <2>2. Octet(bit, p + 2) = a2 + 2 * a3 + 4 * a4 + 8 * a5
          + 16 * a6 + 32 * b0 + 64 * b1 + 128 * b2
    BY <1>5, <1>6, <2>1, Zenon DEF Octet, Septet
  <2>3. a2 + 2 * a3 + 4 * a4 + 8 * a5 + 16 * a6 = a \div 4
    BY <1>3, LowBits, Zenon
  <2>4. 32 * b0 + 64 * b1 + 128 * b2 = 32 * (b % 8)
    BY <1>4, HighBits, Zenon
  <2>5. Join(a, b, 2) = (a \div 4) + 32 * (b % 8)
    BY <1>7, JoinValue, Zenon
  <2>6. Octet(bit, p + 2) = Join(a, b, 2)
    BY <2>2, <2>3, <2>4, <2>5
  <2> QED BY <1>10, <2>6, Zenon
<1>11. CASE k = 3
  <2>1. /\ (p + 3) + 1 = p + 4 /\ (p + 3) + 2 = p + 5 /\ (p + 3) + 3 = p + 6 /\ (p + 3) + 4 = p + 7
        /\ (p + 3) + 5 = p + 8 /\ (p + 3) + 6 = p + 9 /\ (p + 3) + 7 = p + 10
    OBVIOUS
  <2>2. Octet(bit, p + 3) = a3 + 2 * a4 + 4 * a5 + 8 * a6
          + 16 * b0 + 32 * b1 + 64 * b2 + 128 * b3
    BY <1>5, <1>6, <2>1, Zenon DEF Octet, Septet
  <2>3. a3 + 2 * a4 + 4 * a5 + 8 * a6 = a \div 8
    BY <1>3, LowBits, Zenon
  <2>4. 16 * b0 + 32 * b1 + 64 * b2 + 128 * b3 = 16 * (b % 16)
    BY <1>4, HighBits, Zenon
  <2>5. Join(a, b, 3) = (a \div 8) + 16 * (b % 16)
    BY <1>7, JoinValue, Zenon
  <2>6. Octet(bit, p + 3) = Join(a, b, 3)
    BY <2>2, <2>3, <2>4, <2>5
  <2> QED BY <1>11, <2>6, Zenon
<1>12. CASE k = 4
  <2>1. /\ (p + 4) + 1 = p + 5 /\ (p + 4) + 2 = p + 6 /\ (p + 4) + 3 = p + 7 /\ (p + 4) + 4 = p + 8
        /\ (p + 4) + 5 = p + 9 /\ (p + 4) + 6 = p + 10 /\ (p + 4) + 7 = p + 11
    OBVIOUS
  <2>2. Octet(bit, p + 4) = a4 + 2 * a5 + 4 * a6 + 8 * b0
          + 16 * b1 + 32 * b2 + 64 * b3 + 128 * b4
    BY <1>5, <1>6, <2>1, Zenon DEF Octet, Septet
  <2>3. a4 + 2 * a5 + 4 * a6 = a \div 16
    BY <1>3, LowBits, Zenon
  <2>4. 8 * b0 + 16 * b1 + 32 * b2 + 64 * b3 + 128 * b4 = 8 * (b % 32)
    BY <1>4, HighBits, Zenon
  <2>5. Join(a, b, 4) = (a \div 16) + 8 * (b % 32)
    BY <1>7, JoinValue, Zenon
  <2>6. Octet(bit, p + 4) = Join(a, b, 4)
    BY <2>2, <2>3, <2>4, <2>5
  <2> QED BY <1>12, <2>6, Zenon
<1>13. CASE k = 5
  <2>1. /\ (p + 5) + 1 = p + 6 /\ (p + 5) + 2 = p + 7 /\ (p + 5) + 3 = p + 8 /\ (p + 5) + 4 = p + 9
        /\ (p + 5) + 5 = p + 10 /\ (p + 5) + 6 = p + 11 /\ (p + 5) + 7 = p + 12
    OBVIOUS
  <2>2. Octet(bit, p + 5) = a5 + 2 * a6 + 4 * b0 + 8 * b1
          + 16 * b2 + 32 * b3 + 64 * b4 + 128 * b5
    BY <1>5, <1>6, <2>1, Zenon DEF Octet, Septet
  <2>3. a5 + 2 * a6 = a \div 32
    BY <1>3, LowBits, Zenon
  <2>4. 4 * b0 + 8 * b1 + 16 * b2 + 32 * b3 + 64 * b4 + 128 * b5 = 4 * (b % 64)
    BY <1>4, HighBits, Zenon
  <2>5. Join(a, b, 5) = (a \div 32) + 4 * (b % 64)
    BY <1>7, JoinValue, Zenon
  <2>6. Octet(bit, p + 5) = Join(a, b, 5)
    BY <2>2, <2>3, <2>4, <2>5
  <2> QED BY <1>13, <2>6, Zenon
<1>14. CASE k = 6
  <2>1. /\ (p + 6) + 1 = p + 7 /\ (p + 6) + 2 = p + 8 /\ (p + 6) + 3 = p + 9 /\ (p + 6) + 4 = p + 10
        /\ (p + 6) + 5 = p + 11 /\ (p + 6) + 6 = p + 12 /\ (p + 6) + 7 = p + 13
    OBVIOUS
  <2>2. Octet(bit, p + 6) = a6 + 2 * b0 + 4 * b1 + 8 * b2
          + 16 * b3 + 32 * b4 + 64 * b5 + 128 * b6
    BY <1>5, <1>6, <2>1, Zenon DEF Octet, Septet
  <2>3. a6 = a \div 64
    BY <1>3, LowBits, Zenon
  <2>4. 2 * b0 + 4 * b1 + 8 * b2 + 16 * b3 + 32 * b4 + 64 * b5 + 128 * b6 = 2 * (b % 128)
    BY <1>4, HighBits, Zenon
  <2>5. Join(a, b, 6) = (a \div 64) + 2 * (b % 128)
    BY <1>7, JoinValue, Zenon
  <2>6. Octet(bit, p + 6) = Join(a, b, 6)
    BY <2>2, <2>3, <2>4, <2>5
  <2> QED BY <1>14, <2>6, Zenon
<1> QED BY <1>8, <1>9, <1>10, <1>11, <1>12, <1>13, <1>14
\* The octets o carry the septets s, and g behind them.
Packed(o, s, g) ==
  /\ o \in Seq(Byte) /\ Len(o) = (7 * Len(s) + 7) \div 8
  /\ \A w \in 1 .. Len(o) :
       LET r == (w - 1) + ((w - 1) \div 7) + 1
       IN /\ r \in 1 .. Len(s)
          /\ o[w] = Join(s[r], IF r < Len(s) THEN s[r + 1] ELSE g, (w - 1) % 7)

\* The bits of s begin at B, and no others are set behind them.
Stream(bit, B, s) ==
  \A i \in 0 .. 7 * Len(s) + 6 :
    bit[B + i] = IF i < 7 * Len(s) THEN BitAt(s, 7, i) ELSE 0

LEMMA StreamBits ==
  ASSUME NEW s \in Seq(0 .. 127), NEW bit, NEW B \in Nat, Stream(bit, B, s),
         NEW r \in 1 .. Len(s), NEW e \in 0 .. 6
  PROVE  /\ bit[(B + 7 * (r - 1)) + e] = SBit(s[r], e)
         /\ bit[((B + 7 * (r - 1)) + 7) + e]
              = SBit(IF r < Len(s) THEN s[r + 1] ELSE 0, e)
<1>1. PICK n \in Nat : n = Len(s)
  BY Elements
<1>2. ASSUME NEW q \in 1 .. n PROVE bit[(B + 7 * (q - 1)) + e] = SBit(s[q], e)
  <2>1. PICK i \in Nat : i = 7 * (q - 1) + e
    OBVIOUS
  <2>2. /\ i \in 0 .. 7 * n + 6 /\ i < 7 * n /\ (i \div 7) + 1 = q /\ i % 7 = e
        /\ B + i = (B + 7 * (q - 1)) + e
    BY <2>1, SMTT(30)
  <2>3. bit[B + i] = BitAt(s, 7, i)
    BY <1>1, <2>2, Zenon DEF Stream
  <2> QED BY <2>2, <2>3, Zenon DEF BitAt, SBit
<1>3. CASE r < n
  <2>1. r + 1 \in 1 .. n /\ r \in 1 .. n
        /\ (B + 7 * ((r + 1) - 1)) + e = ((B + 7 * (r - 1)) + 7) + e
    BY <1>1, <1>3
  <2> QED BY <1>1, <1>2, <1>3, <2>1, Zenon
<1>4. CASE ~(r < n)
  <2>1. PICK i \in Nat : i = 7 * n + e
    OBVIOUS
  <2>2. /\ i \in 0 .. 7 * n + 6 /\ ~(i < 7 * n) /\ r \in 1 .. n
        /\ B + i = ((B + 7 * (r - 1)) + 7) + e
    BY <1>1, <1>4, <2>1
  <2>3. bit[B + i] = 0
    BY <1>1, <2>2, Zenon DEF Stream
  <2>4. SBit(0, e) = 0
    <3>1. /\ SBit(0, 0) = 0 /\ SBit(0, 1) = 0 /\ SBit(0, 2) = 0 /\ SBit(0, 3) = 0
          /\ SBit(0, 4) = 0 /\ SBit(0, 5) = 0 /\ SBit(0, 6) = 0
      BY DEF SBit
    <3>2. e = 0 \/ e = 1 \/ e = 2 \/ e = 3 \/ e = 4 \/ e = 5 \/ e = 6
      OBVIOUS
    <3> QED BY <3>1, <3>2, Zenon
  <2> QED BY <1>1, <1>2, <1>4, <2>2, <2>3, <2>4, Zenon
<1> QED BY <1>3, <1>4

LEMMA StreamPacked ==
  ASSUME NEW s \in Seq(0 .. 127), NEW bit, NEW B \in Nat, Stream(bit, B, s),
         NEW o, o = [w \in 1 .. (7 * Len(s) + 7) \div 8 |-> Octet(bit, B + 8 * (w - 1))]
  PROVE  Packed(o, s, 0)
<1>1. PICK n \in Nat : n = Len(s)
  BY Elements
<1> DEFINE r(w) == (w - 1) + ((w - 1) \div 7) + 1
           next(w) == IF r(w) < n THEN s[r(w) + 1] ELSE 0
<1>2. ASSUME NEW w \in 1 .. (7 * n + 7) \div 8
      PROVE  /\ r(w) \in 1 .. n /\ o[w] = Join(s[r(w)], next(w), (w - 1) % 7)
             /\ o[w] \in Byte
  <2>1. r(w) \in 1 .. n /\ (w - 1) % 7 \in 0 .. 6
        /\ (B + 7 * (r(w) - 1)) + ((w - 1) % 7) = B + 8 * (w - 1)
        /\ B + 7 * (r(w) - 1) \in Nat
    <3>1. PICK q \in Nat, k \in 0 .. 6 : w - 1 = 7 * q + k /\ (w - 1) \div 7 = q
                                         /\ (w - 1) % 7 = k
      <4>1. /\ (w - 1) \div 7 \in Nat /\ (w - 1) % 7 \in 0 .. 6
            /\ w - 1 = 7 * ((w - 1) \div 7) + ((w - 1) % 7)
        <5>1. PICK v \in Nat : v = w - 1
          <6>1. w - 1 \in Nat
            BY <1>1
          <6> QED BY <6>1
        <5>2. v \div 7 \in Nat /\ v % 7 \in 0 .. 6
          OBVIOUS
        <5>3. v = 7 * (v \div 7) + (v % 7)
          OBVIOUS
        <5> QED BY <5>1, <5>2, <5>3, Zenon
      <4> QED BY <4>1, Zenon
    <3>2. r(w) = 8 * q + k + 1
      BY <3>1
    <3> QED BY <1>1, <3>1, <3>2
  <2>2. s[r(w)] \in 0 .. 127 /\ next(w) \in 0 .. 127
    <3>1. \A i \in 1 .. n : s[i] \in 0 .. 127
      BY <1>1
    <3>2. r(w) < n => r(w) + 1 \in 1 .. n
      BY <1>1, <2>1
    <3> HIDE DEF r
    <3>3. s[r(w)] \in 0 .. 127
      BY <2>1, <3>1, Zenon
    <3>4. CASE r(w) < n
      BY <3>1, <3>2, <3>3, <3>4, Zenon
    <3>5. CASE ~(r(w) < n)
      <4>1. 0 \in 0 .. 127
        OBVIOUS
      <4> QED BY <3>3, <3>5, <4>1, Zenon
    <3> QED BY <3>4, <3>5, Zenon
  <2>3. o[w] = Octet(bit, B + 8 * (w - 1))
    BY <1>1
  <2> HIDE DEF r
  <2>4. PICK a \in 0 .. 127, b \in 0 .. 127 : a = s[r(w)] /\ b = next(w)
    BY <2>2
  <2>5. PICK p \in Nat : p = B + 7 * (r(w) - 1)
    BY <2>1
  <2>6. Adjoin(bit, p, a, b)
    <3> SUFFICES ASSUME NEW e \in 0 .. 6
                 PROVE  bit[p + e] = SBit(a, e) /\ bit[(p + 7) + e] = SBit(b, e)
      BY DEF Adjoin
    <3>1. r(w) \in 1 .. Len(s)
      BY <1>1, <2>1, Zenon
    <3>2. PICK x : x = r(w)
      OBVIOUS
    <3>3. /\ bit[(B + 7 * (x - 1)) + e] = SBit(s[x], e)
          /\ bit[((B + 7 * (x - 1)) + 7) + e] = SBit(IF x < Len(s) THEN s[x + 1] ELSE 0, e)
      BY <3>1, <3>2, StreamBits, ZenonT(40)
    <3> QED BY <1>1, <2>4, <2>5, <3>2, <3>3, Zenon
  <2>7. Octet(bit, p + ((w - 1) % 7)) = Join(a, b, (w - 1) % 7)
    <3>1. PICK k \in 0 .. 6 : k = (w - 1) % 7
      BY <2>1
    <3>2. Octet(bit, p + k) = Join(a, b, k)
      BY <2>6, OctetJoin
    <3> QED BY <3>1, <3>2, Zenon
  <2>8. Join(a, b, (w - 1) % 7) \in Byte
    <3>1. a \in Byte /\ b \in Byte
      BY DEF Byte
    <3> QED BY <2>1, <3>1, JoinOctet
  <2> QED BY <2>1, <2>3, <2>4, <2>5, <2>7, <2>8, Zenon
<1>3. o \in Seq(Byte) /\ Len(o) = (7 * n + 7) \div 8
  <2>1. (7 * n + 7) \div 8 \in Nat
    BY <1>1
  <2>2. \A w \in 1 .. (7 * n + 7) \div 8 : o[w] \in Byte
    BY <1>2
  <2> QED BY <1>1, <2>1, <2>2
<1> HIDE DEF r
<1>4. \A w \in 1 .. Len(o) :
        r(w) \in 1 .. n /\ o[w] = Join(s[r(w)], IF r(w) < n THEN s[r(w) + 1] ELSE 0, (w - 1) % 7)
  BY <1>2, <1>3, Zenon
<1> QED BY <1>1, <1>3, <1>4, Zenon DEF Packed, r

\* The septet that is read at j is the septet that was packed there.
LEMMA SeptetRead ==
  ASSUME NEW s \in Seq(0 .. 127), NEW g \in Byte, NEW o, Packed(o, s, g),
         NEW f, NEW j \in 1 .. Len(s)
  PROVE  SeptetAt(o, j, f) = s[j]
<1>1. PICK n \in Nat : n = Len(s) /\ Len(o) = (7 * n + 7) \div 8
  BY Elements DEF Packed
<1>2. PICK q \in Nat, k \in 0 .. 7 : j - 1 = 8 * q + k /\ (j - 1) \div 8 = q
                                     /\ (j - 1) % 8 = k
  <2>1. PICK v \in Nat : v = j - 1
    <3>1. j - 1 \in Nat
      BY <1>1
    <3> QED BY <3>1
  <2>2. v \div 8 \in Nat /\ v % 8 \in 0 .. 7
    OBVIOUS
  <2>3. v = 8 * (v \div 8) + (v % 8)
    OBVIOUS
  <2> QED BY <2>1, <2>2, <2>3, Zenon
<1>3. j = 8 * q + k + 1 /\ (j - 1) - q = 7 * q + k
  BY <1>2
<1>4. SeptetAt(o, j, f) =
        IF k = 0 THEN OctetAt(o, (7 * q + k) + 1, f) % 128
        ELSE IF k = 7 THEN (OctetAt(o, 7 * q + k, f) \div 2) % 128
        ELSE (OctetAt(o, (7 * q + k) + 1, f) * 2^k
                + (OctetAt(o, 7 * q + k, f) \div 2^(8 - k))) % 128
  BY <1>2, <1>3, Zenon DEF SeptetAt
<1>5. \A i \in 1 .. n : s[i] \in 0 .. 127
  BY <1>1
<1>6. ASSUME NEW m \in 0 .. 6, 8 * q + m + 1 \in 1 .. n
      PROVE  \E a \in 0 .. 127, b \in Byte :
               /\ a = s[8 * q + m + 1]
               /\ 8 * q + m + 2 \in 1 .. n => b = s[8 * q + m + 2]
               /\ OctetAt(o, 7 * q + m + 1, f) = Join(a, b, m)
  <2>1. PICK w \in Nat : w = 7 * q + m + 1
    OBVIOUS
  <2>2. /\ w \in 1 .. Len(o) /\ (w - 1) \div 7 = q /\ (w - 1) % 7 = m
        /\ (w - 1) + q + 1 = 8 * q + m + 1 /\ w <= Len(o)
    <3>1. w \in Nat /\ 8 * q + m + 1 <= n
      BY <1>6, <2>1
    <3>2. w <= (7 * n + 7) \div 8 /\ 1 <= w
      BY <2>1, <3>1
    <3>3. (w - 1) \div 7 = q
      BY <2>1
    <3>4. (w - 1) % 7 = m
      BY <2>1
    <3>5. (w - 1) + q + 1 = 8 * q + m + 1
      BY <2>1
    <3>6. w \in 1 .. Len(o) /\ w <= Len(o)
      BY <1>1, <3>1, <3>2
    <3> QED BY <3>3, <3>4, <3>5, <3>6, Zenon
  <2>3. PICK r \in 1 .. n : r = 8 * q + m + 1
    BY <1>6
  <2>4. o[w] = Join(s[r], IF r < n THEN s[r + 1] ELSE g, m)
    BY <1>1, <2>2, <2>3, Zenon DEF Packed
  <2>5. PICK b \in Byte : b = IF r < n THEN s[r + 1] ELSE g
    <3>1. CASE r < n
      <4>1. r + 1 \in 1 .. n
        BY <3>1
      <4>2. s[r + 1] \in Byte
        BY <1>5, <4>1 DEF Byte
      <4> QED BY <3>1, <4>2
    <3>2. CASE ~(r < n)
      BY <3>2
    <3> QED BY <3>1, <3>2
  <2>6. 8 * q + m + 2 \in 1 .. n => b = s[8 * q + m + 2]
    <3>1. 8 * q + m + 2 = r + 1 /\ (8 * q + m + 2 \in 1 .. n => r < n)
      BY <2>3
    <3> QED BY <2>5, <3>1, Zenon
  <2>7. OctetAt(o, w, f) = o[w]
    BY <2>2, Zenon DEF OctetAt
  <2>8. s[r] \in 0 .. 127
    BY <1>5
  <2> QED BY <2>1, <2>3, <2>4, <2>5, <2>6, <2>7, <2>8, Zenon
<1>7. CASE k = 0
  <2>1. 8 * q + 0 + 1 = j /\ 8 * q + 0 + 1 \in 1 .. n /\ 0 \in 0 .. 6
        /\ (7 * q + 0) + 1 = 7 * q + 0 + 1
    BY <1>1, <1>3, <1>7
  <2>2. PICK a \in 0 .. 127, b \in Byte :
          a = s[j] /\ OctetAt(o, 7 * q + 0 + 1, f) = Join(a, b, 0)
    BY <1>6, <2>1, Zenon
  <2>3. Join(a, b, 0) = (a \div 1) + 128 * (b % 2)
    BY JoinValue, Zenon
  <2>4. ((a \div 1) + 128 * (b % 2)) % 128 = a
    BY DEF Byte
  <2> QED BY <1>4, <1>7, <2>1, <2>2, <2>3, <2>4, Zenon
<1>8. CASE k = 1
  <2>1. /\ 8 * q + 1 + 1 = j /\ 8 * q + 1 + 1 \in 1 .. n /\ 8 * q + 0 + 1 \in 1 .. n
        /\ 8 * q + 0 + 2 = j /\ 8 * q + 0 + 2 \in 1 .. n
        /\ 1 \in 0 .. 6 /\ 0 \in 0 .. 6 /\ (7 * q + 1) + 1 = 7 * q + 1 + 1
        /\ 7 * q + 1 = 7 * q + 0 + 1
    BY <1>1, <1>3, <1>8
  <2>2. PICK a \in 0 .. 127, b \in Byte :
          a = s[j] /\ OctetAt(o, 7 * q + 1 + 1, f) = Join(a, b, 1)
    BY <1>6, <2>1, Zenon
  <2>3. PICK c \in 0 .. 127, d \in Byte :
          d = s[j] /\ OctetAt(o, 7 * q + 0 + 1, f) = Join(c, d, 0)
    BY <1>6, <2>1, Zenon
  <2>4. Join(a, b, 1) = (a \div 2) + 64 * (b % 4)
    BY JoinValue, ZenonT(40)
  <2>5. Join(c, a, 0) = (c \div 1) + 128 * (a % 2)
    BY <2>2, <2>3, JoinValue, Zenon
  <2>6. (((c \div 1) + 128 * (a % 2)) \div 128) = a % 2
    OBVIOUS
  <2>7. (((a \div 2) + 64 * (b % 4)) * 2 + (a % 2)) % 128 = a
    <3>1. PICK e \in Nat : e = b % 4
      BY DEF Byte
    <3>2. ((a \div 2) + 64 * e) * 2 = (a \div 2) * 2 + 128 * e
      OBVIOUS
    <3>3. (a \div 2) * 2 + (a % 2) = a
      OBVIOUS
    <3>4. (a + 128 * e) % 128 = a
      OBVIOUS
    <3> QED BY <3>1, <3>2, <3>3, <3>4
  <2>8. ~(k = 0) /\ ~(k = 7) /\ 2^k = 2 /\ 2^(8 - k) = 128
    BY <1>8
  <2>9. PICK x, y : x = OctetAt(o, (7 * q + k) + 1, f) /\ y = OctetAt(o, 7 * q + k, f)
    OBVIOUS
  <2>10. SeptetAt(o, j, f) = (x * 2 + (y \div 128)) % 128
    BY <1>4, <2>8, <2>9, Zenon
  <2>11. x = (a \div 2) + 64 * (b % 4)
    BY <1>8, <2>1, <2>2, <2>4, <2>9, Zenon
  <2>12. y = (c \div 1) + 128 * (a % 2)
    BY <1>8, <2>1, <2>2, <2>3, <2>5, <2>9, Zenon
  <2> QED BY <2>2, <2>6, <2>7, <2>10, <2>11, <2>12, Zenon
<1>9. CASE k = 2
  <2>1. /\ 8 * q + 2 + 1 = j /\ 8 * q + 2 + 1 \in 1 .. n /\ 8 * q + 1 + 1 \in 1 .. n
        /\ 8 * q + 1 + 2 = j /\ 8 * q + 1 + 2 \in 1 .. n
        /\ 2 \in 0 .. 6 /\ 1 \in 0 .. 6 /\ (7 * q + 2) + 1 = 7 * q + 2 + 1
        /\ 7 * q + 2 = 7 * q + 1 + 1
    BY <1>1, <1>3, <1>9
  <2>2. PICK a \in 0 .. 127, b \in Byte :
          a = s[j] /\ OctetAt(o, 7 * q + 2 + 1, f) = Join(a, b, 2)
    BY <1>6, <2>1, Zenon
  <2>3. PICK c \in 0 .. 127, d \in Byte :
          d = s[j] /\ OctetAt(o, 7 * q + 1 + 1, f) = Join(c, d, 1)
    BY <1>6, <2>1, Zenon
  <2>4. Join(a, b, 2) = (a \div 4) + 32 * (b % 8)
    BY JoinValue, Zenon
  <2>5. Join(c, a, 1) = (c \div 2) + 64 * (a % 4)
    BY <2>2, <2>3, JoinValue, Zenon
  <2>6. (((c \div 2) + 64 * (a % 4)) \div 64) = a % 4
    OBVIOUS
  <2>7. (((a \div 4) + 32 * (b % 8)) * 4 + (a % 4)) % 128 = a
    <3>1. PICK e \in Nat : e = b % 8
      BY DEF Byte
    <3>2. ((a \div 4) + 32 * e) * 4 = (a \div 4) * 4 + 128 * e
      OBVIOUS
    <3>3. (a \div 4) * 4 + (a % 4) = a
      OBVIOUS
    <3>4. (a + 128 * e) % 128 = a
      OBVIOUS
    <3> QED BY <3>1, <3>2, <3>3, <3>4
  <2>8. ~(k = 0) /\ ~(k = 7) /\ 2^k = 4 /\ 2^(8 - k) = 64
    BY <1>9
  <2>9. PICK x, y : x = OctetAt(o, (7 * q + k) + 1, f) /\ y = OctetAt(o, 7 * q + k, f)
    OBVIOUS
  <2>10. SeptetAt(o, j, f) = (x * 4 + (y \div 64)) % 128
    BY <1>4, <2>8, <2>9, Zenon
  <2>11. x = (a \div 4) + 32 * (b % 8)
    BY <1>9, <2>1, <2>2, <2>4, <2>9, Zenon
  <2>12. y = (c \div 2) + 64 * (a % 4)
    BY <1>9, <2>1, <2>2, <2>3, <2>5, <2>9, Zenon
  <2> QED BY <2>2, <2>6, <2>7, <2>10, <2>11, <2>12, Zenon
<1>10. CASE k = 3
  <2>1. /\ 8 * q + 3 + 1 = j /\ 8 * q + 3 + 1 \in 1 .. n /\ 8 * q + 2 + 1 \in 1 .. n
        /\ 8 * q + 2 + 2 = j /\ 8 * q + 2 + 2 \in 1 .. n
        /\ 3 \in 0 .. 6 /\ 2 \in 0 .. 6 /\ (7 * q + 3) + 1 = 7 * q + 3 + 1
        /\ 7 * q + 3 = 7 * q + 2 + 1
    BY <1>1, <1>3, <1>10
  <2>2. PICK a \in 0 .. 127, b \in Byte :
          a = s[j] /\ OctetAt(o, 7 * q + 3 + 1, f) = Join(a, b, 3)
    BY <1>6, <2>1, Zenon
  <2>3. PICK c \in 0 .. 127, d \in Byte :
          d = s[j] /\ OctetAt(o, 7 * q + 2 + 1, f) = Join(c, d, 2)
    BY <1>6, <2>1, Zenon
  <2>4. Join(a, b, 3) = (a \div 8) + 16 * (b % 16)
    BY JoinValue, ZenonT(40)
  <2>5. Join(c, a, 2) = (c \div 4) + 32 * (a % 8)
    BY <2>2, <2>3, JoinValue, Zenon
  <2>6. (((c \div 4) + 32 * (a % 8)) \div 32) = a % 8
    OBVIOUS
  <2>7. (((a \div 8) + 16 * (b % 16)) * 8 + (a % 8)) % 128 = a
    <3>1. PICK e \in Nat : e = b % 16
      BY DEF Byte
    <3>2. ((a \div 8) + 16 * e) * 8 = (a \div 8) * 8 + 128 * e
      OBVIOUS
    <3>3. (a \div 8) * 8 + (a % 8) = a
      OBVIOUS
    <3>4. (a + 128 * e) % 128 = a
      OBVIOUS
    <3> QED BY <3>1, <3>2, <3>3, <3>4
  <2>8. ~(k = 0) /\ ~(k = 7) /\ 2^k = 8 /\ 2^(8 - k) = 32
    BY <1>10
  <2>9. PICK x, y : x = OctetAt(o, (7 * q + k) + 1, f) /\ y = OctetAt(o, 7 * q + k, f)
    OBVIOUS
  <2>10. SeptetAt(o, j, f) = (x * 8 + (y \div 32)) % 128
    BY <1>4, <2>8, <2>9, Zenon
  <2>11. x = (a \div 8) + 16 * (b % 16)
    BY <1>10, <2>1, <2>2, <2>4, <2>9, Zenon
  <2>12. y = (c \div 4) + 32 * (a % 8)
    BY <1>10, <2>1, <2>2, <2>3, <2>5, <2>9, Zenon
  <2> QED BY <2>2, <2>6, <2>7, <2>10, <2>11, <2>12, Zenon
<1>11. CASE k = 4
  <2>1. /\ 8 * q + 4 + 1 = j /\ 8 * q + 4 + 1 \in 1 .. n /\ 8 * q + 3 + 1 \in 1 .. n
        /\ 8 * q + 3 + 2 = j /\ 8 * q + 3 + 2 \in 1 .. n
        /\ 4 \in 0 .. 6 /\ 3 \in 0 .. 6 /\ (7 * q + 4) + 1 = 7 * q + 4 + 1
        /\ 7 * q + 4 = 7 * q + 3 + 1
    BY <1>1, <1>3, <1>11
  <2>2. PICK a \in 0 .. 127, b \in Byte :
          a = s[j] /\ OctetAt(o, 7 * q + 4 + 1, f) = Join(a, b, 4)
    BY <1>6, <2>1, Zenon
  <2>3. PICK c \in 0 .. 127, d \in Byte :
          d = s[j] /\ OctetAt(o, 7 * q + 3 + 1, f) = Join(c, d, 3)
    BY <1>6, <2>1, Zenon
  <2>4. Join(a, b, 4) = (a \div 16) + 8 * (b % 32)
    BY JoinValue, ZenonT(40)
  <2>5. Join(c, a, 3) = (c \div 8) + 16 * (a % 16)
    BY <2>2, <2>3, JoinValue, Zenon
  <2>6. (((c \div 8) + 16 * (a % 16)) \div 16) = a % 16
    OBVIOUS
  <2>7. (((a \div 16) + 8 * (b % 32)) * 16 + (a % 16)) % 128 = a
    <3>1. PICK e \in Nat : e = b % 32
      BY DEF Byte
    <3>2. ((a \div 16) + 8 * e) * 16 = (a \div 16) * 16 + 128 * e
      OBVIOUS
    <3>3. (a \div 16) * 16 + (a % 16) = a
      OBVIOUS
    <3>4. (a + 128 * e) % 128 = a
      OBVIOUS
    <3> QED BY <3>1, <3>2, <3>3, <3>4
  <2>8. ~(k = 0) /\ ~(k = 7) /\ 2^k = 16 /\ 2^(8 - k) = 16
    BY <1>11
  <2>9. PICK x, y : x = OctetAt(o, (7 * q + k) + 1, f) /\ y = OctetAt(o, 7 * q + k, f)
    OBVIOUS
  <2>10. SeptetAt(o, j, f) = (x * 16 + (y \div 16)) % 128
    BY <1>4, <2>8, <2>9, Zenon
  <2>11. x = (a \div 16) + 8 * (b % 32)
    BY <1>11, <2>1, <2>2, <2>4, <2>9, Zenon
  <2>12. y = (c \div 8) + 16 * (a % 16)
    BY <1>11, <2>1, <2>2, <2>3, <2>5, <2>9, Zenon
  <2> QED BY <2>2, <2>6, <2>7, <2>10, <2>11, <2>12, Zenon
<1>12. CASE k = 5
  <2>1. /\ 8 * q + 5 + 1 = j /\ 8 * q + 5 + 1 \in 1 .. n /\ 8 * q + 4 + 1 \in 1 .. n
        /\ 8 * q + 4 + 2 = j /\ 8 * q + 4 + 2 \in 1 .. n
        /\ 5 \in 0 .. 6 /\ 4 \in 0 .. 6 /\ (7 * q + 5) + 1 = 7 * q + 5 + 1
        /\ 7 * q + 5 = 7 * q + 4 + 1
    BY <1>1, <1>3, <1>12
  <2>2. PICK a \in 0 .. 127, b \in Byte :
          a = s[j] /\ OctetAt(o, 7 * q + 5 + 1, f) = Join(a, b, 5)
    BY <1>6, <2>1, Zenon
  <2>3. PICK c \in 0 .. 127, d \in Byte :
          d = s[j] /\ OctetAt(o, 7 * q + 4 + 1, f) = Join(c, d, 4)
    BY <1>6, <2>1, Zenon
  <2>4. Join(a, b, 5) = (a \div 32) + 4 * (b % 64)
    BY JoinValue, ZenonT(40)
  <2>5. Join(c, a, 4) = (c \div 16) + 8 * (a % 32)
    BY <2>2, <2>3, JoinValue, Zenon
  <2>6. (((c \div 16) + 8 * (a % 32)) \div 8) = a % 32
    OBVIOUS
  <2>7. (((a \div 32) + 4 * (b % 64)) * 32 + (a % 32)) % 128 = a
    <3>1. PICK e \in Nat : e = b % 64
      BY DEF Byte
    <3>2. ((a \div 32) + 4 * e) * 32 = (a \div 32) * 32 + 128 * e
      OBVIOUS
    <3>3. (a \div 32) * 32 + (a % 32) = a
      OBVIOUS
    <3>4. (a + 128 * e) % 128 = a
      OBVIOUS
    <3> QED BY <3>1, <3>2, <3>3, <3>4
  <2>8. ~(k = 0) /\ ~(k = 7) /\ 2^k = 32 /\ 2^(8 - k) = 8
    BY <1>12
  <2>9. PICK x, y : x = OctetAt(o, (7 * q + k) + 1, f) /\ y = OctetAt(o, 7 * q + k, f)
    OBVIOUS
  <2>10. SeptetAt(o, j, f) = (x * 32 + (y \div 8)) % 128
    BY <1>4, <2>8, <2>9, Zenon
  <2>11. x = (a \div 32) + 4 * (b % 64)
    BY <1>12, <2>1, <2>2, <2>4, <2>9, Zenon
  <2>12. y = (c \div 16) + 8 * (a % 32)
    BY <1>12, <2>1, <2>2, <2>3, <2>5, <2>9, Zenon
  <2> QED BY <2>2, <2>6, <2>7, <2>10, <2>11, <2>12, Zenon
<1>13. CASE k = 6
  <2>1. /\ 8 * q + 6 + 1 = j /\ 8 * q + 6 + 1 \in 1 .. n /\ 8 * q + 5 + 1 \in 1 .. n
        /\ 8 * q + 5 + 2 = j /\ 8 * q + 5 + 2 \in 1 .. n
        /\ 6 \in 0 .. 6 /\ 5 \in 0 .. 6 /\ (7 * q + 6) + 1 = 7 * q + 6 + 1
        /\ 7 * q + 6 = 7 * q + 5 + 1
    BY <1>1, <1>3, <1>13
  <2>2. PICK a \in 0 .. 127, b \in Byte :
          a = s[j] /\ OctetAt(o, 7 * q + 6 + 1, f) = Join(a, b, 6)
    BY <1>6, <2>1, Zenon
  <2>3. PICK c \in 0 .. 127, d \in Byte :
          d = s[j] /\ OctetAt(o, 7 * q + 5 + 1, f) = Join(c, d, 5)
    BY <1>6, <2>1, Zenon
  <2>4. Join(a, b, 6) = (a \div 64) + 2 * (b % 128)
    BY JoinValue, ZenonT(40)
  <2>5. Join(c, a, 5) = (c \div 32) + 4 * (a % 64)
    BY <2>2, <2>3, JoinValue, Zenon
  <2>6. (((c \div 32) + 4 * (a % 64)) \div 4) = a % 64
    OBVIOUS
  <2>7. (((a \div 64) + 2 * (b % 128)) * 64 + (a % 64)) % 128 = a
    <3>1. PICK e \in Nat : e = b % 128
      BY DEF Byte
    <3>2. ((a \div 64) + 2 * e) * 64 = (a \div 64) * 64 + 128 * e
      OBVIOUS
    <3>3. (a \div 64) * 64 + (a % 64) = a
      OBVIOUS
    <3>4. (a + 128 * e) % 128 = a
      OBVIOUS
    <3> QED BY <3>1, <3>2, <3>3, <3>4
  <2>8. ~(k = 0) /\ ~(k = 7) /\ 2^k = 64 /\ 2^(8 - k) = 4
    BY <1>13
  <2>9. PICK x, y : x = OctetAt(o, (7 * q + k) + 1, f) /\ y = OctetAt(o, 7 * q + k, f)
    OBVIOUS
  <2>10. SeptetAt(o, j, f) = (x * 64 + (y \div 4)) % 128
    BY <1>4, <2>8, <2>9, Zenon
  <2>11. x = (a \div 64) + 2 * (b % 128)
    BY <1>13, <2>1, <2>2, <2>4, <2>9, Zenon
  <2>12. y = (c \div 32) + 4 * (a % 64)
    BY <1>13, <2>1, <2>2, <2>3, <2>5, <2>9, Zenon
  <2> QED BY <2>2, <2>6, <2>7, <2>10, <2>11, <2>12, Zenon
<1>14. CASE k = 7
  <2>1. /\ 8 * q + 6 + 2 = j /\ 8 * q + 6 + 2 \in 1 .. n /\ 8 * q + 6 + 1 \in 1 .. n
        /\ 6 \in 0 .. 6 /\ 7 * q + 7 = 7 * q + 6 + 1
    BY <1>1, <1>3, <1>14
  <2>2. PICK a \in 0 .. 127, b \in Byte :
          b = s[j] /\ OctetAt(o, 7 * q + 6 + 1, f) = Join(a, b, 6)
    BY <1>6, <2>1, Zenon
  <2>3. Join(a, b, 6) = (a \div 64) + 2 * (b % 128)
    BY JoinValue, Zenon
  <2>4. b \in 0 .. 127
    BY <1>1, <1>5, <2>2
  <2>5. (((a \div 64) + 2 * (b % 128)) \div 2) % 128 = b
    <3>1. b % 128 = b
      <4>1. \A x \in 0 .. 127 : x % 128 = x
        OBVIOUS
      <4> QED BY <2>4, <4>1, Zenon
    <3>2. a \div 64 \in 0 .. 1
      OBVIOUS
    <3>3. ((a \div 64) + 2 * b) \div 2 = b
      BY <2>4, <3>2
    <3> QED BY <2>4, <3>1, <3>3
  <2>6. ~(k = 0)
    BY <1>14
  <2> QED BY <1>4, <1>14, <2>1, <2>2, <2>3, <2>5, <2>6, Zenon
<1> QED BY <1>7, <1>8, <1>9, <1>10, <1>11, <1>12, <1>13, <1>14

\* The other way round: the bits of octets.
LEMMA LowBits8 ==
  ASSUME NEW a \in Byte
  PROVE  /\ SBit(a, 1) + 2 * SBit(a, 2) + 4 * SBit(a, 3) + 8 * SBit(a, 4)
        + 16 * SBit(a, 5) + 32 * SBit(a, 6) + 64 * SBit(a, 7) = a \div 2
         /\ SBit(a, 2) + 2 * SBit(a, 3) + 4 * SBit(a, 4) + 8 * SBit(a, 5)
               + 16 * SBit(a, 6) + 32 * SBit(a, 7) = a \div 4
         /\ SBit(a, 3) + 2 * SBit(a, 4) + 4 * SBit(a, 5) + 8 * SBit(a, 6)
               + 16 * SBit(a, 7) = a \div 8
         /\ SBit(a, 4) + 2 * SBit(a, 5) + 4 * SBit(a, 6)
               + 8 * SBit(a, 7) = a \div 16
         /\ SBit(a, 5) + 2 * SBit(a, 6) + 4 * SBit(a, 7) = a \div 32
         /\ SBit(a, 6) + 2 * SBit(a, 7) = a \div 64
         /\ SBit(a, 7) = a \div 128
<1>1. SBit(a, 1) + 2 * SBit(a, 2) + 4 * SBit(a, 3) + 8 * SBit(a, 4)
      + 16 * SBit(a, 5) + 32 * SBit(a, 6) + 64 * SBit(a, 7) = a \div 2
  BY DEF SBit, Byte
<1>2. SBit(a, 2) + 2 * SBit(a, 3) + 4 * SBit(a, 4) + 8 * SBit(a, 5)
      + 16 * SBit(a, 6) + 32 * SBit(a, 7) = a \div 4
  BY DEF SBit, Byte
<1>3. SBit(a, 3) + 2 * SBit(a, 4) + 4 * SBit(a, 5) + 8 * SBit(a, 6)
      + 16 * SBit(a, 7) = a \div 8
  BY DEF SBit, Byte
<1>4. SBit(a, 4) + 2 * SBit(a, 5) + 4 * SBit(a, 6) + 8 * SBit(a, 7) = a \div 16
  BY DEF SBit, Byte
<1>5. SBit(a, 5) + 2 * SBit(a, 6) + 4 * SBit(a, 7) = a \div 32
  BY DEF SBit, Byte
<1>6. SBit(a, 6) + 2 * SBit(a, 7) = a \div 64
  BY DEF SBit, Byte
<1>7. SBit(a, 7) = a \div 128
  BY DEF SBit, Byte
<1> QED BY <1>1, <1>2, <1>3, <1>4, <1>5, <1>6, <1>7, Zenon

LEMMA HighBits8 ==
  ASSUME NEW a \in Byte
  PROVE  /\ SBit(a, 0) = a % 2
         /\ SBit(a, 0) + 2 * SBit(a, 1) = a % 4
         /\ SBit(a, 0) + 2 * SBit(a, 1) + 4 * SBit(a, 2) = a % 8
         /\ SBit(a, 0) + 2 * SBit(a, 1) + 4 * SBit(a, 2) + 8 * SBit(a, 3) = a % 16
         /\ SBit(a, 0) + 2 * SBit(a, 1) + 4 * SBit(a, 2) + 8 * SBit(a, 3)
               + 16 * SBit(a, 4) = a % 32
         /\ SBit(a, 0) + 2 * SBit(a, 1) + 4 * SBit(a, 2) + 8 * SBit(a, 3)
               + 16 * SBit(a, 4) + 32 * SBit(a, 5) = a % 64
         /\ SBit(a, 0) + 2 * SBit(a, 1) + 4 * SBit(a, 2) + 8 * SBit(a, 3)
               + 16 * SBit(a, 4) + 32 * SBit(a, 5) + 64 * SBit(a, 6) = a % 128
<1>1. SBit(a, 0) = a % 2
  BY DEF SBit, Byte
<1>2. SBit(a, 0) + 2 * SBit(a, 1) = a % 4
  BY DEF SBit, Byte
<1>3. SBit(a, 0) + 2 * SBit(a, 1) + 4 * SBit(a, 2) = a % 8
  BY DEF SBit, Byte
<1>4. SBit(a, 0) + 2 * SBit(a, 1) + 4 * SBit(a, 2) + 8 * SBit(a, 3) = a % 16
  BY DEF SBit, Byte
<1>5. SBit(a, 0) + 2 * SBit(a, 1) + 4 * SBit(a, 2) + 8 * SBit(a, 3)
      + 16 * SBit(a, 4) = a % 32
  BY DEF SBit, Byte
<1>6. SBit(a, 0) + 2 * SBit(a, 1) + 4 * SBit(a, 2) + 8 * SBit(a, 3)
      + 16 * SBit(a, 4) + 32 * SBit(a, 5) = a % 64
  BY DEF SBit, Byte
<1>7. SBit(a, 0) + 2 * SBit(a, 1) + 4 * SBit(a, 2) + 8 * SBit(a, 3)
      + 16 * SBit(a, 4) + 32 * SBit(a, 5) + 64 * SBit(a, 6) = a % 128
  BY DEF SBit, Byte
<1> QED BY <1>1, <1>2, <1>3, <1>4, <1>5, <1>6, <1>7, Zenon

OctetBits(bit, p, a) == \A e \in 0 .. 7 : bit[p + e] = SBit(a, e)

EightBits(bit, p, a) ==
  /\ SBit(a, 0) \in Int /\ SBit(a, 1) \in Int /\ SBit(a, 2) \in Int
  /\ SBit(a, 3) \in Int /\ SBit(a, 4) \in Int /\ SBit(a, 5) \in Int
  /\ SBit(a, 6) \in Int /\ SBit(a, 7) \in Int
  /\ bit[p] = SBit(a, 0) /\ bit[p + 1] = SBit(a, 1) /\ bit[p + 2] = SBit(a, 2)
  /\ bit[p + 3] = SBit(a, 3) /\ bit[p + 4] = SBit(a, 4) /\ bit[p + 5] = SBit(a, 5)
  /\ bit[p + 6] = SBit(a, 6) /\ bit[p + 7] = SBit(a, 7)

LEMMA EachBit ==
  ASSUME NEW bit, NEW p \in Nat, NEW a \in Byte, OctetBits(bit, p, a)
  PROVE  EightBits(bit, p, a)
<1>1. \A e \in 0 .. 7 : SBit(a, e) \in Int
  BY DEF SBit, Byte
<1>2. /\ 0 \in 0 .. 7 /\ 1 \in 0 .. 7 /\ 2 \in 0 .. 7 /\ 3 \in 0 .. 7
      /\ 4 \in 0 .. 7 /\ 5 \in 0 .. 7 /\ 6 \in 0 .. 7 /\ 7 \in 0 .. 7 /\ p + 0 = p
  OBVIOUS
<1>3. /\ bit[p] = SBit(a, 0) /\ bit[p + 1] = SBit(a, 1) /\ bit[p + 2] = SBit(a, 2)
      /\ bit[p + 3] = SBit(a, 3) /\ bit[p + 4] = SBit(a, 4) /\ bit[p
            + 5] = SBit(a, 5)
      /\ bit[p + 6] = SBit(a, 6) /\ bit[p + 7] = SBit(a, 7)
  BY <1>2, Zenon DEF OctetBits
<1> QED BY <1>1, <1>2, <1>3, Zenon DEF EightBits

\* The septet that begins in an octet and ends in the next.
Across(a, b, k) == (b * 2^k + (a \div 2^(8 - k))) % 128

LEMMA SeptetJoin ==
  ASSUME NEW bit, NEW p \in Nat, NEW a \in Byte, NEW b \in Byte,
         OctetBits(bit, p, a), OctetBits(bit, p + 8, b), NEW k \in 1 .. 6
  PROVE  Septet(bit, p + (8 - k)) = Across(a, b, k)
<1>1. PICK x : x = p + 8 /\ x \in Nat
  <2>1. p + 8 \in Nat
    OBVIOUS
  <2> QED BY <2>1
<1>2. EightBits(bit, p, a) /\ EightBits(bit, x, b)
  BY <1>1, EachBit, Zenon
<1>3. CASE k = 1
  <2>1. /\ (p + 7) + 1 = x
        /\ (p + 7) + 2 = x + 1
        /\ (p + 7) + 3 = x + 2
        /\ (p + 7) + 4 = x + 3
        /\ (p + 7) + 5 = x + 4
        /\ (p + 7) + 6 = x + 5
    BY <1>1
  <2>2. Septet(bit, p + 7) = SBit(a, 7) + 2 * SBit(b, 0) + 4 * SBit(b, 1)
        + 8 * SBit(b, 2) + 16 * SBit(b, 3) + 32 * SBit(b, 4) + 64 * SBit(b, 5)
    BY <1>2, <2>1, Zenon DEF Septet, EightBits
  <2>3. SBit(a, 7) = a \div 128
    BY LowBits8, Zenon
  <2>4. SBit(b, 0) + 2 * SBit(b, 1) + 4 * SBit(b, 2) + 8 * SBit(b, 3)
        + 16 * SBit(b, 4) + 32 * SBit(b, 5) = b % 64
    BY HighBits8, Zenon
  <2>5. PICK c \in 0 .. 1, d \in 0 .. 63 : c = a \div 128 /\ d = b % 64
    BY DEF Byte
  <2>6. Septet(bit, p + 7) = c + 2 * d
    BY <1>2, <2>2, <2>3, <2>4, <2>5 DEF EightBits
  <2>7. (b * 2 + c) % 128 = c + 2 * d
    <3>1. PICK e \in Nat : b = 64 * e + d
      <4>1. b = 64 * (b \div 64) + (b % 64) /\ b \div 64 \in Nat
        BY DEF Byte
      <4> QED BY <2>5, <4>1, Zenon
    <3>2. b * 2 + c = 128 * e + (c + 2 * d)
      BY <3>1
    <3>3. c + 2 * d \in 0 .. 127
      OBVIOUS
    <3>4. \A y \in 0 .. 127 : (128 * e + y) % 128 = y
      OBVIOUS
    <3> QED BY <3>2, <3>3, <3>4, Zenon
  <2>8. 2^k = 2 /\ 2^(8 - k) = 128 /\ 8 - k = 7
    BY <1>3
  <2> QED BY <1>3, <2>5, <2>6, <2>7, <2>8, Zenon DEF Across
<1>4. CASE k = 2
  <2>1. /\ (p + 6) + 1 = p + 7
        /\ (p + 6) + 2 = x
        /\ (p + 6) + 3 = x + 1
        /\ (p + 6) + 4 = x + 2
        /\ (p + 6) + 5 = x + 3
        /\ (p + 6) + 6 = x + 4
    BY <1>1
  <2>2. Septet(bit, p + 6) = SBit(a, 6) + 2 * SBit(a, 7) + 4 * SBit(b, 0)
        + 8 * SBit(b, 1) + 16 * SBit(b, 2) + 32 * SBit(b, 3) + 64 * SBit(b, 4)
    BY <1>2, <2>1, Zenon DEF Septet, EightBits
  <2>3. SBit(a, 6) + 2 * SBit(a, 7) = a \div 64
    BY LowBits8, Zenon
  <2>4. SBit(b, 0) + 2 * SBit(b, 1) + 4 * SBit(b, 2) + 8 * SBit(b, 3)
        + 16 * SBit(b, 4) = b % 32
    BY HighBits8, Zenon
  <2>5. PICK c \in 0 .. 3, d \in 0 .. 31 : c = a \div 64 /\ d = b % 32
    BY DEF Byte
  <2>6. Septet(bit, p + 6) = c + 4 * d
    BY <1>2, <2>2, <2>3, <2>4, <2>5 DEF EightBits
  <2>7. (b * 4 + c) % 128 = c + 4 * d
    <3>1. PICK e \in Nat : b = 32 * e + d
      <4>1. b = 32 * (b \div 32) + (b % 32) /\ b \div 32 \in Nat
        BY DEF Byte
      <4> QED BY <2>5, <4>1, Zenon
    <3>2. b * 4 + c = 128 * e + (c + 4 * d)
      BY <3>1
    <3>3. c + 4 * d \in 0 .. 127
      OBVIOUS
    <3>4. \A y \in 0 .. 127 : (128 * e + y) % 128 = y
      OBVIOUS
    <3> QED BY <3>2, <3>3, <3>4, Zenon
  <2>8. 2^k = 4 /\ 2^(8 - k) = 64 /\ 8 - k = 6
    BY <1>4
  <2> QED BY <1>4, <2>5, <2>6, <2>7, <2>8, Zenon DEF Across
<1>5. CASE k = 3
  <2>1. /\ (p + 5) + 1 = p + 6
        /\ (p + 5) + 2 = p + 7
        /\ (p + 5) + 3 = x
        /\ (p + 5) + 4 = x + 1
        /\ (p + 5) + 5 = x + 2
        /\ (p + 5) + 6 = x + 3
    BY <1>1
  <2>2. Septet(bit, p + 5) = SBit(a, 5) + 2 * SBit(a, 6) + 4 * SBit(a, 7)
        + 8 * SBit(b, 0) + 16 * SBit(b, 1) + 32 * SBit(b, 2) + 64 * SBit(b, 3)
    BY <1>2, <2>1, Zenon DEF Septet, EightBits
  <2>3. SBit(a, 5) + 2 * SBit(a, 6) + 4 * SBit(a, 7) = a \div 32
    BY LowBits8, Zenon
  <2>4. SBit(b, 0) + 2 * SBit(b, 1) + 4 * SBit(b, 2) + 8 * SBit(b, 3) = b % 16
    BY HighBits8, Zenon
  <2>5. PICK c \in 0 .. 7, d \in 0 .. 15 : c = a \div 32 /\ d = b % 16
    BY DEF Byte
  <2>6. Septet(bit, p + 5) = c + 8 * d
    BY <1>2, <2>2, <2>3, <2>4, <2>5 DEF EightBits
  <2>7. (b * 8 + c) % 128 = c + 8 * d
    <3>1. PICK e \in Nat : b = 16 * e + d
      <4>1. b = 16 * (b \div 16) + (b % 16) /\ b \div 16 \in Nat
        BY DEF Byte
      <4> QED BY <2>5, <4>1, Zenon
    <3>2. b * 8 + c = 128 * e + (c + 8 * d)
      BY <3>1
    <3>3. c + 8 * d \in 0 .. 127
      OBVIOUS
    <3>4. \A y \in 0 .. 127 : (128 * e + y) % 128 = y
      OBVIOUS
    <3> QED BY <3>2, <3>3, <3>4, Zenon
  <2>8. 2^k = 8 /\ 2^(8 - k) = 32 /\ 8 - k = 5
    BY <1>5
  <2> QED BY <1>5, <2>5, <2>6, <2>7, <2>8, Zenon DEF Across
<1>6. CASE k = 4
  <2>1. /\ (p + 4) + 1 = p + 5
        /\ (p + 4) + 2 = p + 6
        /\ (p + 4) + 3 = p + 7
        /\ (p + 4) + 4 = x
        /\ (p + 4) + 5 = x + 1
        /\ (p + 4) + 6 = x + 2
    BY <1>1
  <2>2. Septet(bit, p + 4) = SBit(a, 4) + 2 * SBit(a, 5) + 4 * SBit(a, 6)
        + 8 * SBit(a, 7) + 16 * SBit(b, 0) + 32 * SBit(b, 1) + 64 * SBit(b, 2)
    BY <1>2, <2>1, Zenon DEF Septet, EightBits
  <2>3. SBit(a, 4) + 2 * SBit(a, 5) + 4 * SBit(a, 6) + 8 * SBit(a, 7) = a \div 16
    BY LowBits8, Zenon
  <2>4. SBit(b, 0) + 2 * SBit(b, 1) + 4 * SBit(b, 2) = b % 8
    BY HighBits8, Zenon
  <2>5. PICK c \in 0 .. 15, d \in 0 .. 7 : c = a \div 16 /\ d = b % 8
    BY DEF Byte
  <2>6. Septet(bit, p + 4) = c + 16 * d
    BY <1>2, <2>2, <2>3, <2>4, <2>5 DEF EightBits
  <2>7. (b * 16 + c) % 128 = c + 16 * d
    <3>1. PICK e \in Nat : b = 8 * e + d
      <4>1. b = 8 * (b \div 8) + (b % 8) /\ b \div 8 \in Nat
        BY DEF Byte
      <4> QED BY <2>5, <4>1, Zenon
    <3>2. b * 16 + c = 128 * e + (c + 16 * d)
      BY <3>1
    <3>3. c + 16 * d \in 0 .. 127
      OBVIOUS
    <3>4. \A y \in 0 .. 127 : (128 * e + y) % 128 = y
      OBVIOUS
    <3> QED BY <3>2, <3>3, <3>4, Zenon
  <2>8. 2^k = 16 /\ 2^(8 - k) = 16 /\ 8 - k = 4
    BY <1>6
  <2> QED BY <1>6, <2>5, <2>6, <2>7, <2>8, Zenon DEF Across
<1>7. CASE k = 5
  <2>1. /\ (p + 3) + 1 = p + 4
        /\ (p + 3) + 2 = p + 5
        /\ (p + 3) + 3 = p + 6
        /\ (p + 3) + 4 = p + 7
        /\ (p + 3) + 5 = x
        /\ (p + 3) + 6 = x + 1
    BY <1>1
  <2>2. Septet(bit, p + 3) = SBit(a, 3) + 2 * SBit(a, 4) + 4 * SBit(a, 5)
        + 8 * SBit(a, 6) + 16 * SBit(a, 7) + 32 * SBit(b, 0) + 64 * SBit(b, 1)
    BY <1>2, <2>1, Zenon DEF Septet, EightBits
  <2>3. SBit(a, 3) + 2 * SBit(a, 4) + 4 * SBit(a, 5) + 8 * SBit(a, 6)
        + 16 * SBit(a, 7) = a \div 8
    BY LowBits8, Zenon
  <2>4. SBit(b, 0) + 2 * SBit(b, 1) = b % 4
    BY HighBits8, Zenon
  <2>5. PICK c \in 0 .. 31, d \in 0 .. 3 : c = a \div 8 /\ d = b % 4
    BY DEF Byte
  <2>6. Septet(bit, p + 3) = c + 32 * d
    BY <1>2, <2>2, <2>3, <2>4, <2>5 DEF EightBits
  <2>7. (b * 32 + c) % 128 = c + 32 * d
    <3>1. PICK e \in Nat : b = 4 * e + d
      <4>1. b = 4 * (b \div 4) + (b % 4) /\ b \div 4 \in Nat
        BY DEF Byte
      <4> QED BY <2>5, <4>1, Zenon
    <3>2. b * 32 + c = 128 * e + (c + 32 * d)
      BY <3>1
    <3>3. c + 32 * d \in 0 .. 127
      OBVIOUS
    <3>4. \A y \in 0 .. 127 : (128 * e + y) % 128 = y
      OBVIOUS
    <3> QED BY <3>2, <3>3, <3>4, Zenon
  <2>8. 2^k = 32 /\ 2^(8 - k) = 8 /\ 8 - k = 3
    BY <1>7
  <2> QED BY <1>7, <2>5, <2>6, <2>7, <2>8, Zenon DEF Across
<1>8. CASE k = 6
  <2>1. /\ (p + 2) + 1 = p + 3
        /\ (p + 2) + 2 = p + 4
        /\ (p + 2) + 3 = p + 5
        /\ (p + 2) + 4 = p + 6
        /\ (p + 2) + 5 = p + 7
        /\ (p + 2) + 6 = x
    BY <1>1
  <2>2. Septet(bit, p + 2) = SBit(a, 2) + 2 * SBit(a, 3) + 4 * SBit(a, 4)
        + 8 * SBit(a, 5) + 16 * SBit(a, 6) + 32 * SBit(a, 7) + 64 * SBit(b, 0)
    BY <1>2, <2>1, Zenon DEF Septet, EightBits
  <2>3. SBit(a, 2) + 2 * SBit(a, 3) + 4 * SBit(a, 4) + 8 * SBit(a, 5)
        + 16 * SBit(a, 6) + 32 * SBit(a, 7) = a \div 4
    BY LowBits8, Zenon
  <2>4. SBit(b, 0) = b % 2
    BY HighBits8, Zenon
  <2>5. PICK c \in 0 .. 63, d \in 0 .. 1 : c = a \div 4 /\ d = b % 2
    BY DEF Byte
  <2>6. Septet(bit, p + 2) = c + 64 * d
    BY <1>2, <2>2, <2>3, <2>4, <2>5 DEF EightBits
  <2>7. (b * 64 + c) % 128 = c + 64 * d
    <3>1. PICK e \in Nat : b = 2 * e + d
      <4>1. b = 2 * (b \div 2) + (b % 2) /\ b \div 2 \in Nat
        BY DEF Byte
      <4> QED BY <2>5, <4>1, Zenon
    <3>2. b * 64 + c = 128 * e + (c + 64 * d)
      BY <3>1
    <3>3. c + 64 * d \in 0 .. 127
      OBVIOUS
    <3>4. \A y \in 0 .. 127 : (128 * e + y) % 128 = y
      OBVIOUS
    <3> QED BY <3>2, <3>3, <3>4, Zenon
  <2>8. 2^k = 64 /\ 2^(8 - k) = 4 /\ 8 - k = 2
    BY <1>8
  <2> QED BY <1>8, <2>5, <2>6, <2>7, <2>8, Zenon DEF Across
<1> QED BY <1>3, <1>4, <1>5, <1>6, <1>7, <1>8

LEMMA SeptetWithin ==
  ASSUME NEW bit, NEW p \in Nat, NEW a \in Byte, OctetBits(bit, p, a)
  PROVE  Septet(bit, p) = a % 128 /\ Septet(bit, p + 1) = (a \div 2) % 128
<1>1. Septet(bit, p) = SBit(a, 0) + 2 * SBit(a, 1) + 4 * SBit(a, 2)
      + 8 * SBit(a, 3) + 16 * SBit(a, 4) + 32 * SBit(a, 5) + 64 * SBit(a, 6)
  BY EachBit, Zenon DEF Septet, EightBits
<1>2. Septet(bit, p + 1) = SBit(a, 1) + 2 * SBit(a, 2) + 4 * SBit(a, 3)
      + 8 * SBit(a, 4) + 16 * SBit(a, 5) + 32 * SBit(a, 6) + 64 * SBit(a, 7)
  <2>1. /\ (p + 1) + 1 = p + 2 /\ (p + 1) + 2 = p + 3 /\ (p + 1) + 3 = p + 4
        /\ (p + 1) + 4 = p + 5 /\ (p + 1) + 5 = p + 6 /\ (p + 1) + 6 = p + 7
    OBVIOUS
  <2>2. EightBits(bit, p, a)
    BY EachBit, Zenon
  <2> QED BY <2>1, <2>2, Zenon DEF Septet, EightBits
<1>3. SBit(a, 0) + 2 * SBit(a, 1) + 4 * SBit(a, 2) + 8 * SBit(a, 3)
      + 16 * SBit(a, 4) + 32 * SBit(a, 5) + 64 * SBit(a, 6) = a % 128
  BY HighBits8, Zenon
<1>4. SBit(a, 1) + 2 * SBit(a, 2) + 4 * SBit(a, 3) + 8 * SBit(a, 4)
      + 16 * SBit(a, 5) + 32 * SBit(a, 6) + 64 * SBit(a, 7) = a \div 2
  BY LowBits8, Zenon
<1>5. (a \div 2) % 128 = a \div 2
  BY DEF Byte
<1> QED BY <1>1, <1>2, <1>3, <1>4, <1>5, Zenon

\* The octets o lie from bit B on.
Lined(bit, B, o) ==
  \A w \in 1 .. Len(o) : OctetBits(bit, B + 8 * (w - 1), o[w])

\* The standard reads off them what the driver does, and what was packed.
LEMMA SeptetOfBits ==
  ASSUME NEW s \in Seq(0 .. 127), NEW g \in Byte, NEW o, Packed(o, s, g),
         NEW bit, NEW B \in Nat, Lined(bit, B, o), NEW j \in 1 .. Len(s)
  PROVE  Septet(bit, B + 7 * (j - 1)) = s[j]
<1>1. PICK n \in Nat, m \in Nat : n = Len(s) /\ m = Len(o) /\ m = (7 * n + 7) \div 8
  BY Elements DEF Packed
<1>2. PICK q \in Nat, k \in 0 .. 7 : j - 1 = 8 * q + k /\ (j - 1) \div 8 = q
                                     /\ (j - 1) % 8 = k
  <2>1. PICK v \in Nat : v = j - 1
    <3>1. j - 1 \in Nat
      BY <1>1
    <3> QED BY <3>1
  <2>2. v \div 8 \in Nat /\ v % 8 \in 0 .. 7
    OBVIOUS
  <2>3. v = 8 * (v \div 8) + (v % 8)
    OBVIOUS
  <2> QED BY <2>1, <2>2, <2>3, Zenon
<1>3. (j - 1) - q = 7 * q + k /\ j = 8 * q + k + 1 /\ j <= n
  BY <1>1, <1>2
<1>4. \A w \in 1 .. m : o[w] \in Byte /\ OctetAt(o, w, 0) = o[w]
  <2>1. \A w \in 1 .. m : o[w] \in Byte
    <3>1. o \in Seq(Byte)
      BY DEF Packed
    <3> QED BY <1>1, <3>1, Elements
  <2>2. \A w \in 1 .. m : w <= m
    OBVIOUS
  <2> QED BY <1>1, <2>1, <2>2, Zenon DEF OctetAt
<1>5. SeptetAt(o, j, 0) = s[j]
  BY SeptetRead, Zenon
<1>6. SeptetAt(o, j, 0) =
        IF k = 0 THEN OctetAt(o, (7 * q + k) + 1, 0) % 128
        ELSE IF k = 7 THEN (OctetAt(o, 7 * q + k, 0) \div 2) % 128
        ELSE (OctetAt(o, (7 * q + k) + 1, 0) * 2^k
                + (OctetAt(o, 7 * q + k, 0) \div 2^(8 - k))) % 128
  BY <1>2, <1>3, Zenon DEF SeptetAt
<1>7. CASE k = 0
  <2>1. PICK w \in 1 .. m : w = (7 * q + k) + 1
    <3>1. (7 * q + k) + 1 \in 1 .. m
      BY <1>1, <1>3, <1>7
    <3> QED BY <3>1
  <2>2. PICK p \in Nat : p = B + 8 * (w - 1) /\ p = B + 7 * (j - 1)
    BY <1>3, <1>7, <2>1
  <2>3. OctetBits(bit, p, o[w]) /\ o[w] \in Byte
    BY <1>1, <1>4, <2>1, <2>2, Zenon DEF Lined
  <2>4. Septet(bit, p) = o[w] % 128
    BY <2>2, <2>3, SeptetWithin, Zenon
  <2> QED BY <1>4, <1>5, <1>6, <1>7, <2>1, <2>2, <2>4, Zenon
<1>8. CASE k = 7
  <2>1. PICK w \in 1 .. m : w = 7 * q + k
    <3>1. 7 * q + k \in 1 .. m
      BY <1>1, <1>3, <1>8
    <3> QED BY <3>1
  <2>2. PICK p \in Nat : p = B + 8 * (w - 1) /\ p + 1 = B + 7 * (j - 1)
    BY <1>3, <1>8, <2>1
  <2>3. OctetBits(bit, p, o[w]) /\ o[w] \in Byte
    BY <1>1, <1>4, <2>1, <2>2, Zenon DEF Lined
  <2>4. Septet(bit, p + 1) = (o[w] \div 2) % 128
    BY <2>2, <2>3, SeptetWithin, ZenonT(40)
  <2>5. ~(k = 0)
    BY <1>8
  <2> QED BY <1>4, <1>5, <1>6, <1>8, <2>1, <2>2, <2>4, <2>5, Zenon
<1>9. CASE k \in 1 .. 6
  <2>1. PICK w \in 1 .. m : w = 7 * q + k /\ w + 1 \in 1 .. m
    <3>1. 7 * q + k \in Nat /\ 1 <= 7 * q + k
      BY <1>9
    <3>2. (7 * q + k) + 1 <= m
      BY <1>1, <1>3, <1>9
    <3> QED BY <3>1, <3>2
  <2>2. PICK p \in Nat : /\ p = B + 8 * (w - 1) /\ p + 8 = B + 8 * ((w + 1) - 1)
                         /\ p + (8 - k) = B + 7 * (j - 1)
    BY <1>3, <1>9, <2>1
  <2>3. /\ OctetBits(bit, p, o[w]) /\ o[w] \in Byte
        /\ OctetBits(bit, p + 8, o[w + 1]) /\ o[w + 1] \in Byte
    BY <1>1, <1>4, <2>1, <2>2, Zenon DEF Lined
  <2>4. Septet(bit, p + (8 - k)) = (o[w + 1] * 2^k + (o[w] \div 2^(8 - k))) % 128
    <3>1. PICK a \in Byte, b \in Byte : a = o[w] /\ b = o[w + 1]
      BY <2>3, Zenon
    <3>2. OctetBits(bit, p, a) /\ OctetBits(bit, p + 8, b)
      BY <2>3, <3>1, Zenon
    <3>3. Septet(bit, p + (8 - k)) = Across(a, b, k)
      <4>1. p \in Nat /\ a \in Byte /\ b \in Byte /\ k \in 1 .. 6
        BY <1>9
      <4> QED BY <3>2, <4>1, SeptetJoin, ZenonT(40)
    <3> QED BY <3>1, <3>3, Zenon DEF Across
  <2>5. ~(k = 0) /\ ~(k = 7)
    BY <1>9
  <2> QED BY <1>4, <1>5, <1>6, <2>1, <2>2, <2>4, <2>5, Zenon
<1> QED BY <1>7, <1>8, <1>9
LEMMA Nothing ==
  ASSUME NEW S, NEW s \in Seq(S), Len(s) = 0
  PROVE  s = <<>>
OBVIOUS

\* User data without a header, or behind one that ends where a septet does.
LEMMA UserDataShape ==
  ASSUME NEW h \in Seq(Byte), Len(h) = 0 \/ Len(h) = 7, NEW s \in Seq(0 .. 127)
  PROVE  \E p \in Seq(Byte) : UserDataOf(h, s) = h \o p /\ Packed(p, s, 0)
<1>1. PICK n \in Nat, l \in {0, 7} : n = Len(s) /\ l = Len(h)
  BY Elements
<1> DEFINE B == 8 * l
           end == B + 7 * n
           bit == [i \in B .. end + 6 |->
                     IF i \in B .. end - 1 THEN BitAt(s, 7, i - B) ELSE 0]
           p == [o \in 1 .. (end + 7) \div 8 - l |-> Octet(bit, 8 * (l + o - 1))]
<1>2. 7 * HeaderSeptets(h) = B
  <2>1. CASE l = 0
    BY <1>1, <2>1 DEF HeaderSeptets
  <2>2. CASE l = 7
    BY <1>1, <2>2 DEF HeaderSeptets
  <2> QED BY <2>1, <2>2
<1>3. UserDataOf(h, s) = h \o p
  BY <1>1, <1>2, Zenon DEF UserDataOf
<1>4. B \in Nat
  OBVIOUS
<1>5. Stream(bit, B, s)
  <2> SUFFICES ASSUME NEW i \in 0 .. 7 * n + 6
               PROVE  bit[B + i] = IF i < 7 * n THEN BitAt(s, 7, i) ELSE 0
    <3> HIDE DEF bit, B
    <3> QED BY <1>1, Zenon DEF Stream
  <2>1. B + i \in B .. end + 6 /\ (B + i \in B .. end - 1 <=> i < 7 * n) /\ (B + i) - B = i
    BY <1>4
  <2> HIDE DEF end
  <2> QED BY <2>1, Zenon
<1>6. p = [w \in 1 .. (7 * n + 7) \div 8 |-> Octet(bit, B + 8 * (w - 1))]
  <2>1. (end + 7) \div 8 - l = (7 * n + 7) \div 8
    OBVIOUS
  <2>2. \A w \in 1 .. (7 * n + 7) \div 8 : 8 * (l + w - 1) = B + 8 * (w - 1)
    OBVIOUS
  <2> HIDE DEF bit, B, end
  <2> QED BY <2>1, <2>2
<1> HIDE DEF p, bit, B
<1>7. Packed(p, s, 0)
  BY <1>1, <1>4, <1>5, <1>6, StreamPacked, Zenon
<1>8. p \in Seq(Byte)
  BY <1>7, Zenon DEF Packed
<1> QED BY <1>3, <1>7, <1>8


\* Behind a header of 6 octets there is one octet with nothing but the first
\* septet before they go on as if there was none.
LEMMA UserDataSix ==
  ASSUME NEW h \in Seq(Byte), Len(h) = 6, NEW s \in Seq(0 .. 127)
  PROVE  \E p \in Seq(Byte) :
           /\ UserDataOf(h, s) = h \o p /\ Len(p) >= 1
           /\ s = <<>> => p[1] = 0
           /\ s # <<>> => p[1] = 2 * s[1] /\ Packed(Tail(p), Tail(s), 0)
<1>1. PICK n \in Nat : n = Len(s)
  BY Elements
<1> DEFINE end == 49 + 7 * n
           bit == [i \in 48 .. end + 6 |->
                     IF i \in 49 .. end - 1 THEN BitAt(s, 7, i - 49) ELSE 0]
           p == [o \in 1 .. (end + 7) \div 8 - 6 |-> Octet(bit, 8 * (6 + o - 1))]
<1>2. 7 * HeaderSeptets(h) = 49 /\ 8 * Len(h) = 48
  BY DEF HeaderSeptets
<1>3. UserDataOf(h, s) = h \o p
  BY <1>1, <1>2, Zenon DEF UserDataOf
<1>4. bit[48] = 0
  BY <1>1
<1>5. ASSUME NEW i \in 0 .. 7 * n + 6
      PROVE  bit[49 + i] = IF i < 7 * n THEN BitAt(s, 7, i) ELSE 0
  <2>1. 49 + i \in 48 .. end + 6 /\ (49 + i \in 49 .. end - 1 <=> i < 7 * n) /\ (49 + i) - 49 = i
    BY <1>1
  <2> HIDE DEF end
  <2> QED BY <2>1, Zenon
<1>6. 1 \in 1 .. (end + 7) \div 8 - 6 /\ (end + 7) \div 8 - 6 \in Nat /\ 8 * (6 + 1 - 1) = 48
  BY <1>1
<1>7. p[1] = Octet(bit, 48)
  <2> HIDE DEF bit, end
  <2> QED BY <1>6
<1> HIDE DEF bit
<1>8. Stream(bit, 49, s)
  BY <1>1, <1>5, Zenon DEF Stream
<1>9. CASE n = 0
  <2>1. s = <<>>
    <3> HIDE DEF p, end
    <3> QED BY <1>1, <1>9, Nothing
  <2>2. \A i \in 0 .. 6 : bit[49 + i] = 0
    <3>1. \A i \in 0 .. 6 : i \in 0 .. 7 * n + 6 /\ ~(i < 7 * n)
      BY <1>9
    <3> QED BY <1>5, <3>1, Zenon
  <2>3. /\ bit[48 + 1] = 0 /\ bit[48 + 2] = 0 /\ bit[48 + 3] = 0 /\ bit[48 + 4] = 0
        /\ bit[48 + 5] = 0 /\ bit[48 + 6] = 0 /\ bit[48 + 7] = 0
    BY <2>2
  <2>4. Octet(bit, 48) = 0 + 2 * 0 + 4 * 0 + 8 * 0 + 16 * 0 + 32 * 0 + 64 * 0 + 128 * 0
    BY <1>4, <2>3, Zenon DEF Octet, Septet
  <2>5. p[1] = 0
    BY <1>7, <2>4
  <2>6. Len(p) = 1
    <3>1. (end + 7) \div 8 - 6 = 1
      BY <1>9
    <3> HIDE DEF end
    <3> QED BY <3>1
  <2>7. p \in Seq(Byte)
    <3>1. p = <<p[1]>> /\ 0 \in Byte
      <4>1. (end + 7) \div 8 - 6 = 1
        BY <1>9
      <4> HIDE DEF end
      <4> QED BY <4>1 DEF Byte
    <3> HIDE DEF p
    <3>2. <<0>> \in Seq(Byte)
      BY <3>1
    <3> QED BY <2>5, <3>1, <3>2, Zenon
  <2> HIDE DEF p
  <2>8. Len(p) >= 1
    BY <2>6
  <2> QED BY <1>3, <2>1, <2>5, <2>7, <2>8
<1>10. CASE n # 0
  <2>1. n \in 1 .. n /\ 1 \in 1 .. n /\ s # <<>>
    BY <1>1, <1>10
  <2>2. PICK a \in 0 .. 127 : a = s[1]
    <3>1. s[1] \in 0 .. 127
      BY <1>1, <2>1, Elements, Zenon
    <3> QED BY <3>1
  <2>3. \A e \in 0 .. 6 : bit[49 + e] = SBit(a, e)
    <3> SUFFICES ASSUME NEW e \in 0 .. 6 PROVE bit[49 + e] = SBit(a, e)
      OBVIOUS
    <3>1. 49 \in Nat /\ (49 + 7 * (1 - 1)) + e = 49 + e
      OBVIOUS
    <3>2. bit[(49 + 7 * (1 - 1)) + e] = SBit(s[1], e)
      <4>1. 1 \in 1 .. Len(s)
        BY <1>1, <2>1, Zenon
      <4>2. PICK r \in 1 .. Len(s) : r = 1
        BY <4>1
      <4>3. bit[(49 + 7 * (r - 1)) + e] = SBit(s[r], e)
        BY <1>8, <3>1, StreamBits, ZenonT(40)
      <4> QED BY <4>2, <4>3, Zenon
    <3> QED BY <2>2, <3>1, <3>2, Zenon
  <2>4. /\ bit[48 + 1] = SBit(a, 0) /\ bit[48 + 2] = SBit(a, 1) /\ bit[48 + 3] = SBit(a, 2)
        /\ bit[48 + 4] = SBit(a, 3) /\ bit[48 + 5] = SBit(a, 4)
        /\ bit[48 + 6] = SBit(a, 5) /\ bit[48 + 7] = SBit(a, 6)
    BY <2>3
  <2>5. Octet(bit, 48) = 0 + 2 * SBit(a, 0) + 4 * SBit(a, 1) + 8 * SBit(a, 2)
          + 16 * SBit(a, 3) + 32 * SBit(a, 4) + 64 * SBit(a, 5) + 128 * SBit(a, 6)
    BY <1>4, <2>4, Zenon DEF Octet, Septet
  <2>6. 2 * SBit(a, 0) + 4 * SBit(a, 1) + 8 * SBit(a, 2) + 16 * SBit(a, 3)
          + 32 * SBit(a, 4) + 64 * SBit(a, 5) + 128 * SBit(a, 6) = 2 * (a % 128)
    BY HighBits, Zenon
  <2>7. p[1] = 2 * a
    <3>1. \A e \in 0 .. 6 : SBit(a, e) \in Int
      BY DEF SBit
    <3>2. a % 128 = a
      OBVIOUS
    <3> HIDE DEF p
    <3>3. /\ SBit(a, 0) \in Int /\ SBit(a, 1) \in Int /\ SBit(a, 2) \in Int
          /\ SBit(a, 3) \in Int /\ SBit(a, 4) \in Int /\ SBit(a, 5) \in Int
          /\ SBit(a, 6) \in Int
      BY <3>1
    <3>4. Octet(bit, 48) = 2 * a
      <4>1. 0 + 2 * SBit(a, 0) = 2 * SBit(a, 0)
        BY <3>3
      <4> QED BY <2>5, <2>6, <3>2, <4>1, Zenon
    <3> QED BY <1>7, <3>4, Zenon
  <2> DEFINE t == Tail(s)
             o == [w \in 1 .. (7 * Len(t) + 7) \div 8 |-> Octet(bit, 56 + 8 * (w - 1))]
  <2>8. t \in Seq(0 .. 127) /\ Len(t) = n - 1 /\ \A i \in 1 .. n - 1 : t[i] = s[i + 1]
    BY <1>1, <2>1
  <2> HIDE DEF t
  <2>9. Stream(bit, 56, t)
    <3> SUFFICES ASSUME NEW i \in 0 .. 7 * Len(t) + 6
                 PROVE  bit[56 + i] = IF i < 7 * Len(t) THEN BitAt(t, 7, i) ELSE 0
      BY Zenon DEF Stream
    <3>1. /\ 7 + i \in 0 .. 7 * n + 6 /\ 49 + (7 + i) = 56 + i
          /\ 7 + i < 7 * n <=> i < 7 * Len(t)
      BY <2>1, <2>8
    <3>2. bit[56 + i] = IF 7 + i < 7 * n THEN BitAt(s, 7, 7 + i) ELSE 0
      BY <1>5, <3>1, Zenon
    <3>3. i < 7 * Len(t) => BitAt(s, 7, 7 + i) = BitAt(t, 7, i)
      <4> SUFFICES ASSUME i < 7 * Len(t) PROVE BitAt(s, 7, 7 + i) = BitAt(t, 7, i)
        OBVIOUS
      <4>1. (7 + i) \div 7 = (i \div 7) + 1 /\ (7 + i) % 7 = i % 7
        BY <2>8
      <4>2. (i \div 7) + 1 \in 1 .. n - 1
        BY <2>8
      <4>3. PICK v \in 1 .. n - 1 : v = (i \div 7) + 1
        BY <4>2
      <4>4. t[v] = s[v + 1]
        BY <2>8
      <4> QED BY <4>1, <4>3, <4>4, Zenon DEF BitAt
    <3> QED BY <3>1, <3>2, <3>3, Zenon
  <2>10. Packed(o, t, 0)
    <3>1. 56 \in Nat
      OBVIOUS
    <3> HIDE DEF o
    <3> QED BY <2>8, <2>9, <3>1, StreamPacked, Zenon DEF o
  <2>11. (end + 7) \div 8 - 6 = 1 + ((7 * Len(t) + 7) \div 8)
    BY <2>1, <2>8
  <2>12. p = <<2 * a>> \o o
    <3>1. PICK m \in Nat : m = (7 * Len(t) + 7) \div 8
      <4>1. (7 * Len(t) + 7) \div 8 \in Nat
        BY <2>1, <2>8
      <4> QED BY <4>1
    <3>2. p = [w \in 1 .. 1 + m |-> Octet(bit, 8 * (6 + w - 1))]
      <4> HIDE DEF bit, end
      <4> QED BY <2>11, <3>1, Zenon
    <3>3. o = [w \in 1 .. m |-> Octet(bit, 56 + 8 * (w - 1))]
      BY <3>1, Zenon
    <3>4. ASSUME NEW w \in 1 .. m PROVE p[1 + w] = o[w]
      <4>1. 1 + w \in 1 .. 1 + m /\ 8 * (6 + (1 + w) - 1) = 56 + 8 * (w - 1)
        OBVIOUS
      <4> QED BY <3>2, <3>3, <4>1
    <3> HIDE DEF p, o
    <3>5. PICK q : q = <<2 * a>> \o o
      OBVIOUS
    <3>6. Len(o) = m /\ o \in Seq(Byte) /\ Len(p) = 1 + m
      BY <2>10, <3>1, <3>2 DEF Packed
    <3>7. /\ q = [w \in 1 .. 1 + m |-> q[w]] /\ q[1] = 2 * a
          /\ \A w \in 1 .. m : q[1 + w] = o[w]
      BY <3>5, <3>6
    <3>8. \A w \in 1 .. 1 + m : p[w] = q[w]
      <4> SUFFICES ASSUME NEW w \in 1 .. 1 + m PROVE p[w] = q[w]
        OBVIOUS
      <4>1. w = 1 \/ \E v \in 1 .. m : w = 1 + v
        <5>1. w = 1 \/ (w - 1 \in 1 .. m /\ w = 1 + (w - 1))
          OBVIOUS
        <5> QED BY <5>1
      <4> QED BY <2>7, <3>4, <3>7, <4>1
    <3>9. p = [w \in 1 .. 1 + m |-> p[w]]
      BY <3>2
    <3>10. p = q
      BY <3>7, <3>8, <3>9
    <3> QED BY <3>5, <3>10
  <2> HIDE DEF p, o
  <2>13. o \in Seq(Byte) /\ 2 * a \in Byte
    BY <2>10 DEF Packed, Byte
  <2>14. p \in Seq(Byte) /\ Tail(p) = o /\ Len(p) >= 1
    BY <2>12, <2>13
  <2> QED BY <1>3, <2>1, <2>2, <2>7, <2>10, <2>14 DEF t
<1> QED BY <1>9, <1>10

-----------------------------------------------------------------------------
(* Septets as text. *)

\* Which septets are behind an escape, and what the others read as.
Escapes(s, second) ==
  \A i \in 1 .. Len(s) :
    /\ second[i] \in BOOLEAN
    /\ second[i] <=> (i > 1 /\ s[i - 1] = 27 /\ ~second[i - 1])
Chars(s, second, g) ==
  [i \in 1 .. Len(s) |->
     IF second[i] THEN <<>>
     ELSE IF s[i] # 27 THEN buildUtf(One(s[i]))
     ELSE buildUtf(IF i < Len(s) THEN Two(s[i + 1]) ELSE Two(g))]

LEMMA SecondBuilt ==
  ASSUME NEW s, Len(s) \in Nat, NEW g
  PROVE  \E second : /\ Escapes(s, second)
                     /\ convert_7bit_to_unicode(s, g) = Concat(Chars(s, second, g))
<1> DEFINE n == Len(s)
           Body(f, i) == i > 1 /\ s[i - 1] = 27 /\ ~f[i - 1]
           second == CHOOSE f : f = [i \in 1 .. n |-> Body(f, i)]
           T == {m \in 0 .. n : \E f : f = [i \in 1 .. m |-> Body(f, i)]}
<1>1. n \in Nat /\ 0 \in 0 .. n
  OBVIOUS
<1>2. 0 \in T
  <2> DEFINE h == [i \in 1 .. 0 |-> FALSE]
  <2>1. \A i : i \notin 1 .. 0
    OBVIOUS
  <2>2. h = [i \in 1 .. 0 |-> Body(h, i)]
    <3> HIDE DEF Body
    <3> QED BY <2>1
  <2> HIDE DEF h, Body, n
  <2> QED BY <1>1, <2>2
<1>3. ASSUME NEW m \in 0 .. n - 1, m \in T PROVE m + 1 \in T
  <2>1. PICK f : f = [i \in 1 .. m |-> Body(f, i)]
    BY <1>3
  <2> DEFINE h == [i \in 1 .. m + 1 |-> IF i <= m THEN f[i] ELSE Body(f, i)]
  <2>2. \A i \in 1 .. m + 1 : Body(h, i) = Body(f, i)
    <3> SUFFICES ASSUME NEW i \in 1 .. m + 1, i > 1 PROVE h[i - 1] = f[i - 1]
      OBVIOUS
    <3>1. i - 1 \in 1 .. m + 1 /\ i - 1 <= m
      BY <1>1
    <3> QED BY <3>1, Zenon
  <2>3. \A i \in 1 .. m : f[i] = Body(f, i)
    <3> HIDE DEF Body
    <3> QED BY <2>1
  <2>4. h = [i \in 1 .. m + 1 |-> Body(h, i)]
    <3> HIDE DEF Body
    <3>1. \A i \in 1 .. m + 1 : h[i] = Body(h, i)
      BY <1>1, <2>2, <2>3
    <3>2. h = [i \in 1 .. m + 1 |-> h[i]]
      OBVIOUS
    <3> HIDE DEF h
    <3> QED BY <3>1, <3>2
  <2> HIDE DEF h, Body
  <2> QED BY <1>1, <2>4
<1>4. n \in T
  <2> HIDE DEF T, n
  <2>1. 0 .. n \subseteq T
    BY <1>1, <1>2, <1>3, UpTo
  <2> QED BY <1>1, <2>1
<1>5. second = [i \in 1 .. n |-> Body(second, i)]
  <2>1. \E f : f = [i \in 1 .. n |-> Body(f, i)]
    BY <1>4
  <2> HIDE DEF Body, n
  <2> QED BY <2>1
<1>6. convert_7bit_to_unicode(s, g) = Concat(Chars(s, second, g))
  BY Zenon DEF convert_7bit_to_unicode, Chars, One, Two
<1> HIDE DEF second
<1>7. \A i \in 1 .. n : second[i] = Body(second, i)
  <2> HIDE DEF Body
  <2> QED BY <1>5
<1>8. Escapes(s, second)
  BY <1>7, Zenon DEF Escapes
<1> QED BY <1>6, <1>8

Plane == {v \in Nat : v < 10000}

LEMMA EscapedChar ==
  ASSUME NEW x
  PROVE  Two(x) \in Unicode
<1>1. \A v \in Plane : v \in Unicode
  BY DEF Unicode, Plane
<1>2. \A q \in EscapedRows : q[2] \in Plane
  BY DEF EscapedRows, Plane
<1>3. CASE x \in DOMAIN Escaped
  <2>1. PICK q \in EscapedRows : q[1] = x
    BY <1>3, TableDomain, Zenon DEF Escaped
  <2>2. Escaped[x] = q[2]
    BY <2>1, TablesFunctional, TableValue, Zenon DEF Escaped
  <2> QED BY <1>1, <1>2, <1>3, <2>2, Zenon DEF Two
<1>4. CASE x \notin DOMAIN Escaped
  <2>1. 63 \in Plane
    BY DEF Plane
  <2> QED BY <1>1, <1>4, <2>1, Zenon DEF Two
<1> QED BY <1>3, <1>4

LEMMA SeptetChar ==
  ASSUME NEW x \in 0 .. 127
  PROVE  One(x) \in Unicode
<1>1. \A v \in Plane : v \in Unicode
  BY DEF Unicode, Plane
<1>2. \A q \in UngreekRows : q[2] \in Plane
  BY DEF UngreekRows, Plane
<1>3. \A q \in ReadRows : q[2] \in Plane /\ q[2] # 63
  BY DEF ReadRows, Plane
<1>4. CASE x = 16 \/ x \in 18 .. 26
  <2>1. \E q \in UngreekRows : q[1] = x
    BY <1>4 DEF UngreekRows
  <2>2. PICK q \in UngreekRows : q[1] = x
    BY <2>1
  <2>3. lookup_Greek7ToUnicode[x] = q[2]
    BY <2>2, TablesFunctional, TableValue, Zenon DEF lookup_Greek7ToUnicode
  <2>4. lookup_gsm7toUnicode(x) = 63 /\ x # 63
    BY <1>4 DEF lookup_gsm7toUnicode
  <2> QED BY <1>1, <1>2, <2>3, <2>4, Zenon DEF One
<1>5. CASE ~(x = 16 \/ x \in 18 .. 26)
  <2>1. CASE x \in DOMAIN Read
    <3>1. PICK q \in ReadRows : q[1] = x
      BY <2>1, TableDomain, Zenon DEF Read
    <3>2. Read[x] = q[2]
      BY <3>1, TablesFunctional, TableValue, Zenon DEF Read
    <3>3. lookup_gsm7toUnicode(x) = q[2]
      BY <1>5, <2>1, <3>2, Zenon DEF lookup_gsm7toUnicode
    <3> QED BY <1>1, <1>3, <3>3, Zenon DEF One
  <2>2. CASE x \notin DOMAIN Read
    <3>1. lookup_gsm7toUnicode(x) = x
      BY <1>5, <2>2, Zenon DEF lookup_gsm7toUnicode
    <3>2. x \in Plane
      BY DEF Plane
    <3> QED BY <1>1, <3>1, <3>2, Zenon DEF One
  <2> QED BY <2>1, <2>2
<1> QED BY <1>4, <1>5

LEMMA CharsType ==
  ASSUME NEW s \in Seq(0 .. 127), NEW second, NEW g
  PROVE  Chars(s, second, g) \in Seq(Seq(Byte)) /\ Len(Chars(s, second, g)) = Len(s)
<1>1. Len(s) \in Nat /\ \A i \in 1 .. Len(s) : s[i] \in 0 .. 127
  BY Elements
<1>2. \A v \in Unicode : buildUtf(v) \in Seq(Byte)
  BY UtfShape, Zenon DEF UtfOf
<1>3. ASSUME NEW i \in 1 .. Len(s)
      PROVE  (IF second[i] THEN <<>>
              ELSE IF s[i] # 27 THEN buildUtf(One(s[i]))
              ELSE buildUtf(IF i < Len(s) THEN Two(s[i + 1]) ELSE Two(g))) \in Seq(Byte)
  <2>1. <<>> \in Seq(Byte)
    OBVIOUS
  <2>2. buildUtf(One(s[i])) \in Seq(Byte)
    BY <1>1, <1>2, SeptetChar, Zenon
  <2>3. \A x : buildUtf(Two(x)) \in Seq(Byte)
    BY <1>2, EscapedChar, Zenon
  <2> QED BY <2>1, <2>2, <2>3, Zenon
<1>4. \A i \in 1 .. Len(s) : Chars(s, second, g)[i] \in Seq(Byte)
  BY <1>3, Zenon DEF Chars
<1>5. PICK q : q = Chars(s, second, g) /\ q = [i \in 1 .. Len(s) |-> q[i]]
  BY DEF Chars
<1>6. q \in Seq(Seq(Byte)) /\ Len(q) = Len(s)
  BY <1>1, <1>4, <1>5
<1> QED BY <1>5, <1>6, Zenon

LEMMA ExactType ==
  ASSUME NEW cps \in Seq(Exact)
  PROVE  LET P == [i \in DOMAIN cps |-> ToGsm7(cps[i])]
         IN /\ P \in Seq(Seq(0 .. 127)) /\ Len(P) = Len(cps)
            /\ \A i \in 1 .. Len(cps) :
                 Single(cps[i], P[i]) \/ Double(cps[i], P[i])
<1> DEFINE P == [i \in DOMAIN cps |-> ToGsm7(cps[i])]
<1>1. Len(cps) \in Nat /\ DOMAIN cps = 1 .. Len(cps)
      /\ \A i \in 1 .. Len(cps) : cps[i] \in Exact
  BY Elements
<1>2. \A i \in 1 .. Len(cps) : Single(cps[i], P[i]) \/ Double(cps[i], P[i])
  BY <1>1, GsmShape
<1>3. \A i \in 1 .. Len(cps) : P[i] \in Seq(0 .. 127)
  <2>1. \A cp, u : Single(cp, u) => u \in Seq(0 .. 127)
    BY DEF Single
  <2>2. \A cp, u : Double(cp, u) => u \in Seq(0 .. 127)
    BY DEF Double
  <2> QED BY <1>2, <2>1, <2>2, Zenon
<1>4. P = [i \in 1 .. Len(cps) |-> P[i]]
  BY <1>1
<1> HIDE DEF P
<1>5. P \in Seq(Seq(0 .. 127)) /\ Len(P) = Len(cps)
  BY <1>1, <1>3, <1>4
<1> QED BY <1>2, <1>5, Zenon DEF P

LEMMA ExactSeptets ==
  ASSUME NEW cps \in Seq(Exact)
  PROVE  Septets7(cps) \in Seq(0 .. 127)
<1> DEFINE P == [i \in DOMAIN cps |-> ToGsm7(cps[i])]
<1>1. P \in Seq(Seq(0 .. 127))
  BY ExactType
<1>2. Concat(P) \in Seq(0 .. 127)
  <2> HIDE DEF P
  <2> QED BY <1>1, ConcatType
<1> QED BY <1>2 DEF Septets7

LEMMA ExactUnicode ==
  ASSUME NEW cps \in Seq(Exact)
  PROVE  cps \in Seq(Unicode)
<1>1. gsm7_legal \subseteq Unicode
  BY DEF gsm7_legal, Unicode
<1>2. Exact \subseteq Unicode
  BY <1>1 DEF Exact
<1> QED BY <1>2, Wider

\* Where a piece begins, no septet is behind an escape.
LEMMA PieceFresh ==
  ASSUME NEW cps, NEW P \in Seq(Seq(0 .. 127)), Len(P) = Len(cps),
         \A i \in 1 .. Len(cps) : Single(cps[i], P[i]) \/ Double(cps[i], P[i]),
         NEW u, Built(u, P, 0 .. 127),
         NEW second, Escapes(Concat(P), second), NEW i \in 1 .. Len(cps)
  PROVE  ~second[Len(u[i - 1]) + 1]
<1> DEFINE n == Len(cps)
           s == Concat(P)
           S == {d \in 0 .. n - 1 : ~second[Len(u[d]) + 1]}
<1>1. n \in Nat
  BY Elements
<1>2. s \in Seq(0 .. 127) /\ Len(s) \in Nat
  BY ConcatType
<1> HIDE DEF s
<1>3. ASSUME NEW k \in 1 .. n PROVE Len(P[k]) >= 1
  <2>1. \A cp, v : Single(cp, v) => Len(v) >= 1
    BY DEF Single
  <2>2. \A cp, v : Double(cp, v) => Len(v) >= 1
    BY DEF Double
  <2> QED BY <2>1, <2>2, Zenon
<1>4. 0 \in S
  <2>1. u[0] = <<>>
    BY Zenon DEF Built
  <2>2. Len(u[0]) + 1 = 1
    BY <2>1
  <2>3. 1 \in 1 .. Len(s)
    <3>1. 1 \in 1 .. Len(P) /\ 1 \in 1 .. n
      BY <1>1
    <3>2. Placed(u, P, 1)
      BY <3>1, Pieces
    <3>3. Len(u[1]) = Len(u[0]) + Len(P[1]) /\ Len(u[1]) <= Len(s)
      <4>1. 1 - 1 = 0
        OBVIOUS
      <4> QED BY <3>2, <4>1, Zenon DEF Placed, s
    <3>4. Len(P[1]) \in Nat /\ Len(P[1]) >= 1
      BY <1>3, <3>1, Elements
    <3>5. Len(u[0]) = 0
      BY <2>1
    <3> QED BY <1>2, <3>3, <3>4, <3>5
  <2>4. ~(1 > 1)
    OBVIOUS
  <2>5. ~second[1]
    BY <2>3, <2>4, Zenon DEF Escapes, s
  <2> QED BY <1>1, <2>2, <2>5
<1>5. ASSUME NEW d \in 0 .. (n - 1) - 1, d \in S PROVE d + 1 \in S
  <2>1. /\ d + 1 \in 1 .. n /\ (d + 1) - 1 = d /\ d + 1 \in 1 .. Len(P)
        /\ d + 2 \in 1 .. n /\ (d + 2) - 1 = d + 1 /\ d + 2 \in 1 .. Len(P)
        /\ d + 1 \in 0 .. n - 1
    BY <1>1
  <2>2. Placed(u, P, d + 1) /\ Placed(u, P, d + 2)
    BY <2>1, Pieces
  <2>3. PICK lo, v : lo \in Nat /\ lo = Len(u[d]) /\ v = P[d + 1]
    BY <2>1, <2>2 DEF Placed
  <2>4. /\ Len(u[d + 1]) = lo + Len(v)
        /\ \A j \in 1 .. Len(v) : s[lo + j] = v[j]
    BY <2>1, <2>2, <2>3, Zenon DEF Placed, s
  <2>5. Len(u[d + 1]) + Len(P[d + 2]) <= Len(s)
    BY <2>1, <2>2, Zenon DEF Placed, s
  <2>6. Len(P[d + 2]) \in Nat /\ Len(P[d + 2]) >= 1
    BY <1>3, <2>1, Elements
  <2>7. ~second[lo + 1]
    BY <1>5, <2>3
  <2>8. CASE Single(cps[d + 1], v)
    <3>1. PICK x \in 0 .. 127 : x # 27 /\ v = <<x>>
      BY <2>8 DEF Single
    <3>2. Len(v) = 1 /\ v[1] = x /\ 1 \in 1 .. Len(v)
      BY <3>1
    <3>3. s[lo + 1] # 27
      BY <2>4, <3>1, <3>2
    <3>4. Len(u[d + 1]) + 1 = lo + 2 /\ lo + 2 \in 1 .. Len(s) /\ (lo + 2) - 1 = lo + 1
      <4>1. PICK c \in Nat, e \in Nat : c = Len(s) /\ e = Len(P[d + 2])
        BY <1>2, <2>6
      <4>2. Len(u[d + 1]) = lo + 1 /\ (lo + 1) + e <= c /\ e >= 1
        BY <2>4, <2>5, <2>6, <3>2, <4>1, Zenon
      <4>3. (lo + 1) + 1 = lo + 2 /\ lo + 2 \in 1 .. c /\ (lo + 2) - 1 = lo + 1
        <5>1. lo \in Nat
          BY <2>3
        <5> QED BY <4>2, <5>1
      <4> QED BY <4>1, <4>2, <4>3, Zenon
    <3>5. ~second[lo + 2]
      BY <3>3, <3>4, Zenon DEF Escapes, s
    <3> QED BY <2>1, <3>4, <3>5
  <2>9. CASE Double(cps[d + 1], v)
    <3>1. PICK y \in 0 .. 127 : v = <<27, y>>
      BY <2>9 DEF Double
    <3>2. Len(v) = 2 /\ v[1] = 27 /\ 1 \in 1 .. Len(v)
      BY <3>1
    <3>3. s[lo + 1] = 27
      BY <2>4, <3>2
    <3>4. /\ Len(u[d + 1]) + 1 = lo + 3 /\ lo + 3 \in 1 .. Len(s) /\ (lo + 3) - 1 = lo + 2
          /\ lo + 2 \in 1 .. Len(s) /\ (lo + 2) - 1 = lo + 1 /\ lo + 2 > 1
      <4>1. PICK c \in Nat, e \in Nat : c = Len(s) /\ e = Len(P[d + 2])
        BY <1>2, <2>6
      <4>2. Len(u[d + 1]) = lo + 2 /\ (lo + 2) + e <= c /\ e >= 1
        BY <2>4, <2>5, <2>6, <3>2, <4>1, Zenon
      <4>3. /\ (lo + 2) + 1 = lo + 3 /\ lo + 3 \in 1 .. c /\ (lo + 3) - 1 = lo + 2
            /\ lo + 2 \in 1 .. c /\ (lo + 2) - 1 = lo + 1 /\ lo + 2 > 1
        <5>1. lo \in Nat
          BY <2>3
        <5> QED BY <4>2, <5>1
      <4> QED BY <4>1, <4>2, <4>3, Zenon
    <3>5. second[lo + 2]
      BY <2>7, <3>3, <3>4, Zenon DEF Escapes, s
    <3>6. ~second[lo + 3]
      BY <3>4, <3>5, Zenon DEF Escapes, s
    <3> QED BY <2>1, <3>4, <3>6
  <2>10. Single(cps[d + 1], v) \/ Double(cps[d + 1], v)
    BY <2>1, <2>3, Zenon
  <2> QED BY <2>8, <2>9, <2>10
<1>6. n - 1 \in Nat /\ i - 1 \in 0 .. n - 1
  BY <1>1
<1>7. 0 .. n - 1 \subseteq S
  <2> HIDE DEF S, n
  <2> QED BY <1>4, <1>5, <1>6, UpTo
<1> QED BY <1>6, <1>7

\* A text of the alphabet reads as it was written.
LEMMA GsmRead ==
  ASSUME NEW cps \in Seq(Exact), NEW g
  PROVE  convert_7bit_to_unicode(Septets7(cps), g) = Utf8(cps)
<1> DEFINE P == [i \in DOMAIN cps |-> ToGsm7(cps[i])]
           R == [i \in DOMAIN cps |-> buildUtf(cps[i])]
           s == Septets7(cps)
<1>1. Len(cps) \in Nat /\ DOMAIN cps = 1 .. Len(cps)
      /\ \A i \in 1 .. Len(cps) : cps[i] \in Unicode
  BY ExactUnicode, Elements
<1>2. /\ P \in Seq(Seq(0 .. 127)) /\ Len(P) = Len(cps)
      /\ \A i \in 1 .. Len(cps) : Single(cps[i], P[i]) \/ Double(cps[i], P[i])
  BY ExactType
<1>3. R \in Seq(Seq(Byte)) /\ Len(R) = Len(cps)
  <2>1. \A i \in 1 .. Len(cps) : buildUtf(cps[i]) \in Seq(Byte)
    BY <1>1, UtfShape, Zenon DEF UtfOf
  <2> QED BY <1>1, <2>1
<1>4. s = Concat(P) /\ s \in Seq(0 .. 127) /\ Len(s) \in Nat
  <2>1. s = Concat(P)
    BY DEF Septets7
  <2> HIDE DEF P
  <2> QED BY <1>2, <2>1, ConcatType
<1> HIDE DEF P, s
<1>5. PICK u : Built(u, P, 0 .. 127)
  BY <1>2, ConcatType
<1>6. PICK second : Escapes(s, second) /\ convert_7bit_to_unicode(s, g) = Concat(Chars(s, second, g))
  BY <1>4, SecondBuilt
<1> DEFINE Q == Chars(s, second, g)
           pos == [i \in 0 .. Len(cps) |-> Len(u[i])]
<1>7. Q \in Seq(Seq(Byte)) /\ Len(Q) = Len(s)
  BY <1>4, CharsType
<1>8. Regroups(pos, Q, R)
  <2>1. pos[0] = 0 /\ pos[Len(R)] = Len(Q)
    <3>1. u[0] = <<>> /\ s = u[Len(cps)]
      BY <1>2, <1>4, <1>5, Zenon DEF Built
    <3>2. 0 \in 0 .. Len(cps) /\ Len(cps) \in 0 .. Len(cps)
      BY <1>1
    <3> QED BY <1>3, <1>7, <3>1, <3>2
  <2>2. ASSUME NEW i \in 1 .. Len(R)
        PROVE  /\ pos[i - 1] \in Nat /\ pos[i] \in Nat /\ pos[i - 1] < pos[i]
               /\ pos[i] <= Len(Q)
               /\ Q[pos[i - 1] + 1] = R[i]
               /\ \A k \in pos[i - 1] + 2 .. pos[i] : Q[k] = <<>>
    <3>1. i \in 1 .. Len(cps) /\ i \in 1 .. Len(P) /\ i \in 0 .. Len(cps)
          /\ i - 1 \in 0 .. Len(cps)
      BY <1>1, <1>2, <1>3
    <3>2. Placed(u, P, i)
      BY <1>2, <1>5, <3>1, Pieces
    <3>3. PICK lo, v : lo \in Nat /\ lo = Len(u[i - 1]) /\ pos[i - 1] = lo /\ v = P[i]
      BY <3>1, <3>2 DEF Placed
    <3>4. /\ Len(u[i]) = lo + Len(v) /\ Len(u[i]) <= Len(s)
          /\ \A j \in 1 .. Len(v) : s[lo + j] = v[j]
      BY <1>4, <3>2, <3>3, Zenon DEF Placed
    <3>5. ~second[lo + 1]
      <4>1. Escapes(Concat(P), second)
        BY <1>4, <1>6, Zenon
      <4> QED BY <1>2, <1>5, <3>1, <3>3, <4>1, PieceFresh, Zenon
    <3>6. pos[i] = lo + Len(v) /\ R[i] = buildUtf(cps[i])
      BY <1>1, <3>1, <3>4
    <3>7. CASE Single(cps[i], v)
      <4>1. PICK x \in 0 .. 127 : x # 27 /\ v = <<x>> /\ One(x) = cps[i]
        BY <3>7, Zenon DEF Single
      <4>2. Len(v) = 1 /\ v[1] = x /\ 1 \in 1 .. Len(v)
        BY <4>1
      <4>3. lo + 1 \in 1 .. Len(s) /\ lo + Len(v) = lo + 1 /\ lo < lo + 1 /\ lo + 1 \in Nat
        <5>1. lo \in Nat
          BY <3>3
        <5> QED BY <1>4, <3>4, <4>2, <5>1
      <4>4. s[lo + 1] = x
        BY <3>4, <4>2, Zenon
      <4>5. Q[lo + 1] = buildUtf(One(x))
        BY <3>5, <4>1, <4>3, <4>4, Zenon DEF Chars
      <4>6. \A k \in lo + 2 .. lo + 1 : FALSE
        BY <3>3
      <4> HIDE DEF Q, R, pos
      <4>7. lo + 1 <= Len(Q)
        BY <1>7, <3>4, <4>3, Zenon
      <4> QED BY <3>3, <3>6, <4>1, <4>3, <4>5, <4>6, <4>7, Zenon
    <3>8. CASE Double(cps[i], v)
      <4>1. PICK y \in 0 .. 127 : v = <<27, y>> /\ Two(y) = cps[i]
        BY <3>8, Zenon DEF Double
      <4>2. Len(v) = 2 /\ v[1] = 27 /\ v[2] = y /\ 1 \in 1 .. Len(v) /\ 2 \in 1 .. Len(v)
        BY <4>1
      <4>3. /\ lo + 1 \in 1 .. Len(s) /\ lo + Len(v) = lo + 2 /\ lo < lo + 2 /\ lo + 2 \in Nat
            /\ lo + 2 \in 1 .. Len(s) /\ lo + 1 < Len(s) /\ (lo + 1) + 1 = lo + 2
            /\ (lo + 2) - 1 = lo + 1 /\ lo + 2 > 1
        <5>1. lo \in Nat
          BY <3>3
        <5> QED BY <1>4, <3>4, <4>2, <5>1
      <4>4. s[lo + 1] = 27 /\ s[lo + 2] = y
        BY <3>4, <4>2, Zenon
      <4>5. Q[lo + 1] = buildUtf(Two(y))
        BY <3>5, <4>3, <4>4, Zenon DEF Chars
      <4>6. second[lo + 2]
        BY <1>6, <3>5, <4>3, <4>4, Zenon DEF Escapes
      <4>7. Q[lo + 2] = <<>>
        BY <4>3, <4>6, Zenon DEF Chars
      <4>8. \A k \in lo + 2 .. lo + 2 : k = lo + 2
        OBVIOUS
      <4> HIDE DEF Q, R, pos
      <4>9. lo + 2 <= Len(Q)
        BY <1>7, <3>4, <4>3, Zenon
      <4> QED BY <3>3, <3>6, <4>1, <4>3, <4>5, <4>7, <4>8, <4>9, Zenon
    <3> QED BY <1>2, <3>1, <3>3, <3>7, <3>8, Zenon
  <2> HIDE DEF pos, Q, R
  <2> QED BY <2>1, <2>2, Zenon DEF Regroups
<1>9. Concat(Q) = Concat(R)
  <2> HIDE DEF Q, R, pos
  <2> QED BY <1>3, <1>7, <1>8, Regrouped, Zenon
<1>10. Utf8(cps) = Concat(R)
  BY DEF Utf8
<1> QED BY <1>6, <1>9, <1>10, Zenon DEF s

-----------------------------------------------------------------------------
(* Decoded: the addresses. *)

\* What is read off packed octets.
LEMMA Unpacked ==
  ASSUME NEW s \in Seq(0 .. 127), NEW o, Packed(o, s, 0), NEW g
  PROVE  Unpack(o, Len(s), 0, g) = s
<1>1. Unpack(o, Len(s), 0, g) = [j \in 1 .. Len(s) |-> SeptetAt(o, j, g)]
  BY DEF Unpack
<1>2. 0 \in Byte
  BY DEF Byte
<1>3. \A j \in 1 .. Len(s) : SeptetAt(o, j, g) = s[j]
  BY <1>2, SeptetRead, Zenon
<1>4. PICK q : q = [j \in 1 .. Len(s) |-> SeptetAt(o, j, g)]
  OBVIOUS
<1>5. q = [j \in 1 .. Len(s) |-> s[j]]
  BY <1>3, <1>4
<1>6. [j \in 1 .. Len(s) |-> s[j]] = s
  OBVIOUS
<1> QED BY <1>1, <1>4, <1>5, <1>6, Zenon

Digits(a) == [i \in DOMAIN a.digits |-> 48 + a.digits[i]]
Plus(a) == IF a.plus THEN <<43>> ELSE <<>>

LEMMA NumberAddress ==
  ASSUME NEW a, a.digits \in Seq(0 .. 9), a.plus \in BOOLEAN,
         NEW type \in {"NIBBLES", "OCTETS"}, NEW pdu \in Seq(Nat), NEW o \in Nat,
         Lies(setAddress(a, type), o, pdu), NEW g
  PROVE  decodeAddress(pdu, o + 1, type, g) =
           [length |-> 2 * ((Len(a.digits) + 1) \div 2), text |-> Plus(a) \o Digits(a)]
<1> DEFINE x == setAddress(a, type)
           b == stringToBCD(a.digits)
<1>1. PICK n \in Nat, c \in Nat : n = Len(a.digits) /\ c = (n + 1) \div 2
  <2>1. Len(a.digits) \in Nat
    BY Elements
  <2>2. \A v \in Nat : (v + 1) \div 2 \in Nat
    OBVIOUS
  <2> QED BY <2>1, <2>2, Zenon
<1>2. /\ Len(x) = 2 + c /\ x[1] = (IF type = "NIBBLES" THEN n ELSE c + 1)
      /\ x[2] = (IF a.plus THEN 145 ELSE 161) /\ Lies(b, 2, x)
  <2>1. AddressOf(a, type, x)
    BY AddressShape
  <2> HIDE DEF x, b
  <2> QED BY <1>1, <2>1, Zenon DEF AddressOf, b
<1>3. BcdOf(a.digits, b)
  BY Bcd
<1> HIDE DEF x, b
<1>4. Len(b) = c /\ b \in Seq(Byte)
  BY <1>1, <1>3, Zenon DEF BcdOf
<1>5. pdu[o + 1] = x[1] /\ pdu[o + 2] = x[2]
  <2>1. 1 \in 1 .. Len(x) /\ 2 \in 1 .. Len(x)
    BY <1>2
  <2> QED BY <2>1, Zenon DEF Lies, x
<1>6. Lies(b, o + 2, pdu)
  BY <1>2, LiesIn, ZenonT(40) DEF x
<1>7. SubSeq(pdu, (o + 2) + 1, (o + 2) + c) = b
  <2>1. Byte \subseteq Nat
    BY DEF Byte
  <2>2. b \in Seq(Nat)
    BY <1>4, <2>1, Wider
  <2> QED BY <1>4, <1>6, <2>2, LiesCut, Zenon
<1>8. BCDtoString(b) = Digits(a)
  BY <1>3, NumberRead, Zenon DEF Digits
<1>9. PICK m, t : /\ m = (IF type = "NIBBLES" THEN pdu[o + 1] ELSE (pdu[o + 1] - 1) * 2)
                  /\ t = pdu[o + 2]
  OBVIOUS
<1>10. m = (IF type = "NIBBLES" THEN n ELSE 2 * c) /\ t = (IF a.plus THEN 145 ELSE 161)
  <2>1. CASE type = "NIBBLES"
    BY <1>2, <1>5, <1>9, <2>1, Zenon
  <2>2. CASE type # "NIBBLES"
    <3>1. ((c + 1) - 1) * 2 = 2 * c
      OBVIOUS
    <3> QED BY <1>2, <1>5, <1>9, <2>2, <3>1, Zenon
  <2> QED BY <2>1, <2>2
<1>11. m + (m % 2) = 2 * c /\ (m + 1) \div 2 = c
  <2>1. n + (n % 2) = 2 * c /\ (n + 1) \div 2 = c
    <3>1. (n + 1) \div 2 = c
      BY <1>1
    <3>2. n + (n % 2) = 2 * ((n + 1) \div 2)
      BY SMTT(30)
    <3> QED BY <3>1, <3>2, Zenon
  <2>2. 2 * c + ((2 * c) % 2) = 2 * c /\ (2 * c + 1) \div 2 = c
    OBVIOUS
  <2> QED BY <1>10, <2>1, <2>2, Zenon
<1>12. /\ t >= 128 /\ (t \div 16) % 8 \in {0, 1, 2}
       /\ ((t \div 16) % 8 = 1 <=> a.plus)
  <2>1. CASE a.plus
    BY <1>10, <2>1
  <2>2. CASE ~a.plus
    BY <1>10, <2>2
  <2> QED BY <2>1, <2>2
<1>13. (o + 1) + 1 = o + 2 /\ (o + 1) + 2 = (o + 2) + 1 /\ (o + 1) + 1 + c = (o + 2) + c
  OBVIOUS
<1>14. Plus(a) = IF (t \div 16) % 8 = 1 THEN <<43>> ELSE <<>>
  BY <1>12, Zenon DEF Plus
<1> QED BY <1>1, <1>7, <1>8, <1>9, <1>11, <1>12, <1>13, <1>14, Zenon DEF decodeAddress

\* The octets of a name.
NameOctets(s) == <<(7 * Len(s) + 3) \div 4, 208>> \o UserDataOf(<<>>, s)

LEMMA NameShape ==
  ASSUME NEW s \in Seq(0 .. 127)
  PROVE  \E p \in Seq(Byte) :
           /\ Packed(p, s, 0)
           /\ NameOctets(s) = <<(7 * Len(s) + 3) \div 4, 208>> \o p
<1>1. <<>> \in Seq(Byte) /\ Len(<<>>) = 0
  OBVIOUS
<1>2. PICK p \in Seq(Byte) : UserDataOf(<<>>, s) = <<>> \o p /\ Packed(p, s, 0)
  BY <1>1, UserDataShape
<1>3. <<>> \o p = p
  OBVIOUS
<1> QED BY <1>2, <1>3, Zenon DEF NameOctets

LEMMA NameAddress ==
  ASSUME NEW cps \in Seq(Exact), cps # <<>>, NEW pdu \in Seq(Nat), NEW o \in Nat,
         Lies(NameOctets(Septets7(cps)), o, pdu), NEW g
  PROVE  LET x == NameOctets(Septets7(cps)) IN
         /\ x \in Seq(Nat) /\ Len(x) - 2 \in Nat \ {0}
         /\ decodeAddress(pdu, o + 1, "NIBBLES", g) =
              [length |-> 2 * (Len(x) - 2), text |-> Utf8(cps)]
<1>1. PICK s \in Seq(0 .. 127) : s = Septets7(cps)
  BY ExactSeptets
<1>2. PICK p \in Seq(Byte) : /\ Packed(p, s, 0)
                             /\ NameOctets(s) = <<(7 * Len(s) + 3) \div 4, 208>> \o p
  BY NameShape
<1>3. PICK L \in Nat \ {0} : L = Len(s)
  <2>1. Len(s) \in Nat /\ Len(s) # 0
    <3>1. PICK P \in Seq(Seq(0 .. 127)) :
            /\ s = Concat(P) /\ Len(P) = Len(cps)
            /\ \A i \in 1 .. Len(cps) : Single(cps[i], P[i]) \/ Double(cps[i], P[i])
      BY <1>1, ExactType, Zenon DEF Septets7
    <3>2. Len(cps) \in Nat /\ 1 \in 1 .. Len(cps)
      <4>1. Len(cps) # 0
        BY Nothing
      <4> QED BY <4>1
    <3>3. PICK u : Built(u, P, 0 .. 127)
      BY ConcatType
    <3>4. Placed(u, P, 1)
      BY <3>1, <3>2, <3>3, Pieces
    <3>5. Len(P[1]) >= 1 /\ Len(P[1]) \in Nat
      <4>1. \A cp, v : Single(cp, v) => Len(v) >= 1 /\ Len(v) \in Nat
        BY DEF Single
      <4>2. \A cp, v : Double(cp, v) => Len(v) >= 1 /\ Len(v) \in Nat
        BY DEF Double
      <4> QED BY <3>1, <3>2, <4>1, <4>2, Zenon
    <3>6. Len(s) \in Nat
      OBVIOUS
    <3>7. PICK a \in Nat : a = Len(u[1 - 1])
      BY <3>4 DEF Placed
    <3>8. Len(u[1]) = a + Len(P[1]) /\ Len(u[1]) <= Len(s)
      BY <3>1, <3>4, <3>7, Zenon DEF Placed
    <3> QED BY <3>5, <3>6, <3>8
  <2> QED BY <2>1
<1>4. PICK n \in Nat, c \in Nat : n = (7 * L + 3) \div 4 /\ c = (7 * L + 7) \div 8
  <2>1. (7 * L + 3) \div 4 \in Nat /\ (7 * L + 7) \div 8 \in Nat
    OBVIOUS
  <2> QED BY <2>1
<1>5. Len(p) = c
  BY <1>2, <1>3, <1>4, Zenon DEF Packed
<1>6. /\ (n * 4) \div 7 = L /\ (n + 1) \div 2 = c /\ n + (n % 2) = 2 * c /\ c # 0
  <2>1. 4 * n <= 7 * L + 3 /\ 7 * L <= 4 * n
    BY <1>4
  <2>2. (n * 4) \div 7 = L
    BY <2>1
  <2>3. (n + 1) \div 2 = c
    BY <1>4
  <2>4. n + (n % 2) = 2 * c
    BY <2>3
  <2>5. c # 0
    BY <1>3, <1>4
  <2> QED BY <2>2, <2>3, <2>4, <2>5
<1>7. PICK x : x = NameOctets(s)
  OBVIOUS
<1>8. p \in Seq(Nat) /\ <<n, 208>> \in Seq(Nat) /\ Len(<<n, 208>>) = 2
  <2>1. Byte \subseteq Nat
    BY DEF Byte
  <2>2. p \in Seq(Nat)
    BY <2>1, Wider
  <2>3. <<n, 208>> \in Seq(Nat) /\ Len(<<n, 208>>) = 2
    OBVIOUS
  <2> QED BY <2>2, <2>3
<1>9. x = <<n, 208>> \o p
  BY <1>2, <1>3, <1>4, <1>7, Zenon
<1>10. x \in Seq(Nat) /\ Len(x) = 2 + c /\ Lies(p, 2, x)
  <2>1. PICK f \in Seq(Nat) : f = <<n, 208>>
    BY <1>8
  <2>2. x = f \o p /\ Len(f) = 2
    BY <1>8, <1>9, <2>1, Zenon
  <2>3. /\ f \o p \in Seq(Nat) /\ Len(f \o p) = Len(f) + Len(p) /\ Lies(p, Len(f), f \o p)
    BY <1>8, LiesJoined, ZenonT(40)
  <2> QED BY <1>5, <2>2, <2>3, Zenon
<1>11. x[1] = n /\ x[2] = 208
  BY <1>8, <1>9
<1>12. Lies(x, o, pdu)
  BY <1>1, <1>7, Zenon
<1>13. pdu[o + 1] = n /\ pdu[o + 2] = 208
  <2>1. 1 \in 1 .. Len(x) /\ 2 \in 1 .. Len(x)
    BY <1>10
  <2> QED BY <1>11, <1>12, <2>1, ZenonT(40) DEF Lies
<1>14. SubSeq(pdu, (o + 2) + 1, (o + 2) + c) = p
  <2>1. Lies(p, o + 2, pdu)
    BY <1>10, <1>12, LiesIn, Zenon
  <2> QED BY <1>5, <1>8, <2>1, LiesCut, Zenon
<1>15. convert_7bit_to_unicode(Unpack(p, L, 0, g), g) = Utf8(cps)
  BY <1>1, <1>2, <1>3, Unpacked, GsmRead, Zenon
<1>16. 208 >= 128 /\ (208 \div 16) % 8 = 5 /\ 5 \notin {0, 1, 2}
  OBVIOUS
<1>17. (o + 1) + 1 = o + 2 /\ (o + 1) + 2 = (o + 2) + 1 /\ (o + 1) + 1 + c = (o + 2) + c
  OBVIOUS
<1>18. decodeAddress(pdu, o + 1, "NIBBLES", g) = [length |-> 2 * c, text |-> Utf8(cps)]
  <2>1. PICK type, t : type = "NIBBLES" /\ t = 208
    OBVIOUS
  <2>2. n = (IF type = "NIBBLES" THEN pdu[o + 1] ELSE (pdu[o + 1] - 1) * 2)
    BY <1>13, <2>1, Zenon
  <2>3. pdu[(o + 1) + 1] = t
    BY <1>13, <1>17, <2>1, Zenon
  <2>4. SubSeq(pdu, (o + 1) + 2, (o + 1) + 1 + ((n + 1) \div 2)) = p
    BY <1>6, <1>14, <1>17, Zenon
  <2>5. t >= 128 /\ (t \div 16) % 8 = 5 /\ ~((t \div 16) % 8 \in {0, 1, 2})
    BY <2>1
  <2>6. decodeAddress(pdu, o + 1, type, g) = [length |-> 2 * c, text |-> Utf8(cps)]
    BY <1>6, <1>15, <2>2, <2>3, <2>4, <2>5, Zenon DEF decodeAddress
  <2> QED BY <2>1, <2>6, Zenon
<1>19. Len(x) - 2 = c /\ Len(x) - 2 \in Nat \ {0}
  BY <1>6, <1>10
<1> QED BY <1>1, <1>7, <1>10, <1>18, <1>19, Zenon

-----------------------------------------------------------------------------
(* Decoded: where things are. *)

Size(m) ==
  IF m.alphabet = "7BIT" THEN HeaderSeptets(m.header) + Len(Septets7(m.text))
  ELSE Len(m.header \o Octets(m.text))
Data(m) ==
  IF m.alphabet = "7BIT" THEN UserDataOf(m.header, Septets7(m.text))
  ELSE m.header \o Octets(m.text)
Coding(m) == IF m.alphabet = "7BIT" THEN 0 ELSE IF m.alphabet = "8BIT" THEN 4 ELSE 8

\* The data begins with the header.
LEMMA DataShape ==
  ASSUME NEW m \in Messages
  PROVE  /\ m.header \in Seq(Byte) /\ (m.header # <<>> => m.header[1] = Len(m.header) - 1)
         /\ (m.header = <<>> \/ Len(m.header) = 6 \/ Len(m.header) = 7)
         /\ \E p \in Seq(Byte) : /\ Data(m) = m.header \o p
                                 /\ m.alphabet # "7BIT" => p = Octets(m.text)
<1>1. MessageOK(m)
  BY PduAssumption
<1>2. PICK h : h = m.header
  OBVIOUS
<1>3. HeaderOK(h)
  BY <1>1, <1>2, Zenon DEF MessageOK
<1>4. /\ h \in Seq(Byte) /\ (h # <<>> => h[1] = Len(h) - 1)
      /\ (h = <<>> \/ Len(h) = 6 \/ Len(h) = 7)
  <2>1. CASE h = <<>>
    BY <2>1
  <2>2. CASE h # <<>>
    <3>1. h \in Seq(Byte) /\ Len(h) \in {6, 7} /\ h[1] = Len(h) - 1
      BY <1>3, <2>2, Zenon DEF HeaderOK
    <3> QED BY <3>1
  <2> QED BY <2>1, <2>2
<1>5. CASE m.alphabet = "7BIT"
  <2>1. m.text \in Seq(Exact)
    BY <1>1, <1>5 DEF MessageOK
  <2>2. PICK s \in Seq(0 .. 127) : s = Septets7(m.text)
    BY <2>1, ExactSeptets
  <2>3. Data(m) = UserDataOf(h, s)
    BY <1>2, <1>5, <2>2 DEF Data
  <2>4. Len(h) = 0 \/ Len(h) = 6 \/ Len(h) = 7
    BY <1>4
  <2>5. \E p \in Seq(Byte) : UserDataOf(h, s) = h \o p
    <3>1. CASE Len(h) = 6
      BY <1>4, <3>1, UserDataSix, Zenon
    <3>2. CASE Len(h) = 0 \/ Len(h) = 7
      BY <1>4, <3>2, UserDataShape, Zenon
    <3> QED BY <2>4, <3>1, <3>2
  <2> QED BY <1>2, <1>4, <1>5, <2>3, <2>5, Zenon
<1>6. CASE m.alphabet # "7BIT"
  <2>1. m.text \in Seq(Word)
    BY <1>1, <1>6, Zenon DEF MessageOK, UnitsOK
  <2>2. Octets(m.text) \in Seq(Byte)
    BY <2>1, OctetsShape, Zenon
  <2>3. Data(m) = h \o Octets(m.text)
    BY <1>2, <1>6, Zenon DEF Data
  <2> QED BY <1>2, <1>4, <2>2, <2>3, Zenon
<1> QED BY <1>5, <1>6

LEMMA DataType ==
  ASSUME NEW m \in Messages
  PROVE  Data(m) \in Seq(Nat) /\ Lies(m.header, 0, Data(m)) /\ Size(m) \in Nat
<1>1. PICK h, p \in Seq(Byte) : h = m.header /\ h \in Seq(Byte) /\ Data(m) = h \o p
  BY DataShape, Zenon
<1>2. Byte \subseteq Nat
  BY DEF Byte
<1>3. h \in Seq(Nat) /\ p \in Seq(Nat)
  BY <1>1, <1>2, Wider
<1>4. Data(m) \in Seq(Nat) /\ Lies(h, 0, Data(m))
  BY <1>1, <1>3, LiesJoined, Zenon
<1>5. Size(m) \in Nat
  <2>1. CASE m.alphabet = "7BIT"
    <3>1. MessageOK(m)
      BY PduAssumption
    <3>2. m.text \in Seq(Exact)
      BY <2>1, <3>1 DEF MessageOK
    <3>3. PICK a \in Nat : a = Len(Septets7(m.text))
      BY <3>2, ExactSeptets, Elements
    <3>4. PICK b \in Nat : b = Len(h)
      BY <1>1
    <3>5. (8 * b + 6) \div 7 + a \in Nat
      OBVIOUS
    <3> QED BY <1>1, <2>1, <3>3, <3>4, <3>5, Zenon DEF Size, HeaderSeptets
  <2>2. CASE m.alphabet # "7BIT"
    <3>1. Size(m) = Len(Data(m))
      BY <2>2, Zenon DEF Size, Data
    <3> QED BY <1>4, <3>1
  <2> QED BY <2>1, <2>2
<1> QED BY <1>1, <1>4, <1>5, Zenon

LEMMA SenderShape ==
  ASSUME NEW m \in Messages
  PROVE  Address(m.from) \in Seq(Nat)
<1>1. PICK f : f = m.from /\ SenderOK(f)
  BY PduAssumption, Zenon DEF MessageOK
<1>2. CASE f.kind = "number"
  <2>1. f.digits \in Seq(0 .. 9)
    BY <1>1, <1>2 DEF SenderOK, Number
  <2>2. setAddress(f, "NIBBLES") \in Seq(Nat)
    BY <2>1, AddressShape DEF AddressOf
  <2> QED BY <1>1, <1>2, <2>2 DEF Address
<1>3. CASE f.kind = "name"
  <2>1. f.name \in Seq(Exact) /\ f.name # <<>>
    BY <1>1, <1>3 DEF SenderOK
  <2>2. PICK s \in Seq(0 .. 127) : s = Septets7(f.name)
    BY <2>1, ExactSeptets
  <2>3. Address(f) = NameOctets(s)
    BY <1>3, <2>2 DEF Address, NameOctets
  <2>4. PICK p \in Seq(Byte) : NameOctets(s) = <<(7 * Len(s) + 3) \div 4, 208>> \o p
    BY NameShape
  <2>5. PICK n \in Nat : n = (7 * Len(s) + 3) \div 4
    <3>1. PICK l \in Nat : l = Len(s)
      BY Elements
    <3>2. (7 * l + 3) \div 4 \in Nat
      OBVIOUS
    <3> QED BY <3>1, <3>2
  <2>6. p \in Seq(Nat) /\ <<n, 208>> \in Seq(Nat)
    <3>1. Byte \subseteq Nat
      BY DEF Byte
    <3>2. p \in Seq(Nat)
      BY <3>1, Wider
    <3>3. <<n, 208>> \in Seq(Nat)
      OBVIOUS
    <3> QED BY <3>2, <3>3
  <2>7. <<n, 208>> \o p \in Seq(Nat)
    BY <2>6
  <2> QED BY <1>1, <2>3, <2>4, <2>5, <2>7, Zenon
<1>4. CASE f.kind = "other"
  <2>1. f.digits \in Seq(0 .. 9) /\ f.type \in Nat
    <3>1. f.kind # "number" /\ f.kind # "name"
      BY <1>4
    <3>2. f.digits \in Seq(0 .. 9)
          /\ f.type \in 0 .. 127
               \cup {t \in 128 .. 255 : (t \div 16) % 8 \notin {0, 1, 2, 5}}
      BY <1>1, <3>1, Zenon DEF SenderOK
    <3>3. \A t \in 0 .. 127 : t \in Nat
      OBVIOUS
    <3>4. \A t \in 128 .. 255 : t \in Nat
      OBVIOUS
    <3> QED BY <3>2, <3>3, <3>4, ZenonT(40)
  <2>2. stringToBCD(f.digits) \in Seq(Nat)
    <3>1. PICK b \in Seq(Byte) : b = stringToBCD(f.digits)
      BY <2>1, Bcd DEF BcdOf
    <3>2. Byte \subseteq Nat
      BY DEF Byte
    <3> QED BY <3>1, <3>2, Wider
  <2>3. <<Len(f.digits), f.type>> \in Seq(Nat)
    BY <2>1
  <2>4. Address(f) = <<Len(f.digits), f.type>> \o stringToBCD(f.digits)
    BY <1>4 DEF Address
  <2>5. PICK x \in Seq(Nat), y \in Seq(Nat) :
          x = <<Len(f.digits), f.type>> /\ y = stringToBCD(f.digits)
    BY <2>2, <2>3
  <2>6. x \o y \in Seq(Nat)
    OBVIOUS
  <2> QED BY <1>1, <2>4, <2>5, <2>6, Zenon
<1> QED BY <1>1, <1>2, <1>3, <1>4 DEF SenderOK

\* a octets of the center, the first octet, the sender and what is behind them,
\* p octets later.
Laid(m, x, a, p) ==
  /\ x \in Seq(Nat) /\ a \in Nat /\ p \in Nat
  /\ Lies(setAddress(Center, "OCTETS"), 0, x)
  /\ a = Len(setAddress(Center, "OCTETS"))
  /\ x[a + 1] = (IF m.header = <<>> THEN 4 ELSE 68)
  /\ Lies(Address(m.from), a + 1, x) /\ p = (a + 1) + Len(Address(m.from))
  /\ x[p + 2] = Coding(m) /\ x[p + 10] = Size(m)
  /\ Lies(Data(m), p + 10, x) /\ Len(x) = (p + 10) + Len(Data(m))

LEMMA Layout ==
  ASSUME NEW m \in Messages
  PROVE  \E a, p \in Nat : Laid(m, Deliver(m), a, p)
<1>1. PICK A \in Seq(Nat) : A = setAddress(Center, "OCTETS")
  <2>1. Center.digits \in Seq(0 .. 9)
    BY PduAssumption DEF Number
  <2> QED BY <2>1, AddressShape DEF AddressOf
<1>2. PICK F \in Seq(Nat) : F = Address(m.from)
  BY SenderShape
<1>3. PICK D \in Seq(Nat), n \in Nat : D = Data(m) /\ n = Size(m)
  BY DataType
<1>4. PICK t \in Nat, c \in Nat :
        t = (IF m.header = <<>> THEN 4 ELSE 68) /\ c = Coding(m)
  BY DEF Coding
<1>5. PICK T, C, Z, S : T = <<t>> /\ C = <<0, c>> /\ Z = <<0, 0, 0, 0, 0, 0, 0>> /\ S = <<n>>
  OBVIOUS
<1>6. /\ T \in Seq(Nat) /\ Len(T) = 1 /\ T[1] = t
      /\ C \in Seq(Nat) /\ Len(C) = 2 /\ C[2] = c
      /\ Z \in Seq(Nat) /\ Len(Z) = 7
      /\ S \in Seq(Nat) /\ Len(S) = 1 /\ S[1] = n
  BY <1>5
<1>7. PICK y : y = A \o T \o F \o C
  OBVIOUS
<1>8. Four(Nat, A, T, F, C, y)
  BY <1>6, <1>7, LiesFour, Zenon
<1>9. PICK x : x = y \o Z \o S \o D
  OBVIOUS
<1>10. y \in Seq(Nat)
  BY <1>8, Zenon DEF Four
<1>11. Four(Nat, y, Z, S, D, x)
  BY <1>6, <1>9, <1>10, LiesFour, Zenon
<1>12. Deliver(m) = x
  <2>1. n = IF m.alphabet = "7BIT" THEN HeaderSeptets(m.header) + Len(Septets7(m.text))
            ELSE Len(D)
    BY <1>3, Zenon DEF Size, Data
  <2>2. D = IF m.alphabet = "7BIT" THEN UserDataOf(m.header, Septets7(m.text))
            ELSE m.header \o Octets(m.text)
    BY <1>3, Zenon DEF Data
  <2>3. c = IF m.alphabet = "7BIT" THEN 0 ELSE IF m.alphabet = "8BIT" THEN 4 ELSE 8
    BY <1>4, Zenon DEF Coding
  <2> QED BY <1>1, <1>2, <1>4, <1>5, <1>7, <1>9, <2>1, <2>2, <2>3, Zenon DEF Deliver
<1>13. PICK a \in Nat, f \in Nat, p \in Nat : a = Len(A) /\ f = Len(F) /\ p = (a + 1) + f
  <2>1. PICK a \in Nat, f \in Nat : a = Len(A) /\ f = Len(F)
    BY Elements
  <2>2. (a + 1) + f \in Nat
    OBVIOUS
  <2> QED BY <2>1, <2>2
<1>14. Len(y) = p + 2
  <2>1. Len(y) = ((a + 1) + f) + 2
    BY <1>6, <1>8, <1>13, Zenon DEF Four
  <2> QED BY <1>13, <2>1, Zenon
<1>15. /\ x \in Seq(Nat) /\ Len(x) = (((p + 2) + 7) + 1) + Len(D) /\ Lies(y, 0, x)
       /\ Lies(S, (p + 2) + 7, x) /\ Lies(D, ((p + 2) + 7) + 1, x)
  BY <1>6, <1>11, <1>14, Zenon DEF Four
<1>16. /\ Lies(A, 0, y) /\ Lies(T, a, y) /\ Lies(F, a + 1, y) /\ Lies(C, p, y)
  BY <1>6, <1>8, <1>13, Zenon DEF Four
<1>17. Lies(A, 0 + 0, x) /\ Lies(T, 0 + a, x) /\ Lies(F, 0 + (a + 1), x) /\ Lies(C, 0 + p, x)
  BY <1>15, <1>16, LiesIn, Zenon
<1>18. /\ 0 + 0 = 0 /\ 0 + a = a /\ 0 + (a + 1) = a + 1 /\ 0 + p = p
       /\ (p + 2) + 7 = p + 9 /\ (p + 9) + 1 = p + 10
       /\ 1 \in 1 .. 1 /\ 2 \in 1 .. 2
  OBVIOUS
<1>19. x[a + 1] = t /\ x[p + 2] = c /\ x[p + 10] = n
  <2>1. /\ 1 \in 1 .. Len(T) /\ 2 \in 1 .. Len(C) /\ 1 \in 1 .. Len(S)
    BY <1>6
  <2>2. Lies(T, a, x) /\ Lies(C, p, x) /\ Lies(S, p + 9, x)
    BY <1>15, <1>17, <1>18, Zenon
  <2>3. x[a + 1] = T[1] /\ x[p + 2] = C[2] /\ x[(p + 9) + 1] = S[1]
    BY <2>1, <2>2, Zenon DEF Lies
  <2> QED BY <1>6, <1>18, <2>3, Zenon
<1>20. /\ Lies(A, 0, x) /\ Lies(F, a + 1, x) /\ Lies(D, p + 10, x)
       /\ Len(x) = (p + 10) + Len(D)
  BY <1>15, <1>17, <1>18, Zenon
<1>21. Laid(m, x, a, p)
  BY <1>1, <1>2, <1>3, <1>4, <1>13, <1>15, <1>19, <1>20, Zenon DEF Laid
<1> QED BY <1>12, <1>13, <1>21, Zenon

\* The addresses of a message as they are read.
LEMMA CenterRead ==
  ASSUME NEW m \in Messages, NEW x, NEW a \in Nat, NEW p \in Nat, Laid(m, x, a, p), NEW g
  PROVE  LET sca == decodeAddress(x, 1, "OCTETS", g)
         IN sca.length # 0 /\ 3 + (sca.length \div 2) = a + 1
<1>1. /\ Center.digits \in Seq(0 .. 9) /\ Center.plus \in BOOLEAN
      /\ Center.digits # <<>>
  BY PduAssumption DEF Number
<1>2. PICK n \in Nat \ {0} : n = Len(Center.digits)
  <2>1. Len(Center.digits) \in Nat /\ Len(Center.digits) # 0
    BY <1>1, Nothing, Elements, Zenon
  <2> QED BY <2>1
<1>3. PICK c \in Nat \ {0} : c = (n + 1) \div 2
  <2>1. (n + 1) \div 2 \in Nat /\ (n + 1) \div 2 # 0
    OBVIOUS
  <2> QED BY <2>1
<1>4. a = 2 + c
  <2>1. AddressOf(Center, "OCTETS", setAddress(Center, "OCTETS"))
    BY <1>1, AddressShape
  <2> QED BY <1>2, <1>3, <2>1, Zenon DEF Laid, AddressOf
<1>5. decodeAddress(x, 0 + 1, "OCTETS", g) =
        [length |-> 2 * ((Len(Center.digits) + 1) \div 2),
         text |-> Plus(Center) \o Digits(Center)]
  <2>1. x \in Seq(Nat) /\ Lies(setAddress(Center, "OCTETS"), 0, x)
    BY DEF Laid
  <2>2. 0 \in Nat /\ "OCTETS" \in {"NIBBLES", "OCTETS"}
    OBVIOUS
  <2> QED BY <1>1, <2>1, <2>2, NumberAddress, ZenonT(40)
<1>6. 0 + 1 = 1
  OBVIOUS
<1>7. PICK d : d = decodeAddress(x, 1, "OCTETS", g)
  OBVIOUS
<1>8. d.length = 2 * c
  <2>1. PICK u, l : u = Plus(Center) \o Digits(Center) /\ l = 2 * c
    OBVIOUS
  <2>2. d = [length |-> l, text |-> u]
    BY <1>2, <1>3, <1>5, <1>6, <1>7, <2>1, Zenon
  <2>3. d.length = l
    BY <2>2
  <2> QED BY <2>1, <2>3
<1>9. 2 * c # 0 /\ 3 + ((2 * c) \div 2) = (2 + c) + 1
  OBVIOUS
<1> QED BY <1>4, <1>7, <1>8, <1>9, Zenon

\* No other address is read.
LEMMA OtherAddress ==
  ASSUME NEW f, SenderOK(f), f.kind = "other", NEW pdu \in Seq(Nat), NEW o \in Nat,
         Lies(Address(f), o, pdu), NEW g
  PROVE  decodeAddress(pdu, o + 1, "NIBBLES", g).length = 0
<1>1. f.kind # "number" /\ f.kind # "name"
  OBVIOUS
<1>2. f.digits \in Seq(0 .. 9)
      /\ f.type \in 0 .. 127 \cup {t \in 128 .. 255 : (t \div 16) % 8 \notin {0, 1, 2, 5}}
  BY <1>1, Zenon DEF SenderOK
<1>3. PICK x : x = Address(f)
  OBVIOUS
<1>4. PICK b \in Seq(Byte) : b = stringToBCD(f.digits)
  BY <1>2, Bcd DEF BcdOf
<1>5. x = <<Len(f.digits), f.type>> \o b
  BY <1>1, <1>3, <1>4, Zenon DEF Address
<1>6. x[2] = f.type /\ Len(x) \in Nat /\ Len(x) >= 2
  BY <1>5
<1>7. pdu[o + 2] = f.type
  <2>1. 2 \in 1 .. Len(x)
    BY <1>6
  <2> QED BY <1>3, <1>6, <2>1, Zenon DEF Lies
<1>8. (o + 1) + 1 = o + 2
  OBVIOUS
<1>9. PICK t : t = pdu[o + 2]
  OBVIOUS
<1>10. ~(t >= 128 /\ (t \div 16) % 8 \in {0, 1, 2}) /\ ~(t >= 128 /\ (t \div 16) % 8 = 5)
  <2>1. CASE t \in 0 .. 127
    <3>1. ~(t >= 128)
      BY <2>1
    <3> QED BY <3>1
  <2>2. CASE t \in {u \in 128 .. 255 : (u \div 16) % 8 \notin {0, 1, 2, 5}}
    <3>1. (t \div 16) % 8 \notin {0, 1, 2, 5}
      BY <2>2, Zenon
    <3>2. (t \div 16) % 8 \notin {0, 1, 2} /\ (t \div 16) % 8 # 5
      BY <3>1, Zenon
    <3> QED BY <3>2, Zenon
  <2> QED BY <1>2, <1>7, <1>9, <2>1, <2>2, ZenonT(40)
<1>11. decodeAddress(pdu, o + 1, "NIBBLES", g) = [length |-> 0, text |-> addressBuff]
  BY <1>8, <1>9, <1>10, Zenon DEF decodeAddress
<1> QED BY <1>11

\* The sender, and what is behind it.
LEMMA SenderRead ==
  ASSUME NEW m \in Messages, NEW x, NEW a \in Nat, NEW p \in Nat, Laid(m, x, a, p), NEW g
  PROVE  LET oa == decodeAddress(x, (a + 1) + 1, "NIBBLES", g)
         IN /\ m.from.kind = "other" => oa.length = 0
            /\ m.from.kind # "other" =>
                 /\ oa.length # 0 /\ oa.text = Sender(m.from)
                 /\ (a + 1) + 3 + (oa.length \div 2) = p + 1
<1>1. PICK f : f = m.from /\ SenderOK(f)
  BY PduAssumption, Zenon DEF MessageOK
<1>2. PICK o \in Nat : o = a + 1
  OBVIOUS
<1>3. PICK d : d = decodeAddress(x, o + 1, "NIBBLES", g)
  OBVIOUS
<1>4. x \in Seq(Nat) /\ Lies(Address(f), o, x) /\ p = o + Len(Address(f))
  BY <1>1, <1>2, Zenon DEF Laid
<1>5. ASSUME NEW c \in Nat \ {0}, NEW u, d = [length |-> 2 * c, text |-> u],
             Len(Address(f)) = 2 + c
      PROVE  d.length # 0 /\ d.text = u /\ o + 3 + (d.length \div 2) = p + 1
  <2>1. PICK l \in Nat : l = 2 * c
    OBVIOUS
  <2>2. l # 0 /\ l \div 2 = c /\ o + 3 + c = (o + (2 + c)) + 1
    BY <2>1
  <2>3. d.length = l /\ d.text = u
    BY <1>5, <2>1
  <2> QED BY <1>4, <1>5, <2>2, <2>3, Zenon
<1>6. ASSUME f.digits \in Seq(0 .. 9), f.plus \in BOOLEAN,
             Lies(setAddress(f, "NIBBLES"), o, x)
      PROVE  d = [length |-> 2 * ((Len(f.digits) + 1) \div 2),
                  text |-> Plus(f) \o Digits(f)]
  <2>1. decodeAddress(x, o + 1, "NIBBLES", g) =
          [length |-> 2 * ((Len(f.digits) + 1) \div 2), text |-> Plus(f) \o Digits(f)]
    BY <1>4, <1>6, NumberAddress, ZenonT(40)
  <2> QED BY <1>3, <2>1, Zenon
<1>7. CASE f.kind = "number"
  <2>1. f.digits \in Seq(0 .. 9) /\ f.plus \in BOOLEAN /\ f.digits # <<>>
    <3>1. [plus |-> f.plus, digits |-> f.digits] \in Number
      <4>1. f.kind # "name" /\ f.kind # "other"
        BY <1>7
      <4> QED BY <1>1, <4>1, Zenon DEF SenderOK
    <3> QED BY <3>1 DEF Number
  <2>2. PICK n \in Nat \ {0} : n = Len(f.digits)
    <3>1. Len(f.digits) \in Nat /\ Len(f.digits) # 0
      BY <2>1, Nothing, Elements, Zenon
    <3> QED BY <3>1
  <2>3. PICK c \in Nat \ {0} : c = (n + 1) \div 2
    <3>1. (n + 1) \div 2 \in Nat /\ (n + 1) \div 2 # 0
      OBVIOUS
    <3> QED BY <3>1
  <2>4. Address(f) = setAddress(f, "NIBBLES")
    BY <1>7 DEF Address
  <2>5. Len(Address(f)) = 2 + c
    <3>1. AddressOf(f, "NIBBLES", setAddress(f, "NIBBLES"))
      BY <2>1, AddressShape
    <3> QED BY <2>2, <2>3, <2>4, <3>1, Zenon DEF AddressOf
  <2>6. Lies(setAddress(f, "NIBBLES"), o, x)
    BY <1>4, <2>4, Zenon
  <2>7. d = [length |-> 2 * ((Len(f.digits) + 1) \div 2), text |-> Plus(f) \o Digits(f)]
    BY <1>6, <2>1, <2>6
  <2>8. Sender(f) = Plus(f) \o Digits(f)
    <3>1. f.kind # "name"
      BY <1>7
    <3> QED BY <3>1, Zenon DEF Sender, Plus, Digits
  <2>9. f.kind # "other"
    BY <1>7
  <2>10. d = [length |-> 2 * c, text |-> Sender(f)]
    BY <2>2, <2>3, <2>7, <2>8, Zenon
  <2> QED BY <1>1, <1>2, <1>3, <1>5, <2>5, <2>9, <2>10, Zenon
<1>8. CASE f.kind = "name"
  <2>1. f.name \in Seq(Exact) /\ f.name # <<>>
    BY <1>1, <1>8 DEF SenderOK
  <2>2. PICK y : y = NameOctets(Septets7(f.name))
    OBVIOUS
  <2>3. Address(f) = y
    BY <1>8, <2>2 DEF Address, NameOctets
  <2>4. /\ y \in Seq(Nat) /\ Len(y) - 2 \in Nat \ {0}
        /\ d = [length |-> 2 * (Len(y) - 2), text |-> Utf8(f.name)]
    <3>1. Lies(NameOctets(Septets7(f.name)), o, x)
      BY <1>4, <2>2, <2>3, Zenon
    <3> QED BY <1>3, <1>4, <2>1, <2>2, <3>1, NameAddress, ZenonT(40)
  <2>5. PICK c \in Nat \ {0} : c = Len(y) - 2 /\ Len(y) = 2 + c
    <3>1. PICK l \in Nat : l = Len(y)
      BY <2>4
    <3>2. PICK c \in Nat \ {0} : c = l - 2
      BY <2>4, <3>1
    <3>3. l = 2 + c
      BY <3>2
    <3> QED BY <3>1, <3>2, <3>3, Zenon
  <2>6. Sender(f) = Utf8(f.name)
    BY <1>8 DEF Sender
  <2>7. f.kind # "other"
    BY <1>8
  <2>8. d = [length |-> 2 * c, text |-> Sender(f)] /\ Len(Address(f)) = 2 + c
    BY <2>3, <2>4, <2>5, <2>6, Zenon
  <2> QED BY <1>1, <1>2, <1>3, <1>5, <2>7, <2>8, Zenon
<1>9. CASE f.kind = "other"
  <2>1. d.length = 0
    BY <1>1, <1>3, <1>4, <1>9, OtherAddress
  <2> QED BY <1>1, <1>2, <1>3, <1>9, <2>1, Zenon
<1> QED BY <1>1, <1>7, <1>8, <1>9 DEF SenderOK

\* What is decoded of a message whose sender can be read.
Rest(m) == SubSeq(Data(m), Len(m.header) + 1, Len(Data(m)))
Unreadable(m) == (m.header # <<>> /\ ~ConcatHeader(m.header)) \/ Coding(m) = 4
Read16(m) == Utf8Of(SubSeq(Rest(m), 1, Size(m) - Len(m.header)))
Decoding(m, g) ==
  /\ addressBuff' = Sender(m.from)
  /\ concatInfo' = IF m.header = <<>> THEN NoHeader
                   ELSE IF ConcatHeader(m.header) THEN ConcatNumbers(m.header)
                   ELSE concatInfo
  /\ IF Unreadable(m) THEN rc' = "failed" /\ Undecoded
     ELSE /\ rc' = "ok"
          /\ IF m.alphabet = "7BIT"
             THEN /\ generalWorkBuff' =
                       convert_7bit_to_unicode(SeptetText(Rest(m), Size(m), m.header, g), g)
                  /\ UNCHANGED <<SPstart, spair>>
             ELSE /\ generalWorkBuff' = Read16(m).out
                  /\ SPstart' = Read16(m).start /\ spair' = Read16(m).high

LEMMA DataCut ==
  ASSUME NEW m \in Messages
  PROVE  /\ Rest(m) \in Seq(Byte) /\ Data(m) = m.header \o Rest(m)
         /\ m.alphabet # "7BIT" => Rest(m) = Octets(m.text)
         /\ m.header # <<>> => SubSeq(Data(m), 1, Data(m)[1] + 1) = m.header
<1>1. PICK h, p \in Seq(Byte) : /\ h = m.header /\ h \in Seq(Byte) /\ Data(m) = h \o p
                                /\ m.alphabet # "7BIT" => p = Octets(m.text)
                                /\ h # <<>> => h[1] = Len(h) - 1
  BY DataShape, Zenon
<1>2. Rest(m) = p
  <2>1. PICK d : d = h \o p
    OBVIOUS
  <2>2. d \in Seq(Byte) /\ Len(d) = Len(h) + Len(p) /\ Lies(p, Len(h), d)
    BY <1>1, <2>1, LiesJoined, Zenon
  <2>3. SubSeq(d, Len(h) + 1, Len(h) + Len(p)) = p
    BY <1>1, <2>2, LiesCut, Zenon
  <2> QED BY <1>1, <2>1, <2>2, <2>3, Zenon DEF Rest
<1>3. ASSUME h # <<>> PROVE SubSeq(Data(m), 1, Data(m)[1] + 1) = h
  <2>1. PICK d : d = h \o p
    OBVIOUS
  <2>2. d \in Seq(Byte) /\ Lies(h, 0, d)
    BY <1>1, <2>1, LiesJoined, Zenon
  <2>3. PICK l \in Nat : l = Len(h) /\ l # 0
    BY <1>1, <1>3, Nothing, Elements
  <2>4. SubSeq(d, 0 + 1, 0 + l) = h
    BY <1>1, <2>2, <2>3, LiesCut, Zenon
  <2>5. d[0 + 1] = h[1]
    <3>1. 1 \in 1 .. l
      BY <2>3
    <3> QED BY <2>2, <2>3, <3>1, Zenon DEF Lies
  <2>6. 0 + 1 = 1 /\ 0 + l = l /\ (l - 1) + 1 = l
    OBVIOUS
  <2> QED BY <1>1, <1>3, <2>1, <2>3, <2>4, <2>5, <2>6, Zenon
<1> QED BY <1>1, <1>2, <1>3, Zenon

LEMMA Decoded ==
  ASSUME NEW m \in Messages, NEW g, decodePDU(Wire[m], g)
  PROVE  /\ m.from.kind = "other" => rc' = "failed" /\ UNCHANGED <<SPstart, spair>>
         /\ m.from.kind # "other" => Decoding(m, g)
<1> DEFINE x == Wire[m]
           sca == decodeAddress(x, 1, "OCTETS", g)
           tpdu == 3 + (sca.length \div 2)
           oa == decodeAddress(x, tpdu + 1, "NIBBLES", g)
           pid == tpdu + 3 + (oa.length \div 2)
           dcs == (x[pid + 1] \div 4) % 4
           udl == x[pid + 9]
           data == SubSeq(x, pid + 10, Len(x))
           h == IF (x[tpdu] \div 64) % 2 = 1 THEN SubSeq(data, 1, data[1] + 1) ELSE <<>>
           rest == SubSeq(data, Len(h) + 1, Len(data))
           wide == Utf8Of(SubSeq(rest, 1, udl - Len(h)))
<1>1. IF sca.length = 0 \/ oa.length = 0
      THEN /\ rc' = "failed"
           /\ UNCHANGED <<generalWorkBuff, addressBuff, concatInfo, SPstart, spair>>
      ELSE
        /\ addressBuff' = oa.text
        /\ concatInfo' = IF h = <<>> THEN NoHeader
                         ELSE IF ConcatHeader(h) THEN ConcatNumbers(h) ELSE concatInfo
        /\ IF (h # <<>> /\ ~ConcatHeader(h)) \/ dcs \notin {0, 2}
           THEN rc' = "failed" /\ Undecoded
           ELSE /\ rc' = "ok"
                /\ IF dcs = 0
                   THEN /\ generalWorkBuff' =
                             convert_7bit_to_unicode(SeptetText(rest, udl, h, g), g)
                        /\ UNCHANGED <<SPstart, spair>>
                   ELSE /\ generalWorkBuff' = wide.out
                        /\ SPstart' = wide.start /\ spair' = wide.high
  BY Zenon DEF decodePDU
<1>2. x = Deliver(m)
  BY DEF Wire
<1> HIDE DEF x
<1>3. PICK a \in Nat, p \in Nat : Laid(m, x, a, p)
  BY <1>2, Layout, Zenon
<1>4. sca.length # 0 /\ tpdu = a + 1
  BY <1>3, CenterRead, Zenon
<1> HIDE DEF sca, tpdu
<1>5. oa = decodeAddress(x, (a + 1) + 1, "NIBBLES", g)
  BY <1>4, Zenon
<1>6. /\ m.from.kind = "other" => oa.length = 0
      /\ m.from.kind # "other" =>
           /\ oa.length # 0 /\ oa.text = Sender(m.from)
           /\ (a + 1) + 3 + (oa.length \div 2) = p + 1
  <2> HIDE DEF oa
  <2> QED BY <1>3, <1>5, SenderRead
<1>7. pid = tpdu + 3 + (oa.length \div 2)
  OBVIOUS
<1>8. /\ dcs = (x[pid + 1] \div 4) % 4 /\ udl = x[pid + 9]
      /\ data = SubSeq(x, pid + 10, Len(x))
  OBVIOUS
<1>9. h = IF (x[tpdu] \div 64) % 2 = 1 THEN SubSeq(data, 1, data[1] + 1) ELSE <<>>
  OBVIOUS
<1>10. /\ rest = SubSeq(data, Len(h) + 1, Len(data))
       /\ wide = Utf8Of(SubSeq(rest, 1, udl - Len(h)))
  OBVIOUS
<1> HIDE DEF oa, pid, dcs, udl, data, h, rest, wide
<1>11. CASE m.from.kind = "other"
  <2>1. /\ rc' = "failed"
        /\ UNCHANGED <<generalWorkBuff, addressBuff, concatInfo, SPstart, spair>>
    BY <1>6, <1>1, <1>11, Zenon
  <2>2. UNCHANGED <<SPstart, spair>>
    BY <2>1
  <2> QED BY <1>11, <2>1, <2>2, Zenon
<1>12. CASE m.from.kind # "other"
  <2>1. pid = p + 1 /\ oa.length # 0 /\ oa.text = Sender(m.from)
    BY <1>4, <1>7, <1>6, <1>12, Zenon
  <2>2. pid + 1 = p + 2 /\ pid + 9 = p + 10 /\ pid + 10 = (p + 10) + 1
    BY <2>1
  <2>3. udl = Size(m) /\ dcs = (Coding(m) \div 4) % 4
    BY <1>3, <1>8, <2>2, Zenon DEF Laid
  <2>4. data = Data(m)
    <3>1. x \in Seq(Nat) /\ Lies(Data(m), p + 10, x) /\ Len(x) = (p + 10) + Len(Data(m))
      BY <1>3, Zenon DEF Laid
    <3>2. SubSeq(x, (p + 10) + 1, (p + 10) + Len(Data(m))) = Data(m)
      BY <3>1, DataType, LiesCut, Zenon
    <3> QED BY <1>8, <2>2, <3>1, <3>2, Zenon
  <2>5. x[tpdu] = IF m.header = <<>> THEN 4 ELSE 68
    BY <1>3, <1>4, Zenon DEF Laid
  <2>6. h = m.header
    <3>1. (4 \div 64) % 2 # 1 /\ (68 \div 64) % 2 = 1
      OBVIOUS
    <3> QED BY <1>9, <2>4, <2>5, <3>1, DataCut, Zenon
  <2>7. rest = Rest(m)
    BY <1>10, <2>4, <2>6, Zenon DEF Rest
  <2>8. wide = Read16(m)
    BY <1>10, <2>3, <2>6, <2>7, Zenon DEF Read16
  <2>9. (dcs \notin {0, 2} <=> Coding(m) = 4) /\ (Coding(m) # 4 => (dcs = 0 <=> m.alphabet = "7BIT"))
    <3>1. CASE m.alphabet = "7BIT"
      <4>1. Coding(m) = 0
        BY <3>1 DEF Coding
      <4>2. dcs = 0
        BY <2>3, <4>1
      <4> QED BY <3>1, <4>1, <4>2
    <3>2. CASE m.alphabet # "7BIT" /\ m.alphabet = "8BIT"
      <4>1. Coding(m) = 4
        BY <3>2 DEF Coding
      <4>2. dcs = 1
        BY <2>3, <4>1
      <4> QED BY <3>2, <4>1, <4>2
    <3>3. CASE m.alphabet # "7BIT" /\ m.alphabet # "8BIT"
      <4>1. Coding(m) = 8
        BY <3>3 DEF Coding
      <4>2. dcs = 2
        BY <2>3, <4>1
      <4> QED BY <3>3, <4>1, <4>2
    <3> QED BY <3>1, <3>2, <3>3, Zenon
  <2>10. /\ addressBuff' = Sender(m.from)
         /\ concatInfo' = IF m.header = <<>> THEN NoHeader
                          ELSE IF ConcatHeader(m.header) THEN ConcatNumbers(m.header)
                          ELSE concatInfo
    BY <1>4, <1>1, <2>1, <2>6, Zenon
  <2>11. IF (h # <<>> /\ ~ConcatHeader(h)) \/ dcs \notin {0, 2}
         THEN rc' = "failed" /\ Undecoded
         ELSE /\ rc' = "ok"
              /\ IF dcs = 0
                 THEN /\ generalWorkBuff' =
                           convert_7bit_to_unicode(SeptetText(rest, udl, h, g), g)
                      /\ UNCHANGED <<SPstart, spair>>
                 ELSE /\ generalWorkBuff' = wide.out
                      /\ SPstart' = wide.start /\ spair' = wide.high
    BY <1>4, <1>1, <2>1, Zenon
  <2>12. Unreadable(m) <=> (h # <<>> /\ ~ConcatHeader(h)) \/ dcs \notin {0, 2}
    BY <2>6, <2>9, Zenon DEF Unreadable
  <2>13. CASE Unreadable(m)
    BY <1>12, <2>10, <2>11, <2>12, <2>13, Zenon DEF Decoding
  <2>14. CASE ~Unreadable(m)
    <3>1. Coding(m) # 4
      BY <2>14, Zenon DEF Unreadable
    <3>2. dcs = 0 <=> m.alphabet = "7BIT"
      BY <2>9, <3>1, Zenon
    <3>3. ~((h # <<>> /\ ~ConcatHeader(h)) \/ dcs \notin {0, 2})
      BY <2>12, <2>14, Zenon
    <3>4. /\ rc' = "ok"
          /\ IF dcs = 0
             THEN /\ generalWorkBuff' =
                       convert_7bit_to_unicode(SeptetText(rest, udl, h, g), g)
                  /\ UNCHANGED <<SPstart, spair>>
             ELSE /\ generalWorkBuff' = wide.out
                  /\ SPstart' = wide.start /\ spair' = wide.high
      BY <2>11, <3>3, Zenon
    <3> QED BY <1>12, <2>3, <2>6, <2>7, <2>8, <2>10, <2>14, <3>2, <3>4, Zenon DEF Decoding
  <2> QED BY <2>13, <2>14
<1> QED BY <1>11, <1>12

\* A message that cannot be decoded leaves no text behind, unless its sender
\* cannot be read.
THEOREM Emptied == Spec => []FailureEmpties
<1>1. Init => FailureEmpties
  BY DEF Init, None, FailureEmpties
<1>2. FailureEmpties /\ [Next]_vars => FailureEmpties'
  <2> SUFFICES ASSUME FailureEmpties, [Next]_vars, call'.op = "decode", rc' = "failed"
               PROVE  generalWorkBuff' = <<>> \/ call'.message.from.kind = "other"
    BY DEF FailureEmpties
  <2>1. CASE Encode
    <3>1. call'.op = "encode"
      BY <2>1 DEF Encode, encodePDU
    <3> QED BY <3>1
  <2>2. CASE Decode
    <3>1. PICK m \in Messages, g \in Garbage :
            /\ decodePDU(Wire[m], g)
            /\ call' = [op |-> "decode", message |-> m, half |-> dangling]
      BY <2>2, Zenon DEF Decode
    <3>2. call'.message = m
      BY <3>1
    <3>3. CASE m.from.kind # "other"
      <4>1. Decoding(m, g)
        BY <3>1, <3>3, Decoded, Zenon
      <4>2. rc' # "ok"
        OBVIOUS
      <4>3. Undecoded
        BY <4>1, <4>2, Zenon DEF Decoding
      <4> QED BY <4>3, Zenon DEF Undecoded
    <3> QED BY <3>2, <3>3, Zenon
  <2>3. CASE UNCHANGED vars
    BY <2>3 DEF vars, inbound, FailureEmpties
  <2> QED BY <2>1, <2>2, <2>3 DEF Next
<1> QED BY <1>1, <1>2, PTL DEF Spec

\* The sender and the numbers of a part are those of the message decoded,
\* whatever came before it, for senders of up to 19 octets: the constants leave
\* longer ones out, which the code copies over what is behind addressBuff.
THEOREM Received == Spec => []HeaderReceived
<1>1. Init => HeaderReceived
  BY DEF Init, None, HeaderReceived
<1>2. HeaderReceived /\ [Next]_vars => HeaderReceived'
  <2> SUFFICES ASSUME HeaderReceived, [Next]_vars, call'.op = "decode", rc' = "ok"
               PROVE  /\ addressBuff' = Sender(call'.message.from)
                      /\ concatInfo' = IF call'.message.header = <<>> THEN <<0, 0, 0>>
                                       ELSE ConcatNumbers(call'.message.header)
    BY DEF HeaderReceived, Sender, Utf8, ConcatNumbers
  <2>1. CASE Encode
    <3>1. call'.op = "encode"
      BY <2>1 DEF Encode, encodePDU
    <3> QED BY <3>1
  <2>2. CASE Decode
    <3>1. PICK m \in Messages, g \in Garbage :
            /\ decodePDU(Wire[m], g)
            /\ call' = [op |-> "decode", message |-> m, half |-> dangling]
      BY <2>2, Zenon DEF Decode
    <3>2. call'.message = m
      BY <3>1
    <3>3. m.from.kind # "other"
      <4>1. rc' # "failed"
        OBVIOUS
      <4> QED BY <3>1, <4>1, Decoded, Zenon
    <3>4. Decoding(m, g)
      BY <3>1, <3>3, Decoded, Zenon
    <3>5. ~Unreadable(m)
      <4>1. rc' # "failed"
        OBVIOUS
      <4> QED BY <3>4, <4>1, Zenon DEF Decoding
    <3> QED BY <3>2, <3>4, <3>5, Zenon DEF Decoding, Unreadable, NoHeader
  <2>3. CASE UNCHANGED vars
    BY <2>3 DEF vars, inbound, HeaderReceived
  <2> QED BY <2>1, <2>2, <2>3 DEF Next
<1> QED BY <1>1, <1>2, PTL DEF Spec
-----------------------------------------------------------------------------
(* Encoded: what the standard reads. *)

LEMMA PackPacked ==
  ASSUME NEW s \in Seq(0 .. 127), NEW g \in Byte
  PROVE  Packed(Pack(s, g), s, g)
<1>1. s \in Seq(Byte)
  <2>1. 0 .. 127 \subseteq Byte
    BY DEF Byte
  <2> QED BY <2>1, Wider
<1> DEFINE p == Pack(s, g)
           n == Len(s)
           r(w) == (w - 1) + ((w - 1) \div 7) + 1
<1>2. p \in Seq(Byte) /\ Len(p) = (7 * n + 7) \div 8
  BY <1>1, PackShape
<1>3. \A w \in 1 .. Len(p) :
        /\ r(w) \in 1 .. n
        /\ p[w] = Join(s[r(w)], IF r(w) < n THEN s[r(w) + 1] ELSE g, (w - 1) % 7)
  BY <1>1, PackShape
<1> HIDE DEF p
<1> QED BY <1>2, <1>3, Zenon DEF Packed, p

\* The septets behind a header that ends where a septet does.
LEMMA SeptetsBack ==
  ASSUME NEW s \in Seq(0 .. 127), NEW g \in Byte, NEW p, Packed(p, s, g),
         NEW h \in Seq(Byte), Len(h) = 0 \/ Len(h) = 7,
         NEW d \in Seq(Nat), Lies(p, Len(h), d)
  PROVE  SeptetsOf(d, h, HeaderSeptets(h) + Len(s)) = s
<1>1. PICK n \in Nat, l \in {0, 7} : n = Len(s) /\ l = Len(h)
  BY Elements
<1>2. PICK f \in Nat, B \in Nat : f = HeaderSeptets(h) /\ 7 * f = B /\ B = 8 * l
  <2>1. CASE l = 0
    <3>1. HeaderSeptets(h) = 0
      BY <1>1, <2>1 DEF HeaderSeptets
    <3> QED BY <2>1, <3>1
  <2>2. CASE l = 7
    <3>1. HeaderSeptets(h) = 8
      BY <1>1, <2>2 DEF HeaderSeptets
    <3> QED BY <2>2, <3>1
  <2> QED BY <2>1, <2>2
<1>3. PICK D \in Nat, m \in Nat : D = Len(d) /\ m = Len(p) /\ l + m <= D
  BY <1>1 DEF Lies
<1> DEFINE bit == [i \in 0 .. 8 * D - 1 |-> BitAt(d, 8, i)]
<1>4. SeptetsOf(d, h, HeaderSeptets(h) + Len(s))
        = [j \in 1 .. (f + n) - f |-> Septet(bit, 7 * (f + j - 1))]
  BY <1>1, <1>2, <1>3, Zenon DEF SeptetsOf
<1>5. ASSUME NEW w \in 1 .. m, NEW e \in 0 .. 7
      PROVE  bit[(8 * l + 8 * (w - 1)) + e] = SBit(p[w], e)
  <2>1. PICK i \in Nat : i = (8 * l + 8 * (w - 1)) + e
    OBVIOUS
  <2>2. (i \div 8) + 1 = l + w /\ i % 8 = e
    <3>1. PICK v \in Nat : v = l + (w - 1)
      OBVIOUS
    <3>2. i = 8 * v + e /\ v + 1 = l + w
      BY <2>1, <3>1
    <3>3. (8 * v + e) \div 8 = v /\ (8 * v + e) % 8 = e
      OBVIOUS
    <3> QED BY <3>2, <3>3, Zenon
  <2>3. i \in 0 .. 8 * D - 1
    BY <1>3, <2>1
  <2>4. bit[i] = BitAt(d, 8, i)
    BY <2>3
  <2>5. d[l + w] = p[w]
    BY <1>1, <1>3, Zenon DEF Lies
  <2> HIDE DEF bit
  <2> QED BY <2>1, <2>2, <2>4, <2>5, Zenon DEF BitAt, SBit
<1> HIDE DEF bit
<1>6. Lined(bit, 8 * l, p)
  BY <1>3, <1>5, Zenon DEF Lined, OctetBits
<1>7. ASSUME NEW j \in 1 .. n PROVE Septet(bit, 7 * (f + j - 1)) = s[j]
  <2>1. 7 * (f + j - 1) = B + 7 * (j - 1)
    <3>1. 7 * (f + j - 1) = 7 * f + 7 * (j - 1)
      OBVIOUS
    <3> QED BY <1>2, <3>1, Zenon
  <2>2. Septet(bit, B + 7 * (j - 1)) = s[j]
    <3>1. Lined(bit, B, p) /\ B \in Nat /\ j \in 1 .. Len(s)
      BY <1>1, <1>2, <1>6, Zenon
    <3> QED BY <3>1, SeptetOfBits
  <2> QED BY <2>1, <2>2, Zenon
<1>8. (f + n) - f = n
  OBVIOUS
<1>9. PICK q : q = [j \in 1 .. n |-> Septet(bit, 7 * (f + j - 1))]
  OBVIOUS
<1>10. q = [j \in 1 .. n |-> s[j]]
  BY <1>7, <1>9
<1>11. [j \in 1 .. n |-> s[j]] = s
  BY <1>1
<1> QED BY <1>4, <1>8, <1>9, <1>10, <1>11, Zenon

\* The octets of one sequence of words behind another.
LEMMA OctetsJoined ==
  ASSUME NEW x \in Seq(Word), NEW y \in Seq(Word)
  PROVE  Octets(x \o y) = Octets(x) \o Octets(y)
<1>1. PICK m \in Nat, n \in Nat : m = Len(x) /\ n = Len(y)
  BY Elements
<1>2. PICK z : z = x \o y
  OBVIOUS
<1>3. /\ z \in Seq(Word) /\ Len(z) = m + n /\ \A k \in 1 .. m : z[k] = x[k]
      /\ \A k \in 1 .. n : z[m + k] = y[k]
  BY <1>1, <1>2
<1>4. PICK a, b, c : a = Octets(x) /\ b = Octets(y) /\ c = Octets(z)
  OBVIOUS
<1>5. /\ a \in Seq(Byte) /\ b \in Seq(Byte) /\ c \in Seq(Byte)
      /\ Len(a) = 2 * m /\ Len(b) = 2 * n /\ Len(c) = 2 * (m + n)
  BY <1>1, <1>3, <1>4, OctetsShape, Zenon
<1>6. ASSUME NEW i \in 1 .. 2 * m PROVE c[i] = a[i]
  <2>1. i \in 1 .. 2 * (m + n) /\ (i + 1) \div 2 \in 1 .. m
    OBVIOUS
  <2>2. PICK k : k = (i + 1) \div 2
    OBVIOUS
  <2>3. z[k] = x[k]
    BY <1>3, <2>1, <2>2, Zenon
  <2>4. a[i] = IF i % 2 = 1 THEN x[k] \div 256 ELSE x[k] % 256
    BY <1>1, <1>4, <2>2, Zenon DEF Octets
  <2>5. c[i] = IF i % 2 = 1 THEN z[k] \div 256 ELSE z[k] % 256
    BY <1>3, <1>4, <2>1, <2>2, Zenon DEF Octets
  <2> QED BY <2>3, <2>4, <2>5, Zenon
<1>7. ASSUME NEW i \in 1 .. 2 * n PROVE c[2 * m + i] = b[i]
  <2>1. /\ 2 * m + i \in 1 .. 2 * (m + n) /\ (i + 1) \div 2 \in 1 .. n
    OBVIOUS
  <2>2. PICK k \in Nat : k = (i + 1) \div 2
    BY <2>1
  <2>3. ((2 * m + i) + 1) \div 2 = m + k /\ (2 * m + i) % 2 = i % 2
    BY <2>2
  <2>4. z[m + k] = y[k]
    BY <1>3, <2>1, <2>2, Zenon
  <2>5. b[i] = IF i % 2 = 1 THEN y[k] \div 256 ELSE y[k] % 256
    BY <1>1, <1>4, <2>2, Zenon DEF Octets
  <2>6. c[2 * m + i] = IF (2 * m + i) % 2 = 1
                       THEN z[((2 * m + i) + 1) \div 2] \div 256
                       ELSE z[((2 * m + i) + 1) \div 2] % 256
    BY <1>3, <1>4, <2>1, Zenon DEF Octets
  <2> QED BY <2>3, <2>4, <2>5, <2>6, Zenon
<1>8. c = a \o b
  <2>1. PICK v : v = a \o b
    OBVIOUS
  <2>2. /\ v \in Seq(Byte) /\ Len(v) = 2 * m + 2 * n
        /\ \A i \in 1 .. 2 * m : v[i] = a[i]
        /\ \A i \in 1 .. 2 * n : v[2 * m + i] = b[i]
    <3>1. /\ a \o b \in Seq(Byte) /\ Len(a \o b) = Len(a) + Len(b)
          /\ \A i \in 1 .. Len(a) : (a \o b)[i] = a[i]
          /\ \A i \in 1 .. Len(b) : (a \o b)[Len(a) + i] = b[i]
      <4>1. a \in Seq(Byte) /\ b \in Seq(Byte)
        BY <1>5, Zenon
      <4> QED BY <4>1, Joined2
    <3> QED BY <1>5, <2>1, <3>1, Zenon
  <2>3. 2 * m + 2 * n = 2 * (m + n)
    OBVIOUS
  <2>4. ASSUME NEW i \in 1 .. 2 * (m + n) PROVE c[i] = v[i]
    <3>1. CASE i \in 1 .. 2 * m
      BY <1>6, <2>2, <3>1, Zenon
    <3>2. CASE i \notin 1 .. 2 * m
      <4>1. PICK k \in 1 .. 2 * n : i = 2 * m + k
        <5>1. i - 2 * m \in 1 .. 2 * n /\ i = 2 * m + (i - 2 * m)
          BY <3>2
        <5> QED BY <5>1
      <4> QED BY <1>7, <2>2, <4>1, Zenon
    <3> QED BY <3>1, <3>2
  <2>5. c = v
    <3>1. PICK K \in Nat : K = 2 * (m + n)
      OBVIOUS
    <3>2. /\ c \in Seq(Byte) /\ v \in Seq(Byte) /\ Len(c) = K /\ Len(v) = K
          /\ \A i \in 1 .. K : c[i] = v[i]
      BY <1>5, <2>2, <2>3, <2>4, <3>1, Zenon
    <3> QED BY <3>2
  <2> QED BY <2>1, <2>5
<1> QED BY <1>2, <1>4, <1>8, Zenon

LEMMA OctetsConcat ==
  ASSUME NEW P \in Seq(Seq(Word)), NEW Q \in Seq(Seq(Byte)), Len(Q) = Len(P),
         \A i \in 1 .. Len(P) : Q[i] = Octets(P[i])
  PROVE  Concat(Q) = Octets(Concat(P))
<1>1. PICK n \in Nat : n = Len(P) /\ n = Len(Q) /\ \A i \in 1 .. n : P[i] \in Seq(Word)
  BY Elements
<1>2. PICK c : Built(c, P, Word)
  BY ConcatType
<1>3. PICK d : Built(d, Q, Byte)
  BY ConcatType
<1> DEFINE S == {i \in 0 .. n : d[i] = Octets(c[i])}
<1>4. 0 \in S
  <2>1. c[0] = <<>> /\ d[0] = <<>>
    BY <1>2, <1>3, Zenon DEF Built
  <2>2. PICK o : o = Octets(<<>>)
    OBVIOUS
  <2>3. o \in Seq(Byte) /\ Len(o) = 0
    <3>1. <<>> \in Seq(Word) /\ Len(<<>>) = 0 /\ 2 * 0 = 0
      OBVIOUS
    <3> QED BY <2>2, <3>1, OctetsShape, Zenon
  <2>4. o = <<>>
    BY <2>3, Nothing
  <2>5. 0 \in 0 .. n
    OBVIOUS
  <2> QED BY <2>1, <2>2, <2>4, <2>5, Zenon
<1>5. ASSUME NEW i \in 0 .. n - 1, i \in S PROVE i + 1 \in S
  <2>1. i + 1 \in 1 .. n /\ (i + 1) - 1 = i /\ i + 1 \in 0 .. n /\ i \in 0 .. n
    OBVIOUS
  <2>2. c[i + 1] = c[i] \o P[i + 1] /\ c[i] \in Seq(Word)
    BY <1>1, <1>2, <2>1, Zenon DEF Built
  <2>3. d[i + 1] = d[i] \o Q[i + 1]
    BY <1>1, <1>3, <2>1, Zenon DEF Built
  <2>4. Octets(c[i] \o P[i + 1]) = Octets(c[i]) \o Octets(P[i + 1])
    BY <1>1, <2>1, <2>2, OctetsJoined, Zenon
  <2>5. Q[i + 1] = Octets(P[i + 1]) /\ d[i] = Octets(c[i])
    BY <1>1, <1>5, <2>1, Zenon
  <2> QED BY <2>1, <2>2, <2>3, <2>4, <2>5, Zenon
<1>6. 0 .. n \subseteq S
  <2> HIDE DEF S
  <2> QED BY <1>4, <1>5, UpTo
<1>7. n \in 0 .. n
  OBVIOUS
<1>8. d[n] = Octets(c[n])
  BY <1>6, <1>7, Zenon
<1> QED BY <1>1, <1>2, <1>3, <1>8, Zenon DEF Built

\* The words that are read off octets.
LEMMA WordsBack ==
  ASSUME NEW words \in Seq(Word), NEW l \in Nat, NEW d, Lies(Octets(words), l, d)
  PROVE  [k \in 1 .. Len(words) |-> d[l + 2 * k - 1] * 256 + d[l + 2 * k]] = words
<1>1. PICK n \in Nat : n = Len(words)
  BY Elements
<1>2. PICK o : o = Octets(words)
  OBVIOUS
<1>3. Len(o) = 2 * n /\ \A k \in 1 .. n : o[2 * k - 1] * 256 + o[2 * k] = words[k]
  BY <1>1, <1>2, OctetsShape, Zenon
<1>4. ASSUME NEW k \in 1 .. n PROVE d[l + 2 * k - 1] * 256 + d[l + 2 * k] = words[k]
  <2>1. /\ 2 * k - 1 \in 1 .. 2 * n /\ 2 * k \in 1 .. 2 * n
        /\ l + (2 * k - 1) = l + 2 * k - 1
    OBVIOUS
  <2>2. d[l + (2 * k - 1)] = o[2 * k - 1] /\ d[l + 2 * k] = o[2 * k]
    BY <1>2, <1>3, <2>1, Zenon DEF Lies
  <2> QED BY <1>3, <2>1, <2>2, Zenon
<1>5. PICK q : q = [k \in 1 .. n |-> d[l + 2 * k - 1] * 256 + d[l + 2 * k]]
  OBVIOUS
<1>6. q = [k \in 1 .. n |-> words[k]]
  BY <1>4, <1>5
<1>7. [k \in 1 .. n |-> words[k]] = words
  BY <1>1
<1> QED BY <1>1, <1>5, <1>6, <1>7, Zenon
-----------------------------------------------------------------------------
(* Units of 16 bits as text. *)

PairAt(units, i) ==
  /\ i \in 1 .. Len(units) - 1
  /\ HighSurrogate(units[i]) /\ LowSurrogate(units[i + 1])
PointsAt(units) ==
  [i \in 1 .. Len(units) |->
     IF PairAt(units, i) THEN <<PairPoint(units[i], units[i + 1])>>
     ELSE IF HighSurrogate(units[i]) \/ PairAt(units, i - 1) THEN <<>> ELSE <<units[i]>>]

LEMMA PointsConcat ==
  ASSUME NEW units
  PROVE  Points(units) = Concat(PointsAt(units))
BY Zenon DEF Points, PointsAt, PairAt

\* A character in one unit, or in two.
Plain16(cp, v) == v = <<cp>> /\ cp \in Word /\ ~HighSurrogate(cp) /\ ~LowSurrogate(cp)
Paired(cp, v) ==
  \E a \in Word, b \in Word :
    v = <<a, b>> /\ HighSurrogate(a) /\ LowSurrogate(b) /\ PairPoint(a, b) = cp

LEMMA UnitsShape ==
  ASSUME NEW cp \in Unicode, IsCharacter(cp)
  PROVE  LET v == utf8_to_ucs2_single(cp) IN Plain16(cp, v) \/ Paired(cp, v)
<1>1. CASE cp < 65536
  <2>1. cp \in Word
    BY <1>1 DEF Unicode, Word
  <2>2. ~HighSurrogate(cp) /\ ~LowSurrogate(cp)
    BY <2>1 DEF IsCharacter, HighSurrogate, LowSurrogate, Word
  <2>3. utf8_to_ucs2_single(cp) = <<cp>>
    BY <1>1 DEF utf8_to_ucs2_single
  <2> QED BY <2>1, <2>2, <2>3, Zenon DEF Plain16
<1>2. CASE ~(cp < 65536)
  <2>1. PICK a, b : a = 55296 + ((cp - 65536) \div 1024)
                    /\ b = 56320 + ((cp - 65536) % 1024)
    OBVIOUS
  <2>2. PICK x \in Nat : x = cp - 65536
    BY <1>2 DEF Unicode
  <2>3. x \div 1024 \in 0 .. 1023
    BY <1>2, <2>2 DEF IsCharacter, Unicode
  <2>4. x % 1024 \in 0 .. 1023
    OBVIOUS
  <2>5. (x \div 1024) * 1024 + (x % 1024) = x
    OBVIOUS
  <2>6. PICK p, q : p \in 0 .. 1023 /\ q \in 0 .. 1023 /\ p = x \div 1024 /\ q = x % 1024
    <3>1. PICK p : p \in 0 .. 1023 /\ p = x \div 1024
      BY <2>3, SMT
    <3>2. PICK q : q \in 0 .. 1023 /\ q = x % 1024
      BY <2>4, SMT
    <3> QED BY <3>1, <3>2, SMT
  <2>7. a = 55296 + p /\ b = 56320 + q
    BY <2>1, <2>2, <2>6
  <2>8. a \in Word /\ b \in Word
    BY <2>6, <2>7, SMT DEF Word
  <2>9. HighSurrogate(a) /\ LowSurrogate(b)
    BY <2>6, <2>7, SMT DEF HighSurrogate, LowSurrogate
  <2>10. PairPoint(a, b) = cp
    <3>1. a - 55296 = p /\ b - 56320 = q
      BY <2>6, <2>7, SMT
    <3>2. p * 1024 + q = x
      BY <2>5, <2>6, SMT
    <3>3. x + 65536 = cp
      BY <2>2 DEF Unicode
    <3>4. p * 1024 + q + 65536 = cp
      BY <3>2, <3>3
    <3> QED BY <3>1, <3>4, SMT DEF PairPoint
  <2>11. utf8_to_ucs2_single(cp) = <<a, b>>
    BY <1>2, <2>1 DEF utf8_to_ucs2_single
  <2> QED BY <2>8, <2>9, <2>10, <2>11, Zenon DEF Paired
<1> QED BY <1>1, <1>2

LEMMA PointsType ==
  ASSUME NEW units \in Seq(Word)
  PROVE  PointsAt(units) \in Seq(Seq(Int)) /\ Len(PointsAt(units)) = Len(units)
<1>1. PICK n \in Nat : n = Len(units) /\ \A i \in 1 .. n : units[i] \in Word
  BY Elements
<1>2. \A a, b \in Word : PairPoint(a, b) \in Int /\ a \in Int
  BY DEF PairPoint, Word
<1>3. ASSUME NEW i \in 1 .. n PROVE PointsAt(units)[i] \in Seq(Int)
  <2>1. units[i] \in Word /\ (PairAt(units, i) => units[i + 1] \in Word)
    <3>1. PairAt(units, i) => i + 1 \in 1 .. n
      BY <1>1 DEF PairAt
    <3> QED BY <1>1, <3>1, Zenon
  <2>2. PointsAt(units)[i] =
          IF PairAt(units, i) THEN <<PairPoint(units[i], units[i + 1])>>
          ELSE IF HighSurrogate(units[i]) \/ PairAt(units, i - 1) THEN <<>> ELSE <<units[i]>>
    BY <1>1, Zenon DEF PointsAt
  <2>3. \A x \in Int : <<x>> \in Seq(Int)
    OBVIOUS
  <2>4. <<>> \in Seq(Int)
    OBVIOUS
  <2> QED BY <1>2, <2>1, <2>2, <2>3, <2>4, Zenon
<1>4. PICK q : q = PointsAt(units) /\ q = [i \in 1 .. n |-> q[i]]
  BY <1>1 DEF PointsAt
<1>5. q \in Seq(Seq(Int)) /\ Len(q) = n
  BY <1>3, <1>4, SMTT(30)
<1> QED BY <1>1, <1>4, <1>5, Zenon

\* A text reads as the characters it was written for.
LEMMA PointsRead ==
  ASSUME NEW cps \in Seq(Unicode), \A i \in 1 .. Len(cps) : IsCharacter(cps[i]),
         NEW P, P = [i \in 1 .. Len(cps) |-> utf8_to_ucs2_single(cps[i])]
  PROVE  P \in Seq(Seq(Word)) /\ Concat(P) \in Seq(Word) /\ Points(Concat(P)) = cps
<1> DEFINE s == Concat(P)
           R == [i \in 1 .. Len(cps) |-> <<cps[i]>>]
<1>1. PICK n \in Nat : n = Len(cps) /\ \A i \in 1 .. n : cps[i] \in Unicode
  BY Elements
<1>2. /\ P \in Seq(Seq(Word)) /\ Len(P) = n
      /\ \A i \in 1 .. n : Plain16(cps[i], P[i]) \/ Paired(cps[i], P[i])
  <2>1. \A i \in 1 .. n : P[i] \in Seq(Word)
    BY <1>1, Ucs2Shape
  <2>2. \A i \in 1 .. n : P[i] = utf8_to_ucs2_single(cps[i])
    BY <1>1
  <2>3. \A i \in 1 .. n : Plain16(cps[i], P[i]) \/ Paired(cps[i], P[i])
    BY <1>1, <2>2, UnitsShape, Zenon
  <2>4. P \in Seq(Seq(Word)) /\ Len(P) = n
    BY <1>1, <2>1
  <2> QED BY <2>3, <2>4
<1>3. cps \in Seq(Int)
  <2>1. Unicode \subseteq Int
    BY DEF Unicode
  <2> QED BY <2>1, Wider
<1>4. R \in Seq(Seq(Int)) /\ Len(R) = n /\ Concat(R) = cps
  BY <1>1, <1>3, Singles, Zenon
<1>5. PICK u : Built(u, P, Word)
  BY <1>2, ConcatType
<1>6. s \in Seq(Word) /\ Len(s) \in Nat
  <2>1. Concat(P) \in Seq(Word)
    BY <1>2, ConcatType
  <2> QED BY <2>1
<1> HIDE DEF s
<1> DEFINE Q == PointsAt(s)
           pos == [i \in 0 .. n |-> Len(u[i])]
<1>7. Q \in Seq(Seq(Int)) /\ Len(Q) = Len(s)
  BY <1>6, PointsType
<1>8. Regroups(pos, Q, R)
  <2>1. pos[0] = 0 /\ pos[Len(R)] = Len(Q)
    <3>1. u[0] = <<>> /\ s = u[n]
      BY <1>2, <1>5, Zenon DEF Built, s
    <3> QED BY <1>4, <1>7, <3>1
  <2>2. ASSUME NEW i \in 1 .. Len(R)
        PROVE  /\ pos[i - 1] \in Nat /\ pos[i] \in Nat /\ pos[i - 1] < pos[i]
               /\ pos[i] <= Len(Q)
               /\ Q[pos[i - 1] + 1] = R[i]
               /\ \A k \in pos[i - 1] + 2 .. pos[i] : Q[k] = <<>>
    <3>1. i \in 1 .. n /\ i \in 1 .. Len(P) /\ i \in 0 .. n /\ i - 1 \in 0 .. n
          /\ i \in 1 .. Len(cps)
      BY <1>1, <1>2, <1>4
    <3>2. Placed(u, P, i)
      BY <1>2, <1>5, <3>1, Pieces
    <3>3. PICK lo, v : lo \in Nat /\ lo = Len(u[i - 1]) /\ pos[i - 1] = lo /\ v = P[i]
      BY <3>1, <3>2 DEF Placed
    <3>4. /\ Len(u[i]) = lo + Len(v) /\ Len(u[i]) <= Len(s)
          /\ \A j \in 1 .. Len(v) : s[lo + j] = v[j]
      BY <3>2, <3>3, Zenon DEF Placed, s
    <3>5. pos[i] = lo + Len(v) /\ R[i] = <<cps[i]>>
      BY <3>1, <3>4
    <3>6. CASE Plain16(cps[i], v)
      <4>1. v = <<cps[i]>> /\ ~HighSurrogate(cps[i]) /\ ~LowSurrogate(cps[i])
        BY <3>6, Zenon DEF Plain16
      <4>2. Len(v) = 1 /\ v[1] = cps[i] /\ 1 \in 1 .. Len(v)
        BY <4>1
      <4>3. lo + 1 \in 1 .. Len(s) /\ lo + Len(v) = lo + 1 /\ lo < lo + 1 /\ lo + 1 \in Nat
            /\ (lo + 1) - 1 = lo
        <5>1. lo \in Nat
          BY <3>3
        <5> QED BY <1>6, <3>4, <4>2, <5>1
      <4>4. s[lo + 1] = cps[i]
        BY <3>4, <4>2, Zenon
      <4>5. Q[lo + 1] = <<cps[i]>>
        <5>1. ~PairAt(s, lo + 1) /\ ~PairAt(s, lo)
          BY <4>1, <4>4, Zenon DEF PairAt
        <5> QED BY <4>1, <4>3, <4>4, <5>1, Zenon DEF PointsAt
      <4>6. \A k \in lo + 2 .. lo + 1 : FALSE
        BY <3>3
      <4> HIDE DEF Q, R, pos
      <4>7. lo + 1 <= Len(Q)
        BY <1>7, <3>4, <4>3, Zenon
      <4> QED BY <3>3, <3>5, <4>3, <4>5, <4>6, <4>7, Zenon
    <3>7. CASE Paired(cps[i], v)
      <4>1. PICK a \in Word, b \in Word :
              /\ v = <<a, b>> /\ HighSurrogate(a) /\ LowSurrogate(b)
              /\ PairPoint(a, b) = cps[i]
        BY <3>7, Zenon DEF Paired
      <4>2. Len(v) = 2 /\ v[1] = a /\ v[2] = b /\ 1 \in 1 .. Len(v) /\ 2 \in 1 .. Len(v)
        BY <4>1
      <4>3. /\ lo + 1 \in 1 .. Len(s) /\ lo + Len(v) = lo + 2 /\ lo < lo + 2 /\ lo + 2 \in Nat
            /\ lo + 2 \in 1 .. Len(s) /\ lo + 1 \in 1 .. Len(s) - 1 /\ (lo + 1) + 1 = lo + 2
            /\ (lo + 2) - 1 = lo + 1
        <5>1. lo \in Nat
          BY <3>3
        <5> QED BY <1>6, <3>4, <4>2, <5>1
      <4>4. s[lo + 1] = a /\ s[lo + 2] = b
        BY <3>4, <4>2, Zenon
      <4>5. PairAt(s, lo + 1)
        BY <4>1, <4>3, <4>4, Zenon DEF PairAt
      <4>6. Q[lo + 1] = <<cps[i]>>
        BY <4>1, <4>3, <4>4, <4>5, Zenon DEF PointsAt
      <4>7. ~PairAt(s, lo + 2)
        <5>1. ~HighSurrogate(b)
          <6>1. \A x \in Word : LowSurrogate(x) => ~HighSurrogate(x)
            BY DEF HighSurrogate, LowSurrogate, Word
          <6> QED BY <4>1, <6>1, Zenon
        <5> QED BY <4>4, <5>1, Zenon DEF PairAt
      <4>8. Q[lo + 2] = <<>>
        BY <4>3, <4>5, <4>7, Zenon DEF PointsAt
      <4>9. \A k \in lo + 2 .. lo + 2 : k = lo + 2
        OBVIOUS
      <4> HIDE DEF Q, R, pos
      <4>10. lo + 2 <= Len(Q)
        BY <1>7, <3>4, <4>3, Zenon
      <4> QED BY <3>3, <3>5, <4>3, <4>6, <4>8, <4>9, <4>10, Zenon
    <3> QED BY <1>2, <3>1, <3>3, <3>6, <3>7, Zenon
  <2> HIDE DEF pos, Q, R
  <2> QED BY <2>1, <2>2, Zenon DEF Regroups
<1>9. Concat(Q) = Concat(R)
  <2> HIDE DEF Q, R, pos
  <2> QED BY <1>4, <1>7, <1>8, Regrouped, Zenon
<1>10. Points(s) = cps
  BY <1>4, <1>9, PointsConcat, Zenon
<1> QED BY <1>2, <1>6, <1>10, Zenon DEF s
-----------------------------------------------------------------------------
(* What is sent. *)

\* What lies behind the first q elements.
LEMMA LiesBehind ==
  ASSUME NEW S, NEW t \in Seq(S), NEW q \in Nat, NEW s, NEW o \in Nat, Lies(s, q + o, t)
  PROVE  /\ SubSeq(t, q + 1, Len(t)) \in Seq(S)
         /\ q + Len(SubSeq(t, q + 1, Len(t))) = Len(t)
         /\ Lies(s, o, SubSeq(t, q + 1, Len(t)))
<1>1. PICK n \in Nat, l \in Nat : n = Len(t) /\ l = Len(s) /\ (q + o) + l <= n
  BY DEF Lies
<1>2. PICK m \in Nat : q + m = n /\ o + l <= m
  <2>1. n - q \in Nat /\ q + (n - q) = n /\ o + l <= n - q
    BY <1>1
  <2> QED BY <2>1
<1>3. PICK d : d = SubSeq(t, q + 1, q + m)
  OBVIOUS
<1>4. d \in Seq(S) /\ Len(d) = m /\ \A k \in 1 .. m : d[k] = t[q + k]
  <2>1. q + m <= Len(t)
    BY <1>1, <1>2
  <2> QED BY <1>3, <2>1, Cut
<1>5. ASSUME NEW k \in 1 .. l PROVE d[o + k] = s[k]
  <2>1. o + k \in 1 .. m /\ q + (o + k) = (q + o) + k
    BY <1>2
  <2>2. t[(q + o) + k] = s[k]
    BY <1>1, Zenon DEF Lies
  <2> QED BY <1>4, <2>1, <2>2, Zenon
<1>6. Lies(s, o, d)
  BY <1>1, <1>2, <1>4, <1>5, Zenon DEF Lies
<1> QED BY <1>1, <1>2, <1>3, <1>4, <1>6, Zenon

\* The front of what is sent, taken apart: t is where the first octet of the
\* message is, and p where the octet before the coding is.
Fronted(r, x, t, p) ==
  /\ t \in Nat /\ p \in Nat /\ x[1] + 2 = t
  /\ x[t] = (IF r.numbers[1] = 0 THEN 1 ELSE 65)
  /\ x[t + 2] = Len(r.to.digits) /\ x[t + 3] = (IF r.to.plus THEN 145 ELSE 161)
  /\ p = t + 4 + ((Len(r.to.digits) + 1) \div 2)
  /\ Lies(stringToBCD(r.to.digits), t + 3, x)

LEMMA FrontTaken ==
  ASSUME NEW r \in Requests, NEW body \in Seq(Nat)
  PROVE  LET x == Addressed(r) \o body IN
         /\ x \in Seq(Nat)
         /\ \E t, p \in Nat : Fronted(r, x, t, p) /\ Lies(body, p, x) /\ Len(x) = p + Len(body)
<1>1. Center.digits \in Seq(0 .. 9) /\ r.to.digits \in Seq(0 .. 9)
  BY PduAssumption, RequestText DEF Number
<1>2. PICK A, F : /\ A = setAddress(Center, "OCTETS") /\ AddressOf(Center, "OCTETS", A)
                  /\ F = setAddress(r.to, "NIBBLES") /\ AddressOf(r.to, "NIBBLES", F)
  BY <1>1, AddressShape, Zenon
<1>3. PICK c \in Nat, n \in Nat, k \in Nat :
        /\ c = (Len(Center.digits) + 1) \div 2
        /\ n = Len(r.to.digits) /\ k = (n + 1) \div 2
  <2>1. PICK i \in Nat, n \in Nat : i = Len(Center.digits) /\ n = Len(r.to.digits)
    BY <1>1, Elements
  <2>2. (i + 1) \div 2 \in Nat /\ (n + 1) \div 2 \in Nat
    OBVIOUS
  <2> QED BY <2>1, <2>2
<1>4. Len(A) = 2 + c /\ A[1] = c + 1
  <2>1. "OCTETS" # "NIBBLES"
    OBVIOUS
  <2> QED BY <1>2, <1>3, <2>1, Zenon DEF AddressOf
<1>5. /\ Len(F) = 2 + k /\ F[1] = n /\ F[2] = (IF r.to.plus THEN 145 ELSE 161)
      /\ Lies(stringToBCD(r.to.digits), 2, F)
  BY <1>2, <1>3, Zenon DEF AddressOf
<1>6. PICK v \in Nat : v = IF r.numbers[1] = 0 THEN 1 ELSE 65
  OBVIOUS
<1>7. PICK T, E : T = <<v, 0>> /\ E = <<0>>
  OBVIOUS
<1>8. Len(T) = 2 /\ T[1] = v /\ Len(E) = 1
  BY <1>7
<1>9. PICK y : y = Addressed(r)
  OBVIOUS
<1>10. Four(Nat, A, T, F, E, y)
  BY <1>2, <1>6, <1>7, <1>9, FrontShape, Zenon
<1>11. PICK t \in Nat, p \in Nat : t = (2 + c) + 1 /\ p = t + 4 + k
  <2>1. PICK t \in Nat : t = (2 + c) + 1
    OBVIOUS
  <2>2. t + 4 + k \in Nat
    OBVIOUS
  <2> QED BY <2>1, <2>2
<1>12. (((2 + c) + 2) + (2 + k)) + 1 = p /\ (2 + c) + 2 = t + 1 /\ 2 + c = t - 1
  BY <1>11
<1>13. /\ y \in Seq(Nat) /\ Len(y) = p /\ Lies(A, 0, y) /\ Lies(T, t - 1, y)
       /\ Lies(F, t + 1, y)
  BY <1>4, <1>5, <1>8, <1>10, <1>12, Zenon DEF Four
<1>14. PICK x : x = y \o body
  OBVIOUS
<1>15. x \in Seq(Nat) /\ Len(x) = p + Len(body) /\ Lies(y, 0, x) /\ Lies(body, p, x)
  BY <1>13, <1>14, LiesJoined, Zenon
<1>16. Lies(A, 0 + 0, x) /\ Lies(T, 0 + (t - 1), x) /\ Lies(F, 0 + (t + 1), x)
  BY <1>13, <1>15, LiesIn, Zenon
<1>17. /\ 0 + 0 = 0 /\ 0 + (t - 1) = t - 1 /\ 0 + (t + 1) = t + 1 /\ 0 + 1 = 1
       /\ (t - 1) + 1 = t /\ (t + 1) + 1 = t + 2 /\ (t + 1) + 2 = t + 3
       /\ 1 \in 1 .. 2 /\ 1 \in 1 .. 2 + c /\ 1 \in 1 .. 2 + k /\ 2 \in 1 .. 2 + k
       /\ (c + 1) + 2 = t
  BY <1>11
<1>18. Lies(A, 0, x) /\ Lies(T, t - 1, x) /\ Lies(F, t + 1, x)
  BY <1>16, <1>17, Zenon
<1>19. x[1] = c + 1 /\ x[t] = v /\ x[t + 2] = F[1] /\ x[t + 3] = F[2]
  <2>1. x[0 + 1] = A[1]
    BY <1>4, <1>17, <1>18, Zenon DEF Lies
  <2>2. x[(t - 1) + 1] = T[1]
    BY <1>8, <1>17, <1>18, Zenon DEF Lies
  <2>3. x[(t + 1) + 1] = F[1] /\ x[(t + 1) + 2] = F[2]
    BY <1>5, <1>17, <1>18, Zenon DEF Lies
  <2> QED BY <1>4, <1>8, <1>17, <2>1, <2>2, <2>3, Zenon
<1>20. Lies(stringToBCD(r.to.digits), t + 3, x)
  <2>1. Lies(stringToBCD(r.to.digits), (t + 1) + 2, x)
    <3>1. PICK b : b = stringToBCD(r.to.digits)
      OBVIOUS
    <3>2. Lies(b, 2, F) /\ Lies(F, t + 1, x)
      BY <1>5, <1>18, <3>1, Zenon
    <3>3. Lies(b, (t + 1) + 2, x)
      BY <3>2, LiesIn
    <3> QED BY <3>1, <3>3, Zenon
  <2> QED BY <1>17, <2>1, Zenon
<1>21. Fronted(r, x, t, p)
  <2>1. x[1] + 2 = t
    BY <1>17, <1>19, Zenon
  <2>2. p = t + 4 + ((Len(r.to.digits) + 1) \div 2)
    BY <1>3, <1>11, Zenon
  <2> QED BY <1>3, <1>5, <1>6, <1>19, <1>20, <2>1, <2>2, Zenon DEF Fronted
<1> QED BY <1>9, <1>14, <1>15, <1>21, Zenon

\* What is behind the length in what is sent.
Behind(body, d) ==
  /\ d \in Seq(Nat) /\ 2 + Len(d) = Len(body)
  /\ \A s : \A o \in Nat : Lies(s, 2 + o, body) => Lies(s, o, d)

Reads(r, s, coding, udl, d) ==
  LET h == Header(r.numbers) IN
  /\ s.digits = r.to.digits /\ s.plus = r.to.plus /\ s.header = h
  /\ s.wide = (coding = 8)
  /\ s.complete = (Len(d) >= IF coding = 8 THEN udl ELSE (7 * udl + 7) \div 8)
  /\ s.words = [k \in 1 .. IF coding = 8 THEN (udl - Len(h)) \div 2 ELSE 0 |->
                  d[Len(h) + 2 * k - 1] * 256 + d[Len(h) + 2 * k]]
  /\ s.septets = IF coding = 8 THEN <<>> ELSE SeptetsOf(d, h, udl)

\* The digits of the number.
LEMMA DigitsTaken ==
  ASSUME NEW digits \in Seq(0 .. 9), NEW x, NEW t \in Nat,
         Lies(stringToBCD(digits), t + 3, x)
  PROVE  [j \in 1 .. Len(digits) |->
            (x[t + 4 + ((j - 1) \div 2)] \div 16^((j - 1) % 2)) % 16] = digits
<1>1. PICK n \in Nat : n = Len(digits) /\ \A j \in 1 .. n : digits[j] \in 0 .. 9
  BY Elements
<1>2. PICK b : b = stringToBCD(digits) /\ BcdOf(digits, b)
  BY Bcd
<1>3. b \in Seq(Byte) /\ Len(b) = (n + 1) \div 2
      /\ \A m \in 1 .. Len(b) :
           /\ b[m] % 16 = digits[2 * m - 1]
           /\ b[m] \div 16 = IF 2 * m <= n THEN digits[2 * m] ELSE 15
  BY <1>1, <1>2, Zenon DEF BcdOf
<1>4. ASSUME NEW j \in 1 .. n
      PROVE  (x[t + 4 + ((j - 1) \div 2)] \div 16^((j - 1) % 2)) % 16 = digits[j]
  <2>1. PICK i \in Nat : i = j - 1 /\ i < n
    BY <1>1
  <2>2. PICK q \in Nat, e \in 0 .. 1 : q = i \div 2 /\ e = i % 2 /\ i = 2 * q + e
    <3>1. i \div 2 \in Nat /\ i % 2 \in 0 .. 1 /\ i = 2 * (i \div 2) + (i % 2)
      OBVIOUS
    <3> QED BY <3>1
  <2>3. q + 1 \in 1 .. (n + 1) \div 2 /\ (t + 3) + (q + 1) = t + 4 + q
    BY <2>1, <2>2
  <2>4. PICK a \in Byte : a = b[q + 1] /\ x[t + 4 + q] = a
    <3>1. q + 1 \in 1 .. Len(b)
      BY <1>3, <2>3, Zenon
    <3>2. x[(t + 3) + (q + 1)] = b[q + 1]
      BY <1>2, <3>1, Zenon DEF Lies
    <3>3. b[q + 1] \in Byte
      BY <1>3, <3>1, Elements
    <3> QED BY <2>3, <3>2, <3>3, Zenon
  <2>5. /\ a % 16 = digits[2 * (q + 1) - 1]
        /\ a \div 16 = IF 2 * (q + 1) <= n THEN digits[2 * (q + 1)] ELSE 15
    BY <1>3, <2>3, <2>4, Zenon
  <2>6. (a \div 16^e) % 16 = digits[j]
    <3>1. CASE e = 0
      <4>1. 2 * (q + 1) - 1 = j
        BY <2>1, <2>2, <3>1
      <4>2. 16^0 = 1 /\ a \div 1 = a
        BY DEF Byte
      <4> QED BY <2>5, <3>1, <4>1, <4>2, Zenon
    <3>2. CASE e = 1
      <4>1. 2 * (q + 1) = j /\ 2 * (q + 1) <= n
        BY <2>1, <2>2, <3>2
      <4>2. 16^1 = 16
        OBVIOUS
      <4>3. a \div 16 = digits[j]
        BY <2>5, <4>1, Zenon
      <4>4. \A v \in 0 .. 9 : v % 16 = v
        OBVIOUS
      <4>5. digits[j] % 16 = digits[j]
        BY <1>1, <4>4, Zenon
      <4> QED BY <3>2, <4>2, <4>3, <4>5, Zenon
    <3> QED BY <3>1, <3>2
  <2> QED BY <2>1, <2>2, <2>4, <2>6, Zenon
<1>5. PICK v : v = [j \in 1 .. n |-> (x[t + 4 + ((j - 1) \div 2)] \div 16^((j - 1) % 2)) % 16]
  OBVIOUS
<1>6. v = [j \in 1 .. n |-> digits[j]]
  BY <1>4, <1>5
<1>7. [j \in 1 .. n |-> digits[j]] = digits
  BY <1>1
<1> QED BY <1>1, <1>5, <1>6, <1>7, Zenon

\* The front and the header tell the rest.
LEMMA Taken ==
  ASSUME NEW r \in Requests, NEW body \in Seq(Nat), NEW coding, NEW udl,
         Len(body) >= 2, body[1] = coding, body[2] = udl, Lies(Header(r.numbers), 2, body)
  PROVE  \E d : Behind(body, d) /\ Reads(r, Submitted(Addressed(r) \o body), coding, udl, d)
<1>1. PICK x : x = Addressed(r) \o body /\ x \in Seq(Nat)
  BY FrontTaken, Zenon
<1>2. PICK t \in Nat, p \in Nat :
        Fronted(r, x, t, p) /\ Lies(body, p, x) /\ Len(x) = p + Len(body)
  BY <1>1, FrontTaken, Zenon
<1> DEFINE type == x[1] + 2
           n == x[type + 2]
           pid == type + 4 + ((n + 1) \div 2)
           size == x[pid + 2]
           data == SubSeq(x, pid + 3, Len(x))
           header == IF x[type] >= 64 THEN SubSeq(data, 1, data[1] + 1) ELSE <<>>
           digits == [j \in 1 .. n |->
                        (x[type + 4 + ((j - 1) \div 2)] \div 16^((j - 1) % 2)) % 16]
           plus == x[type + 3] = 145
           wide == x[pid + 1] = 8
           complete == Len(data) >= (IF wide THEN size ELSE (7 * size + 7) \div 8)
           words == [k \in 1 .. IF wide THEN (size - Len(header)) \div 2 ELSE 0 |->
                       data[Len(header) + 2 * k - 1] * 256 + data[Len(header) + 2 * k]]
           septets == IF wide THEN <<>> ELSE SeptetsOf(data, header, size)
<1>3. Submitted(x) = [plus |-> plus, digits |-> digits, header |-> header, wide |-> wide,
                      complete |-> complete, words |-> words, septets |-> septets]
  BY Zenon DEF Submitted
<1> HIDE DEF type
<1>4. type = t /\ n = Len(r.to.digits)
  BY <1>2, Zenon DEF Fronted, type
<1>5. digits = r.to.digits
  <2> HIDE DEF n, digits, plus, pid, size, data, header, wide, complete, words, septets
  <2>1. r.to.digits \in Seq(0 .. 9) /\ Lies(stringToBCD(r.to.digits), t + 3, x)
    BY <1>2, RequestText, Zenon DEF Fronted
  <2>2. ASSUME NEW s \in Seq(0 .. 9), Lies(stringToBCD(s), t + 3, x)
        PROVE  [j \in 1 .. Len(s) |->
                  (x[t + 4 + ((j - 1) \div 2)] \div 16^((j - 1) % 2)) % 16] = s
    BY <2>2, DigitsTaken
  <2>3. digits = [j \in 1 .. n |->
                    (x[t + 4 + ((j - 1) \div 2)] \div 16^((j - 1) % 2)) % 16]
    BY <1>4, Zenon DEF digits
  <2>4. n = Len(r.to.digits)
    BY <1>4, Zenon
  <2> QED BY <2>1, <2>2, <2>3, <2>4, Zenon
<1>6. plus = r.to.plus
  <2>1. x[t + 3] = IF r.to.plus THEN 145 ELSE 161
    BY <1>2, Zenon DEF Fronted
  <2>2. r.to.plus \in BOOLEAN
    BY RequestText
  <2> QED BY <1>4, <2>1, <2>2
<1> HIDE DEF n, digits, plus
<1>7. pid = p
  BY <1>2, <1>4, Zenon DEF Fronted
<1> HIDE DEF pid
<1>8. PICK m \in Nat : m = Len(body) /\ m >= 2
  OBVIOUS
<1>9. size = udl /\ wide = (coding = 8)
  <2>1. 1 \in 1 .. m /\ 2 \in 1 .. m
    BY <1>8
  <2>2. x[p + 1] = coding /\ x[p + 2] = udl
    BY <1>2, <1>8, <2>1, Zenon DEF Lies
  <2> QED BY <1>7, <2>2, Zenon
<1>10. data = SubSeq(x, (p + 2) + 1, Len(x))
  <2>1. p + 3 = (p + 2) + 1
    OBVIOUS
  <2> QED BY <1>7, <2>1, Zenon
<1> HIDE DEF data, size, wide
<1>11. Behind(body, data)
  <2>1. ASSUME NEW s, NEW o \in Nat, Lies(s, 2 + o, body)
        PROVE  /\ data \in Seq(Nat) /\ (p + 2) + Len(data) = Len(x) /\ Lies(s, o, data)
    <3>1. Lies(s, p + (2 + o), x)
      BY <1>2, <2>1, LiesIn, Zenon
    <3>2. p + (2 + o) = (p + 2) + o /\ p + 2 \in Nat
      OBVIOUS
    <3>3. Lies(s, (p + 2) + o, x)
      BY <3>1, <3>2, Zenon
    <3> QED BY <1>1, <1>10, <3>2, <3>3, LiesBehind
  <2>2. data \in Seq(Nat) /\ (p + 2) + Len(data) = Len(x)
    <3>1. Lies(Header(r.numbers), 2 + 0, body)
      OBVIOUS
    <3> QED BY <2>1, <3>1
  <2>3. 2 + Len(data) = Len(body)
    <3>1. PICK a \in Nat : a = Len(data)
      BY <2>2
    <3>2. (p + 2) + a = p + m
      BY <1>2, <1>8, <2>2, <3>1, Zenon
    <3>3. 2 + a = m
      BY <3>2
    <3> QED BY <1>8, <3>1, <3>3, Zenon
  <2> QED BY <2>1, <2>2, <2>3, Zenon DEF Behind
<1>12. header = Header(r.numbers)
  <2>1. PICK h : h = Header(r.numbers) /\ h \in Seq(Byte) /\ Lies(h, 2 + 0, body)
    <3>1. Header(r.numbers) \in Seq(Byte)
      BY RequestText, HeaderShape
    <3>2. 2 + 0 = 2
      OBVIOUS
    <3> QED BY <3>1, <3>2, Zenon
  <2>2. data \in Seq(Nat) /\ Lies(h, 0, data)
    BY <1>11, <2>1, Zenon DEF Behind
  <2>3. x[t] = IF r.numbers[1] = 0 THEN 1 ELSE 65
    BY <1>2, Zenon DEF Fronted
  <2>4. CASE r.numbers[1] = 0
    <3>1. ~(x[t] >= 64)
      BY <2>3, <2>4
    <3>2. h = <<>>
      BY <2>1, <2>4 DEF Header
    <3> QED BY <1>4, <2>1, <3>1, <3>2, Zenon
  <2>5. CASE r.numbers[1] # 0
    <3>1. x[t] >= 64
      BY <2>3, <2>5
    <3>2. Len(h) = 7 /\ h[1] = 6
      BY <2>1, <2>5 DEF Header, buildUDH
    <3>3. data[0 + 1] = h[1]
      <4>1. 1 \in 1 .. 7
        OBVIOUS
      <4> QED BY <2>2, <3>2, <4>1, Zenon DEF Lies
    <3>4. SubSeq(data, 0 + 1, 0 + 7) = h
      <4>1. h \in Seq(Nat)
        <5>1. Byte \subseteq Nat
          BY DEF Byte
        <5> QED BY <2>1, <5>1, Wider
      <4> QED BY <2>2, <3>2, <4>1, LiesCut, Zenon
    <3>5. 0 + 1 = 1 /\ 0 + 7 = 7 /\ 6 + 1 = 7
      OBVIOUS
    <3> QED BY <1>4, <2>1, <3>1, <3>2, <3>3, <3>4, <3>5, Zenon
  <2> QED BY <2>4, <2>5
<1> HIDE DEF header
<1>13. /\ complete = (Len(data) >= IF coding = 8 THEN udl ELSE (7 * udl + 7) \div 8)
       /\ words = [k \in 1 .. IF coding = 8 THEN (udl - Len(header)) \div 2 ELSE 0 |->
                     data[Len(header) + 2 * k - 1] * 256 + data[Len(header) + 2 * k]]
       /\ septets = IF coding = 8 THEN <<>> ELSE SeptetsOf(data, header, udl)
  BY <1>9, Zenon
<1> HIDE DEF complete, words, septets
<1>14. PICK s : s = Submitted(x)
  OBVIOUS
<1>15. /\ s.plus = plus /\ s.digits = digits /\ s.header = header /\ s.wide = wide
       /\ s.complete = complete /\ s.words = words /\ s.septets = septets
  BY <1>3, <1>14
<1>16. Reads(r, s, coding, udl, data)
  BY <1>5, <1>6, <1>9, <1>12, <1>13, <1>15, ZenonT(40) DEF Reads
<1> QED BY <1>1, <1>11, <1>14, <1>16, Zenon

\* What is sent reads as it was asked for.
ReadsAs(r, s) ==
  /\ s.digits = r.to.digits /\ s.plus = r.to.plus
  /\ s.header = Header(r.numbers) /\ s.complete
  /\ Asked[r] = IF s.wide THEN Utf8(Points(s.words)) ELSE convert_7bit_to_unicode(s.septets, 0)

LEMMA HeaderLength ==
  ASSUME NEW r \in Requests
  PROVE  \E l \in {0, 7} : /\ Len(Header(r.numbers)) = l
                           /\ HeaderSeptets(Header(r.numbers)) = (IF l = 0 THEN 0 ELSE 8)
                           /\ l = 0 <=> Header(r.numbers) = <<>>
<1>1. PICK h : h = Header(r.numbers) /\ h \in Seq(Byte) /\ (h = <<>> \/ Len(h) = 7)
  BY RequestText, HeaderShape, Zenon
<1>2. CASE h = <<>>
  <2>1. Len(h) = 0
    BY <1>2
  <2>2. HeaderSeptets(h) = 0
    BY <2>1 DEF HeaderSeptets
  <2> QED BY <1>1, <1>2, <2>1, <2>2
<1>3. CASE h # <<>>
  <2>1. Len(h) = 7
    BY <1>1, <1>3
  <2>2. HeaderSeptets(h) = 8
    BY <2>1 DEF HeaderSeptets
  <2> QED BY <1>1, <1>3, <2>1, <2>2
<1> QED BY <1>2, <1>3

LEMMA WideSent ==
  ASSUME NEW r \in Requests, Wide(Asked[r], r.force), NEW g
  PROVE  ReadsAs(r, Submitted(Addressed(r) \o UserPart(r, g)))
<1>1. PICK h, o, body :
        /\ h = Header(r.numbers) /\ o = utf8_to_ucs2(Asked[r]) /\ body = UserPart(r, g)
        /\ o \in Seq(Byte) /\ Three(Nat, <<8, Len(o) + Len(h)>>, h, o, body)
  <2>1. UserPart(r, g) = Words(Header(r.numbers), Asked[r])
    BY DEF UserPart
  <2>2. PICK o : /\ o = utf8_to_ucs2(Asked[r]) /\ o \in Seq(Byte)
                 /\ Three(Nat, <<8, Len(o) + Len(Header(r.numbers))>>, Header(r.numbers), o,
                          Words(Header(r.numbers), Asked[r]))
    BY WordsShape
  <2> QED BY <2>1, <2>2, Zenon
<1>2. PICK l \in Nat : l = Len(h)
  BY <1>1, HeaderLength
<1>3. PICK k \in Nat : k = Len(o)
  BY <1>1
<1>4. Len(<<8, k + l>>) = 2 /\ <<8, k + l>>[1] = 8 /\ <<8, k + l>>[2] = k + l
  OBVIOUS
<1>5. PICK f : f = <<8, k + l>> /\ Len(f) = 2 /\ f[1] = 8 /\ f[2] = k + l
  BY <1>4
<1>6. /\ body \in Seq(Nat) /\ Len(body) = (2 + l) + k
      /\ Lies(f, 0, body) /\ Lies(h, 2, body) /\ Lies(o, 2 + l, body)
  BY <1>1, <1>2, <1>3, <1>5, Zenon DEF Three
<1>7. body[1] = 8 /\ body[2] = k + l /\ Len(body) >= 2
  <2>1. 1 \in 1 .. 2 /\ 2 \in 1 .. 2 /\ 0 + 1 = 1 /\ 0 + 2 = 2
    OBVIOUS
  <2>2. body[1] = 8 /\ body[2] = k + l
    BY <1>5, <1>6, <2>1, Zenon DEF Lies
  <2> QED BY <1>6, <2>2
<1>8. PICK d : Behind(body, d) /\ Reads(r, Submitted(Addressed(r) \o body), 8, k + l, d)
  <2>1. Lies(Header(r.numbers), 2, body)
    BY <1>1, <1>6, Zenon
  <2> QED BY <1>6, <1>7, <2>1, Taken
<1>9. PICK s : s = Submitted(Addressed(r) \o body)
  OBVIOUS
<1>10. /\ s.digits = r.to.digits /\ s.plus = r.to.plus /\ s.header = h
       /\ s.wide = TRUE /\ s.complete = (Len(d) >= k + l)
       /\ s.words = [i \in 1 .. ((k + l) - l) \div 2 |->
                       d[l + 2 * i - 1] * 256 + d[l + 2 * i]]
  <2>1. 8 = 8 /\ (8 = 8) = TRUE
    OBVIOUS
  <2>2. s.wide = (8 = 8)
    BY <1>8, <1>9, Zenon DEF Reads
  <2>3. s.wide = TRUE
    BY <2>1, <2>2, Zenon
  <2> DEFINE W(u, a) == [i \in 1 .. (u - a) \div 2 |-> d[a + 2 * i - 1] * 256 + d[a + 2 * i]]
  <2>4. /\ s.digits = r.to.digits /\ s.plus = r.to.plus /\ s.header = Header(r.numbers)
        /\ s.complete = (Len(d) >= IF 8 = 8 THEN k + l ELSE (7 * (k + l) + 7) \div 8)
    BY <1>8, <1>9, Zenon DEF Reads
  <2>5. s.complete = (Len(d) >= k + l)
    BY <2>1, <2>4, Zenon
  <2>6. \A u, a : [i \in 1 .. IF 8 = 8 THEN (u - a) \div 2 ELSE 0 |->
                     d[a + 2 * i - 1] * 256 + d[a + 2 * i]] = W(u, a)
    OBVIOUS
  <2>7. s.words = [i \in 1 .. IF 8 = 8 THEN ((k + l) - Len(Header(r.numbers))) \div 2 ELSE 0 |->
                     d[Len(Header(r.numbers)) + 2 * i - 1] * 256
                     + d[Len(Header(r.numbers)) + 2 * i]]
    BY <1>8, <1>9, Zenon DEF Reads
  <2>8. s.words = W(k + l, l)
    <3> HIDE DEF W
    <3>1. s.words = W(k + l, Len(Header(r.numbers)))
      BY <2>6, <2>7, Zenon
    <3>2. Len(Header(r.numbers)) = l
      BY <1>1, <1>2, Zenon
    <3> QED BY <3>1, <3>2, Zenon
  <2> QED BY <1>1, <2>3, <2>4, <2>5, <2>8, Zenon
<1>11. s.complete
  <2>1. 2 + Len(d) = Len(body) /\ d \in Seq(Nat)
    BY <1>8, Zenon DEF Behind
  <2>2. Len(d) >= k + l
    BY <1>6, <2>1
  <2> QED BY <1>10, <2>2, Zenon
<1>12. PICK cps \in Seq(Unicode) : /\ cps = r.text /\ CodePoints(Asked[r]) = cps
                                   /\ \A i \in 1 .. Len(cps) : IsCharacter(cps[i])
  BY RequestText, Zenon
<1>13. PICK P : P = [i \in 1 .. Len(cps) |-> utf8_to_ucs2_single(cps[i])]
  OBVIOUS
<1>14. P \in Seq(Seq(Word)) /\ Concat(P) \in Seq(Word) /\ Points(Concat(P)) = cps
  BY <1>12, <1>13, PointsRead
<1>15. o = Octets(Concat(P))
  <2> DEFINE Q == [i \in 1 .. Len(cps) |-> Octets(utf8_to_ucs2_single(cps[i]))]
  <2>1. o = Concat(Q)
    BY <1>1, <1>12, Zenon DEF utf8_to_ucs2
  <2>2. PICK n \in Nat : n = Len(cps)
    OBVIOUS
  <2>3. Len(P) = n /\ Len(Q) = n
    BY <1>13, <2>2
  <2>4. \A i \in 1 .. n : Q[i] = Octets(P[i]) /\ P[i] \in Seq(Word)
    BY <1>13, <1>14, <2>2, <2>3
  <2>5. Q \in Seq(Seq(Byte))
    <3>1. \A i \in 1 .. n : Q[i] \in Seq(Byte)
      BY <2>4, OctetsShape
    <3>2. PICK q : q = Q /\ q = [i \in 1 .. n |-> q[i]]
      BY <2>2
    <3> HIDE DEF Q
    <3>3. \A i \in 1 .. n : q[i] \in Seq(Byte)
      BY <3>1, <3>2, Zenon
    <3>4. q \in Seq(Seq(Byte))
      BY <3>2, <3>3, SMTT(30)
    <3> QED BY <3>2, <3>4, Zenon
  <2> HIDE DEF Q
  <2> QED BY <1>14, <2>1, <2>3, <2>4, <2>5, OctetsConcat, Zenon
<1>16. PICK W \in Seq(Word) : W = Concat(P)
  BY <1>14
<1>17. PICK m \in Nat : m = Len(W) /\ k = 2 * m
  <2>1. Len(Octets(W)) = 2 * Len(W)
    BY OctetsShape
  <2> QED BY <1>3, <1>15, <1>16, <2>1
<1>18. s.words = W
  <2>1. ((k + l) - l) \div 2 = m
    BY <1>17
  <2>2. Lies(Octets(W), l, d)
    BY <1>6, <1>8, <1>15, <1>16, Zenon DEF Behind
  <2>3. [i \in 1 .. Len(W) |-> d[l + 2 * i - 1] * 256 + d[l + 2 * i]] = W
    BY <2>2, WordsBack
  <2> QED BY <1>10, <1>17, <2>1, <2>3, Zenon
<1>19. Asked[r] = Utf8(Points(s.words))
  BY <1>12, <1>14, <1>16, <1>18, Zenon DEF Asked
<1> QED BY <1>1, <1>9, <1>10, <1>11, <1>19, Zenon DEF ReadsAs

LEMMA NarrowSent ==
  ASSUME NEW r \in Requests, ~Wide(Asked[r], r.force), NEW g \in Garbage,
         r.text \in Seq(Exact)
  PROVE  ReadsAs(r, Submitted(Addressed(r) \o UserPart(r, g)))
<1>1. PICK l \in {0, 7}, w \in {0, 8} :
        /\ Len(Header(r.numbers)) = l /\ HeaderSeptets(Header(r.numbers)) = w
        /\ w = (IF l = 0 THEN 0 ELSE 8) /\ (l = 0 <=> Header(r.numbers) = <<>>)
  BY HeaderLength
<1>2. PICK h \in Seq(Byte) : h = Header(r.numbers)
  BY RequestText, HeaderShape
<1>3. PICK s \in Seq(0 .. 127) : s = Septets7(r.text)
  BY ExactSeptets
<1>4. g \in Byte
  BY PduAssumption
<1>5. PICK p : p = Pack(s, g) /\ Packed(p, s, g)
  BY <1>4, PackPacked
<1>6. PICK e : e = (IF h = <<>> THEN <<>> ELSE <<g>>)
  OBVIOUS
<1>7. PICK n \in Nat, q \in Nat : n = Len(s) /\ q = Len(p) /\ q = (7 * n + 7) \div 8
  <2>1. Len(p) = (7 * Len(s) + 7) \div 8 /\ p \in Seq(Byte)
    BY <1>5, Zenon DEF Packed
  <2> QED BY <2>1
<1>8. Len(e) = IF l = 0 THEN 0 ELSE 1
  BY <1>1, <1>2, <1>6
<1>9. PICK body, f : /\ body = UserPart(r, g) /\ f = <<0, n + w>>
                     /\ Four(Nat, f, h, p, e, body)
  <2>1. UserPart(r, g) = Septets(h, Asked[r], g)
    BY <1>2, Zenon DEF UserPart
  <2>2. Four(Nat, <<0, Len(s) + (IF h = <<>> THEN 0 ELSE 8)>>, h, p, e, Septets(h, Asked[r], g))
    BY <1>2, <1>3, <1>5, <1>6, SeptetsShape, Zenon
  <2>3. Len(s) + (IF h = <<>> THEN 0 ELSE 8) = n + w
    BY <1>1, <1>2, <1>7, Zenon
  <2> QED BY <2>1, <2>2, <2>3, Zenon
<1>10. Len(f) = 2 /\ f[1] = 0 /\ f[2] = n + w
  BY <1>9
<1>11. /\ body \in Seq(Nat) /\ Len(body) = ((2 + l) + q) + Len(e)
       /\ Lies(f, 0, body) /\ Lies(h, 2, body) /\ Lies(p, 2 + l, body)
  BY <1>1, <1>2, <1>7, <1>9, <1>10, Zenon DEF Four
<1>12. body[1] = 0 /\ body[2] = n + w /\ Len(body) >= 2
  <2>1. 1 \in 1 .. 2 /\ 2 \in 1 .. 2 /\ 0 + 1 = 1 /\ 0 + 2 = 2
    OBVIOUS
  <2>2. body[1] = 0 /\ body[2] = n + w
    BY <1>10, <1>11, <2>1, Zenon DEF Lies
  <2>3. Len(body) >= 2
    BY <1>8, <1>11
  <2> QED BY <2>2, <2>3
<1>13. PICK d : Behind(body, d) /\ Reads(r, Submitted(Addressed(r) \o body), 0, n + w, d)
  <2>1. Lies(Header(r.numbers), 2, body)
    BY <1>2, <1>11, Zenon
  <2> QED BY <1>11, <1>12, <2>1, Taken
<1>14. PICK v : v = Submitted(Addressed(r) \o body)
  OBVIOUS
<1>15. /\ v.digits = r.to.digits /\ v.plus = r.to.plus /\ v.header = h
       /\ v.wide = FALSE /\ v.complete = (Len(d) >= ((7 * (n + w) + 7) \div 8))
       /\ v.septets = SeptetsOf(d, h, n + w)
  <2>1. ~(0 = 8)
    OBVIOUS
  <2> QED BY <1>2, <1>13, <1>14, <2>1, Zenon DEF Reads
<1>16. v.complete
  <2>1. 2 + Len(d) = Len(body) /\ d \in Seq(Nat)
    BY <1>13, Zenon DEF Behind
  <2>2. PICK D \in Nat : D = Len(d)
    BY <2>1
  <2>3. CASE l = 0
    <3>1. w = 0 /\ Len(e) = 0
      BY <1>1, <1>8, <2>3
    <3>2. D = q
      BY <1>11, <2>1, <2>2, <2>3, <3>1
    <3>3. n + w = n
      BY <3>1
    <3>4. q >= q
      OBVIOUS
    <3> QED BY <1>7, <1>15, <2>2, <3>2, <3>3, <3>4, Zenon
  <2>4. CASE l = 7
    <3>1. w = 8 /\ Len(e) = 1
      BY <1>1, <1>8, <2>4
    <3>2. D = q + 8
      BY <1>11, <2>1, <2>2, <2>4, <3>1
    <3>3. (7 * (n + 8) + 7) \div 8 = ((7 * n + 7) \div 8) + 7
      OBVIOUS
    <3>4. q + 8 >= q + 7
      OBVIOUS
    <3> QED BY <1>7, <1>15, <2>2, <3>1, <3>2, <3>3, <3>4, Zenon
  <2> QED BY <2>3, <2>4
<1>17. v.septets = s
  <2>1. Lies(p, Len(h), d)
    BY <1>1, <1>2, <1>11, <1>13, Zenon DEF Behind
  <2>2. d \in Seq(Nat)
    BY <1>13, Zenon DEF Behind
  <2>3. Len(h) = 0 \/ Len(h) = 7
    BY <1>1, <1>2
  <2>4. SeptetsOf(d, h, HeaderSeptets(h) + Len(s)) = s
    BY <1>4, <1>5, <2>1, <2>2, <2>3, SeptetsBack
  <2>5. HeaderSeptets(h) + Len(s) = n + w
    BY <1>1, <1>2, <1>7
  <2> QED BY <1>15, <2>4, <2>5, Zenon
<1>18. Asked[r] = convert_7bit_to_unicode(v.septets, 0)
  <2>1. convert_7bit_to_unicode(s, 0) = Utf8(r.text)
    BY <1>3, GsmRead
  <2> QED BY <1>17, <2>1, Zenon DEF Asked
<1> QED BY <1>2, <1>9, <1>14, <1>15, <1>16, <1>18, Zenon DEF ReadsAs

\* What the driver sends reads as the text to the number with the numbers of
\* the part, for every text, number and value of the bits that fill it up.
THEOREM Sent == Spec => []SentAsWritten
<1>1. Init => SentAsWritten
  BY DEF Init, None, SentAsWritten
<1>2. SentAsWritten /\ [Next]_vars => SentAsWritten'
  <2>1. CASE Encode
    <3> SUFFICES ASSUME call'.op = "encode", rc' = "ok",
                        Range(CodePoints(call'.text)) \cap Negated = {}
                 PROVE  LET s == Submitted(generalWorkBuff') IN
                        /\ s.digits = call'.to.digits /\ s.plus = call'.to.plus
                        /\ s.header = IF call'.numbers[1] = 0 THEN <<>>
                                      ELSE buildUDH(call'.numbers)
                        /\ s.complete
                        /\ call'.text = IF s.wide THEN Utf8(Points(s.words))
                                        ELSE convert_7bit_to_unicode(s.septets, 0)
      BY Zenon DEF SentAsWritten, Submitted, Range, CodePoints, CodePoint, buildUDH, Utf8, Points
    <3>1. PICK r \in Requests, g \in Garbage :
            encodePDU(r.to, Asked[r], r.numbers, r.force, g)
      BY <2>1 DEF Encode
    <3>2. generalWorkBuff' = Addressed(r) \o UserPart(r, g)
      BY <3>1, EncodeOk
    <3>3. call' = [op |-> "encode", to |-> r.to, text |-> Asked[r], numbers |-> r.numbers]
      BY <3>1, Zenon DEF encodePDU
    <3>4. call'.to = r.to /\ call'.text = Asked[r] /\ call'.numbers = r.numbers
      BY <3>3
    <3>5. ReadsAs(r, Submitted(Addressed(r) \o UserPart(r, g)))
      <4>1. CASE Wide(Asked[r], r.force)
        BY <4>1, WideSent
      <4>2. CASE ~Wide(Asked[r], r.force)
        <5>1. PICK cps \in Seq(gsm7_legal) : cps = r.text /\ CodePoints(Asked[r]) = cps
          BY <4>2, Narrow, RequestText, Zenon
        <5>2. \A i \in 1 .. Len(cps) : cps[i] \in gsm7_legal /\ cps[i] \in Range(cps)
          BY DEF Range
        <5>3. \A i \in 1 .. Len(cps) : cps[i] \in Exact
          BY <3>4, <5>1, <5>2, Zenon DEF Exact
        <5>4. cps \in Seq(Exact)
          BY <5>3
        <5> QED BY <4>2, <5>1, <5>4, NarrowSent, Zenon
      <4> QED BY <4>1, <4>2
    <3> QED BY <3>2, <3>4, <3>5, Zenon DEF ReadsAs, Header
  <2>2. CASE Decode
    <3>1. call'.op = "decode"
      BY <2>2 DEF Decode
    <3> QED BY <3>1 DEF SentAsWritten
  <2>3. ASSUME UNCHANGED vars, SentAsWritten PROVE SentAsWritten'
    BY <2>3 DEF vars, inbound, SentAsWritten
  <2> QED BY <2>1, <2>2, <2>3 DEF Next
<1> QED BY <1>1, <1>2, PTL DEF Spec
-----------------------------------------------------------------------------
(* Received: texts of septets. *)

\* Two ways to go on after the same beginning are one.
LEMMA SameRest ==
  ASSUME NEW S, NEW h \in Seq(S), NEW p \in Seq(S), NEW q \in Seq(S), h \o p = h \o q
  PROVE  p = q
<1>1. PICK d : d = h \o p
  OBVIOUS
<1>2. /\ d \in Seq(S) /\ Len(d) = Len(h) + Len(p) /\ Len(d) = Len(h) + Len(q)
      /\ Lies(p, Len(h), d) /\ Lies(q, Len(h), d)
  BY <1>1, LiesJoined, Zenon
<1>3. SubSeq(d, Len(h) + 1, Len(h) + Len(p)) = p
  BY <1>2, LiesCut, Zenon
<1>4. SubSeq(d, Len(h) + 1, Len(h) + Len(q)) = q
  BY <1>2, LiesCut, Zenon
<1> QED BY <1>2, <1>3, <1>4, Zenon

\* The first septet of a text is 0 only if the text begins with that one.
LEMMA FirstSeptet ==
  ASSUME NEW cps \in Seq(Exact), cps # <<>>, Septets7(cps) # <<>>,
         Septets7(cps)[1] = 0
  PROVE  ToGsm7(cps[1]) = <<0>>
<1>1. PICK P : /\ P = [i \in DOMAIN cps |-> ToGsm7(cps[i])]
               /\ P \in Seq(Seq(0 .. 127)) /\ Len(P) = Len(cps)
               /\ \A i \in 1 .. Len(cps) : Single(cps[i], P[i]) \/ Double(cps[i], P[i])
  BY ExactType, Zenon
<1>2. Septets7(cps) = Concat(P)
  BY <1>1, Zenon DEF Septets7
<1>3. 1 \in 1 .. Len(cps) /\ DOMAIN cps = 1 .. Len(cps)
  <2>1. Len(cps) # 0
    BY Nothing
  <2> QED BY <2>1
<1>4. P[1] = ToGsm7(cps[1])
  BY <1>1, <1>3
<1>5. PICK u : Built(u, P, 0 .. 127)
  BY <1>1, ConcatType
<1>6. Placed(u, P, 1)
  BY <1>1, <1>3, <1>5, Pieces, Zenon
<1>7. Len(u[1 - 1]) = 0
  <2>1. u[0] = <<>>
    BY <1>5, Zenon DEF Built
  <2>2. 1 - 1 = 0 /\ Len(<<>>) = 0
    OBVIOUS
  <2> QED BY <2>1, <2>2, Zenon
<1>8. 1 \in 1 .. Len(P[1]) => Concat(P)[1] = P[1][1]
  <2>1. 0 + 1 = 1
    OBVIOUS
  <2>2. \A j \in 1 .. Len(P[1]) : Concat(P)[Len(u[1 - 1]) + j] = P[1][j]
    BY <1>6, Zenon DEF Placed
  <2>3. \A j \in 1 .. Len(P[1]) : Concat(P)[0 + j] = P[1][j]
    BY <1>7, <2>2, Zenon
  <2>4. 1 \in 1 .. Len(P[1]) => Concat(P)[0 + 1] = P[1][1]
    BY <2>3, Zenon
  <2>5. PICK c : c = Concat(P)
    OBVIOUS
  <2>6. c[0 + 1] = c[1]
    BY <2>1, Zenon
  <2> QED BY <2>4, <2>5, <2>6, Zenon
<1>9. CASE Single(cps[1], P[1])
  <2>1. 1 \in 1 .. Len(P[1]) /\ P[1] = <<P[1][1]>>
    BY <1>9 DEF Single
  <2>2. P[1][1] = 0
    BY <1>2, <1>8, <2>1, Zenon
  <2> QED BY <1>4, <2>1, <2>2, Zenon
<1>10. CASE Double(cps[1], P[1])
  <2>1. 1 \in 1 .. Len(P[1]) /\ P[1][1] = 27
    BY <1>10 DEF Double
  <2>2. P[1][1] = 0
    BY <1>2, <1>8, <2>1, Zenon
  <2> QED BY <2>1, <2>2
<1> QED BY <1>1, <1>3, <1>9, <1>10, Zenon

\* Behind a header of 6 octets the first septet is in an octet of its own.
LEMMA UnpackedSix ==
  ASSUME NEW s \in Seq(0 .. 127), NEW p \in Seq(Byte), NEW g, Len(p) >= 1,
         s = <<>> => p[1] = 0,
         s # <<>> => p[1] = 2 * s[1] /\ Packed(Tail(p), Tail(s), 0) /\ s[1] # 0
  PROVE  Unpack(Tail(p), Len(s), p[1] \div 2, g) = s
<1>1. PICK q : q = Tail(p)
  OBVIOUS
<1>2. CASE s = <<>>
  <2>1. Len(s) = 0 /\ p[1] \div 2 = 0 /\ 1 .. 0 = {}
    BY <1>2
  <2>2. Unpack(q, Len(s), p[1] \div 2, g) = [j \in {} |-> SeptetAt(q, j, g)]
    BY <2>1, Zenon DEF Unpack
  <2>3. PICK v : v = [j \in {} |-> SeptetAt(q, j, g)]
    OBVIOUS
  <2>4. v = <<>>
    BY <2>3
  <2> QED BY <1>1, <1>2, <2>2, <2>3, <2>4, Zenon
<1>3. CASE s # <<>>
  <2>1. PICK f \in 0 .. 127, r \in Seq(0 .. 127), n \in Nat :
          f = s[1] /\ r = Tail(s) /\ n = Len(s) /\ Len(r) = n - 1 /\ n >= 1
          /\ \A j \in 2 .. n : r[j - 1] = s[j]
    <3>1. Len(s) \in Nat /\ Len(s) >= 1
      <4>1. Len(s) # 0
        BY <1>3, Nothing
      <4> QED BY <4>1
    <3>2. s[1] \in 0 .. 127
      <4>1. 1 \in 1 .. Len(s)
        BY <3>1
      <4> QED BY <4>1, Elements
    <3>3. /\ Tail(s) \in Seq(0 .. 127) /\ Len(Tail(s)) = Len(s) - 1
          /\ \A j \in 2 .. Len(s) : Tail(s)[j - 1] = s[j]
      BY <1>3, <3>1
    <3> QED BY <3>1, <3>2, <3>3
  <2>2. p[1] \div 2 = f /\ f # 0
    <3>1. p[1] = 2 * f /\ f # 0
      BY <1>3, <2>1, Zenon
    <3> QED BY <3>1
  <2>3. Packed(q, r, 0)
    BY <1>1, <1>3, <2>1, Zenon
  <2>4. Unpack(q, n, f, g) = [j \in 1 .. n |-> IF j = 1 THEN f ELSE SeptetAt(q, j - 1, g)]
    BY <2>2, Zenon DEF Unpack
  <2>5. ASSUME NEW j \in 1 .. n
        PROVE  (IF j = 1 THEN f ELSE SeptetAt(q, j - 1, g)) = s[j]
    <3>1. CASE j = 1
      BY <2>1, <3>1, Zenon
    <3>2. CASE j # 1
      <4>1. j - 1 \in 1 .. Len(r) /\ j \in 2 .. n
        BY <2>1, <3>2
      <4>2. 0 \in Byte
        BY DEF Byte
      <4>3. SeptetAt(q, j - 1, g) = r[j - 1]
        BY <2>3, <4>1, <4>2, SeptetRead
      <4> QED BY <2>1, <3>2, <4>1, <4>3, Zenon
    <3> QED BY <3>1, <3>2
  <2>6. PICK v : v = [j \in 1 .. n |-> IF j = 1 THEN f ELSE SeptetAt(q, j - 1, g)]
    OBVIOUS
  <2>7. v = [j \in 1 .. n |-> s[j]]
    BY <2>5, <2>6
  <2>8. [j \in 1 .. n |-> s[j]] = s
    BY <2>1
  <2> QED BY <1>1, <2>1, <2>2, <2>4, <2>6, <2>7, <2>8, Zenon
<1> QED BY <1>2, <1>3

\* A text of septets is read as it was written, if it is readable.
LEMMA NarrowReceived ==
  ASSUME NEW m \in Messages, m.alphabet = "7BIT", Readable(m), NEW g
  PROVE  /\ m.text \in Seq(Exact)
         /\ SeptetText(Rest(m), Size(m), m.header, g) = Septets7(m.text)
<1>1. PICK cps \in Seq(Exact), h \in Seq(Byte), f \in Seq(Byte) :
        cps = m.text /\ h = m.header /\ f = Rest(m) /\ Data(m) = h \o f
  <2>1. m.text \in Seq(Exact)
    BY PduAssumption DEF MessageOK
  <2> QED BY <2>1, DataShape, DataCut, Zenon
<1>2. PICK s \in Seq(0 .. 127) : s = Septets7(cps)
  BY ExactSeptets
<1>3. PICK n \in Nat : n = Len(s)
  OBVIOUS
<1>4. Data(m) = UserDataOf(h, s) /\ Size(m) = HeaderSeptets(h) + n
  BY <1>1, <1>2, <1>3, Zenon DEF Data, Size
<1>5. CASE h = <<>>
  <2>1. Len(h) = 0
    BY <1>5
  <2>2. PICK p \in Seq(Byte) : UserDataOf(h, s) = h \o p /\ Packed(p, s, 0)
    BY <2>1, UserDataShape
  <2>3. f = p
    BY <1>1, <1>4, <2>2, SameRest, Zenon
  <2>4. Size(m) = n
    BY <1>4, <2>1 DEF HeaderSeptets
  <2>5. Unpack(f, n, 0, g) = s
    BY <1>3, <2>2, <2>3, Unpacked, Zenon
  <2> QED BY <1>1, <1>2, <1>5, <2>4, <2>5, Zenon DEF SeptetText
<1>6. CASE h # <<>>
  <2>1. h[1] = 5 /\ (cps # <<>> => ToGsm7(cps[1]) # <<0>>)
    BY <1>1, <1>6, Zenon DEF Readable
  <2>2. Len(h) = 6
    <3>1. h[1] = Len(h) - 1
      BY <1>1, <1>6, DataShape, Zenon
    <3>2. PICK l \in Nat : l = Len(h)
      OBVIOUS
    <3> QED BY <2>1, <3>1, <3>2
  <2>3. PICK p \in Seq(Byte) :
          /\ UserDataOf(h, s) = h \o p /\ Len(p) >= 1
          /\ s = <<>> => p[1] = 0
          /\ s # <<>> => p[1] = 2 * s[1] /\ Packed(Tail(p), Tail(s), 0)
    BY <2>2, UserDataSix
  <2>4. f = p
    BY <1>1, <1>4, <2>3, SameRest, Zenon
  <2>5. Size(m) - 7 = n
    BY <1>4, <2>2 DEF HeaderSeptets
  <2>6. s # <<>> => s[1] # 0
    <3>1. cps = <<>> => s = <<>>
      <4>1. ASSUME cps = <<>> PROVE Septets7(cps) = <<>>
        <5>1. PICK P : P = [i \in DOMAIN cps |-> ToGsm7(cps[i])] /\ P \in Seq(Seq(0 .. 127))
                       /\ Len(P) = Len(cps)
          BY ExactType, Zenon
        <5>2. Len(P) = 0
          BY <4>1, <5>1
        <5>3. PICK u : Built(u, P, 0 .. 127)
          BY <5>1, ConcatType
        <5>4. Concat(P) = <<>>
          BY <5>2, <5>3, Zenon DEF Built
        <5> QED BY <5>1, <5>4, Zenon DEF Septets7
      <4> QED BY <1>2, <4>1, Zenon
    <3> QED BY <1>2, <2>1, <3>1, FirstSeptet, Zenon
  <2>7. Unpack(Tail(p), n, p[1] \div 2, g) = s
    BY <1>3, <2>3, <2>6, UnpackedSix
  <2> QED BY <1>1, <1>2, <1>6, <2>1, <2>4, <2>5, <2>7, Zenon DEF SeptetText
<1> QED BY <1>1, <1>2, <1>5, <1>6, Zenon
-----------------------------------------------------------------------------
(* Received: texts of units of 16 bits. *)

\* One piece more is put behind the others.
LEMMA ConcatAppend ==
  ASSUME NEW T, NEW P \in Seq(Seq(T)), NEW x \in Seq(T)
  PROVE  Concat(Append(P, x)) = Concat(P) \o x
<1>1. PICK n \in Nat : n = Len(P)
  OBVIOUS
<1>2. PICK Q : Q = Append(P, x)
  OBVIOUS
<1>3. /\ Q \in Seq(Seq(T)) /\ Len(Q) = n + 1 /\ Q[n + 1] = x
      /\ \A i \in 1 .. n : Q[i] = P[i]
  BY <1>1, <1>2
<1>4. PICK u : Built(u, P, T)
  BY ConcatType
<1>5. PICK v : Built(v, Q, T)
  BY <1>3, ConcatType
<1> DEFINE S == {i \in 0 .. n : u[i] = v[i]}
<1>6. 0 \in S
  <2>1. u[0] = v[0]
    BY <1>4, <1>5, Zenon DEF Built
  <2> QED BY <2>1
<1>7. ASSUME NEW i \in 0 .. n - 1, i \in S PROVE i + 1 \in S
  <2>1. i + 1 \in 1 .. n /\ i + 1 \in 1 .. n + 1 /\ (i + 1) - 1 = i /\ i + 1 \in 0 .. n
    OBVIOUS
  <2>2. u[i + 1] = u[(i + 1) - 1] \o P[i + 1]
    BY <1>1, <1>4, <2>1, Zenon DEF Built
  <2>3. v[i + 1] = v[(i + 1) - 1] \o Q[i + 1]
    BY <1>3, <1>5, <2>1, Zenon DEF Built
  <2>4. u[i] = v[i]
    BY <1>7
  <2>5. u[i + 1] = v[i + 1]
    BY <1>3, <2>1, <2>2, <2>3, <2>4, Zenon
  <2> QED BY <2>1, <2>5
<1>8. u[n] = v[n]
  <2>1. 0 .. n \subseteq S
    <3> HIDE DEF S
    <3> QED BY <1>6, <1>7, UpTo
  <2>2. n \in 0 .. n
    OBVIOUS
  <2> QED BY <2>1, <2>2
<1>9. v[n + 1] = v[n] \o x
  <2>1. n + 1 \in 1 .. n + 1 /\ (n + 1) - 1 = n
    OBVIOUS
  <2> QED BY <1>3, <1>5, <2>1, Zenon DEF Built
<1> QED BY <1>1, <1>2, <1>3, <1>4, <1>5, <1>8, <1>9, Zenon DEF Built

\* The characters of a text with one unit more.
LastHigh(t) == t # <<>> /\ HighSurrogate(t[Len(t)])

More(t, u) ==
  IF LastHigh(t) /\ LowSurrogate(u) THEN <<PairPoint(t[Len(t)], u)>>
  ELSE IF HighSurrogate(u) THEN <<>> ELSE <<u>>

LEMMA PointsNext ==
  ASSUME NEW t \in Seq(Word), NEW u \in Word
  PROVE  Points(Append(t, u)) = Points(t) \o More(t, u)
<1>1. PICK n \in Nat : n = Len(t) /\ \A i \in 1 .. n : t[i] \in Word
  BY Elements
<1>2. PICK v : /\ v = Append(t, u) /\ v \in Seq(Word) /\ Len(v) = n + 1
               /\ v[n + 1] = u /\ \A i \in 1 .. n : v[i] = t[i]
  <2>1. /\ Append(t, u) \in Seq(Word) /\ Len(Append(t, u)) = n + 1
        /\ Append(t, u)[n + 1] = u /\ \A i \in 1 .. n : Append(t, u)[i] = t[i]
    BY <1>1
  <2> QED BY <2>1
<1>3. PICK P \in Seq(Seq(Int)), Q \in Seq(Seq(Int)) :
        P = PointsAt(t) /\ Len(P) = n /\ Q = PointsAt(v) /\ Len(Q) = n + 1
  BY <1>1, <1>2, PointsType, Zenon
<1>4. Points(t) = Concat(P) /\ Points(v) = Concat(Q)
  BY <1>3, PointsConcat, Zenon
<1>5. \A i \in 1 .. n :
        P[i] = IF PairAt(t, i) THEN <<PairPoint(t[i], t[i + 1])>>
               ELSE IF HighSurrogate(t[i]) \/ PairAt(t, i - 1) THEN <<>> ELSE <<t[i]>>
  BY <1>1, <1>3, Zenon DEF PointsAt
<1>6. \A i \in 1 .. n + 1 :
        Q[i] = IF PairAt(v, i) THEN <<PairPoint(v[i], v[i + 1])>>
               ELSE IF HighSurrogate(v[i]) \/ PairAt(v, i - 1) THEN <<>> ELSE <<v[i]>>
  BY <1>2, <1>3, Zenon DEF PointsAt
<1>7. \A i \in Int : i < n => (PairAt(v, i) <=> PairAt(t, i))
  BY <1>1, <1>2 DEF PairAt
<1>8. PairAt(v, n) <=> LastHigh(t) /\ LowSurrogate(u)
  <2>1. n = 0 <=> t = <<>>
    BY <1>1, Nothing
  <2> QED BY <1>1, <1>2, <2>1 DEF PairAt, LastHigh
<1>9. ~PairAt(v, n + 1) /\ ~PairAt(t, n)
  BY <1>1, <1>2 DEF PairAt
<1>10. \A i \in 1 .. n - 1 : Q[i] = P[i]
  <2> SUFFICES ASSUME NEW i \in 1 .. n - 1 PROVE Q[i] = P[i]
    OBVIOUS
  <2>1. /\ i \in 1 .. n /\ i \in 1 .. n + 1 /\ i + 1 \in 1 .. n
        /\ i \in Int /\ i < n /\ i - 1 \in Int /\ i - 1 < n
    OBVIOUS
  <2>2. (PairAt(v, i) <=> PairAt(t, i)) /\ (PairAt(v, i - 1) <=> PairAt(t, i - 1))
    BY <1>7, <2>1, Zenon
  <2>3. v[i] = t[i] /\ v[i + 1] = t[i + 1]
    BY <1>2, <2>1, Zenon
  <2> QED BY <1>5, <1>6, <2>1, <2>2, <2>3, Zenon
<1>11. PICK z : z = Q[n + 1]
  OBVIOUS
<1>12. z = IF HighSurrogate(u) \/ PairAt(v, n) THEN <<>> ELSE <<u>>
  <2>1. n + 1 \in 1 .. n + 1 /\ (n + 1) - 1 = n
    OBVIOUS
  <2> QED BY <1>2, <1>6, <1>9, <1>11, <2>1, Zenon
<1>13. z \in Seq(Int) /\ <<>> \in Seq(Int)
  <2>1. n + 1 \in 1 .. n + 1
    OBVIOUS
  <2>2. z \in Seq(Int)
    BY <1>3, <1>11, <2>1, Elements
  <2> QED BY <2>2
<1>14. CASE ~PairAt(v, n)
  <2>1. \A i \in 1 .. n : Q[i] = P[i]
    <3> SUFFICES ASSUME NEW i \in 1 .. n PROVE Q[i] = P[i]
      OBVIOUS
    <3>1. CASE i = n
      <4>1. n \in 1 .. n + 1 /\ n - 1 \in Int /\ n - 1 < n
        BY <3>1
      <4>2. PairAt(v, n - 1) <=> PairAt(t, n - 1)
        BY <1>7, <4>1, Zenon
      <4>3. v[n] = t[n]
        BY <1>2, <3>1, Zenon
      <4> QED BY <1>5, <1>6, <1>9, <1>14, <3>1, <4>1, <4>2, <4>3, Zenon
    <3>2. CASE i # n
      <4>1. i \in 1 .. n - 1
        BY <3>2
      <4> QED BY <1>10, <4>1, Zenon
    <3> QED BY <3>1, <3>2
  <2>2. Q = Append(P, z)
    BY <1>3, <1>11, <2>1
  <2>3. z = More(t, u)
    BY <1>8, <1>12, <1>14, Zenon DEF More
  <2>4. Concat(Append(P, z)) = Concat(P) \o z
    BY <1>13, ConcatAppend
  <2> QED BY <1>2, <1>4, <2>2, <2>3, <2>4, Zenon
<1>15. CASE PairAt(v, n)
  <2>1. n >= 1 /\ n \in 1 .. n /\ n \in 1 .. n + 1
    BY <1>2, <1>15 DEF PairAt
  <2>2. HighSurrogate(t[n]) /\ v[n] = t[n] /\ v[n + 1] = u
    BY <1>2, <1>15, <2>1, Zenon DEF PairAt
  <2>3. P[n] = <<>>
    BY <1>5, <1>9, <2>1, <2>2, Zenon
  <2>4. PICK c \in Seq(Int) : c = <<PairPoint(t[n], u)>> /\ Q[n] = c
    <3>1. Q[n] = <<PairPoint(t[n], u)>>
      BY <1>6, <1>15, <2>1, <2>2, Zenon
    <3>2. Q[n] \in Seq(Int)
      BY <1>3, <2>1, Elements, Zenon
    <3> QED BY <3>1, <3>2
  <2>5. z = <<>>
    BY <1>12, <1>15, Zenon
  <2>6. PICK F \in Seq(Seq(Int)) : /\ Len(F) = n - 1 /\ \A i \in 1 .. n - 1 : F[i] = P[i]
    <3>1. SubSeq(P, 1, n - 1) \in Seq(Seq(Int))
      BY <1>3, <2>1
    <3>2. Len(SubSeq(P, 1, n - 1)) = n - 1
      BY <1>3, <2>1
    <3>3. \A i \in 1 .. n - 1 : SubSeq(P, 1, n - 1)[i] = P[i]
      BY <1>3, <2>1
    <3> QED BY <3>1, <3>2, <3>3
  <2>7. PICK e : e = <<>> /\ e \in Seq(Int)
    BY <1>13
  <2>8. P = Append(F, e)
    BY <1>3, <2>1, <2>3, <2>6, <2>7
  <2>9. PICK G : G = Append(F, c) /\ G \in Seq(Seq(Int)) /\ Len(G) = n
                 /\ G[n] = c /\ \A i \in 1 .. n - 1 : G[i] = P[i]
    <3>1. PICK k \in Nat : k = n - 1 /\ k + 1 = n
      BY <2>1
    <3>2. Append(F, c) \in Seq(Seq(Int))
      OBVIOUS
    <3>3. Len(F) = k
      BY <2>6, <3>1, Zenon
    <3>4. /\ Len(Append(F, c)) = k + 1 /\ Append(F, c)[k + 1] = c
          /\ \A i \in 1 .. k : Append(F, c)[i] = F[i]
      BY <3>3
    <3>5. \A i \in 1 .. n - 1 : Append(F, c)[i] = P[i]
      BY <2>6, <3>1, <3>4, Zenon
    <3> QED BY <3>1, <3>2, <3>4, <3>5, Zenon
  <2>10. Q = Append(G, e)
    <3>1. \A i \in 1 .. n : Q[i] = G[i]
      <4> SUFFICES ASSUME NEW i \in 1 .. n PROVE Q[i] = G[i]
        OBVIOUS
      <4>1. i = n \/ i \in 1 .. n - 1
        OBVIOUS
      <4> QED BY <1>10, <2>4, <2>9, <4>1, Zenon
    <3>2. Q[n + 1] = e
      BY <1>11, <2>5, <2>7, Zenon
    <3> QED BY <1>3, <2>9, <3>1, <3>2
  <2>11. Concat(P) = Concat(F) \o e
    BY <2>6, <2>7, <2>8, ConcatAppend, Zenon
  <2>12. Concat(G) = Concat(F) \o c
    BY <2>4, <2>6, <2>9, ConcatAppend, Zenon
  <2>13. Concat(Q) = Concat(G) \o e
    BY <2>7, <2>9, <2>10, ConcatAppend, Zenon
  <2>14. Concat(F) \in Seq(Int) /\ Concat(G) \in Seq(Int)
    BY <2>6, <2>9, ConcatType, Zenon
  <2>15. \A s \in Seq(Int) : s \o e = s
    BY <2>7
  <2>16. c = More(t, u)
    BY <1>1, <1>8, <1>15, <2>4, Zenon DEF More
  <2> QED BY <1>2, <1>4, <2>11, <2>12, <2>13, <2>14, <2>15, <2>16, Zenon
<1> QED BY <1>14, <1>15

LEMMA PointsNone == Points(<<>>) = <<>>
<1>1. PICK t : t = <<>> /\ t \in Seq(Word) /\ Len(t) = 0
  <2>1. <<>> \in Seq(Word) /\ Len(<<>>) = 0
    OBVIOUS
  <2> QED BY <2>1
<1>2. PICK P \in Seq(Seq(Int)) : P = PointsAt(t) /\ Len(P) = 0
  BY <1>1, PointsType, Zenon
<1>3. PICK u : Built(u, P, Int)
  BY ConcatType
<1> QED BY <1>1, <1>2, <1>3, PointsConcat, Zenon DEF Built

\* One character more in UTF-8.
LEMMA Utf8Next ==
  ASSUME NEW cps \in Seq(Unicode), NEW c \in Unicode
  PROVE  Utf8(Append(cps, c)) = Utf8(cps) \o buildUtf(c)
<1>1. PICK n \in Nat : n = Len(cps) /\ DOMAIN cps = 1 .. n
                       /\ \A i \in 1 .. n : cps[i] \in Unicode
  BY Elements
<1>2. PICK d : /\ d = Append(cps, c) /\ DOMAIN d = 1 .. n + 1
               /\ d[n + 1] = c /\ \A i \in 1 .. n : d[i] = cps[i]
  <2>1. /\ DOMAIN Append(cps, c) = 1 .. n + 1
        /\ Append(cps, c)[n + 1] = c /\ \A i \in 1 .. n : Append(cps, c)[i] = cps[i]
    BY <1>1
  <2> QED BY <2>1
<1>3. \A v \in Unicode : buildUtf(v) \in Seq(Byte)
  BY UtfShape, Zenon DEF UtfOf
<1>4. PICK P : P = [i \in 1 .. n |-> buildUtf(cps[i])]
  OBVIOUS
<1>5. P \in Seq(Seq(Byte)) /\ Len(P) = n /\ \A i \in 1 .. n : P[i] = buildUtf(cps[i])
  <2>1. \A i \in 1 .. n : buildUtf(cps[i]) \in Seq(Byte)
    BY <1>1, <1>3, Zenon
  <2> QED BY <1>4, <2>1
<1>6. PICK b \in Seq(Byte) : b = buildUtf(c)
  BY <1>3
<1>7. PICK Q : Q = [i \in 1 .. n + 1 |-> buildUtf(d[i])]
  OBVIOUS
<1>8. Q = Append(P, b)
  <2>1. \A i \in 1 .. n : Q[i] = P[i]
    BY <1>2, <1>5, <1>7
  <2>2. Q[n + 1] = b
    BY <1>2, <1>6, <1>7
  <2>3. Q \in Seq(Seq(Byte)) /\ Len(Q) = n + 1
    <3>1. \A i \in 1 .. n + 1 : d[i] \in Unicode
      BY <1>1, <1>2
    <3>2. \A i \in 1 .. n + 1 : buildUtf(d[i]) \in Seq(Byte)
      BY <1>3, <3>1, Zenon
    <3> QED BY <1>7, <3>2
  <2> QED BY <1>5, <2>1, <2>2, <2>3
<1>9. Concat(Q) = Concat(P) \o b
  BY <1>5, <1>8, ConcatAppend, Zenon
<1>10. Utf8(cps) = Concat(P) /\ Utf8(d) = Concat(Q)
  BY <1>1, <1>2, <1>4, <1>7, Zenon DEF Utf8
<1> QED BY <1>2, <1>6, <1>9, <1>10, Zenon

LEMMA Utf8None == Utf8(<<>>) = <<>>
<1>1. PICK P : P = [i \in DOMAIN <<>> |-> buildUtf(<<>>[i])]
  OBVIOUS
<1>2. P \in Seq(Seq(Byte)) /\ Len(P) = 0
  BY <1>1
<1>3. PICK u : Built(u, P, Byte)
  BY <1>2, ConcatType
<1> QED BY <1>1, <1>2, <1>3, Zenon DEF Utf8, Built

\* One unit more in the reader.
Nxt(s, u) ==
  LET r == ucs2_to_utf8(u, s.start, s.high)
  IN [out |-> s.out \o r.out, start |-> r.start, high |-> r.high]
First == [out |-> <<>>, start |-> SPstart, high |-> spair]
Reading(after, w) ==
  /\ Utf8Of(Octets(w)) = after[Len(w)] /\ after[0] = First
  /\ \A k \in 1 .. Len(w) : after[k] = Nxt(after[k - 1], w[k])

LEMMA AfterBuilt ==
  ASSUME NEW w \in Seq(Word)
  PROVE  \E after : Reading(after, w)
<1> DEFINE o == Octets(w)
           n == Len(o) \div 2
           Body(f, k) == IF k = 0 THEN First ELSE Nxt(f[k - 1], o[2 * k - 1] * 256 + o[2 * k])
           after == CHOOSE f : f = [k \in 0 .. n |-> Body(f, k)]
           T == {m \in 0 .. n : \E f : f = [k \in 0 .. m |-> Body(f, k)]}
<1>1. n = Len(w) /\ n \in Nat /\ 0 \in 0 .. n
  <2>1. Len(o) = 2 * Len(w)
    BY OctetsShape
  <2> QED BY <2>1
<1>2. \A k \in 1 .. n : o[2 * k - 1] * 256 + o[2 * k] = w[k]
  BY <1>1, OctetsShape
<1>3. 0 \in T
  <2> DEFINE g == [k \in 0 .. 0 |-> First]
  <2>1. g = [k \in 0 .. 0 |-> Body(g, k)]
    OBVIOUS
  <2> HIDE DEF g, Body, n
  <2> QED BY <1>1, <2>1
<1>4. ASSUME NEW m \in 0 .. n - 1, m \in T PROVE m + 1 \in T
  <2>1. PICK f : f = [k \in 0 .. m |-> Body(f, k)]
    BY <1>4
  <2> DEFINE g == [k \in 0 .. m + 1 |-> IF k <= m THEN f[k] ELSE Body(f, k)]
  <2>2. \A k \in 0 .. m + 1 : Body(g, k) = Body(f, k)
    <3> SUFFICES ASSUME NEW k \in 0 .. m + 1, k # 0 PROVE g[k - 1] = f[k - 1]
      OBVIOUS
    <3> QED BY <1>1
  <2>3. \A k \in 0 .. m : f[k] = Body(f, k)
    <3> HIDE DEF Body
    <3> QED BY <2>1
  <2>4. g = [k \in 0 .. m + 1 |-> Body(g, k)]
    <3> HIDE DEF Body
    <3>1. \A k \in 0 .. m + 1 : g[k] = Body(g, k)
      BY <1>1, <2>2, <2>3
    <3>2. g = [k \in 0 .. m + 1 |-> g[k]]
      OBVIOUS
    <3> HIDE DEF g
    <3> QED BY <3>1, <3>2
  <2> HIDE DEF g, Body
  <2> QED BY <1>1, <2>4
<1>5. n \in T
  <2> HIDE DEF T, n
  <2>1. 0 .. n \subseteq T
    BY <1>1, <1>3, <1>4, UpTo
  <2> QED BY <1>1, <2>1
<1>6. after = [k \in 0 .. n |-> Body(after, k)]
  <2>1. \E f : f = [k \in 0 .. n |-> Body(f, k)]
    BY <1>5
  <2> HIDE DEF Body, n
  <2> QED BY <2>1
<1>7. Utf8Of(o) = after[n]
  BY Zenon DEF Utf8Of, Nxt, First
<1> HIDE DEF after, o, n
<1>8. \A k \in 0 .. n : after[k] = Body(after, k)
  <2> HIDE DEF Body
  <2> QED BY <1>6
<1>9. \A k \in 1 .. n : k \in 0 .. n /\ k # 0
  BY <1>1
<1>10. after[0] = First
  BY <1>1, <1>8
<1>11. \A k \in 1 .. n : after[k] = Nxt(after[k - 1], w[k])
  BY <1>2, <1>8, <1>9, Zenon
<1> QED BY <1>1, <1>7, <1>10, <1>11, Zenon DEF Reading, o

\* A unit of 16 bits by its kind.  A small one is never taken for the second
\* half of a pair.
Small(u) == u < 2048
Meant(high, u) == (high - 55296) * 1024 + (u % 1024) + 65536

LEMMA NxtHigh ==
  ASSUME NEW s, NEW u \in Word, HighSurrogate(u)
  PROVE  Nxt(s, u).out = s.out \o <<>> /\ Nxt(s, u).start = TRUE /\ Nxt(s, u).high = u
BY DEF Nxt, ucs2_to_utf8

LEMMA ReadMeant ==
  ASSUME NEW u \in Word, ~HighSurrogate(u), ~Small(u), NEW high
  PROVE  ucs2_to_utf8(u, TRUE, high) =
           [out |-> buildUtf(Meant(high, u)), start |-> FALSE, high |-> high]
BY DEF ucs2_to_utf8, Small, Meant, Word

LEMMA ReadPlain ==
  ASSUME NEW u \in Word, ~HighSurrogate(u), NEW start, Small(u) \/ ~start, NEW high
  PROVE  ucs2_to_utf8(u, start, high) =
           [out |-> buildUtf(u), start |-> start, high |-> high]
BY DEF ucs2_to_utf8, Small, Word

LEMMA MeantCharacter ==
  ASSUME NEW u \in Word, NEW high \in Word, HighSurrogate(high)
  PROVE  /\ Meant(high, u) \in Unicode
         /\ LowSurrogate(u) => Meant(high, u) = PairPoint(high, u)
<1>1. PICK h \in 0 .. 1023 : h = high - 55296
  BY DEF HighSurrogate, Word
<1>2. PICK l \in 0 .. 1023 : l = u % 1024
  BY DEF Word
<1>3. Meant(high, u) = h * 1024 + l + 65536
  BY <1>1, <1>2 DEF Meant
<1>4. Meant(high, u) \in Unicode
  <2>1. PICK c : c = Meant(high, u)
    OBVIOUS
  <2>2. c \in Nat
    BY <1>3, <2>1, SMT
  <2>3. c < 17 * 65536
    BY <1>3, <2>1, SMT
  <2>4. c \div 65536 < 17
    BY <2>2, <2>3, SMT
  <2> QED BY <2>1, <2>2, <2>4, SMT DEF Unicode
<1>5. ASSUME LowSurrogate(u) PROVE Meant(high, u) = PairPoint(high, u)
  <2>1. l = u - 56320
    <3>1. PICK v \in 0 .. 1023 : v = u - 56320
      BY <1>5, SMT DEF LowSurrogate, Word
    <3>2. u = 1024 * 55 + v
      BY <3>1, SMT DEF Word
    <3>3. u % 1024 = v
      BY <3>2, SMT
    <3> QED BY <1>2, <3>1, <3>3, SMT
  <2> QED BY <1>1, <1>3, <2>1 DEF PairPoint
<1> QED BY <1>4, <1>5

LEMMA NxtSecond ==
  ASSUME NEW s, NEW u \in Word, ~HighSurrogate(u), ~Small(u), s.start = TRUE
  PROVE  /\ Nxt(s, u).out = s.out \o buildUtf(Meant(s.high, u))
         /\ Nxt(s, u).start = FALSE /\ Nxt(s, u).high = s.high
<1>1. PICK x : x = ucs2_to_utf8(u, s.start, s.high)
  OBVIOUS
<1>2. x = [out |-> buildUtf(Meant(s.high, u)), start |-> FALSE, high |-> s.high]
  BY <1>1, ReadMeant, Zenon
<1>3. x.out = buildUtf(Meant(s.high, u)) /\ x.start = FALSE /\ x.high = s.high
  BY <1>2
<1>4. PICK y : y = Nxt(s, u)
  OBVIOUS
<1>5. y = [out |-> s.out \o x.out, start |-> x.start, high |-> x.high]
  BY <1>1, <1>4, Zenon DEF Nxt
<1>6. y.out = s.out \o x.out /\ y.start = x.start /\ y.high = x.high
  BY <1>5
<1> QED BY <1>3, <1>4, <1>6, Zenon

LEMMA NxtPlain ==
  ASSUME NEW s, NEW u \in Word, ~HighSurrogate(u), Small(u) \/ ~s.start
  PROVE  /\ Nxt(s, u).out = s.out \o buildUtf(u)
         /\ Nxt(s, u).start = s.start /\ Nxt(s, u).high = s.high
         /\ u \in Unicode
<1>1. PICK x : x = ucs2_to_utf8(u, s.start, s.high)
  OBVIOUS
<1>2. x = [out |-> buildUtf(u), start |-> s.start, high |-> s.high]
  BY <1>1, ReadPlain, Zenon
<1>3. x.out = buildUtf(u) /\ x.start = s.start /\ x.high = s.high
  BY <1>2
<1>4. PICK y : y = Nxt(s, u)
  OBVIOUS
<1>5. y = [out |-> s.out \o x.out, start |-> x.start, high |-> x.high]
  BY <1>1, <1>4, Zenon DEF Nxt
<1>6. y.out = s.out \o x.out /\ y.start = x.start /\ y.high = x.high
  BY <1>5
<1>7. u \in Unicode
  BY DEF Word, Unicode
<1> QED BY <1>3, <1>4, <1>6, <1>7, Zenon

\* What was read so far, but for the character at d, and what the reader
\* remembers: the half the text ends in, or one of a text before.
Near(a, b, d) == Len(a) = Len(b) /\ \A i \in 1 .. Len(b) : i # d => a[i] = b[i]
Told(s, w, d) ==
  \E cps \in Seq(Unicode) : s.out = Utf8(cps) /\ Near(cps, Points(w), d)
Halfway(s, w) ==
  /\ LastHigh(w) => s.start = TRUE /\ s.high = w[Len(w)]
  /\ ~LastHigh(w) => s.start = FALSE
Behindhand(s, w, half) == s.start = TRUE /\ s.high = half /\ ~LastHigh(w)

LEMMA PointsInts ==
  ASSUME NEW w \in Seq(Word)
  PROVE  Points(w) \in Seq(Int)
BY PointsType, ConcatType, PointsConcat, Zenon

LEMMA NearNext ==
  ASSUME NEW a \in Seq(Unicode), NEW b \in Seq(Int), NEW d, Near(a, b, d),
         NEW c \in Unicode, NEW x \in Int, NEW e,
         (c = x /\ e = d) \/ (d = 0 /\ e = Len(a) + 1)
  PROVE  Near(Append(a, c), b \o <<x>>, e)
<1>1. PICK n \in Nat : n = Len(a) /\ n = Len(b)
  BY DEF Near
<1>2. PICK p, q : p = Append(a, c) /\ q = b \o <<x>>
  OBVIOUS
<1>3. /\ Len(p) = n + 1 /\ Len(q) = n + 1 /\ p[n + 1] = c /\ q[n + 1] = x
      /\ \A i \in 1 .. n : p[i] = a[i] /\ q[i] = b[i]
  <2>1. /\ Len(p) = n + 1 /\ p[n + 1] = c /\ \A i \in 1 .. n : p[i] = a[i]
    <3>1. /\ Len(Append(a, c)) = Len(a) + 1 /\ Append(a, c)[Len(a) + 1] = c
          /\ \A i \in 1 .. Len(a) : Append(a, c)[i] = a[i]
      OBVIOUS
    <3> QED BY <1>1, <1>2, <3>1, Zenon
  <2>2. /\ Len(b \o <<x>>) = n + 1 /\ (b \o <<x>>)[n + 1] = x
        /\ \A i \in 1 .. n : (b \o <<x>>)[i] = b[i]
    BY <1>1
  <2> QED BY <1>2, <2>1, <2>2, Zenon
<1>4. ASSUME NEW i \in 1 .. n + 1, i # e PROVE p[i] = q[i]
  <2>1. CASE i = n + 1
    <3>1. e # n + 1
      BY <1>4, <2>1
    <3>2. c = x
      BY <1>1, <3>1, Zenon
    <3> QED BY <1>3, <2>1, <3>2, Zenon
  <2>2. CASE i # n + 1
    <3>1. i \in 1 .. n /\ i # 0
      BY <2>2
    <3>2. i # d
      BY <1>4, <3>1, Zenon
    <3>3. a[i] = b[i]
      BY <1>1, <3>1, <3>2, Zenon DEF Near
    <3> QED BY <1>3, <3>1, <3>3, Zenon
  <2> QED BY <2>1, <2>2
<1>5. Len(p) = Len(q)
  BY <1>3, Zenon
<1>6. Near(p, q, e)
  BY <1>3, <1>4, <1>5, Zenon DEF Near
<1> QED BY <1>2, <1>6, Zenon

LEMMA ToldNothing ==
  ASSUME NEW s, NEW w \in Seq(Word), NEW d, Told(s, w, d), NEW u \in Word,
         More(w, u) = <<>>, NEW t, t.out = s.out \o <<>>
  PROVE  Told(t, Append(w, u), d)
<1>1. PICK cps \in Seq(Unicode) : s.out = Utf8(cps) /\ Near(cps, Points(w), d)
  BY DEF Told
<1>2. Utf8(cps) \o <<>> = Utf8(cps)
  <2>1. PICK x \in Seq(Byte) : x = Utf8(cps)
    BY Utf8Read
  <2>2. x \o <<>> = x
    OBVIOUS
  <2> QED BY <2>1, <2>2, Zenon
<1>3. Points(w) \o <<>> = Points(w)
  <2>1. PICK x \in Seq(Int) : x = Points(w)
    BY PointsInts
  <2>2. x \o <<>> = x
    OBVIOUS
  <2> QED BY <2>1, <2>2, Zenon
<1>4. Points(Append(w, u)) = Points(w) \o <<>>
  BY PointsNext, Zenon
<1> QED BY <1>1, <1>2, <1>3, <1>4, Zenon DEF Told

LEMMA ToldOne ==
  ASSUME NEW s, NEW w \in Seq(Word), NEW d, Told(s, w, d), NEW u \in Word,
         NEW x \in Int, More(w, u) = <<x>>, NEW c \in Unicode,
         NEW t, t.out = s.out \o buildUtf(c)
  PROVE  /\ c = x => Told(t, Append(w, u), d)
         /\ d = 0 => \E e \in Nat : Told(t, Append(w, u), e)
<1>1. PICK cps \in Seq(Unicode) : s.out = Utf8(cps) /\ Near(cps, Points(w), d)
  BY DEF Told
<1>2. PICK b \in Seq(Int) : b = Points(w) /\ Points(Append(w, u)) = b \o <<x>>
  BY PointsInts, PointsNext, Zenon
<1>3. PICK p \in Seq(Unicode) : p = Append(cps, c)
  <2>1. Append(cps, c) \in Seq(Unicode)
    OBVIOUS
  <2> QED BY <2>1, Zenon
<1>4. t.out = Utf8(p)
  BY <1>1, <1>3, Utf8Next, Zenon
<1>5. ASSUME c = x PROVE Near(p, b \o <<x>>, d)
  BY <1>1, <1>2, <1>3, <1>5, NearNext, Zenon
<1>6. ASSUME d = 0 PROVE Near(p, b \o <<x>>, Len(cps) + 1)
  BY <1>1, <1>2, <1>3, <1>6, NearNext, Zenon
<1>7. Len(cps) + 1 \in Nat
  OBVIOUS
<1> QED BY <1>2, <1>3, <1>4, <1>5, <1>6, <1>7, Zenon DEF Told

\* Every unit of 16 bits is of one kind.
LEMMA Kinds ==
  ASSUME NEW u \in Word
  PROVE  /\ LowSurrogate(u) => ~HighSurrogate(u) /\ ~Small(u)
         /\ HighSurrogate(u) => ~Small(u)
BY DEF Word, LowSurrogate, HighSurrogate, Small

LEMMA LastOf ==
  ASSUME NEW w \in Seq(Word), NEW u \in Word
  PROVE  /\ Append(w, u) \in Seq(Word)
         /\ LastHigh(Append(w, u)) <=> HighSurrogate(u)
         /\ Append(w, u)[Len(Append(w, u))] = u
<1>1. Append(w, u) \in Seq(Word) /\ Append(w, u) # <<>>
      /\ Append(w, u)[Len(Append(w, u))] = u
  OBVIOUS
<1> QED BY <1>1, Zenon DEF LastHigh

\* A reader that remembers the half the text ends in reads the next unit as
\* it is.
LEMMA WholeNext ==
  ASSUME NEW s, NEW w \in Seq(Word), NEW u \in Word, NEW d, Told(s, w, d),
         Halfway(s, w), LastHigh(w) <=> LowSurrogate(u)
  PROVE  Told(Nxt(s, u), Append(w, u), d) /\ Halfway(Nxt(s, u), Append(w, u))
<1>1. PICK t : t = Nxt(s, u)
  OBVIOUS
<1>2. CASE LowSurrogate(u)
  <2>1. ~HighSurrogate(u) /\ ~Small(u) /\ LastHigh(w)
    BY <1>2, Kinds
  <2>2. s.start = TRUE /\ s.high = w[Len(w)]
    BY <2>1, Zenon DEF Halfway
  <2>3. s.high \in Word /\ HighSurrogate(s.high)
    <3>1. w[Len(w)] \in Word
      <4>1. Len(w) \in 1 .. Len(w)
        <5>1. Len(w) # 0
          BY <2>1, Nothing DEF LastHigh
        <5> QED BY <5>1
      <4> QED BY <4>1, Elements
    <3> QED BY <2>1, <2>2, <3>1, Zenon DEF LastHigh
  <2>4. /\ t.out = s.out \o buildUtf(Meant(s.high, u))
        /\ t.start = FALSE /\ t.high = s.high
    BY <1>1, <2>1, <2>2, NxtSecond, Zenon
  <2>5. /\ Meant(s.high, u) \in Unicode /\ Meant(s.high, u) = PairPoint(s.high, u)
    BY <1>2, <2>3, MeantCharacter, Zenon
  <2>6. More(w, u) = <<PairPoint(s.high, u)>>
    BY <1>2, <2>1, <2>2, Zenon DEF More
  <2>7. PairPoint(s.high, u) \in Int
    BY <2>5 DEF Unicode
  <2>8. Told(t, Append(w, u), d)
    BY <2>4, <2>5, <2>6, <2>7, ToldOne, Zenon
  <2>9. ~LastHigh(Append(w, u))
    BY <2>1, LastOf, Zenon
  <2> QED BY <1>1, <2>4, <2>8, <2>9, Zenon DEF Halfway
<1>3. CASE HighSurrogate(u)
  <2>1. ~LowSurrogate(u)
    BY <1>3, Kinds
  <2>2. t.out = s.out \o <<>> /\ t.start = TRUE /\ t.high = u
    BY <1>1, <1>3, NxtHigh, Zenon
  <2>3. More(w, u) = <<>>
    BY <1>3, <2>1, Zenon DEF More
  <2>4. Told(t, Append(w, u), d)
    BY <2>2, <2>3, ToldNothing, Zenon
  <2>5. LastHigh(Append(w, u)) /\ Append(w, u)[Len(Append(w, u))] = u
    BY <1>3, LastOf, Zenon
  <2> QED BY <1>1, <2>2, <2>4, <2>5, Zenon DEF Halfway
<1>4. CASE ~LowSurrogate(u) /\ ~HighSurrogate(u)
  <2>1. ~LastHigh(w) /\ s.start = FALSE
    <3>1. ~LastHigh(w)
      BY <1>4, Zenon
    <3> QED BY <3>1, Zenon DEF Halfway
  <2>2. t.out = s.out \o buildUtf(u) /\ t.start = FALSE /\ u \in Unicode
    BY <1>1, <1>4, <2>1, NxtPlain, Zenon
  <2>3. More(w, u) = <<u>>
    BY <1>4, Zenon DEF More
  <2>4. u \in Int
    BY DEF Word
  <2>5. Told(t, Append(w, u), d)
    BY <2>2, <2>3, <2>4, ToldOne, Zenon
  <2>6. ~LastHigh(Append(w, u))
    BY <1>4, LastOf, Zenon
  <2> QED BY <1>1, <2>2, <2>5, <2>6, Zenon DEF Halfway
<1> QED BY <1>2, <1>3, <1>4

\* One that remembers a half of another text spoils one character at most.
LEMMA BehindhandNext ==
  ASSUME NEW s, NEW w \in Seq(Word), NEW u \in Word, Told(s, w, 0),
         NEW half \in Word, HighSurrogate(half), Behindhand(s, w, half), ~LowSurrogate(u)
  PROVE  \/ Told(Nxt(s, u), Append(w, u), 0) /\ Behindhand(Nxt(s, u), Append(w, u), half)
         \/ \E e \in Nat : /\ Told(Nxt(s, u), Append(w, u), e)
                           /\ Halfway(Nxt(s, u), Append(w, u))
<1>1. PICK t : t = Nxt(s, u)
  OBVIOUS
<1>2. s.start = TRUE /\ s.high = half /\ ~LastHigh(w) /\ u \in Int /\ 0 \in Nat
  BY DEF Behindhand, Word
<1>3. CASE HighSurrogate(u)
  <2>1. t.out = s.out \o <<>> /\ t.start = TRUE /\ t.high = u
    BY <1>1, <1>3, NxtHigh, Zenon
  <2>2. More(w, u) = <<>>
    BY <1>3, Zenon DEF More
  <2>3. Told(t, Append(w, u), 0)
    BY <2>1, <2>2, ToldNothing, Zenon
  <2>4. LastHigh(Append(w, u)) /\ Append(w, u)[Len(Append(w, u))] = u
    BY <1>3, LastOf, Zenon
  <2> QED BY <1>1, <1>2, <2>1, <2>3, <2>4, Zenon DEF Halfway
<1>4. CASE ~HighSurrogate(u)
  <2>1. More(w, u) = <<u>>
    BY <1>4, Zenon DEF More
  <2>2. ~LastHigh(Append(w, u))
    BY <1>4, LastOf, Zenon
  <2>3. CASE Small(u)
    <3>1. t.out = s.out \o buildUtf(u) /\ t.start = TRUE /\ t.high = half /\ u \in Unicode
      BY <1>1, <1>2, <1>4, <2>3, NxtPlain, Zenon
    <3>2. Told(t, Append(w, u), 0)
      BY <1>2, <2>1, <3>1, ToldOne, Zenon
    <3> QED BY <1>1, <2>2, <3>1, <3>2, Zenon DEF Behindhand
  <2>4. CASE ~Small(u)
    <3>1. t.out = s.out \o buildUtf(Meant(half, u)) /\ t.start = FALSE
      BY <1>1, <1>2, <1>4, <2>4, NxtSecond, Zenon
    <3>2. Meant(half, u) \in Unicode
      BY MeantCharacter, Zenon
    <3>3. \E e \in Nat : Told(t, Append(w, u), e)
      BY <1>2, <2>1, <3>1, <3>2, ToldOne, Zenon
    <3> QED BY <1>1, <2>2, <3>1, <3>3, Zenon DEF Halfway
  <2> QED BY <2>3, <2>4
<1> QED BY <1>3, <1>4

\* The first k units of a text, behind what was there before.
Upto(p, w, k) == p \o SubSeq(w, 1, k)

LEMMA UptoNext ==
  ASSUME NEW p \in Seq(Word), NEW w \in Seq(Word), UnitsOK(w), NEW k \in 0 .. Len(w) - 1
  PROVE  /\ Upto(p, w, k) \in Seq(Word) /\ w[k + 1] \in Word
         /\ Upto(p, w, k + 1) = Append(Upto(p, w, k), w[k + 1])
         /\ k # 0 => (LastHigh(Upto(p, w, k)) <=> LowSurrogate(w[k + 1]))
<1>1. PICK a, b : a = SubSeq(w, 1, k) /\ b = SubSeq(w, 1, k + 1)
  OBVIOUS
<1>2. PICK n \in Nat : n = Len(w) /\ k \in Nat /\ k + 1 <= n
  OBVIOUS
<1>3. a \in Seq(Word) /\ Len(a) = k /\ \A i \in 1 .. k : a[i] = w[i]
  BY <1>1, <1>2
<1>4. b \in Seq(Word) /\ Len(b) = k + 1 /\ \A i \in 1 .. k + 1 : b[i] = w[i]
  BY <1>1, <1>2
<1>5. k + 1 \in 1 .. n /\ w[k + 1] \in Word
  <2>1. k + 1 \in 1 .. n
    BY <1>2
  <2> QED BY <1>2, <2>1, Elements
<1>6. b = Append(a, w[k + 1])
  BY <1>3, <1>4, <1>5
<1>7. PICK x \in Word : x = w[k + 1]
  BY <1>5
<1>8. p \o a \in Seq(Word)
  BY <1>3
<1>9. p \o Append(a, x) = Append(p \o a, x)
  BY <1>3
<1>10. Upto(p, w, k + 1) = Append(Upto(p, w, k), x)
  BY <1>1, <1>6, <1>7, <1>9, Zenon DEF Upto
<1>11. ASSUME k # 0 PROVE LastHigh(p \o a) <=> LowSurrogate(x)
  <2>1. k \in 1 .. n - 1 /\ k \in 1 .. k
    BY <1>2, <1>11
  <2>2. HighSurrogate(w[k]) <=> LowSurrogate(w[k + 1])
    BY <1>2, <2>1, Zenon DEF UnitsOK
  <2>3. PICK v : v = p \o a
    OBVIOUS
  <2>4. Len(v) = Len(p) + k /\ v[Len(p) + k] = a[k] /\ v # <<>>
    <3>1. /\ Len(v) = Len(p) + Len(a) /\ Len(p) \in Nat
          /\ \A i \in 1 .. Len(a) : v[Len(p) + i] = a[i]
      <4>1. Len(p) \in Nat
        OBVIOUS
      <4>2. ASSUME NEW c \in Seq(Word)
            PROVE  /\ Len(p \o c) = Len(p) + Len(c)
                   /\ \A i \in 1 .. Len(c) : (p \o c)[Len(p) + i] = c[i]
        BY Joined2
      <4> QED BY <1>3, <2>3, <4>1, <4>2, Zenon
    <3>2. Len(v) = Len(p) + k /\ v[Len(p) + k] = a[k]
      BY <1>3, <2>1, <3>1, Zenon
    <3>3. Len(v) # 0
      BY <2>1, <3>1, <3>2
    <3>4. v # <<>>
      BY <3>3
    <3> QED BY <3>2, <3>4
  <2>5. v[Len(v)] = w[k]
    BY <1>3, <2>1, <2>4, Zenon
  <2> QED BY <1>7, <2>2, <2>3, <2>4, <2>5, Zenon DEF LastHigh
<1> QED BY <1>1, <1>5, <1>7, <1>8, <1>10, <1>11, Zenon DEF Upto

LEMMA UptoEnds ==
  ASSUME NEW p \in Seq(Word), NEW w \in Seq(Word)
  PROVE  Upto(p, w, 0) = p /\ Upto(p, w, Len(w)) = p \o w
BY DEF Upto

LEMMA FirstTold == Told(First, <<>>, 0)
<1>1. <<>> \in Seq(Unicode)
  OBVIOUS
<1>2. First.out = <<>>
  BY DEF First
<1>3. Near(<<>>, <<>>, 0)
  BY DEF Near
<1> QED BY <1>1, <1>2, <1>3, Utf8None, PointsNone, Zenon DEF Told

\* A reader that remembers the half the text before ended in, if it did,
\* reads the whole text.
LEMMA WholeRead ==
  ASSUME NEW w \in Seq(Word), UnitsOK(w), NEW after, Reading(after, w),
         NEW p \in Seq(Word), Told(First, p, 0), Halfway(First, p),
         w # <<>> => (LastHigh(p) <=> LowSurrogate(w[1]))
  PROVE  Told(after[Len(w)], p \o w, 0)
<1>1. PICK n \in Nat : n = Len(w)
  OBVIOUS
<1> DEFINE S == {k \in 0 .. n : /\ Told(after[k], Upto(p, w, k), 0)
                                /\ Halfway(after[k], Upto(p, w, k))}
<1>2. 0 \in S
  <2>1. after[0] = First
    BY Zenon DEF Reading
  <2>2. Upto(p, w, 0) = p
    BY UptoEnds
  <2>3. Told(after[0], Upto(p, w, 0), 0) /\ Halfway(after[0], Upto(p, w, 0))
    BY <2>1, <2>2, Zenon
  <2>4. 0 \in 0 .. n
    OBVIOUS
  <2> QED BY <2>3, <2>4, Zenon
<1>3. ASSUME NEW k \in 0 .. n - 1, k \in S PROVE k + 1 \in S
  <2>1. k + 1 \in 1 .. n /\ k + 1 \in 0 .. n /\ (k + 1) - 1 = k
    OBVIOUS
  <2>2. after[k + 1] = Nxt(after[k], w[k + 1])
    BY <1>1, <2>1, Zenon DEF Reading
  <2>3. PICK v \in Seq(Word), u \in Word :
          /\ v = Upto(p, w, k) /\ u = w[k + 1] /\ Upto(p, w, k + 1) = Append(v, u)
          /\ k # 0 => (LastHigh(v) <=> LowSurrogate(u))
    BY <1>1, UptoNext, ZenonT(40)
  <2>4. LastHigh(v) <=> LowSurrogate(u)
    <3>1. CASE k = 0
      <4>1. v = p
        BY <2>3, <3>1, UptoEnds, Zenon
      <4>2. 0 + 1 = 1
        OBVIOUS
      <4>3. w # <<>>
        BY <1>1, <2>1
      <4>4. u = w[1]
        BY <2>3, <3>1, <4>2, Zenon
      <4> QED BY <4>1, <4>3, <4>4, Zenon
    <3>2. CASE k # 0
      BY <2>3, <3>2, Zenon
    <3> QED BY <3>1, <3>2
  <2>5. Told(after[k], v, 0) /\ Halfway(after[k], v)
    BY <1>3, <2>3, Zenon
  <2>6. Told(Nxt(after[k], u), Append(v, u), 0) /\ Halfway(Nxt(after[k], u), Append(v, u))
    BY <2>4, <2>5, WholeNext, Zenon
  <2>7. Told(after[k + 1], Upto(p, w, k + 1), 0) /\ Halfway(after[k + 1], Upto(p, w, k + 1))
    BY <2>2, <2>3, <2>6, Zenon
  <2> QED BY <2>1, <2>7, Zenon
<1>4. n \in S
  <2>1. 0 .. n \subseteq S
    <3> HIDE DEF S
    <3> QED BY <1>2, <1>3, UpTo
  <2>2. n \in 0 .. n
    OBVIOUS
  <2> QED BY <2>1, <2>2, Zenon
<1>5. Upto(p, w, n) = p \o w
  BY <1>1, UptoEnds, Zenon
<1> QED BY <1>1, <1>4, <1>5, Zenon

\* One whose half was never completed reads all but one character.
LEMMA SpoiltRead ==
  ASSUME NEW w \in Seq(Word), UnitsOK(w), NEW after, Reading(after, w),
         First.start = TRUE, First.high \in Word, HighSurrogate(First.high),
         w # <<>> => ~LowSurrogate(w[1])
  PROVE  \E e \in Nat : Told(after[Len(w)], w, e)
<1>1. PICK n \in Nat : n = Len(w)
  OBVIOUS
<1>2. PICK h \in Word, p \in Seq(Word) : h = First.high /\ p = <<>> /\ HighSurrogate(h)
  <2>1. <<>> \in Seq(Word)
    OBVIOUS
  <2> QED BY <2>1
<1> DEFINE Now(k) == Told(after[k], Upto(p, w, k), 0) /\ Behindhand(after[k], Upto(p, w, k), h)
           Then(k) == \E e \in Nat : Told(after[k], Upto(p, w, k), e)
                                     /\ Halfway(after[k], Upto(p, w, k))
           S == {k \in 0 .. n : Now(k) \/ Then(k)}
<1>3. 0 \in S
  <2>1. after[0] = First
    BY Zenon DEF Reading
  <2>2. Upto(p, w, 0) = <<>>
    BY <1>2, UptoEnds, Zenon
  <2>3. ~LastHigh(<<>>)
    BY DEF LastHigh
  <2>4. Behindhand(First, <<>>, h)
    BY <1>2, <2>3, Zenon DEF Behindhand
  <2>5. Now(0)
    BY <2>1, <2>2, <2>4, FirstTold, Zenon
  <2>6. 0 \in 0 .. n
    OBVIOUS
  <2> QED BY <2>5, <2>6, Zenon
<1>4. ASSUME NEW k \in 0 .. n - 1, k \in S PROVE k + 1 \in S
  <2>1. k + 1 \in 1 .. n /\ k + 1 \in 0 .. n /\ (k + 1) - 1 = k
    OBVIOUS
  <2>2. after[k + 1] = Nxt(after[k], w[k + 1])
    BY <1>1, <2>1, Zenon DEF Reading
  <2>3. PICK v \in Seq(Word), u \in Word :
          /\ v = Upto(p, w, k) /\ u = w[k + 1] /\ Upto(p, w, k + 1) = Append(v, u)
          /\ k # 0 => (LastHigh(v) <=> LowSurrogate(u))
    BY <1>1, UptoNext, Zenon
  <2>4. k = 0 => v = <<>> /\ ~LowSurrogate(u)
    <3>1. 0 + 1 = 1
      OBVIOUS
    <3>2. w # <<>>
      BY <1>1, <2>1
    <3> QED BY <1>2, <2>3, <3>1, <3>2, UptoEnds, Zenon
  <2>5. ~LastHigh(<<>>)
    BY DEF LastHigh
  <2>6. LastHigh(v) <=> LowSurrogate(u)
    BY <2>3, <2>4, <2>5, Zenon
  <2>7. CASE Now(k)
    <3>1. Told(after[k], v, 0) /\ Behindhand(after[k], v, h)
      BY <2>3, <2>7, Zenon
    <3>2. ~LowSurrogate(u)
      BY <2>6, <3>1, Zenon DEF Behindhand
    <3>3. \/ Told(Nxt(after[k], u), Append(v, u), 0)
             /\ Behindhand(Nxt(after[k], u), Append(v, u), h)
          \/ \E e \in Nat : /\ Told(Nxt(after[k], u), Append(v, u), e)
                            /\ Halfway(Nxt(after[k], u), Append(v, u))
      BY <1>2, <3>1, <3>2, BehindhandNext, Zenon
    <3>4. Now(k + 1) \/ Then(k + 1)
      BY <2>2, <2>3, <3>3, Zenon
    <3> QED BY <2>1, <3>4, Zenon
  <2>8. CASE Then(k)
    <3>1. PICK e \in Nat : Told(after[k], v, e) /\ Halfway(after[k], v)
      BY <2>3, <2>8, Zenon
    <3>2. Told(Nxt(after[k], u), Append(v, u), e) /\ Halfway(Nxt(after[k], u), Append(v, u))
      BY <2>6, <3>1, WholeNext, Zenon
    <3>3. Then(k + 1)
      BY <2>2, <2>3, <3>2, Zenon
    <3> QED BY <2>1, <3>3, Zenon
  <2> QED BY <1>4, <2>7, <2>8, Zenon
<1>5. n \in S
  <2>1. 0 .. n \subseteq S
    <3> HIDE DEF S
    <3> QED BY <1>3, <1>4, UpTo
  <2>2. n \in 0 .. n
    OBVIOUS
  <2> QED BY <2>1, <2>2, Zenon
<1>6. Upto(p, w, n) = p \o w
  BY <1>1, UptoEnds, Zenon
<1>7. p \o w = w
  BY <1>2
<1>8. 0 \in Nat
  OBVIOUS
<1> QED BY <1>1, <1>5, <1>6, <1>7, <1>8, Zenon

\* The reader ends in the half that is awaited: the last unit that is not small
\* decides.
Settled(s, w, k) ==
  \/ (\A i \in 1 .. k : Small(w[i])) /\ s.start = First.start /\ s.high = First.high
  \/ \E l \in 1 .. k :
       /\ ~Small(w[l]) /\ \A i \in l + 1 .. k : Small(w[i])
       /\ HighSurrogate(w[l]) => s.start = TRUE /\ s.high = w[l]
       /\ ~HighSurrogate(w[l]) => s.start = FALSE

LEMMA SettledNext ==
  ASSUME NEW w \in Seq(Word), NEW k \in 0 .. Len(w) - 1, NEW s, Settled(s, w, k),
         First.start \in BOOLEAN
  PROVE  Settled(Nxt(s, w[k + 1]), w, k + 1)
<1>1. PICK t, u : t = Nxt(s, u) /\ u = w[k + 1] /\ u \in Word
  <2>1. k + 1 \in 1 .. Len(w)
    OBVIOUS
  <2>2. w[k + 1] \in Word
    BY <2>1, Elements
  <2> QED BY <2>2, Zenon
<1>2. k + 1 \in 1 .. k + 1 /\ \A i : i \notin (k + 1) + 1 .. k + 1
  OBVIOUS
<1>3. \A i \in 1 .. k + 1 : i \in 1 .. k \/ i = k + 1
  OBVIOUS
<1>4. s.start = TRUE \/ s.start = FALSE
  BY DEF Settled
<1>5. CASE HighSurrogate(u)
  <2>1. ~Small(u)
    BY <1>1, <1>5, Kinds, Zenon
  <2>2. t.start = TRUE /\ t.high = u
    BY <1>1, <1>5, NxtHigh, Zenon
  <2> QED BY <1>1, <1>2, <1>5, <2>1, <2>2, Zenon DEF Settled
<1>6. CASE ~HighSurrogate(u) /\ ~Small(u)
  <2>1. t.start = FALSE
    BY <1>1, <1>4, <1>6, NxtSecond, NxtPlain, Zenon
  <2> QED BY <1>1, <1>2, <1>6, <2>1, Zenon DEF Settled
<1>7. CASE Small(u)
  <2>1. ~HighSurrogate(u)
    BY <1>1, <1>7, Kinds, Zenon
  <2>2. t.start = s.start /\ t.high = s.high
    BY <1>1, <1>7, <2>1, NxtPlain, Zenon
  <2>3. \A l \in 1 .. k : l \in 1 .. k + 1 /\ \A i \in l + 1 .. k + 1 : i \in l + 1 .. k \/ i = k + 1
    OBVIOUS
  <2>4. CASE (\A i \in 1 .. k : Small(w[i])) /\ s.start = First.start /\ s.high = First.high
    <3>1. \A i \in 1 .. k + 1 : Small(w[i])
      BY <1>1, <1>3, <1>7, <2>4, Zenon
    <3> QED BY <1>1, <2>2, <2>4, <3>1, Zenon DEF Settled
  <2>5. ASSUME NEW l \in 1 .. k,
               ~Small(w[l]) /\ \A i \in l + 1 .. k : Small(w[i]),
               HighSurrogate(w[l]) => s.start = TRUE /\ s.high = w[l],
               ~HighSurrogate(w[l]) => s.start = FALSE
        PROVE  Settled(t, w, k + 1)
    <3>1. \A i \in l + 1 .. k + 1 : Small(w[i])
      BY <1>1, <1>7, <2>3, <2>5, Zenon
    <3>2. l \in 1 .. k + 1
      BY <2>3, Zenon
    <3> QED BY <2>2, <2>5, <3>1, <3>2, Zenon DEF Settled
  <2> QED BY <1>1, <2>4, <2>5, Zenon DEF Settled
<1> QED BY <1>5, <1>6, <1>7

LEMMA ReadSettled ==
  ASSUME NEW w \in Seq(Word), NEW after, Reading(after, w), First.start \in BOOLEAN
  PROVE  Settled(after[Len(w)], w, Len(w))
<1>1. PICK n \in Nat : n = Len(w)
  OBVIOUS
<1> DEFINE S == {k \in 0 .. n : Settled(after[k], w, k)}
<1>2. 0 \in S
  <2>1. after[0] = First
    BY Zenon DEF Reading
  <2>2. \A i : i \notin 1 .. 0
    OBVIOUS
  <2>3. Settled(after[0], w, 0)
    BY <2>1, <2>2, Zenon DEF Settled
  <2>4. 0 \in 0 .. n
    OBVIOUS
  <2> QED BY <2>3, <2>4, Zenon
<1>3. ASSUME NEW k \in 0 .. n - 1, k \in S PROVE k + 1 \in S
  <2>1. k + 1 \in 1 .. n /\ k + 1 \in 0 .. n /\ (k + 1) - 1 = k
    OBVIOUS
  <2>2. after[k + 1] = Nxt(after[k], w[k + 1])
    BY <1>1, <2>1, Zenon DEF Reading
  <2>3. Settled(after[k + 1], w, k + 1)
    BY <1>1, <1>3, <2>2, SettledNext, Zenon
  <2> QED BY <2>1, <2>3, Zenon
<1>4. n \in S
  <2>1. 0 .. n \subseteq S
    <3> HIDE DEF S
    <3> QED BY <1>2, <1>3, UpTo
  <2>2. n \in 0 .. n
    OBVIOUS
  <2> QED BY <2>1, <2>2, Zenon
<1> QED BY <1>1, <1>4, Zenon

LEMMA AwaitedIs ==
  ASSUME NEW w \in Seq(Word)
  PROVE  /\ (\A i \in 1 .. Len(w) : Small(w[i])) => Awaited(w) = dangling
         /\ \A l \in 1 .. Len(w) :
              ~Small(w[l]) /\ (\A i \in l + 1 .. Len(w) : Small(w[i])) =>
                Awaited(w) = IF HighSurrogate(w[l]) THEN <<w[l]>> ELSE <<>>
<1> DEFINE I == {i \in 1 .. Len(w) : ~Small(w[i])}
           last == IF I # {} THEN Max(I) ELSE 0
<1>1. Awaited(w) = IF last = 0 THEN dangling
                   ELSE IF HighSurrogate(w[last]) THEN <<w[last]>> ELSE <<>>
  BY DEF Awaited, SelectLastInSeq, Small
<1>2. ASSUME \A i \in 1 .. Len(w) : Small(w[i]) PROVE last = 0
  BY <1>2
<1>3. ASSUME NEW l \in 1 .. Len(w), ~Small(w[l]), \A i \in l + 1 .. Len(w) : Small(w[i])
      PROVE  last = l /\ l # 0
  <2>1. l \in I /\ l # 0
    BY <1>3
  <2>2. \A i \in I : i <= l /\ i \in Int
    BY <1>3
  <2> HIDE DEF I
  <2>3. PICK m : m = Max(I)
    OBVIOUS
  <2>4. m \in I /\ \A i \in I : m >= i
    <3>1. \E x \in I : \A y \in I : x >= y
      BY <2>1, <2>2
    <3> QED BY <2>3, <3>1, Zenon DEF Max
  <2>5. m = l
    BY <2>1, <2>2, <2>4
  <2> QED BY <2>1, <2>3, <2>5, Zenon
<1> HIDE DEF last
<1> QED BY <1>1, <1>2, <1>3, Zenon

\* What the reader remembers is the half the texts read so far end in.
HalfHeld ==
  /\ SPstart \in BOOLEAN
  /\ SPstart = TRUE => dangling = <<spair>> /\ spair \in Word /\ HighSurrogate(spair)
  /\ SPstart = FALSE => dangling = <<>>

\* A text of 16-bit units in a PDU.
LEMMA WideText ==
  ASSUME NEW m \in Messages, ~Unreadable(m), m.alphabet # "7BIT"
  PROVE  /\ m.alphabet = "16BIT" /\ m.text \in Seq(Word) /\ UnitsOK(m.text)
         /\ Read16(m) = Utf8Of(Octets(m.text))
<1>1. m.alphabet # "8BIT"
  <2>1. Coding(m) # 4
    BY Zenon DEF Unreadable
  <2> QED BY <2>1, Zenon DEF Coding
<1>2. m.alphabet = "16BIT" /\ UnitsOK(m.text)
  BY <1>1, PduAssumption DEF MessageOK
<1>3. m.text \in Seq(Word)
  BY <1>2, Zenon DEF UnitsOK
<1>4. PICK h \in Seq(Byte), o \in Seq(Byte) :
        h = m.header /\ o = Octets(m.text) /\ Rest(m) = o
  BY <1>3, DataShape, DataCut, OctetsShape, Zenon
<1>5. Size(m) = Len(h \o o)
  BY <1>4, Zenon DEF Size
<1>6. Size(m) - Len(h) = Len(o)
  <2>1. Len(h \o o) = Len(h) + Len(o)
    OBVIOUS
  <2> QED BY <1>5, <2>1
<1>7. SubSeq(o, 1, Len(o)) = o
  OBVIOUS
<1> QED BY <1>2, <1>3, <1>4, <1>6, <1>7, Zenon DEF Read16

\* The half is held.
LEMMA HeldNext ==
  ASSUME HalfHeld, NEW w \in Seq(Word), SPstart' = Utf8Of(Octets(w)).start,
         spair' = Utf8Of(Octets(w)).high, dangling' = Awaited(w)
  PROVE  HalfHeld'
<1>1. PICK after : Reading(after, w)
  BY AfterBuilt
<1>2. PICK n, s : n \in Nat /\ n = Len(w) /\ s = after[n]
  OBVIOUS
<1>3. SPstart' = s.start /\ spair' = s.high
  BY <1>1, <1>2, Zenon DEF Reading
<1>4. First.start = SPstart /\ First.high = spair
  BY DEF First
<1>5. Settled(s, w, n)
  <2>1. First.start \in BOOLEAN
    BY <1>4, Zenon DEF HalfHeld
  <2> QED BY <1>1, <1>2, <2>1, ReadSettled, Zenon
<1>6. CASE (\A i \in 1 .. n : Small(w[i])) /\ s.start = First.start /\ s.high = First.high
  <2>1. dangling' = dangling
    BY <1>2, <1>6, AwaitedIs, Zenon
  <2> QED BY <1>3, <1>4, <1>6, <2>1, Zenon DEF HalfHeld
<1>7. ASSUME NEW l \in 1 .. n,
             ~Small(w[l]) /\ \A i \in l + 1 .. n : Small(w[i]),
             HighSurrogate(w[l]) => s.start = TRUE /\ s.high = w[l],
             ~HighSurrogate(w[l]) => s.start = FALSE
      PROVE  HalfHeld'
  <2>1. dangling' = IF HighSurrogate(w[l]) THEN <<w[l]>> ELSE <<>>
    BY <1>2, <1>7, AwaitedIs, Zenon
  <2>2. w[l] \in Word
    BY <1>2, Elements
  <2>3. TRUE # FALSE /\ TRUE \in BOOLEAN /\ FALSE \in BOOLEAN
    OBVIOUS
  <2>4. CASE HighSurrogate(w[l])
    BY <1>3, <1>7, <2>1, <2>2, <2>3, <2>4, Zenon DEF HalfHeld
  <2>5. CASE ~HighSurrogate(w[l])
    BY <1>3, <1>7, <2>1, <2>3, <2>5, Zenon DEF HalfHeld
  <2> QED BY <2>4, <2>5
<1> QED BY <1>5, <1>6, <1>7, Zenon DEF Settled

\* A text told exactly reads as it is.
LEMMA ToldAll ==
  ASSUME NEW s, NEW w \in Seq(Word), Told(s, w, 0)
  PROVE  CodePoints(s.out) = Points(w)
<1>1. PICK cps \in Seq(Unicode) : s.out = Utf8(cps) /\ Near(cps, Points(w), 0)
  BY DEF Told
<1>2. PICK p \in Seq(Int) : p = Points(w)
  BY PointsInts
<1>3. Near(cps, p, 0)
  BY <1>1, <1>2, Zenon
<1>4. cps = p
  <2>1. Len(cps) = Len(p)
    BY <1>3, Zenon DEF Near
  <2>2. \A i \in 1 .. Len(p) : cps[i] = p[i]
    BY <1>3 DEF Near
  <2> QED BY <2>1, <2>2
<1>5. CodePoints(Utf8(cps)) = cps
  BY Utf8Read
<1> QED BY <1>1, <1>2, <1>4, <1>5, Zenon

\* What TextReceived says of a message that is read when half was pending.
Arrives(m, half, work) ==
  LET got == CodePoints(work)
      second == m.alphabet = "16BIT" /\ m.text # <<>> /\ LowSurrogate(m.text[1])
      sent == IF m.alphabet = "7BIT" THEN m.text
              ELSE Points((IF second THEN half ELSE <<>>) \o m.text)
  IN IF m.alphabet = "7BIT" \/ (half = <<>>) = ~second THEN got = sent
     ELSE half # <<>> =>
       /\ Len(got) = Len(sent)
       /\ \A i, j \in DOMAIN sent : got[i] # sent[i] /\ got[j] # sent[j] => i = j

LEMMA WideArrives ==
  ASSUME HalfHeld, NEW m \in Messages, ~Unreadable(m), m.alphabet # "7BIT"
  PROVE  Arrives(m, dangling, Read16(m).out)
<1>1. PICK w \in Seq(Word) : /\ w = m.text /\ UnitsOK(w) /\ m.alphabet = "16BIT"
                             /\ Read16(m) = Utf8Of(Octets(w))
  BY WideText, Zenon
<1>2. PICK after : Reading(after, w)
  BY AfterBuilt
<1>3. PICK s : s = after[Len(w)] /\ Read16(m) = s
  BY <1>1, <1>2, Zenon DEF Reading
<1>4. First.start = SPstart /\ First.high = spair /\ First.out = <<>>
  BY DEF First
<1>5. ~LastHigh(<<>>) /\ <<>> \in Seq(Word) /\ <<>> \o w = w
  BY DEF LastHigh
<1>6. PICK second \in BOOLEAN : second = (w # <<>> /\ LowSurrogate(w[1]))
  <2> DEFINE b == w # <<>> /\ LowSurrogate(w[1])
  <2>1. b \in BOOLEAN
    OBVIOUS
  <2> HIDE DEF b
  <2>2. \E x \in BOOLEAN : x = b
    BY <2>1
  <2> QED BY <2>2 DEF b
<1>7. CASE ~second /\ dangling = <<>>
  <2>1. SPstart = FALSE
    <3>1. <<spair>> # <<>>
      OBVIOUS
    <3> QED BY <1>7, <3>1, Zenon DEF HalfHeld
  <2>2. Halfway(First, <<>>)
    BY <1>4, <1>5, <2>1, Zenon DEF Halfway
  <2>3. Told(s, <<>> \o w, 0)
    BY <1>1, <1>2, <1>3, <1>5, <1>6, <1>7, <2>2, FirstTold, WholeRead, Zenon
  <2>4. CodePoints(s.out) = Points(<<>> \o w)
    BY <1>5, <2>3, ToldAll, Zenon
  <2> QED BY <1>1, <1>3, <1>6, <1>7, <2>4, Zenon DEF Arrives
<1>8. CASE dangling # <<>>
  <2>1. SPstart = TRUE /\ dangling = <<spair>> /\ spair \in Word /\ HighSurrogate(spair)
    BY <1>8, Zenon DEF HalfHeld
  <2>2. CASE second
    <3>1. PICK p \in Seq(Word) : p = <<spair>> /\ p = Append(<<>>, spair)
      <4>1. <<spair>> \in Seq(Word) /\ <<spair>> = Append(<<>>, spair)
        BY <2>1
      <4> QED BY <4>1, Zenon
    <3>2. LastHigh(p) /\ p[Len(p)] = spair
      BY <1>5, <2>1, <3>1, LastOf, Zenon
    <3>3. Halfway(First, p)
      BY <1>4, <2>1, <3>2, Zenon DEF Halfway
    <3>4. Told(First, p, 0)
      <4>1. ~LowSurrogate(spair)
        BY <2>1, SMTT(30) DEF HighSurrogate, LowSurrogate
      <4>2. More(<<>>, spair) = <<>>
        BY <2>1, <4>1, Zenon DEF More
      <4>3. First.out = First.out \o <<>>
        BY <1>4
      <4> QED BY <1>5, <2>1, <3>1, <4>2, <4>3, FirstTold, ToldNothing, Zenon
    <3>5. Told(s, p \o w, 0)
      BY <1>1, <1>2, <1>3, <1>6, <2>2, <3>2, <3>3, <3>4, WholeRead, Zenon
    <3>6. CodePoints(s.out) = Points(p \o w)
      <4>1. p \o w \in Seq(Word)
        OBVIOUS
      <4> QED BY <3>5, <4>1, ToldAll, Zenon
    <3>7. p = dangling
      BY <2>1, <3>1, Zenon
    <3> QED BY <1>1, <1>3, <1>6, <1>8, <2>2, <3>6, <3>7, Zenon DEF Arrives
  <2>3. CASE ~second
    <3>1. PICK e \in Nat : Told(s, w, e)
      BY <1>1, <1>2, <1>3, <1>4, <1>6, <2>1, <2>3, SpoiltRead, Zenon
    <3>2. PICK cps \in Seq(Unicode) : s.out = Utf8(cps) /\ Near(cps, Points(w), e)
      BY <3>1, Zenon DEF Told
    <3>3. PICK p \in Seq(Int) : p = Points(w) /\ DOMAIN p = 1 .. Len(p)
      BY PointsInts, Elements
    <3>4. CodePoints(s.out) = cps
      BY <3>2, Utf8Read, Zenon
    <3>5. Len(cps) = Len(p) /\ \A i \in DOMAIN p : cps[i] # p[i] => i = e
      BY <3>2, <3>3, Zenon DEF Near
    <3>6. Points((IF second THEN dangling ELSE <<>>) \o w) = p
      BY <1>5, <2>3, <3>3, Zenon
    <3> QED BY <1>1, <1>3, <1>6, <1>8, <2>3, <3>4, <3>5, <3>6, Zenon DEF Arrives
  <2> QED BY <2>2, <2>3
<1>9. CASE second /\ dangling = <<>>
  BY <1>1, <1>6, <1>9, Zenon DEF Arrives
<1> QED BY <1>6, <1>7, <1>8, <1>9

LEMMA NarrowArrives ==
  ASSUME NEW m \in Messages, m.alphabet = "7BIT", Readable(m), NEW g, NEW half
  PROVE  Arrives(m, half,
                 convert_7bit_to_unicode(SeptetText(Rest(m), Size(m), m.header, g), g))
<1>1. PICK cps \in Seq(Exact) :
        cps = m.text /\ SeptetText(Rest(m), Size(m), m.header, g) = Septets7(cps)
  BY NarrowReceived, Zenon
<1>2. convert_7bit_to_unicode(Septets7(cps), g) = Utf8(cps)
  BY GsmRead
<1>3. CodePoints(Utf8(cps)) = cps
  BY ExactUnicode, Utf8Read, Zenon
<1> QED BY <1>1, <1>2, <1>3, Zenon DEF Arrives

\* Texts arrive as they were written, also in parts that cut a character in two.
THEOREM TextsArrive == Spec => []TextReceived
<1>1. Init => HalfHeld /\ TextReceived
  BY DEF Init, None, HalfHeld, TextReceived
<1>2. HalfHeld /\ TextReceived /\ [Next]_vars => HalfHeld' /\ TextReceived'
  <2> SUFFICES ASSUME HalfHeld, TextReceived, [Next]_vars
               PROVE  HalfHeld' /\ TextReceived'
    OBVIOUS
  <2>1. CASE Encode
    <3>1. call'.op = "encode" /\ UNCHANGED inbound
      BY <2>1 DEF Encode, encodePDU
    <3> QED BY <3>1 DEF inbound, HalfHeld, TextReceived
  <2>2. CASE Decode
    <3>1. PICK m \in Messages, g \in Garbage :
            /\ decodePDU(Wire[m], g)
            /\ call' = [op |-> "decode", message |-> m, half |-> dangling]
            /\ dangling' = IF rc' = "ok" /\ m.alphabet = "16BIT" THEN Awaited(m.text)
                                                                 ELSE dangling
      BY <2>2, Zenon DEF Decode
    <3>2. call'.message = m /\ call'.half = dangling
      BY <3>1
    <3>3. TextReceived' <=>
            (call'.op = "decode" /\ rc' = "ok" /\ Readable(m) =>
               Arrives(m, dangling, generalWorkBuff'))
      BY <3>2, Zenon DEF TextReceived, Arrives
    <3>4. CASE rc' # "ok"
      <4>1. UNCHANGED <<SPstart, spair>>
        <5>1. CASE m.from.kind = "other"
          BY <3>1, <5>1, Decoded, Zenon
        <5>2. CASE m.from.kind # "other"
          <6>1. Decoding(m, g)
            BY <3>1, <5>2, Decoded, Zenon
          <6> QED BY <3>4, <6>1, Zenon DEF Decoding, Undecoded
        <5> QED BY <5>1, <5>2
      <4>2. dangling' = dangling
        BY <3>1, <3>4, Zenon
      <4>3. HalfHeld'
        BY <4>1, <4>2 DEF HalfHeld
      <4> QED BY <3>3, <3>4, <4>3, Zenon
    <3>5. CASE rc' = "ok"
      <4>1. Decoding(m, g)
        <5>1. "ok" # "failed"
          OBVIOUS
        <5> QED BY <3>1, <3>5, <5>1, Decoded, Zenon
      <4>2. ~Unreadable(m)
        <5>1. "ok" # "failed"
          OBVIOUS
        <5> QED BY <3>5, <4>1, <5>1, Zenon DEF Decoding
      <4>3. CASE m.alphabet = "7BIT"
        <5>1. /\ generalWorkBuff' =
                   convert_7bit_to_unicode(SeptetText(Rest(m), Size(m), m.header, g), g)
              /\ UNCHANGED <<SPstart, spair>>
          BY <4>1, <4>2, <4>3, Zenon DEF Decoding
        <5>2. dangling' = dangling
          <6>1. "7BIT" # "16BIT"
            OBVIOUS
          <6> QED BY <3>1, <4>3, <6>1, Zenon
        <5>3. HalfHeld'
          BY <5>1, <5>2 DEF HalfHeld
        <5>4. Readable(m) => Arrives(m, dangling, generalWorkBuff')
          BY <4>3, <5>1, NarrowArrives, Zenon
        <5> QED BY <3>3, <5>3, <5>4, Zenon
      <4>4. CASE m.alphabet # "7BIT"
        <5>1. /\ generalWorkBuff' = Read16(m).out
              /\ SPstart' = Read16(m).start /\ spair' = Read16(m).high
          BY <4>1, <4>2, <4>4, Zenon DEF Decoding
        <5>2. /\ m.alphabet = "16BIT" /\ m.text \in Seq(Word)
              /\ Read16(m) = Utf8Of(Octets(m.text))
          BY <4>2, <4>4, WideText, Zenon
        <5>3. HalfHeld'
          BY <3>1, <3>5, <5>1, <5>2, HeldNext, Zenon
        <5>4. Arrives(m, dangling, generalWorkBuff')
          BY <4>2, <4>4, <5>1, WideArrives, Zenon
        <5> QED BY <3>3, <5>3, <5>4, Zenon
      <4> QED BY <4>3, <4>4
    <3> QED BY <3>4, <3>5
  <2>3. CASE UNCHANGED vars
    BY <2>3 DEF vars, inbound, HalfHeld, TextReceived
  <2> QED BY <2>1, <2>2, <2>3 DEF Next
<1> QED BY <1>1, <1>2, PTL DEF Spec
=============================================================================
