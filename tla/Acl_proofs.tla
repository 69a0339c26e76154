---------------------------- MODULE Acl_proofs -----------------------------
(***************************************************************************)
(* The list in memory follows the file (InStep), a change that nobody has  *)
(* overwritten since is still in it (ChangeHolds), and each check is       *)
(* logged once, under its day (LogBook): for every set of names, keys and  *)
(* bodies, any number of changes and faults, and every order of the two    *)
(* tasks.                                                                  *)
(*                                                                         *)
(* First what module Acl computes with lists: what is loaded from rows is  *)
(* a list again, the order of the keys is total, and a list whose names    *)
(* have no comma is loaded from the rows that were stored of it as it was  *)
(* (LoadRows).  InStep is about who has changed the file since it was      *)
(* read, and who still owes a reload; what is read does not matter.        *)
(* ChangeHolds also needs LoadRows.                                        *)
(***************************************************************************)
EXTENDS Acl, LeastNumber, FiniteSetTheorems, TLAPS

\* A list as the program has them: finite, from texts to texts.
AList(l) == /\ IsList(l) /\ IsFiniteSet(DOMAIN l)
            /\ l = [k \in DOMAIN l |-> l[k]]

LEMMA FieldFacts == 0 \in Fields /\ Fields \subseteq Nat
BY AclAssumption

LEMMA NameType ==
  ASSUME NEW n \in Names PROVE n \in Text /\ n # None
BY AclAssumption DEF Text

LEMMA KeyType ==
  ASSUME NEW k \in Keys PROVE k \in Text
BY AclAssumption DEF Text

LEMMA BodyType ==
  ASSUME NEW body \in Bodies PROVE body \in Seq(Text)
BY AclAssumption DEF Text

\* Two texts, one after the other.
LEMMA Concat ==
  ASSUME NEW S, NEW s \in Seq(S), NEW t \in Seq(S)
  PROVE  /\ s \o t \in Seq(S) /\ Len(s \o t) = Len(s) + Len(t)
         /\ \A i \in 1 .. Len(s) : (s \o t)[i] = s[i]
         /\ \A i \in 1 .. Len(t) : (s \o t)[Len(s) + i] = t[i]
<1>1. s \o t \in Seq(S) /\ Len(s \o t) = Len(s) + Len(t)
  OBVIOUS
<1>2. \A i \in 1 .. Len(s) : (s \o t)[i] = s[i]
  OBVIOUS
<1>3. \A i \in 1 .. Len(t) : (s \o t)[Len(s) + i] = t[i]
  OBVIOUS
<1> QED BY <1>1, <1>2, <1>3

LEMMA TextFacts ==
  ASSUME NEW t \in Text
  PROVE  /\ t \in Seq(Fields) /\ Len(t) \in Nat \ {0} /\ DOMAIN t = 1 .. Len(t)
         /\ \A i \in 1 .. Len(t) : t[i] \in Nat
<1>1. t \in Seq(Fields) /\ t # <<>>
  BY DEF Text
<1>2. Len(t) # 0
  BY <1>1
<1>3. \A i \in 1 .. Len(t) : t[i] \in Fields
  BY <1>1
<1>4. DOMAIN t = 1 .. Len(t) /\ Len(t) \in Nat \ {0}
  BY <1>1, <1>2
<1> QED BY <1>1, <1>3, <1>4, FieldFacts

\* The name and the key of a row are texts.
LEMMA RowType ==
  ASSUME NEW row \in Text
  PROVE  NameIn(row) \in Text /\ KeyIn(row) \in Text
<1>1. row \in Seq(Fields) /\ Len(row) \in Nat \ {0}
  BY TextFacts
<1>2. CASE Len(row) = 1
  BY <1>2 DEF NameIn, KeyIn
<1>3. CASE Len(row) # 1
  <2>1. row[1] \in Fields
    BY <1>1
  <2>2. <<row[1]>> \in Text
    BY <2>1 DEF Text
  <2>3. Tail(row) \in Seq(Fields) /\ Len(Tail(row)) = Len(row) - 1
    BY <1>1
  <2>4. Tail(row) # <<>>
    <3>1. Len(Tail(row)) # 0
      BY <1>1, <1>3, <2>3
    <3>2. Len(<<>>) = 0
      OBVIOUS
    <3> QED BY <3>1, <3>2
  <2>5. Tail(row) \in Text
    BY <2>3, <2>4 DEF Text
  <2> QED BY <1>3, <2>2, <2>5 DEF NameIn, KeyIn
<1> QED BY <1>2, <1>3

\* The first row with a key that some row has is one.
LEMMA FirstRow ==
  ASSUME NEW rows \in Seq(Text), NEW k, k \in {KeyIn(rows[i]) : i \in DOMAIN rows}
  PROVE  FirstWith(rows, k) \in DOMAIN rows /\ KeyIn(rows[FirstWith(rows, k)]) = k
<1> DEFINE T == {i \in DOMAIN rows : KeyIn(rows[i]) = k}
<1>1. T # {} /\ T \subseteq Nat
  <2>1. DOMAIN rows = 1 .. Len(rows) /\ Len(rows) \in Nat
    OBVIOUS
  <2> QED BY <2>1
<1>2. \E x \in T : \A y \in T : x <= y
  <2> HIDE DEF T
  <2> QED BY <1>1, Least
<1>3. FirstWith(rows, k) = CHOOSE x \in T : \A y \in T : x <= y
  BY DEF FirstWith, Min
<1>4. FirstWith(rows, k) \in T
  <2> HIDE DEF T
  <2> QED BY <1>2, <1>3
<1> QED BY <1>4

LEMMA LoadType ==
  ASSUME NEW rows \in Seq(Text)
  PROVE  AList(Load(rows))
<1> DEFINE D == {KeyIn(rows[i]) : i \in DOMAIN rows}
           n == Len(rows)
           f == [i \in 1 .. n |-> KeyIn(rows[i])]
<1>1. DOMAIN rows = 1 .. n /\ n \in Nat
  OBVIOUS
<1>2. \A i \in 1 .. n : rows[i] \in Text
  BY <1>1
<1>3. Load(rows) = [k \in D |-> NameIn(rows[FirstWith(rows, k)])]
  BY DEF Load
<1>4. D \subseteq Text
  BY <1>1, <1>2, RowType
<1>5. \A k \in D : NameIn(rows[FirstWith(rows, k)]) \in Text
  BY <1>1, <1>2, RowType, FirstRow
<1>6. IsFiniteSet(D)
  <2>1. IsFiniteSet(1 .. n)
    BY <1>1, FS_Interval
  <2>2. f \in Surjection(1 .. n, D)
    <3>1. f \in [1 .. n -> D]
      BY <1>1
    <3>2. \A d \in D : \E i \in 1 .. n : f[i] = d
      BY <1>1
    <3> QED BY <3>1, <3>2 DEF Surjection
  <2> HIDE DEF D, f, n
  <2> QED BY <2>1, <2>2, FS_Surjection
<1> HIDE DEF D
<1> QED BY <1>3, <1>4, <1>5, <1>6 DEF AList, IsList

LEMMA NothingType == AList(Load(<<>>)) /\ Clean(Load(<<>>))
<1>1. <<>> \in Seq(Text)
  OBVIOUS
<1>2. DOMAIN Load(<<>>) = {}
  BY DEF Load
<1> QED BY <1>1, <1>2, LoadType DEF Clean

\* What add_acl and remove_acl make of a list is a list.
LEMMA ListTypes ==
  ASSUME NEW l, AList(l)
  PROVE  /\ \A n, k \in Text : AList(Emplace(l, n, k))
         /\ \A k : AList(Erase(l, k))
         /\ \A n : AList(Without(l, n)) /\ KeysOf(l, n) \subseteq Text
                   /\ IsFiniteSet(KeysOf(l, n))
<1>1. IsFiniteSet(DOMAIN l) /\ DOMAIN l \subseteq Text /\ \A k \in DOMAIN l : l[k] \in Text
  BY DEF AList, IsList
<1>2. ASSUME NEW n \in Text, NEW k \in Text PROVE AList(Emplace(l, n, k))
  <2>1. IsFiniteSet(DOMAIN l \cup {k})
    BY <1>1, FS_AddElement
  <2>2. DOMAIN Emplace(l, n, k) = DOMAIN l \cup {k}
    BY DEF Emplace
  <2>3. \A x \in DOMAIN l \cup {k} : Emplace(l, n, k)[x] \in Text
    BY <1>1, <1>2 DEF Emplace
  <2>4. Emplace(l, n, k) = [x \in DOMAIN l \cup {k} |-> Emplace(l, n, k)[x]]
    BY DEF Emplace
  <2> QED BY <1>1, <2>1, <2>2, <2>3, <2>4 DEF AList, IsList
<1>3. ASSUME NEW S, S \subseteq DOMAIN l PROVE AList([x \in S |-> l[x]])
  <2>1. IsFiniteSet(S)
    BY <1>1, <1>3, FS_Subset
  <2> QED BY <1>1, <1>3, <2>1 DEF AList, IsList
<1>4. \A k : AList(Erase(l, k))
  BY <1>3 DEF Erase
<1>5. ASSUME NEW n PROVE AList(Without(l, n))
  BY <1>3 DEF Without
<1>6. ASSUME NEW n PROVE KeysOf(l, n) \subseteq Text /\ IsFiniteSet(KeysOf(l, n))
  <2>1. KeysOf(l, n) \subseteq DOMAIN l
    BY DEF KeysOf
  <2> QED BY <1>1, <2>1, FS_Subset
<1> QED BY <1>2, <1>4, <1>5, <1>6

\* What add_acl() does is what its caller means, unless the call is refused.
LEMMA EmplaceMeans ==
  ASSUME NEW l, AList(l), NEW n, NEW k, ~(k \in DOMAIN l /\ l[k] # n)
  PROVE  With(l, n, k) = Emplace(l, n, k)
BY DEF AList, IsList, With, Emplace

\* Rows of one name and one key each, no key twice, are loaded as they are meant.
LEMMA LoadMeans ==
  ASSUME NEW rows \in Seq(Text), WellFormed(rows)
  PROVE  Load(rows) = Meant(rows)
<1>1. \A i \in DOMAIN rows : /\ rows[i] \in Text /\ Len(rows[i]) > 1
                              /\ KeyIn(rows[i]) = Tail(rows[i])
                              /\ NameIn(rows[i]) = <<Head(rows[i])>>
  <2> SUFFICES ASSUME NEW i \in DOMAIN rows
               PROVE  /\ rows[i] \in Text /\ Len(rows[i]) > 1
                      /\ KeyIn(rows[i]) = Tail(rows[i])
                      /\ NameIn(rows[i]) = <<Head(rows[i])>>
    OBVIOUS
  <2>1. rows[i] \in Text /\ Len(rows[i]) > 1
    BY DEF WellFormed
  <2>2. Len(rows[i]) # 1 /\ rows[i][1] = Head(rows[i])
    <3>1. ASSUME NEW t \in Seq(Fields), Len(t) > 1 PROVE Len(t) # 1 /\ t[1] = Head(t)
      BY <3>1
    <3> QED BY <2>1, <3>1, TextFacts
  <2> QED BY <2>1, <2>2 DEF KeyIn, NameIn
<1>2. {KeyIn(rows[i]) : i \in DOMAIN rows} = {Tail(rows[i]) : i \in DOMAIN rows}
  BY <1>1
<1>3. ASSUME NEW k \in {Tail(rows[i]) : i \in DOMAIN rows}
      PROVE  NameIn(rows[FirstWith(rows, k)])
             = <<Head(rows[CHOOSE i \in DOMAIN rows : Tail(rows[i]) = k])>>
  <2> DEFINE f == FirstWith(rows, k)
             c == CHOOSE i \in DOMAIN rows : Tail(rows[i]) = k
  <2>1. f \in DOMAIN rows /\ KeyIn(rows[f]) = k
    BY <1>2, FirstRow
  <2>2. c \in DOMAIN rows /\ Tail(rows[c]) = k
    OBVIOUS
  <2> HIDE DEF f, c
  <2>3. f = c
    BY <1>1, <2>1, <2>2 DEF WellFormed
  <2> QED BY <1>1, <2>1, <2>3 DEF f, c
<1> QED BY <1>2, <1>3 DEF Load, Meant

\* remove_acl() erases one entry after the other, and that is all of them.
LEMMA WithoutErased ==
  ASSUME NEW l, NEW n, NEW k \in KeysOf(l, n)
  PROVE  Without(Erase(l, k), n) = Without(l, n)
<1>1. DOMAIN Erase(l, k) = DOMAIN l \ {k} /\ \A x \in DOMAIN l \ {k} : Erase(l, k)[x] = l[x]
  BY DEF Erase
<1>2. KeysOf(Erase(l, k), n) = KeysOf(l, n) \ {k}
  BY <1>1 DEF KeysOf
<1>3. DOMAIN Erase(l, k) \ KeysOf(Erase(l, k), n) = DOMAIN l \ KeysOf(l, n)
  BY <1>1, <1>2 DEF KeysOf
<1>4. Without(Erase(l, k), n) = [x \in DOMAIN l \ KeysOf(l, n) |-> Erase(l, k)[x]]
  BY <1>3 DEF Without
<1>5. \A x \in DOMAIN l \ KeysOf(l, n) : Erase(l, k)[x] = l[x]
  BY <1>1
<1> QED BY <1>4, <1>5 DEF Without

LEMMA WithoutNone ==
  ASSUME NEW l, AList(l), NEW n, KeysOf(l, n) = {}
  PROVE  Without(l, n) = l
BY DEF AList, Without

-----------------------------------------------------------------------------
(* The order of the keys. *)

LEMMA Irreflexive ==
  ASSUME NEW s \in Text PROVE ~Before(s, s)
BY TextFacts DEF Before

LEMMA Transitive ==
  ASSUME NEW s \in Text, NEW t \in Text, NEW u \in Text, Before(s, t), Before(t, u)
  PROVE  Before(s, u)
<1>1. PICK i \in DOMAIN t : /\ i \in DOMAIN s => s[i] < t[i]
                            /\ i <= Len(s) + 1
                            /\ \A j \in 1 .. (i - 1) : s[j] = t[j]
  BY DEF Before
<1>2. PICK m \in DOMAIN u : /\ m \in DOMAIN t => t[m] < u[m]
                            /\ m <= Len(t) + 1
                            /\ \A j \in 1 .. (m - 1) : t[j] = u[j]
  BY DEF Before
<1>3. /\ Len(s) \in Nat /\ DOMAIN s = 1 .. Len(s)
      /\ Len(t) \in Nat /\ DOMAIN t = 1 .. Len(t)
      /\ Len(u) \in Nat /\ DOMAIN u = 1 .. Len(u)
      /\ \A j \in 1 .. Len(s) : s[j] \in Nat
      /\ \A j \in 1 .. Len(t) : t[j] \in Nat
      /\ \A j \in 1 .. Len(u) : u[j] \in Nat
  BY TextFacts
<1>4. CASE i < m
  <2>1. i \in DOMAIN u /\ t[i] = u[i] /\ \A j \in 1 .. (i - 1) : s[j] = u[j]
    BY <1>1, <1>2, <1>3, <1>4
  <2> QED BY <1>1, <2>1 DEF Before
<1>5. CASE i = m
  <2>1. i \in DOMAIN u /\ t[i] < u[i] /\ \A j \in 1 .. (i - 1) : s[j] = u[j]
    BY <1>1, <1>2, <1>3, <1>5
  <2>2. i \in DOMAIN s => s[i] < u[i]
    BY <1>1, <1>3, <2>1
  <2> QED BY <1>1, <2>1, <2>2 DEF Before
<1>6. CASE m < i
  <2>1. m \in DOMAIN s /\ m \in DOMAIN t /\ s[m] = t[m] /\ t[m] < u[m]
    BY <1>1, <1>2, <1>3, <1>6, SMTT(30)
  <2>2. \A j \in 1 .. (m - 1) : s[j] = u[j]
    BY <1>1, <1>2, <1>3, <1>6
  <2>3. m <= Len(s) + 1 /\ s[m] < u[m]
    BY <1>3, <2>1
  <2> QED BY <2>2, <2>3 DEF Before
<1> QED BY <1>3, <1>4, <1>5, <1>6

\* Of two texts that differ, one comes first: look at the first place where
\* they do.
LEMMA Total ==
  ASSUME NEW s \in Text, NEW t \in Text, s # t
  PROVE  Before(s, t) \/ Before(t, s)
<1> DEFINE T == {i \in Nat \ {0} : ~(i <= Len(s) /\ i <= Len(t) /\ s[i] = t[i])}
<1>1. /\ s \in Seq(Fields) /\ Len(s) \in Nat /\ DOMAIN s = 1 .. Len(s)
      /\ t \in Seq(Fields) /\ Len(t) \in Nat /\ DOMAIN t = 1 .. Len(t)
      /\ \A j \in 1 .. Len(s) : s[j] \in Nat
      /\ \A j \in 1 .. Len(t) : t[j] \in Nat
  BY TextFacts
<1>2. Len(s) + 1 \in T
  BY <1>1
<1>3. PICK i \in T : \A j \in T : i <= j
  <2>1. T \subseteq Nat /\ T # {}
    BY <1>2
  <2> HIDE DEF T
  <2> QED BY <2>1, Least
<1>4. \A j \in 1 .. i - 1 : j <= Len(s) /\ j <= Len(t) /\ s[j] = t[j]
  <2> SUFFICES ASSUME NEW j \in 1 .. i - 1 PROVE j \notin T
    OBVIOUS
  <2> QED BY <1>3
<1>5. i <= Len(s) + 1 /\ i <= Len(t) + 1 /\ i \in Nat \ {0}
  <2>1. CASE i = 1
    BY <1>1, <2>1
  <2>2. CASE i # 1
    <3>1. i - 1 \in 1 .. i - 1
      BY <2>2
    <3> QED BY <1>1, <1>4, <3>1
  <2> QED BY <2>1, <2>2
<1>6. i \in DOMAIN s \/ i \in DOMAIN t
  <2> SUFFICES ASSUME i \notin DOMAIN s, i \notin DOMAIN t PROVE FALSE
    OBVIOUS
  <2>1. Len(s) = i - 1 /\ Len(t) = i - 1
    BY <1>1, <1>5
  <2>2. \A j \in 1 .. Len(s) : s[j] = t[j]
    BY <1>4, <2>1
  <2> QED BY <1>1, <2>1, <2>2
<1>7. i \in DOMAIN s /\ i \in DOMAIN t => s[i] # t[i]
  BY <1>1, <1>3
<1> HIDE DEF T
<1>8. CASE i \in DOMAIN t /\ (i \in DOMAIN s => s[i] < t[i])
  BY <1>4, <1>5, <1>8 DEF Before
<1>9. CASE i \in DOMAIN s /\ (i \in DOMAIN t => t[i] < s[i])
  <2>1. \A j \in 1 .. (i - 1) : t[j] = s[j]
    BY <1>4
  <2> QED BY <1>5, <1>9, <2>1 DEF Before
<1> QED BY <1>1, <1>6, <1>7, <1>8, <1>9

\* A finite set of texts can be put in order: each goes to the place that the
\* number of those before it says.
LEMMA CanBeSorted ==
  ASSUME NEW S, S \subseteq Text, IsFiniteSet(S)
  PROVE  \E ks \in SetToSeqs(S) : \A i, j \in DOMAIN ks : i < j => Before(ks[i], ks[j])
<1> DEFINE n == Cardinality(S)
           Below(k) == {x \in S : Before(x, k)}
           place == [k \in S |-> Cardinality(Below(k)) + 1]
<1>1. n \in Nat
  BY FS_CardinalityType
<1>2. \A k \in S : IsFiniteSet(Below(k)) /\ Cardinality(Below(k)) \in Nat
  <2> SUFFICES ASSUME NEW k \in S
               PROVE  IsFiniteSet(Below(k)) /\ Cardinality(Below(k)) \in Nat
    OBVIOUS
  <2>1. Below(k) \subseteq S
    OBVIOUS
  <2> HIDE DEF Below
  <2> QED BY <2>1, FS_Subset, FS_CardinalityType
<1>3. ASSUME NEW T, T \subseteq S, NEW k \in S, k \notin T, NEW U, U \subseteq T
      PROVE  Cardinality(U) < Cardinality(T \cup {k})
  <2>1. IsFiniteSet(T) /\ Cardinality(T) \in Nat
    BY <1>3, FS_Subset, FS_CardinalityType
  <2>2. Cardinality(T \cup {k}) = Cardinality(T) + 1
    BY <1>3, <2>1, FS_AddElement
  <2>3. Cardinality(U) <= Cardinality(T) /\ Cardinality(U) \in Nat
    BY <1>3, <2>1, FS_Subset, FS_CardinalityType
  <2> QED BY <2>1, <2>2, <2>3
<1>4. ASSUME NEW k \in S, NEW m \in S, Before(k, m) PROVE place[k] < place[m]
  <2>1. Below(k) \cup {k} \subseteq Below(m)
    BY <1>4, Transitive
  <2>2. k \notin Below(k)
    BY Irreflexive
  <2>3. Cardinality(Below(k)) < Cardinality(Below(k) \cup {k})
    <3>1. Below(k) \subseteq S
      OBVIOUS
    <3> HIDE DEF Below
    <3> QED BY <1>3, <2>2, <3>1
  <2>4. Cardinality(Below(k) \cup {k}) <= Cardinality(Below(m))
    <3> HIDE DEF Below
    <3> QED BY <1>2, <2>1, FS_Subset
  <2>5. Cardinality(Below(k) \cup {k}) \in Nat
    <3> HIDE DEF Below
    <3>1. IsFiniteSet(Below(k) \cup {k})
      BY <1>2, FS_AddElement
    <3> QED BY <3>1, FS_CardinalityType
  <2> HIDE DEF Below
  <2> QED BY <1>2, <2>3, <2>4, <2>5
<1>5. place \in [S -> 1 .. n]
  <2> SUFFICES ASSUME NEW k \in S PROVE Cardinality(Below(k)) + 1 \in 1 .. n
    OBVIOUS
  <2>1. Below(k) \cup {k} \subseteq S /\ k \notin Below(k)
    BY Irreflexive
  <2> HIDE DEF Below
  <2>2. Cardinality(Below(k) \cup {k}) = Cardinality(Below(k)) + 1
    BY <1>2, <2>1, FS_AddElement
  <2>3. Cardinality(Below(k) \cup {k}) <= n
    BY <2>1, FS_Subset
  <2> HIDE DEF n
  <2> QED BY <1>1, <1>2, <2>2, <2>3
<1> HIDE DEF place, Below
<1>6. \A k, m \in S : place[k] = place[m] => k = m
  <2> SUFFICES ASSUME NEW k \in S, NEW m \in S, place[k] = place[m], k # m PROVE FALSE
    OBVIOUS
  <2>1. place[k] < place[m] \/ place[m] < place[k]
    BY <1>4, Total
  <2> QED BY <1>1, <1>5, <2>1
<1>7. place \in Surjection(S, 1 .. n)
  <2>1. place \in Injection(S, 1 .. n)
    BY <1>5, <1>6 DEF Injection, IsInjective
  <2>2. IsFiniteSet(1 .. n) /\ Cardinality(1 .. n) = n
    <3> HIDE DEF n
    <3>1. Cardinality(1 .. n) = IF 1 > n THEN 0 ELSE n - 1 + 1
      BY <1>1, FS_Interval
    <3> QED BY <1>1, <3>1, FS_Interval
  <2> QED BY <2>1, <2>2, FS_Injection
<1> DEFINE ks == [i \in 1 .. n |-> CHOOSE k \in S : place[k] = i]
<1>8. \A i \in 1 .. n : ks[i] \in S /\ place[ks[i]] = i
  BY <1>7 DEF Surjection
<1>9. ks \in SetToSeqs(S)
  <2>1. ks \in [1 .. n -> S]
    BY <1>8
  <2> HIDE DEF ks
  <2>2. \A i, j \in 1 .. n : i # j => ks[i] # ks[j]
    BY <1>8
  <2> QED BY <2>1, <2>2 DEF SetToSeqs
<1>10. \A i, j \in 1 .. n : i < j => Before(ks[i], ks[j])
  <2> SUFFICES ASSUME NEW i \in 1 .. n, NEW j \in 1 .. n, i < j PROVE Before(ks[i], ks[j])
    OBVIOUS
  <2> HIDE DEF ks, n
  <2>1. ks[i] \in S /\ ks[j] \in S /\ place[ks[i]] = i /\ place[ks[j]] = j
    BY <1>8
  <2>2. ks[i] # ks[j]
    BY <2>1
  <2>3. ~Before(ks[j], ks[i])
    BY <1>1, <1>4, <2>1
  <2> QED BY <2>1, <2>2, <2>3, Total
<1>11. DOMAIN ks = 1 .. n
  OBVIOUS
<1> QED BY <1>9, <1>10, <1>11, Zenon

LEMMA SortedFacts ==
  ASSUME NEW S, S \subseteq Text, IsFiniteSet(S)
  PROVE  /\ Sorted(S) \in [1 .. Cardinality(S) -> S] /\ Cardinality(S) \in Nat
         /\ \A i, j \in 1 .. Cardinality(S) : i < j => Before(Sorted(S)[i], Sorted(S)[j])
         /\ \A i, j \in 1 .. Cardinality(S) : i # j => Sorted(S)[i] # Sorted(S)[j]
         /\ \A k \in S : \E i \in 1 .. Cardinality(S) : Sorted(S)[i] = k
<1> DEFINE n == Cardinality(S)
           ks == Sorted(S)
<1>1. n \in Nat
  BY FS_CardinalityType
<1>2. ks \in SetToSeqs(S) /\ \A i, j \in DOMAIN ks : i < j => Before(ks[i], ks[j])
  BY CanBeSorted DEF Sorted
<1> HIDE DEF ks
<1>3. ks \in [1 .. n -> S] /\ \A i, j \in 1 .. n : i # j => ks[i] # ks[j]
  BY <1>2 DEF SetToSeqs
<1>4. ks \in Surjection(1 .. n, S)
  <2>1. ks \in Injection(1 .. n, S)
    BY <1>3 DEF Injection, IsInjective
  <2>2. Cardinality(1 .. n) = n
    <3> HIDE DEF n
    <3>1. Cardinality(1 .. n) = IF 1 > n THEN 0 ELSE n - 1 + 1
      BY <1>1, FS_Interval
    <3> QED BY <1>1, <3>1
  <2> QED BY <2>1, <2>2, FS_Injection
<1>5. \A i, j \in 1 .. n : i < j => Before(ks[i], ks[j])
  BY <1>2, <1>3
<1>6. \A k \in S : \E i \in 1 .. n : ks[i] = k
  BY <1>4 DEF Surjection
<1> QED BY <1>1, <1>3, <1>5, <1>6 DEF ks

\* remove_acl() finds an entry to erase where there is one.
LEMMA FirstKeyIn ==
  ASSUME NEW ks, ks \subseteq Text, IsFiniteSet(ks), ks # {}
  PROVE  FirstKey(ks) \in ks
<1> DEFINE n == Cardinality(ks)
           s == Sorted(ks)
<1>1. /\ s \in [1 .. n -> ks] /\ n \in Nat
      /\ \A i, j \in 1 .. n : i < j => Before(s[i], s[j])
      /\ \A k \in ks : \E i \in 1 .. n : s[i] = k
  BY SortedFacts
<1> HIDE DEF n, s
<1>2. 1 \in 1 .. n
  BY <1>1
<1>3. \A other \in ks \ {s[1]} : Before(s[1], other)
  <2> SUFFICES ASSUME NEW other \in ks \ {s[1]} PROVE Before(s[1], other)
    OBVIOUS
  <2>1. PICK i \in 1 .. n : s[i] = other
    BY <1>1
  <2>2. 1 < i
    BY <1>1, <2>1
  <2> QED BY <1>1, <1>2, <2>1, <2>2
<1>4. s[1] \in ks
  BY <1>1, <1>2
<1> QED BY <1>3, <1>4, Zenon DEF FirstKey

-----------------------------------------------------------------------------
(* Storing a list and loading it again. *)

LEMMA RowsType ==
  ASSUME NEW l, AList(l)
  PROVE  /\ Rows(l) \in Seq(Text)
         /\ DOMAIN Rows(l) = 1 .. Cardinality(DOMAIN l)
         /\ \A i \in 1 .. Cardinality(DOMAIN l) :
              LET k == Sorted(DOMAIN l)[i]
              IN  k \in DOMAIN l /\ Rows(l)[i] = l[k] \o k
<1> DEFINE S == DOMAIN l
           n == Cardinality(S)
           ks == Sorted(S)
<1>1. S \subseteq Text /\ IsFiniteSet(S) /\ \A k \in S : l[k] \in Text
  BY DEF AList, IsList
<1>2. ks \in [1 .. n -> S] /\ n \in Nat
  BY <1>1, SortedFacts
<1>3. Rows(l) = [i \in DOMAIN ks |-> l[ks[i]] \o ks[i]]
  BY DEF Rows, RowOf
<1> HIDE DEF ks, n, S
<1>4. \A i \in 1 .. n : l[ks[i]] \o ks[i] \in Text
  <2> SUFFICES ASSUME NEW i \in 1 .. n PROVE l[ks[i]] \o ks[i] \in Text
    OBVIOUS
  <2>1. ks[i] \in Text /\ l[ks[i]] \in Text
    BY <1>1, <1>2
  <2>2. ASSUME NEW s \in Text, NEW t \in Text PROVE s \o t \in Text
    <3>1. s \in Seq(Fields) /\ t \in Seq(Fields) /\ Len(s) \in Nat \ {0} /\ Len(t) \in Nat
      BY TextFacts
    <3>2. s \o t \in Seq(Fields) /\ Len(s \o t) = Len(s) + Len(t)
      BY <3>1
    <3>3. Len(s \o t) # 0
      BY <3>1, <3>2
    <3>4. Len(<<>>) = 0
      OBVIOUS
    <3> QED BY <3>2, <3>3, <3>4 DEF Text
  <2> QED BY <2>1, <2>2
<1>5. Rows(l) = [i \in 1 .. n |-> l[ks[i]] \o ks[i]]
  BY <1>2, <1>3
<1>6. Rows(l) \in Seq(Text)
  BY <1>2, <1>4, <1>5
<1> QED BY <1>2, <1>5, <1>6 DEF S, n, ks

\* A list whose names have no comma comes back from its file as it was.
LEMMA LoadRows ==
  ASSUME NEW l, AList(l), Clean(l)
  PROVE  Load(Rows(l)) = l
<1> DEFINE S == DOMAIN l
           n == Cardinality(S)
           ks == Sorted(S)
           rows == Rows(l)
<1>1. /\ S \subseteq Text /\ IsFiniteSet(S) /\ \A k \in S : l[k] \in Text /\ Len(l[k]) = 1
      /\ l = [k \in S |-> l[k]]
  BY DEF AList, IsList, Clean
<1>2. /\ ks \in [1 .. n -> S] /\ n \in Nat
      /\ \A i, j \in 1 .. n : i # j => ks[i] # ks[j]
      /\ \A k \in S : \E i \in 1 .. n : ks[i] = k
  BY <1>1, SortedFacts
<1>3. /\ rows \in Seq(Text) /\ DOMAIN rows = 1 .. n
      /\ \A i \in 1 .. n : ks[i] \in S /\ rows[i] = l[ks[i]] \o ks[i]
  BY RowsType
<1>4. Load(rows) = [k \in {KeyIn(rows[i]) : i \in DOMAIN rows} |->
                      NameIn(rows[FirstWith(rows, k)])]
  BY DEF Load
<1> HIDE DEF ks, n, S, rows
<1>5. ASSUME NEW i \in 1 .. n
      PROVE  KeyIn(rows[i]) = ks[i] /\ NameIn(rows[i]) = l[ks[i]]
  <2> DEFINE k == ks[i]
             x == l[k]
  <2>1. k \in Text /\ x \in Text /\ Len(x) = 1
    BY <1>1, <1>3
  <2>2. /\ k \in Seq(Fields) /\ Len(k) \in Nat \ {0} /\ x \in Seq(Fields)
    BY <2>1, TextFacts
  <2>3. rows[i] = x \o k
    BY <1>3
  <2> HIDE DEF k, x
  <2>4. x[1] \in Fields /\ DOMAIN x = 1 .. 1 /\ Len(x) \in Nat /\ Len(k) \in Nat
    BY <2>1, <2>2
  <2>5. x \o k \in Seq(Fields) /\ Len(x \o k) = Len(x) + Len(k)
    BY <2>2, <2>4
  <2>6. (x \o k)[1] = x[1]
    <3>1. \A m \in 1 .. Len(x) : (x \o k)[m] = x[m]
      BY <2>2, Concat
    <3>2. 1 \in 1 .. Len(x)
      BY <2>1
    <3> QED BY <3>1, <3>2, Zenon
  <2>7. x = <<x[1]>>
    <3>1. <<x[1]>> \in Seq(Fields) /\ Len(<<x[1]>>) = 1
      BY <2>4
    <3> QED BY <2>1, <2>2, <3>1
  <2>8. Len(x \o k) # 1
    BY <2>1, <2>2, <2>4, <2>5
  <2>9. Tail(x \o k) = k
    <3>1. Len(Tail(x \o k)) = Len(k) /\ Tail(x \o k) \in Seq(Fields)
      BY <2>1, <2>2, <2>4, <2>5
    <3>2. \A j \in 1 .. Len(k) : Tail(x \o k)[j] = k[j]
      BY <2>1, <2>2, <2>5
    <3> QED BY <2>2, <3>1, <3>2
  <2>10. KeyIn(rows[i]) = k
    BY <2>3, <2>8, <2>9 DEF KeyIn
  <2>11. NameIn(rows[i]) = x
    BY <2>3, <2>6, <2>7, <2>8 DEF NameIn
  <2> QED BY <2>10, <2>11 DEF k, x
<1>6. {KeyIn(rows[i]) : i \in DOMAIN rows} = S
  <2>1. \A i \in 1 .. n : KeyIn(rows[i]) = ks[i]
    BY <1>5
  <2>2. \A k \in S : \E i \in DOMAIN rows : k = KeyIn(rows[i])
    BY <1>2, <1>3, <2>1
  <2>3. \A i \in DOMAIN rows : KeyIn(rows[i]) \in S
    BY <1>3, <2>1
  <2> QED BY <2>2, <2>3
<1>7. ASSUME NEW k \in S
      PROVE  NameIn(rows[FirstWith(rows, k)]) = l[k]
  <2>1. FirstWith(rows, k) \in 1 .. n /\ KeyIn(rows[FirstWith(rows, k)]) = k
    BY <1>3, <1>6, FirstRow
  <2> QED BY <1>5, <2>1
<1>8. Load(rows) = [k \in S |-> l[k]]
  BY <1>4, <1>6, <1>7
<1> QED BY <1>1, <1>8 DEF rows

\* What is left of rows that were cut off are rows.
LEMMA CutType ==
  ASSUME NEW rows \in Seq(Text), NEW part \in Cut(rows)
  PROVE  part \in Seq(Text)
<1>1. Len(rows) \in Nat /\ DOMAIN rows = 1 .. Len(rows)
      /\ \A i \in 1 .. Len(rows) : rows[i] \in Text
  OBVIOUS
<1>2. \A m \in 0 .. Len(rows) : SubSeq(rows, 1, m) \in Seq(Text)
  BY <1>1
<1>3. CASE part \in Prefixes(rows)
  BY <1>2, <1>3 DEF Prefixes
<1>4. CASE part \notin Prefixes(rows)
  <2>1. PICK n \in 1 .. Len(rows) : \E row \in CutRow(rows[n]) :
          part = Append(SubSeq(rows, 1, n - 1), row)
    BY <1>1, <1>4 DEF Cut
  <2>2. PICK row \in CutRow(rows[n]) : part = Append(SubSeq(rows, 1, n - 1), row)
    BY <2>1
  <2>3. rows[n] \in Seq(Fields) /\ Len(rows[n]) \in Nat
    BY <1>1, TextFacts
  <2>4. PICK m \in 0 .. (Len(rows[n]) - 1) : row = SubSeq(rows[n], 1, m) \o <<0>>
    BY DEF CutRow
  <2>5. row \in Text
    <3> DEFINE s == SubSeq(rows[n], 1, m)
               z == <<0>>
    <3>1. s \in Seq(Fields) /\ z \in Seq(Fields) /\ Len(z) = 1 /\ Len(s) \in Nat
      BY <2>3, FieldFacts
    <3>2. row = s \o z
      BY <2>4
    <3> HIDE DEF s, z
    <3>3. row \in Seq(Fields) /\ Len(row) = Len(s) + 1
      <4>1. s \o z \in Seq(Fields) /\ Len(s \o z) = Len(s) + Len(z)
        BY <3>1, Concat
      <4> QED BY <3>1, <3>2, <4>1
    <3>4. Len(row) # 0 /\ Len(<<>>) = 0
      BY <3>1, <3>3
    <3> QED BY <3>3, <3>4 DEF Text
  <2>6. n - 1 \in 0 .. Len(rows)
    BY <1>1
  <2> QED BY <1>2, <2>2, <2>5, <2>6
<1> QED BY <1>3, <1>4
-----------------------------------------------------------------------------
(* The messages with a date, as store_logs() comes upon them. *)

\* They are those of the first n messages that have one, in their order.
DatedOf(s, msgs, n) ==
  \E pos \in [1 .. Len(s) -> 1 .. n] :
    /\ \A i \in 1 .. Len(s) : s[i] = msgs[pos[i]] /\ msgs[pos[i]].day # None
    /\ \A i, j \in 1 .. Len(s) : i < j => pos[i] < pos[j]
    /\ \A i \in 1 .. n : msgs[i].day # None => \E j \in 1 .. Len(s) : pos[j] = i

LEMMA DatedBuilt ==
  ASSUME NEW S, NEW msgs \in Seq(S)
  PROVE  \E of : /\ of[0] = <<>> /\ Dated(msgs) = of[Len(msgs)]
                 /\ \A i \in 1 .. Len(msgs) :
                      of[i] = IF msgs[i].day = None THEN of[i - 1]
                              ELSE Append(of[i - 1], msgs[i])
<1> DEFINE n == Len(msgs)
           Body(f, i) == IF i = 0 THEN <<>>
                         ELSE IF msgs[i].day = None THEN f[i - 1]
                         ELSE Append(f[i - 1], msgs[i])
           T == {m \in 0 .. n : \E f : f = [i \in 0 .. m |-> Body(f, i)]}
           of == CHOOSE f : f = [i \in 0 .. n |-> Body(f, i)]
<1>1. n \in Nat
  OBVIOUS
<1>2. 0 \in T
  <2> DEFINE f == [i \in 0 .. 0 |-> <<>>]
  <2>1. f = [i \in 0 .. 0 |-> Body(f, i)]
    OBVIOUS
  <2> HIDE DEF f, Body
  <2> QED BY <1>1, <2>1
<1>3. ASSUME NEW m \in 0 .. n - 1, m \in T PROVE m + 1 \in T
  <2>1. PICK f : f = [i \in 0 .. m |-> Body(f, i)]
    BY <1>3
  <2> DEFINE g == [i \in 0 .. m + 1 |-> IF i <= m THEN f[i] ELSE Body(f, i)]
  <2>2. \A i \in 0 .. m + 1 : Body(g, i) = Body(f, i)
    <3> SUFFICES ASSUME NEW i \in 0 .. m + 1, i # 0 PROVE g[i - 1] = f[i - 1]
      OBVIOUS
    <3> QED BY <1>1
  <2>3. \A i \in 0 .. m : f[i] = Body(f, i)
    <3> HIDE DEF Body
    <3> QED BY <2>1
  <2>4. g = [i \in 0 .. m + 1 |-> Body(g, i)]
    <3> HIDE DEF Body
    <3>1. \A i \in 0 .. m + 1 : g[i] = Body(g, i)
      BY <1>1, <2>2, <2>3
    <3>2. g = [i \in 0 .. m + 1 |-> g[i]]
      OBVIOUS
    <3> HIDE DEF g
    <3> QED BY <3>1, <3>2
  <2> HIDE DEF g, Body
  <2> QED BY <1>1, <2>4
<1>4. n \in T
  <2> HIDE DEF T, n
  <2>1. 0 .. n \subseteq T
    BY <1>1, <1>2, <1>3, UpTo
  <2> QED BY <1>1, <2>1
<1>5. of = [i \in 0 .. n |-> Body(of, i)]
  <2>1. \E f : f = [i \in 0 .. n |-> Body(f, i)]
    BY <1>4
  <2> HIDE DEF Body, n
  <2> QED BY <2>1
<1>6. Dated(msgs) = of[n]
  BY DEF Dated
<1> HIDE DEF of, n
<1>7. of[0] = <<>> /\ \A i \in 1 .. n : of[i] = IF msgs[i].day = None THEN of[i - 1]
                                               ELSE Append(of[i - 1], msgs[i])
  <2>1. \A i \in 0 .. n : of[i] = Body(of, i)
    <3> HIDE DEF Body
    <3> QED BY <1>5
  <2>2. 0 \in 0 .. n /\ \A i \in 1 .. n : i \in 0 .. n /\ i # 0
    BY <1>1
  <2> QED BY <2>1, <2>2
<1> QED BY <1>6, <1>7 DEF n

LEMMA DatedFacts ==
  ASSUME NEW S, NEW msgs \in Seq(S)
  PROVE  Dated(msgs) \in Seq(S) /\ DatedOf(Dated(msgs), msgs, Len(msgs))
<1>1. PICK of : /\ of[0] = <<>> /\ Dated(msgs) = of[Len(msgs)]
                /\ \A i \in 1 .. Len(msgs) :
                     of[i] = IF msgs[i].day = None THEN of[i - 1]
                             ELSE Append(of[i - 1], msgs[i])
  BY DatedBuilt
<1> DEFINE n == Len(msgs)
           T == {m \in 0 .. n : of[m] \in Seq(S) /\ DatedOf(of[m], msgs, m)}
<1>2. n \in Nat
  OBVIOUS
<1>3. 0 \in T
  <2> DEFINE pos == [i \in 1 .. 0 |-> i]
  <2>1. of[0] \in Seq(S) /\ Len(of[0]) = 0
    BY <1>1
  <2>2. pos \in [1 .. Len(of[0]) -> 1 .. 0]
    BY <2>1
  <2> HIDE DEF pos
  <2>3. DatedOf(of[0], msgs, 0)
    BY <2>1, <2>2 DEF DatedOf
  <2> QED BY <1>2, <2>1, <2>3
<1>4. ASSUME NEW m \in 0 .. n - 1, m \in T PROVE m + 1 \in T
  <2> DEFINE s == of[m]
             t == of[m + 1]
             k == Len(s)
  <2>1. s \in Seq(S) /\ k \in Nat /\ DatedOf(s, msgs, m) /\ msgs[m + 1] \in S
    BY <1>2, <1>4
  <2>2. t = IF msgs[m + 1].day = None THEN s ELSE Append(s, msgs[m + 1])
    <3>1. m + 1 \in 1 .. Len(msgs) /\ (m + 1) - 1 = m
      BY <1>2
    <3> QED BY <1>1, <3>1
  <2>3. PICK pos \in [1 .. Len(s) -> 1 .. m] :
          /\ \A i \in 1 .. Len(s) : s[i] = msgs[pos[i]] /\ msgs[pos[i]].day # None
          /\ \A i, j \in 1 .. Len(s) : i < j => pos[i] < pos[j]
          /\ \A i \in 1 .. m : msgs[i].day # None => \E j \in 1 .. Len(s) : pos[j] = i
    BY <2>1 DEF DatedOf
  <2>4. m \in Nat /\ m + 1 \in 0 .. n
    BY <1>2
  <2> HIDE DEF s, t, n, T
  <2>5. t \in Seq(S)
    BY <2>1, <2>2
  <2>6. CASE msgs[m + 1].day = None
    <3>1. pos \in [1 .. Len(s) -> 1 .. m + 1]
      BY <2>4
    <3>2. \A i \in 1 .. m + 1 : msgs[i].day # None => i \in 1 .. m
      BY <2>4, <2>6
    <3>3. DatedOf(s, msgs, m + 1)
      BY <2>3, <3>1, <3>2 DEF DatedOf
    <3> QED BY <2>2, <2>4, <2>5, <2>6, <3>3 DEF T, t
  <2>7. CASE msgs[m + 1].day # None
    <3> DEFINE next == [i \in 1 .. k + 1 |-> IF i = k + 1 THEN m + 1 ELSE pos[i]]
    <3>1. Len(t) = k + 1 /\ t[k + 1] = msgs[m + 1] /\ \A i \in 1 .. k : t[i] = s[i]
      BY <2>1, <2>2, <2>7
    <3>2. next \in [1 .. k + 1 -> 1 .. m + 1]
      BY <2>1, <2>3, <2>4
    <3>3. next[k + 1] = m + 1 /\ \A i \in 1 .. k : next[i] = pos[i]
      BY <2>1
    <3> HIDE DEF next, k
    <3>4. \A i \in 1 .. k + 1 : t[i] = msgs[next[i]] /\ msgs[next[i]].day # None
      <4> SUFFICES ASSUME NEW i \in 1 .. k + 1
                   PROVE  t[i] = msgs[next[i]] /\ msgs[next[i]].day # None
        OBVIOUS
      <4>1. CASE i = k + 1
        BY <2>7, <3>1, <3>3, <4>1
      <4>2. CASE i # k + 1
        <5>1. i \in 1 .. k
          BY <2>1, <4>2
        <5> QED BY <2>3, <3>1, <3>3, <5>1 DEF k
      <4> QED BY <4>1, <4>2
    <3>5. \A i, j \in 1 .. k + 1 : i < j => next[i] < next[j]
      <4> SUFFICES ASSUME NEW i \in 1 .. k + 1, NEW j \in 1 .. k + 1, i < j
                   PROVE  next[i] < next[j]
        OBVIOUS
      <4>1. i \in 1 .. k /\ pos[i] \in 1 .. m /\ next[i] = pos[i]
        BY <2>1, <2>3, <3>3 DEF k
      <4>2. CASE j = k + 1
        BY <2>4, <3>3, <4>1, <4>2
      <4>3. CASE j # k + 1
        <5>1. j \in 1 .. k
          BY <2>1, <4>3
        <5> QED BY <2>3, <3>3, <4>1, <5>1 DEF k
      <4> QED BY <4>2, <4>3
    <3>6. \A i \in 1 .. m + 1 : msgs[i].day # None => \E j \in 1 .. k + 1 : next[j] = i
      <4> SUFFICES ASSUME NEW i \in 1 .. m + 1, msgs[i].day # None
                   PROVE  \E j \in 1 .. k + 1 : next[j] = i
        OBVIOUS
      <4>1. CASE i = m + 1
        BY <2>1, <3>3, <4>1
      <4>2. CASE i # m + 1
        <5>1. PICK j \in 1 .. k : pos[j] = i
          BY <2>3, <2>4, <4>2 DEF k
        <5> QED BY <2>1, <3>3, <5>1
      <4> QED BY <4>1, <4>2
    <3>7. DatedOf(t, msgs, m + 1)
      <4>1. Len(t) = k + 1
        BY <3>1
      <4>2. next \in [1 .. Len(t) -> 1 .. m + 1]
        BY <3>2, <4>1
      <4>3. \A i \in 1 .. Len(t) : t[i] = msgs[next[i]] /\ msgs[next[i]].day # None
        BY <3>4, <4>1
      <4>4. \A i, j \in 1 .. Len(t) : i < j => next[i] < next[j]
        BY <3>5, <4>1
      <4>5. \A i \in 1 .. m + 1 : msgs[i].day # None => \E j \in 1 .. Len(t) : next[j] = i
        BY <3>6, <4>1
      <4> SUFFICES \E p \in [1 .. Len(t) -> 1 .. m + 1] :
            /\ \A i \in 1 .. Len(t) : t[i] = msgs[p[i]] /\ msgs[p[i]].day # None
            /\ \A i, j \in 1 .. Len(t) : i < j => p[i] < p[j]
            /\ \A i \in 1 .. m + 1 : msgs[i].day # None => \E j \in 1 .. Len(t) : p[j] = i
        BY DEF DatedOf
      <4> WITNESS next \in [1 .. Len(t) -> 1 .. m + 1]
      <4> QED BY <4>3, <4>4, <4>5
    <3> QED BY <2>4, <2>5, <3>7 DEF T, t
  <2> QED BY <2>6, <2>7
<1>5. n \in T
  <2> HIDE DEF T, n
  <2>1. 0 .. n \subseteq T
    BY <1>2, <1>3, <1>4, UpTo
  <2> QED BY <1>2, <2>1
<1> QED BY <1>1, <1>5

-----------------------------------------------------------------------------
(* The two tasks. *)

Stages == {"idle", "reload", "reading", "logging", "erase", "store", "writing", "answer"}

\* The httpd task has opened the file and not yet asked for the reload.
HttpdOwes == pc["httpd"] \in {"writing", "answer"}

\* InStep, for a loop task that is writing logs as well and an httpd task
\* that has a body but has not opened the file; and while the file is being
\* read: what is read is the file, or a reload will follow.
Inv ==
  /\ pc \in [Tasks -> Stages]
  /\ pc["loop"] \in {"idle", "logging"} /\ ~reload_required_ /\ ~HttpdOwes
       => acl_ = Load(file) \/ unread
  /\ pc["loop"] = "reading" /\ ~reload_required_ /\ ~HttpdOwes
       => ~overtaken /\ seen = file

LEMMA InitInv == Init => Inv
  BY DEF Init, Inv, HttpdOwes, Stages, Tasks

\* A write by either task leads to a reload: the loop task asks for it as
\* the write ends, the httpd task still owes it.
LEMMA WritesInv ==
  ASSUME Inv, NEW t \in Tasks,
         OpenForWriting(t) \/ OpenFails(t) \/ CloseWritten(t) \/ WriteFails(t)
  PROVE  Inv'
<1> USE DEF Inv, HttpdOwes, Stages, Tasks
<1>1. CASE OpenForWriting(t)
  BY <1>1 DEF OpenForWriting, Goto, list, log
<1>2. CASE OpenFails(t)
  BY <1>2 DEF OpenFails, Goto, Written, AfterWrite, card
<1>3. CASE CloseWritten(t)
  BY <1>3 DEF CloseWritten, Goto, Written, AfterWrite
<1>4. CASE WriteFails(t)
  BY <1>4 DEF WriteFails, Goto, Written, AfterWrite
<1>5. QED
  BY <1>1, <1>2, <1>3, <1>4

\* The calls of the automations leave the idle loop task writing, erasing, or
\* with a reload asked for; check() and a new POST leave list and file alone.
LEMMA CallsInv ==
  ASSUME Inv, Calls
  PROVE  Inv'
<1> USE DEF Inv, HttpdOwes, Stages, Tasks
<1>1. ASSUME NEW n \in Names, NEW k \in Keys, add_acl(n, k)
      PROVE  Inv'
  BY <1>1 DEF add_acl, Goto, card
<1>2. ASSUME NEW n \in Names, remove_acl(n)
      PROVE  Inv'
  BY <1>2 DEF remove_acl, Goto, card
<1>3. CASE clear_acl
  BY <1>3 DEF clear_acl, Goto, card
<1>4. CASE reload_acl
  BY <1>4 DEF reload_acl, card
<1>5. ASSUME NEW d \in Days \cup {None}, check(d)
      PROVE  Inv'
  BY <1>5 DEF check, list, card
<1>6. ASSUME NEW body \in Bodies, acl_post(body)
      PROVE  Inv'
  BY <1>6 DEF acl_post, Goto, list, card
<1>7. QED
  BY <1>1, <1>2, <1>3, <1>4, <1>5, <1>6 DEF Calls

\* Reading: the list becomes what the file holds, or a reload is still to come.
LEMMA ReadsInv ==
  ASSUME Inv, TakeReload \/ OpenForReading \/ LoadList \/ ReadFails
  PROVE  Inv'
<1> USE DEF Inv, HttpdOwes, Stages, Tasks
<1>1. CASE TakeReload
  BY <1>1 DEF TakeReload, Goto, card
<1>2. CASE OpenForReading
  BY <1>2 DEF OpenForReading, Goto, list
<1>3. CASE LoadList
  BY <1>3 DEF LoadList, Goto, ReadOver, Readable
<1>4. CASE ReadFails
  BY <1>4 DEF ReadFails, Goto, ReadOver
<1>5. QED
  BY <1>1, <1>2, <1>3, <1>4

\* Logging touches neither list nor file; the last step of a POST and a
\* restart ask for a reload.
LEMMA OthersInv ==
  ASSUME Inv,
         \/ StartLogs \/ AppendLogs \/ AppendFails
         \/ EraseNext \/ AskReload \/ Restart \/ UNCHANGED vars
  PROVE  Inv'
<1> USE DEF Inv, HttpdOwes, Stages, Tasks
<1>1. CASE StartLogs
  BY <1>1 DEF StartLogs, Goto, list, card
<1>2. CASE AppendLogs \/ AppendFails
  BY <1>2 DEF AppendLogs, AppendFails, Flushed, Goto, list, card
<1>3. CASE EraseNext
  BY <1>3 DEF EraseNext, Goto, card
<1>4. CASE AskReload
  BY <1>4 DEF AskReload, Goto, card
<1>5. CASE Restart
  BY <1>5 DEF Restart
<1>6. CASE UNCHANGED vars
  BY <1>6 DEF vars, list, card
<1>7. QED
  BY <1>1, <1>2, <1>3, <1>4, <1>5, <1>6

\* Every step keeps the invariant.
LEMMA NextInv == Inv /\ [Next]_vars => Inv'
<1> SUFFICES ASSUME Inv, [Next]_vars PROVE Inv'
  OBVIOUS
<1>1. CASE LoopTask
  BY <1>1, ReadsInv, OthersInv, WritesInv DEF LoopTask, Tasks
<1>2. CASE HttpdTask
  BY <1>2, OthersInv, WritesInv DEF HttpdTask, Tasks
<1>3. CASE Calls
  BY <1>3, CallsInv
<1>4. CASE CardFails
  BY <1>4, WritesInv, ReadsInv, OthersInv DEF CardFails
<1>5. CASE Restart \/ UNCHANGED vars
  BY <1>5, OthersInv
<1>6. QED
  BY <1>1, <1>2, <1>3, <1>4, <1>5 DEF Next

\* InStep holds in every state, whatever POSTs, calls, failed operations and
\* restarts come, and however the two tasks take turns (acl.cpp:49-61,
\* 128-146, acl_server_esp_idf.cpp:127-135).
THEOREM ListInStep == Spec => []InStep
<1>1. Inv => InStep
  BY DEF Inv, InStep, AtRest, HttpdOwes
<1>2. QED
  BY InitInv, NextInv, <1>1, PTL DEF Spec

-----------------------------------------------------------------------------
(* Types, and that remove_acl() goes on only while there is an entry to     *)
(* erase.                                                                   *)

LoopStages  == {"idle", "reload", "reading", "logging", "erase", "store", "writing"}
HttpdStages == {"idle", "store", "writing", "answer"}

\* TypeOK but for the logs, with lists that are finite.
ListsInv ==
  /\ AList(acl_) /\ (want = None \/ AList(want))
  /\ reload_required_ \in BOOLEAN /\ unread \in BOOLEAN /\ overtaken \in BOOLEAN
  /\ removing \in Names \cup {None}
  /\ file \in Seq(Text) /\ seen \in Seq(Text) /\ out \in [Tasks -> Seq(Text)]
  /\ pc \in [Tasks -> Stages]
  /\ pc["loop"] \in LoopStages /\ pc["httpd"] \in HttpdStages
  /\ pc["loop"] = "erase" => removing # None /\ KeysOf(acl_, removing) # {}

LEMMA InitLists == Init => ListsInv
<1> SUFFICES ASSUME Init PROVE ListsInv
  OBVIOUS
<1>1. <<>> \in Seq(Text)
  OBVIOUS
<1>2. [t \in Tasks |-> <<>>] \in [Tasks -> Seq(Text)]
  BY <1>1
<1>3. [t \in Tasks |-> "idle"] \in [Tasks -> Stages]
  BY DEF Stages
<1>4. pc["loop"] = "idle" /\ pc["httpd"] = "idle"
  BY DEF Init, Tasks
<1> QED BY <1>1, <1>2, <1>3, <1>4, NothingType DEF Init, ListsInv, LoopStages, HttpdStages

\* The rows a task writes, and those that are left of them.
LEMMA WritesLists ==
  ASSUME ListsInv, NEW t \in Tasks,
         OpenForWriting(t) \/ OpenFails(t) \/ CloseWritten(t) \/ WriteFails(t)
  PROVE  ListsInv'
<1> USE DEF ListsInv, Tasks
<1>1. CASE OpenForWriting(t)
  <2>1. <<>> \in Seq(Text)
    OBVIOUS
  <2>2. pc' \in [Tasks -> Stages] /\ pc'["loop"] \in LoopStages
        /\ pc'["httpd"] \in HttpdStages /\ (pc'["loop"] = "erase" => pc["loop"] = "erase")
    BY <1>1 DEF OpenForWriting, Goto, Stages, LoopStages, HttpdStages
  <2>3. overtaken' \in BOOLEAN
    BY <1>1 DEF OpenForWriting
  <2> QED BY <1>1, <2>1, <2>2, <2>3 DEF OpenForWriting, list
<1>2. ASSUME Goto(t, "store", AfterWrite(t)) \/ Goto(t, "writing", AfterWrite(t)), Written(t)
      PROVE  /\ pc' \in [Tasks -> Stages] /\ pc'["loop"] \in LoopStages
             /\ pc'["httpd"] \in HttpdStages
             /\ pc'["loop"] = "erase" => removing # None /\ KeysOf(acl_, removing) # {}
             /\ out' \in [Tasks -> Seq(Text)] /\ reload_required_' \in BOOLEAN
             /\ UNCHANGED <<acl_, removing, unread>>
  <2>1. out' \in [Tasks -> Seq(Text)]
    <3>1. <<>> \in Seq(Text)
      OBVIOUS
    <3> QED BY <1>2, <3>1 DEF Written
  <2>2. CASE t = "loop"
    BY <1>2, <2>1, <2>2 DEF Goto, AfterWrite, Written, Stages, LoopStages, HttpdStages
  <2>3. CASE t = "httpd"
    BY <1>2, <2>1, <2>3 DEF Goto, AfterWrite, Written, Stages, LoopStages, HttpdStages
  <2> QED BY <2>2, <2>3
<1>3. CASE OpenFails(t)
  BY <1>2, <1>3 DEF OpenFails, card
<1>4. out[t] \in Seq(Text)
  OBVIOUS
<1>5. CASE CloseWritten(t)
  BY <1>2, <1>4, <1>5 DEF CloseWritten
<1>6. CASE WriteFails(t)
  <2>1. file' \in Seq(Text)
    BY <1>4, <1>6, CutType DEF WriteFails
  <2> QED BY <1>2, <1>6, <2>1 DEF WriteFails
<1> QED BY <1>1, <1>3, <1>5, <1>6

LEMMA StoreType ==
  ASSUME ListsInv, NEW l, AList(l), Store(l), Goto("loop", pc["loop"], "store")
  PROVE  /\ AList(acl_') /\ out' \in [Tasks -> Seq(Text)]
         /\ pc' \in [Tasks -> Stages] /\ pc'["loop"] = "store" /\ pc'["httpd"] = pc["httpd"]
<1>1. Rows(l) \in Seq(Text)
  BY RowsType
<1> QED BY <1>1 DEF Store, Goto, ListsInv, Tasks, Stages

LEMMA NothingMeans == Meant(<<>>) = Load(<<>>)
<1>1. <<>> \in Seq(Text) /\ WellFormed(<<>>)
  BY DEF WellFormed
<1> QED BY <1>1, LoadMeans

LEMMA CallsLists ==
  ASSUME ListsInv, Calls \/ EraseNext
  PROVE  ListsInv'
<1>1. AList(acl_)
  BY DEF ListsInv
<1>2. ASSUME NEW n \in Names, NEW k \in Keys, add_acl(n, k)
      PROVE  ListsInv'
  <2>1. AList(Emplace(acl_, n, k))
    BY <1>1, NameType, KeyType, ListTypes
  <2>2. Store(Emplace(acl_, n, k)) /\ Goto("loop", pc["loop"], "store")
    BY <1>2 DEF add_acl, Goto
  <2>3. /\ AList(acl_') /\ out' \in [Tasks -> Seq(Text)]
        /\ pc' \in [Tasks -> Stages] /\ pc'["loop"] = "store" /\ pc'["httpd"] = pc["httpd"]
    BY <2>1, <2>2, StoreType
  <2>4. want' = None \/ AList(want')
    BY <1>1, <1>2, <2>1, EmplaceMeans DEF add_acl, Wanted, Refused
  <2> QED BY <1>2, <2>3, <2>4 DEF add_acl, card, ListsInv, LoopStages
<1>3. ASSUME NEW n \in Names, remove_acl(n)
      PROVE  ListsInv'
  <2>1. want' = None \/ AList(want')
    BY <1>1, <1>3, ListTypes DEF remove_acl, Wanted
  <2>2. /\ pc' \in [Tasks -> Stages] /\ pc'["loop"] = "erase" /\ pc'["httpd"] = pc["httpd"]
    BY <1>3 DEF remove_acl, Goto, ListsInv, Tasks, Stages
  <2>3. n # None
    BY NameType
  <2> QED BY <1>3, <2>1, <2>2, <2>3 DEF remove_acl, card, ListsInv, LoopStages
<1>4. CASE clear_acl
  <2>1. Store(Load(<<>>)) /\ Goto("loop", pc["loop"], "store") /\ AList(Load(<<>>))
    BY <1>4, NothingType DEF clear_acl, Goto
  <2>2. /\ AList(acl_') /\ out' \in [Tasks -> Seq(Text)]
        /\ pc' \in [Tasks -> Stages] /\ pc'["loop"] = "store" /\ pc'["httpd"] = pc["httpd"]
    BY <2>1, StoreType
  <2>3. want' = None \/ AList(want')
    BY <1>4, <2>1, NothingMeans DEF clear_acl, Wanted
  <2> QED BY <1>4, <2>2, <2>3 DEF clear_acl, card, ListsInv, LoopStages
<1>5. CASE reload_acl
  BY <1>5 DEF reload_acl, card, ListsInv
<1>6. ASSUME NEW d \in Days \cup {None}, check(d)
      PROVE  ListsInv'
  BY <1>6 DEF check, list, card, ListsInv
<1>7. ASSUME NEW body \in Bodies, acl_post(body)
      PROVE  ListsInv'
  <2>1. body \in Seq(Text) /\ AList(Load(body))
    BY BodyType, LoadType
  <2>2. want' = None \/ AList(want')
    BY <1>7, <2>1, LoadMeans DEF acl_post, Wanted
  <2>3. out' \in [Tasks -> Seq(Text)]
    BY <1>7, <2>1 DEF acl_post, ListsInv, Tasks
  <2>4. /\ pc' \in [Tasks -> Stages] /\ pc'["loop"] = pc["loop"] /\ pc'["httpd"] = "store"
    BY <1>7 DEF acl_post, Goto, ListsInv, Tasks, Stages
  <2> QED BY <1>7, <2>2, <2>3, <2>4 DEF acl_post, list, card, ListsInv, HttpdStages
<1>8. CASE EraseNext
  <2>1. AList(Erase(acl_, FirstKey(KeysOf(acl_, removing))))
    BY <1>1, ListTypes
  <2>2. /\ Store(Erase(acl_, FirstKey(KeysOf(acl_, removing))))
        /\ Goto("loop", pc["loop"], "store")
    BY <1>8 DEF EraseNext, Goto
  <2>3. /\ AList(acl_') /\ out' \in [Tasks -> Seq(Text)]
        /\ pc' \in [Tasks -> Stages] /\ pc'["loop"] = "store" /\ pc'["httpd"] = pc["httpd"]
    BY <2>1, <2>2, StoreType
  <2> QED BY <1>8, <2>3 DEF EraseNext, card, ListsInv, LoopStages
<1> QED BY <1>2, <1>3, <1>4, <1>5, <1>6, <1>7, <1>8 DEF Calls

LEMMA ReadsLists ==
  ASSUME ListsInv, TakeReload \/ OpenForReading \/ LoadList \/ ReadFails
  PROVE  ListsInv'
<1>1. \A rows \in Readable : rows \in Seq(Text)
  <2>1. seen \in Seq(Text) /\ out["httpd"] \in Seq(Text) /\ file \in Seq(Text)
    BY DEF ListsInv, Tasks
  <2> QED BY <2>1, CutType DEF Readable
<1>2. \A rows \in Readable : AList(Load(rows)) /\ \A part \in Cut(rows) : AList(Load(part))
  BY <1>1, CutType, LoadType
<1>3. <<>> \in Seq(Text)
  OBVIOUS
<1>4. ASSUME NEW from, NEW to \in {"idle", "reload", "reading"}, Goto("loop", from, to)
      PROVE  /\ pc' \in [Tasks -> Stages] /\ pc'["loop"] \in LoopStages /\ pc'["loop"] # "erase"
             /\ pc'["httpd"] = pc["httpd"]
  BY <1>4 DEF Goto, ListsInv, Tasks, Stages, LoopStages
<1>5. CASE TakeReload
  BY <1>4, <1>5 DEF TakeReload, card, ListsInv
<1>6. CASE OpenForReading
  BY <1>4, <1>6 DEF OpenForReading, list, ListsInv
<1>7. CASE LoadList
  <2>1. AList(acl_')
    BY <1>2, <1>7 DEF LoadList
  <2> QED BY <1>3, <1>4, <1>7, <2>1 DEF LoadList, ReadOver, ListsInv
<1>8. CASE ReadFails
  <2>1. AList(acl_')
    BY <1>2, <1>8 DEF ReadFails
  <2> QED BY <1>3, <1>4, <1>8, <2>1 DEF ReadFails, ReadOver, ListsInv
<1> QED BY <1>5, <1>6, <1>7, <1>8

LEMMA OthersLists ==
  ASSUME ListsInv, \/ StartLogs \/ AppendLogs \/ AppendFails
                   \/ AskReload \/ Restart \/ UNCHANGED vars
  PROVE  ListsInv'
<1>1. CASE StartLogs
  <2>1. pc' \in [Tasks -> Stages] /\ pc'["loop"] = "logging" /\ pc'["httpd"] = pc["httpd"]
    BY <1>1 DEF StartLogs, Goto, ListsInv, Tasks, Stages
  <2> QED BY <1>1, <2>1 DEF StartLogs, list, card, ListsInv, LoopStages
<1>2. CASE AppendLogs \/ AppendFails
  <2>1. Flushed
    BY <1>2 DEF AppendLogs, AppendFails
  <2>2. /\ pc' \in [Tasks -> Stages] /\ pc'["loop"] \in {"idle", "logging"}
        /\ pc'["httpd"] = pc["httpd"]
    BY <2>1 DEF Flushed, Goto, ListsInv, Tasks, Stages
  <2> QED BY <2>1, <2>2 DEF Flushed, list, card, ListsInv, LoopStages
<1>3. CASE AskReload
  <2>1. pc' \in [Tasks -> Stages] /\ pc'["httpd"] = "idle" /\ pc'["loop"] = pc["loop"]
    BY <1>3 DEF AskReload, Goto, ListsInv, Tasks, Stages
  <2> QED BY <1>3, <2>1 DEF AskReload, card, ListsInv, HttpdStages
<1>4. CASE Restart
  <2>1. <<>> \in Seq(Text)
    OBVIOUS
  <2>2. [t \in Tasks |-> <<>>] \in [Tasks -> Seq(Text)]
    BY <2>1
  <2>3. pc' \in [Tasks -> Stages] /\ pc'["loop"] = "idle" /\ pc'["httpd"] = "idle"
    BY <1>4 DEF Restart, Stages, Tasks
  <2> QED BY <1>4, <2>1, <2>2, <2>3, NothingType
          DEF Restart, ReadOver, ListsInv, LoopStages, HttpdStages
<1>5. CASE UNCHANGED vars
  BY <1>5 DEF vars, list, card, ListsInv
<1> QED BY <1>1, <1>2, <1>3, <1>4, <1>5

LEMMA NextLists == ListsInv /\ [Next]_vars => ListsInv'
<1> SUFFICES ASSUME ListsInv, [Next]_vars PROVE ListsInv'
  OBVIOUS
<1>1. CASE LoopTask
  BY <1>1, ReadsLists, OthersLists, WritesLists, CallsLists DEF LoopTask, Tasks
<1>2. CASE HttpdTask
  BY <1>2, OthersLists, WritesLists DEF HttpdTask, Tasks
<1>3. CASE Calls
  BY <1>3, CallsLists
<1>4. CASE CardFails
  BY <1>4, WritesLists, ReadsLists, OthersLists DEF CardFails
<1>5. CASE Restart \/ UNCHANGED vars
  BY <1>5, OthersLists
<1> QED BY <1>1, <1>2, <1>3, <1>4, <1>5 DEF Next

-----------------------------------------------------------------------------
(* What the last change asked for. *)

\* The list that remove_acl() leaves, once it is through.
Left == IF removing = None THEN acl_ ELSE Without(acl_, removing)

\* What the last change asks for is on its way to the file: in the body the
\* httpd task writes, ...
InBody ==
  /\ pc["httpd"] \in {"store", "writing"} /\ ~Writing("loop")
  /\ Load(out["httpd"]) = want

\* ... in the list that the loop task stores, ...
InMemory ==
  /\ Writing("loop") /\ pc["httpd"] \notin {"store", "writing"}
  /\ Clean(want) /\ Left = want
  /\ pc["loop"] \in {"store", "writing"} => out["loop"] = Rows(acl_)

\* ... or it is there, and in memory as soon as it has been loaded.
InFile ==
  /\ ~Writing("loop") /\ pc["httpd"] \notin {"store", "writing"}
  /\ Load(file) = want
  /\ pc["loop"] \in {"idle", "logging"} /\ ~reload_required_ /\ ~HttpdOwes => acl_ = want

ChangeInv == want # None => InBody \/ InMemory \/ InFile

\* What is asked for is written by the one task that writes, and then by none.
LEMMA WritesChange ==
  ASSUME ListsInv, ChangeInv, NEW t \in Tasks,
         OpenForWriting(t) \/ OpenFails(t) \/ CloseWritten(t) \/ WriteFails(t)
  PROVE  ChangeInv'
<1>0. pc \in [Tasks -> Stages]
  BY DEF ListsInv
<1>1. CASE OpenForWriting(t)
  <2>1. UNCHANGED <<acl_, removing, out, want, reload_required_>> /\ pc[t] = "store"
        /\ pc' = [pc EXCEPT ![t] = "writing"]
    BY <1>1 DEF OpenForWriting, Goto, list
  <2>2. CASE t = "loop"
    <3>1. pc["loop"] = "store" /\ pc'["loop"] = "writing" /\ pc'["httpd"] = pc["httpd"]
      BY <1>0, <2>1, <2>2 DEF Tasks
    <3> QED BY <2>1, <3>1 DEF ChangeInv, InBody, InMemory, InFile, Writing, Left
  <2>3. CASE t = "httpd"
    <3>1. pc["httpd"] = "store" /\ pc'["httpd"] = "writing" /\ pc'["loop"] = pc["loop"]
      BY <1>0, <2>1, <2>3 DEF Tasks
    <3> QED BY <2>1, <3>1 DEF ChangeInv, InBody, InMemory, InFile, Writing, Left
  <2> QED BY <2>2, <2>3 DEF Tasks
<1>2. CASE OpenFails(t) \/ WriteFails(t)
  BY <1>2 DEF OpenFails, WriteFails, ChangeInv
<1>3. CASE CloseWritten(t) /\ t = "httpd"
  <2>1. UNCHANGED <<acl_, removing, want>> /\ pc["httpd"] = "writing" /\ file' = out["httpd"]
        /\ pc' = [pc EXCEPT !["httpd"] = "answer"]
    BY <1>3 DEF CloseWritten, Goto, Written, AfterWrite
  <2>2. pc'["httpd"] = "answer" /\ pc'["loop"] = pc["loop"]
    BY <1>0, <2>1 DEF Tasks
  <2> QED BY <2>1, <2>2 DEF ChangeInv, InBody, InMemory, InFile, Writing, HttpdOwes
<1>4. CASE CloseWritten(t) /\ t = "loop"
  <2>1. /\ UNCHANGED <<acl_, removing, want>> /\ pc["loop"] = "writing" /\ file' = out["loop"]
        /\ pc' = [pc EXCEPT !["loop"] = AfterWrite("loop")] /\ reload_required_' = TRUE
    BY <1>4 DEF CloseWritten, Goto, Written
  <2>2. pc'["httpd"] = pc["httpd"] /\ pc'["loop"] = AfterWrite("loop")
    BY <1>0, <2>1 DEF Tasks
  <2>3. CASE AfterWrite("loop") = "erase"
    BY <2>1, <2>2, <2>3 DEF ChangeInv, InBody, InMemory, InFile, Writing, Left
  <2>4. CASE AfterWrite("loop") # "erase"
    <3>1. AfterWrite("loop") = "idle" /\ (removing = None \/ KeysOf(acl_, removing) = {})
      BY <2>4 DEF AfterWrite
    <3>2. AList(acl_)
      BY DEF ListsInv
    <3>3. Left = acl_
      BY <3>1, <3>2, WithoutNone DEF Left
    <3>4. SUFFICES ASSUME want # None PROVE InFile'
      BY <2>1 DEF ChangeInv
    <3>5. InMemory
      BY <2>1, <3>4 DEF ChangeInv, InBody, InFile, Writing
    <3>6. Load(file') = want
      BY <2>1, <3>2, <3>3, <3>5, LoadRows DEF InMemory
    <3> QED BY <2>1, <2>2, <3>1, <3>5, <3>6 DEF InFile, InMemory, Writing
  <2> QED BY <2>3, <2>4
<1> QED BY <1>1, <1>2, <1>3, <1>4 DEF Tasks

\* A call leaves what it asks for in memory, a POST in its body, unless the
\* other task is writing as well.
LEMMA CallsChange ==
  ASSUME ListsInv, ChangeInv, Calls \/ EraseNext
  PROVE  ChangeInv'
<1>0. pc \in [Tasks -> Stages]
  BY DEF ListsInv
<1>1. ASSUME NEW l, Store(l), removing' = None, want' \in {Wanted(l, "httpd"), None},
             Goto("loop", "idle", "store")
      PROVE  ChangeInv'
  <2>1. acl_' = l /\ out'["loop"] = Rows(acl_')
    <3>1. out \in [Tasks -> Seq(Text)]
      BY DEF ListsInv
    <3> QED BY <1>1, <3>1 DEF Store, Tasks
  <2>2. pc'["loop"] = "store" /\ pc'["httpd"] = pc["httpd"]
    BY <1>0, <1>1 DEF Goto, Tasks
  <2>3. SUFFICES ASSUME want' # None PROVE InMemory'
    BY DEF ChangeInv
  <2>4. ~Writing("httpd") /\ Clean(acl_') /\ want' = acl_'
    BY <1>1, <2>1, <2>3 DEF Wanted
  <2> QED BY <1>1, <2>1, <2>2, <2>4 DEF InMemory, Writing, Left
<1>2. ASSUME NEW n \in Names, NEW k \in Keys, add_acl(n, k)
      PROVE  ChangeInv'
  <2>1. want' \in {Wanted(Emplace(acl_, n, k), "httpd"), None}
    BY <1>2, EmplaceMeans DEF add_acl, Refused, ListsInv
  <2> QED BY <1>1, <1>2, <2>1 DEF add_acl
<1>3. ASSUME NEW n \in Names, remove_acl(n)
      PROVE  ChangeInv'
  <2>1. pc'["loop"] = "erase" /\ pc'["httpd"] = pc["httpd"]
    BY <1>0, <1>3 DEF remove_acl, Goto, Tasks
  <2>2. SUFFICES ASSUME want' # None PROVE InMemory'
    BY DEF ChangeInv
  <2>3. ~Writing("httpd") /\ Clean(want') /\ want' = Without(acl_, n)
    BY <1>3, <2>2 DEF remove_acl, Wanted
  <2>4. Left' = Without(acl_, n)
    BY <1>3, NameType DEF remove_acl, Left
  <2> QED BY <2>1, <2>3, <2>4 DEF InMemory, Writing
<1>4. CASE clear_acl
  BY <1>1, <1>4, NothingMeans DEF clear_acl
<1>5. CASE reload_acl
  BY <1>5 DEF reload_acl, card, ChangeInv, InBody, InMemory, InFile, Writing, Left
<1>6. ASSUME NEW d \in Days \cup {None}, check(d)
      PROVE  ChangeInv'
  BY <1>6 DEF check, list, card, ChangeInv, InBody, InMemory, InFile, Writing, Left, HttpdOwes
<1>7. ASSUME NEW body \in Bodies, acl_post(body)
      PROVE  ChangeInv'
  <2>1. pc'["httpd"] = "store" /\ pc'["loop"] = pc["loop"]
    BY <1>0, <1>7 DEF acl_post, Goto, Tasks
  <2>2. out'["httpd"] = body
    <3>1. out \in [Tasks -> Seq(Text)]
      BY DEF ListsInv
    <3> QED BY <1>7, <3>1 DEF acl_post, Tasks
  <2>3. want' # None => ~Writing("loop") /\ want' = Load(body)
    BY <1>7, BodyType, LoadMeans DEF acl_post, Wanted
  <2> QED BY <2>1, <2>2, <2>3 DEF ChangeInv, InBody, Writing
<1>8. CASE EraseNext
  <2> DEFINE k == FirstKey(KeysOf(acl_, removing))
  <2>1. k \in KeysOf(acl_, removing) /\ removing # None
    <3>1. /\ KeysOf(acl_, removing) # {} /\ AList(acl_) /\ removing # None
      BY <1>8 DEF EraseNext, Goto, ListsInv
    <3> QED BY <3>1, ListTypes, FirstKeyIn
  <2>2. acl_' = Erase(acl_, k) /\ out'["loop"] = Rows(acl_')
    <3>1. out \in [Tasks -> Seq(Text)]
      BY DEF ListsInv
    <3> QED BY <1>8, <3>1 DEF EraseNext, Store, Tasks
  <2> HIDE DEF k
  <2>3. Left' = Left
    BY <1>8, <2>1, <2>2, WithoutErased DEF EraseNext, Left
  <2>4. pc["loop"] = "erase" /\ pc'["loop"] = "store" /\ pc'["httpd"] = pc["httpd"]
    BY <1>0, <1>8 DEF EraseNext, Goto, Tasks
  <2>5. want' = want
    BY <1>8 DEF EraseNext
  <2> QED BY <2>2, <2>3, <2>4, <2>5 DEF ChangeInv, InBody, InMemory, InFile, Writing
<1> QED BY <1>2, <1>3, <1>4, <1>5, <1>6, <1>7, <1>8 DEF Calls

\* The list becomes what the file holds, or a reload is still to come.
LEMMA ReadsChange ==
  ASSUME Inv, ListsInv, ChangeInv, TakeReload \/ OpenForReading \/ LoadList \/ ReadFails
  PROVE  ChangeInv'
<1>0. pc \in [Tasks -> Stages]
  BY DEF ListsInv
<1>1. ASSUME NEW from \in {"idle", "reload", "reading"}, NEW to \in {"idle", "reload", "reading"},
             Goto("loop", from, to)
      PROVE  /\ pc["loop"] = from /\ pc'["loop"] = to /\ pc'["httpd"] = pc["httpd"]
             /\ ~Writing("loop") /\ ~Writing("loop")' /\ HttpdOwes' = HttpdOwes
  BY <1>0, <1>1 DEF Goto, Tasks, Writing, HttpdOwes
<1>2. CASE TakeReload
  <2>1. UNCHANGED <<file, out, want>>
    BY <1>2 DEF TakeReload, card
  <2>2. Goto("loop", "idle", "reload")
    BY <1>2 DEF TakeReload
  <2> QED BY <1>1, <2>1, <2>2 DEF ChangeInv, InBody, InMemory, InFile
<1>3. CASE OpenForReading
  <2>1. UNCHANGED <<file, out, want>>
    BY <1>3 DEF OpenForReading
  <2>2. Goto("loop", "reload", "reading")
    BY <1>3 DEF OpenForReading
  <2> QED BY <1>1, <2>1, <2>2 DEF ChangeInv, InBody, InMemory, InFile
<1>4. CASE LoadList
  <2>1. UNCHANGED <<file, out, want, reload_required_>> /\ Goto("loop", "reading", "idle")
    BY <1>4 DEF LoadList, ReadOver
  <2>2. ~reload_required_ /\ ~HttpdOwes => acl_' = Load(file)
    BY <1>4, <2>1 DEF LoadList, Readable, Inv, Goto
  <2> QED BY <1>1, <2>1, <2>2 DEF ChangeInv, InBody, InMemory, InFile
<1>5. CASE ReadFails
  BY <1>5 DEF ReadFails, ChangeInv
<1> QED BY <1>2, <1>3, <1>4, <1>5

LEMMA OthersChange ==
  ASSUME ListsInv, ChangeInv, \/ StartLogs \/ AppendLogs \/ AppendFails
                              \/ AskReload \/ Restart \/ UNCHANGED vars
  PROVE  ChangeInv'
<1>0. pc \in [Tasks -> Stages]
  BY DEF ListsInv
<1>1. CASE StartLogs \/ AppendLogs \/ AppendFails
  <2>1. UNCHANGED <<acl_, removing, reload_required_, file, out, want>>
    BY <1>1 DEF StartLogs, AppendLogs, AppendFails, Flushed, list, card
  <2>2. PICK to \in {"idle", "logging"} : Goto("loop", pc["loop"], to)
    BY <1>1 DEF StartLogs, AppendLogs, AppendFails, Flushed, Goto
  <2>3. pc["loop"] \in {"idle", "logging"}
    BY <1>1 DEF StartLogs, AppendLogs, AppendFails, Flushed, Goto
  <2>4. pc'["loop"] \in {"idle", "logging"} /\ pc'["httpd"] = pc["httpd"]
    BY <1>0, <2>2 DEF Goto, Tasks
  <2> QED BY <2>1, <2>3, <2>4 DEF ChangeInv, InBody, InMemory, InFile, Writing, HttpdOwes
<1>2. CASE AskReload
  <2>1. pc["httpd"] = "answer" /\ pc'["httpd"] = "idle" /\ pc'["loop"] = pc["loop"]
    BY <1>0, <1>2 DEF AskReload, Goto, Tasks
  <2> QED BY <1>2, <2>1
          DEF AskReload, card, ChangeInv, InBody, InMemory, InFile, Writing, Left
<1>3. CASE Restart
  BY <1>3 DEF Restart, ChangeInv
<1>4. CASE UNCHANGED vars
  BY <1>4 DEF vars, list, card, ChangeInv, InBody, InMemory, InFile, Writing, Left, HttpdOwes
<1> QED BY <1>1, <1>2, <1>3, <1>4

LEMMA NextChange == Inv /\ ListsInv /\ ChangeInv /\ [Next]_vars => ChangeInv'
<1> SUFFICES ASSUME Inv, ListsInv, ChangeInv, [Next]_vars PROVE ChangeInv'
  OBVIOUS
<1>1. CASE LoopTask
  BY <1>1, ReadsChange, OthersChange, WritesChange, CallsChange DEF LoopTask, Tasks
<1>2. CASE HttpdTask
  BY <1>2, OthersChange, WritesChange DEF HttpdTask, Tasks
<1>3. CASE Calls
  BY <1>3, CallsChange
<1>4. CASE CardFails
  BY <1>4, WritesChange, ReadsChange, OthersChange DEF CardFails
<1>5. CASE Restart \/ UNCHANGED vars
  BY <1>5, OthersChange
<1> QED BY <1>1, <1>2, <1>3, <1>4, <1>5 DEF Next

\* At rest the list is what the last change asked for: nothing is lost or added
\* from the call or the body, through the file, to the list that is loaded
\* (acl.cpp:86-114, acl_store.cpp:23-61).  Nothing is said once the other task
\* was writing as well, an operation failed, a name had a comma, a POST was not
\* well-formed, or add_acl() dropped a key held under another name.
THEOREM ChangesHold == Spec => []ChangeHolds
<1>1. Init => ChangeInv
  BY DEF Init, ChangeInv
<1>2. ListsInv /\ ChangeInv => ChangeHolds
  BY DEF ListsInv, ChangeInv, InBody, InMemory, InFile, ChangeHolds, AtRest, Writing, HttpdOwes
<1>3. QED
  BY <1>1, <1>2, InitInv, NextInv, InitLists, NextLists, NextChange, PTL DEF Spec

-----------------------------------------------------------------------------
(* The logs. *)

Messages == [day : Days \cup {None}, id : Nat \ {0}]

LogTypes ==
  /\ faults \in Nat
  /\ asked \in Seq(Days \cup {None})
  /\ pending_logs_ \in Seq(Messages)
  /\ logs \in [Days -> Seq(Nat \ {0})]

\* The messages in memory are of checks that were made, in their order, ...
PendingInv ==
  /\ \A i \in 1 .. Len(pending_logs_) : /\ pending_logs_[i].id <= Len(asked)
                                        /\ asked[pending_logs_[i].id] = pending_logs_[i].day
  /\ \A i, j \in 1 .. Len(pending_logs_) : i < j => pending_logs_[i].id < pending_logs_[j].id

\* ... those in a file are of checks made on its day, in their order, ...
LoggedInv ==
  \A d \in Days :
    /\ \A i \in 1 .. Len(logs[d]) : logs[d][i] <= Len(asked) /\ asked[logs[d][i]] = d
    /\ \A i, j \in 1 .. Len(logs[d]) : i < j => logs[d][i] < logs[d][j]

\* ... and before all of those in memory.
LoggedFirst ==
  \A d \in Days : \A i \in 1 .. Len(logs[d]), j \in 1 .. Len(pending_logs_) :
    logs[d][i] < pending_logs_[j].id

InSomeLog(id) == \E d \in Days : \E i \in 1 .. Len(logs[d]) : logs[d][i] = id
AllKept ==
  faults = 0 => \A id \in 1 .. Len(asked) :
    \/ asked[id] = None
    \/ \E i \in 1 .. Len(pending_logs_) : pending_logs_[i].id = id
    \/ InSomeLog(id)

LogInv == LogTypes /\ PendingInv /\ LoggedInv /\ LoggedFirst /\ AllKept

\* The messages of a batch have the day of the first one, or no date.
LEMMA BatchFacts ==
  ASSUME LogTypes
  PROVE  /\ Batch \in 0 .. Len(pending_logs_)
         /\ \A i \in 1 .. Batch : pending_logs_[i].day # None
              => pending_logs_[i].day = Day /\ Day \in Days
<1> DEFINE p == pending_logs_
           n == Len(p)
           other == {i \in DOMAIN p : p[i].day \notin {Day, None}}
<1>1. /\ p \in Seq(Messages) /\ n \in Nat /\ DOMAIN p = 1 .. n
      /\ \A i \in 1 .. n : p[i] \in Messages /\ p[i].day \in Days \cup {None}
  <2>1. p \in Seq(Messages) /\ n \in Nat /\ DOMAIN p = 1 .. n
    BY DEF LogTypes
  <2>2. \A i \in 1 .. n : p[i] \in Messages
    BY <2>1
  <2>3. \A msg \in Messages : msg.day \in Days \cup {None}
    BY DEF Messages
  <2> QED BY <2>1, <2>2, <2>3
<1>2. PICK pos \in [1 .. Len(Dated(p)) -> 1 .. n] :
        /\ \A i \in 1 .. Len(Dated(p)) : Dated(p)[i] = p[pos[i]] /\ p[pos[i]].day # None
        /\ \A i \in 1 .. n : p[i].day # None => \E j \in 1 .. Len(Dated(p)) : pos[j] = i
  BY <1>1, DatedFacts DEF DatedOf
<1>3. Dated(p) \in Seq(Messages)
  BY <1>1, DatedFacts
<1>4. Batch = IF Dated(p) = <<>> \/ other = {} THEN n ELSE Min(other) - 1
  BY DEF Batch
<1>5. Dated(p) # <<>> => Day \in Days
  <2>1. Dated(p) # <<>> => 1 \in 1 .. Len(Dated(p))
    BY <1>3
  <2> QED BY <1>1, <1>2, <2>1 DEF Day
<1>6. CASE Dated(p) = <<>>
  <2>1. \A i \in 1 .. n : p[i].day = None
    <3>1. Len(Dated(p)) = 0
      BY <1>6
    <3> QED BY <1>2, <3>1
  <2>2. Batch = n
    BY <1>4, <1>6
  <2> QED BY <1>1, <2>1, <2>2
<1>7. CASE Dated(p) # <<>> /\ other = {}
  <2>1. \A i \in 1 .. n : p[i].day \in {Day, None}
    BY <1>1, <1>7
  <2>2. Batch = n
    BY <1>4, <1>7
  <2> QED BY <1>1, <1>5, <1>7, <2>1, <2>2
<1>8. CASE Dated(p) # <<>> /\ other # {}
  <2>1. other \subseteq 1 .. n
    BY <1>1
  <2>2. \A i \in 1 .. n : i \notin other => p[i].day \in {Day, None}
    BY <1>1
  <2> HIDE DEF other, p, n
  <2>3. \E x \in other : \A y \in other : x <= y
    <3>1. other \subseteq Nat
      BY <2>1
    <3> QED BY <1>8, <3>1, Least
  <2>4. Min(other) \in other /\ \A y \in other : Min(other) <= y
    BY <2>3 DEF Min
  <2>5. Batch = Min(other) - 1 /\ Min(other) \in 1 .. n
    BY <1>4, <1>8, <2>1, <2>4
  <2>6. \A i \in 1 .. Batch : i \in 1 .. n /\ i \notin other
    BY <1>1, <2>4, <2>5
  <2>7. Batch \in 0 .. n
    BY <1>1, <2>5
  <2> QED BY <1>5, <1>8, <2>2, <2>6, <2>7 DEF p, n
<1> QED BY <1>6, <1>7, <1>8

\* What is left in memory after a batch.
LEMMA FlushedFacts ==
  ASSUME LogTypes, Flushed
  PROVE  LET n == Len(pending_logs_)
         IN  /\ n \in Nat /\ Batch \in 0 .. n
             /\ pending_logs_' \in Seq(Messages) /\ Len(pending_logs_') = n - Batch
             /\ \A i \in 1 .. n - Batch : Batch + i \in 1 .. n
                                          /\ pending_logs_'[i] = pending_logs_[Batch + i]
<1> DEFINE p == pending_logs_
           n == Len(p)
           b == Batch
<1>1. b \in 0 .. n /\ p \in Seq(Messages) /\ n \in Nat /\ pending_logs_' = SubSeq(p, b + 1, n)
  BY BatchFacts DEF Flushed, LogTypes
<1> HIDE DEF b
<1>2. SubSeq(p, b + 1, n) \in Seq(Messages) /\ Len(SubSeq(p, b + 1, n)) = n - b
  BY <1>1
<1>3. \A i \in 1 .. n - b : b + i \in 1 .. n /\ SubSeq(p, b + 1, n)[i] = p[b + i]
  BY <1>1
<1> QED BY <1>1, <1>2, <1>3 DEF b

\* Messages that leave the memory take nothing from what is said of the rest.
LEMMA FlushedPending ==
  ASSUME LogInv, Flushed
  PROVE  /\ asked' = asked /\ pending_logs_' \in Seq(Messages) /\ PendingInv'
         /\ \A d \in Days : \A i \in 1 .. Len(logs[d]), j \in 1 .. Len(pending_logs_') :
              logs[d][i] < pending_logs_'[j].id
<1> DEFINE p == pending_logs_
           q == pending_logs_'
           n == Len(p)
           b == Batch
<1>1. /\ n \in Nat /\ b \in 0 .. n /\ q \in Seq(Messages) /\ Len(q) = n - b
      /\ \A i \in 1 .. n - b : b + i \in 1 .. n /\ q[i] = p[b + i]
  BY FlushedFacts DEF LogInv
<1>2. asked' = asked
  BY DEF Flushed
<1> HIDE DEF b, q, n
<1>3. \A i \in 1 .. Len(q) : q[i].id <= Len(asked) /\ asked[q[i].id] = q[i].day
  BY <1>1 DEF LogInv, PendingInv, n
<1>4. \A i, j \in 1 .. Len(q) : i < j => q[i].id < q[j].id
  <2> SUFFICES ASSUME NEW i \in 1 .. Len(q), NEW j \in 1 .. Len(q), i < j
               PROVE  q[i].id < q[j].id
    OBVIOUS
  <2>1. b + i \in 1 .. n /\ b + j \in 1 .. n /\ b + i < b + j
        /\ q[i] = p[b + i] /\ q[j] = p[b + j]
    BY <1>1
  <2> QED BY <2>1 DEF LogInv, PendingInv, n
<1>5. \A d \in Days : \A i \in 1 .. Len(logs[d]), j \in 1 .. Len(q) : logs[d][i] < q[j].id
  BY <1>1 DEF LogInv, LoggedFirst, n
<1> QED BY <1>1, <1>2, <1>3, <1>4, <1>5 DEF PendingInv, q

\* What store_logs() writes of a batch: the messages with a date, which have
\* all the same.
LEMMA BatchWritten ==
  ASSUME LogTypes
  PROVE  LET batch == Collected
         IN  /\ batch \in Seq(Messages)
             /\ \E pos \in [1 .. Len(batch) -> 1 .. Batch] :
                  /\ \A i \in 1 .. Len(batch) : /\ batch[i] = pending_logs_[pos[i]]
                                                /\ batch[i].day = Day /\ Day \in Days
                  /\ \A i, j \in 1 .. Len(batch) : i < j => pos[i] < pos[j]
                  /\ \A i \in 1 .. Batch : pending_logs_[i].day # None
                       => \E j \in 1 .. Len(batch) : pos[j] = i
<1> DEFINE p == pending_logs_
           b == Batch
           m == SubSeq(p, 1, b)
           batch == Dated(m)
<1>1. /\ p \in Seq(Messages) /\ Len(p) \in Nat /\ b \in 0 .. Len(p)
      /\ \A i \in 1 .. b : p[i].day # None => p[i].day = Day /\ Day \in Days
  BY BatchFacts DEF LogTypes
<1> HIDE DEF b, p
<1>2. m \in Seq(Messages) /\ Len(m) = b
  BY <1>1
<1>3. \A i \in 1 .. b : m[i] = p[i]
  BY <1>1
<1> HIDE DEF m
<1>4. batch \in Seq(Messages) /\ DatedOf(batch, m, b)
  BY <1>2, DatedFacts
<1> HIDE DEF batch
<1>5. PICK pos \in [1 .. Len(batch) -> 1 .. b] :
        /\ \A i \in 1 .. Len(batch) : batch[i] = m[pos[i]] /\ m[pos[i]].day # None
        /\ \A i, j \in 1 .. Len(batch) : i < j => pos[i] < pos[j]
        /\ \A i \in 1 .. b : m[i].day # None => \E j \in 1 .. Len(batch) : pos[j] = i
  BY <1>4 DEF DatedOf
<1>6. \A i \in 1 .. Len(batch) : batch[i] = p[pos[i]] /\ batch[i].day = Day /\ Day \in Days
  <2> SUFFICES ASSUME NEW i \in 1 .. Len(batch)
               PROVE  batch[i] = p[pos[i]] /\ batch[i].day = Day /\ Day \in Days
    OBVIOUS
  <2>1. pos[i] \in 1 .. b
    BY <1>5
  <2>2. batch[i] = m[pos[i]] /\ m[pos[i]].day # None /\ m[pos[i]] = p[pos[i]]
    BY <1>3, <1>5, <2>1
  <2> QED BY <1>1, <2>1, <2>2
<1>7. \A i \in 1 .. b : p[i].day # None => \E j \in 1 .. Len(batch) : pos[j] = i
  BY <1>3, <1>5
<1> QED BY <1>4, <1>5, <1>6, <1>7 DEF p, b, m, batch, Collected

\* The first k messages of a batch are written: all of them, or an operation
\* has failed.
LEMMA AppendedLog ==
  ASSUME LogInv, Flushed, NEW k \in 0 .. Len(Collected), Appended(k), faults' \in Nat,
         (k = Len(Collected) /\ faults' = faults) \/ faults' # 0
  PROVE  LogInv'
<1> DEFINE p == pending_logs_
           q == pending_logs_'
           n == Len(p)
           b == Batch
           batch == Collected
           m == Len(batch)
           L == logs[Day]
           ids == [i \in 1 .. k |-> batch[i].id]
           new == L \o ids
<1>1. Flushed /\ LogTypes /\ (faults' = 0 => k = m /\ faults = 0)
  BY DEF LogInv
<1>2. /\ n \in Nat /\ b \in 0 .. n /\ q \in Seq(Messages) /\ Len(q) = n - b
      /\ \A i \in 1 .. n - b : b + i \in 1 .. n /\ q[i] = p[b + i]
  BY <1>1, FlushedFacts
<1>3. /\ asked' = asked /\ q \in Seq(Messages) /\ PendingInv'
      /\ \A d \in Days : \A i \in 1 .. Len(logs[d]), j \in 1 .. Len(q) : logs[d][i] < q[j].id
  BY <1>1, FlushedPending
<1>4. batch \in Seq(Messages)
  BY <1>1, BatchWritten
<1>5. PICK pos \in [1 .. m -> 1 .. b] :
        /\ \A i \in 1 .. m : batch[i] = p[pos[i]] /\ batch[i].day = Day /\ Day \in Days
        /\ \A i, j \in 1 .. m : i < j => pos[i] < pos[j]
        /\ \A i \in 1 .. b : p[i].day # None => \E j \in 1 .. m : pos[j] = i
  BY <1>1, BatchWritten
<1>6. logs' = IF k = 0 THEN logs ELSE [logs EXCEPT ![Day] = new]
  BY DEF Appended
<1>7. k \in 0 .. m /\ m \in Nat /\ \A i \in 1 .. m : batch[i].id \in Nat \ {0}
  <2>1. \A i \in 1 .. m : batch[i] \in Messages
    BY <1>4
  <2>2. \A msg \in Messages : msg.id \in Nat \ {0}
    BY DEF Messages
  <2> QED BY <1>4, <2>1, <2>2
<1> HIDE DEF batch, m, b, q, n
\* Of a check that was in memory, the message is still there, or it is written
\* if it has a date.
<1>8. ASSUME NEW id \in 1 .. Len(asked), NEW i \in 1 .. n, p[i].id = id
      PROVE  \/ asked[id] = None
             \/ \E j \in 1 .. Len(q) : q[j].id = id
             \/ \E j \in 1 .. m : batch[j].id = id
  <2>1. CASE i <= b
    <3>1. asked[id] = p[i].day
      BY <1>8 DEF LogInv, PendingInv, n
    <3>2. i \in 1 .. b
      BY <1>2, <2>1
    <3>3. p[i].day # None => \E j \in 1 .. m : batch[j] = p[i]
      BY <1>5, <3>2
    <3> QED BY <1>8, <3>1, <3>3
  <2>2. CASE i > b
    <3>1. i - b \in 1 .. Len(q) /\ b + (i - b) = i
      BY <1>2, <2>2
    <3>2. q[i - b] = p[i]
      BY <1>2, <3>1
    <3> QED BY <1>8, <3>1, <3>2
  <2> QED BY <1>2, <2>1, <2>2
<1>9. CASE k = 0
  <2>1. logs' = logs
    BY <1>6, <1>9
  <2>2. AllKept'
    <3> SUFFICES ASSUME faults = 0, k = m, NEW id \in 1 .. Len(asked), asked[id] # None
                 PROVE  (\E i \in 1 .. Len(q) : q[i].id = id) \/ InSomeLog(id)
      BY <1>1, <1>3, <2>1 DEF AllKept, InSomeLog, q
    <3>1. (\E i \in 1 .. n : p[i].id = id) \/ InSomeLog(id)
      BY DEF LogInv, AllKept, n
    <3> QED BY <1>8, <1>9, <3>1
  <2> QED BY <1>1, <1>3, <2>1, <2>2 DEF LogInv, LogTypes, LoggedInv, LoggedFirst, q
<1>10. CASE k # 0
  <2>1. Day \in Days /\ k \in Nat /\ \A i \in 1 .. k : i \in 1 .. m
    BY <1>5, <1>7, <1>10
  <2>2. L \in Seq(Nat \ {0}) /\ ids \in Seq(Nat \ {0}) /\ Len(ids) = k /\ Len(L) \in Nat
    <3>1. L \in Seq(Nat \ {0})
      BY <1>1, <2>1 DEF LogTypes
    <3>2. ids \in [1 .. k -> Nat \ {0}]
      BY <1>7, <2>1
    <3> HIDE DEF L, ids
    <3> QED BY <2>1, <3>1, <3>2
  <2>3. \A i \in 1 .. k : /\ ids[i] = p[pos[i]].id /\ p[pos[i]].day = Day
                          /\ pos[i] \in 1 .. b /\ pos[i] \in 1 .. n
    <3> SUFFICES ASSUME NEW i \in 1 .. k
                 PROVE  /\ ids[i] = p[pos[i]].id /\ p[pos[i]].day = Day
                        /\ pos[i] \in 1 .. b /\ pos[i] \in 1 .. n
      OBVIOUS
    <3>1. i \in 1 .. m /\ ids[i] = batch[i].id
      BY <2>1
    <3>2. pos[i] \in 1 .. b /\ batch[i] = p[pos[i]] /\ batch[i].day = Day
      BY <1>5, <3>1
    <3> QED BY <1>2, <3>1, <3>2
  <2>4. logs' = [logs EXCEPT ![Day] = new]
    BY <1>6, <1>10
  <2> DEFINE a == Len(L)
  <2>5. /\ new \in Seq(Nat \ {0}) /\ Len(new) = a + k
        /\ \A i \in 1 .. a : new[i] = L[i]
        /\ \A i \in 1 .. k : new[a + i] = ids[i]
    <3> DEFINE Ids == Nat \ {0}
    <3>0. L \in Seq(Ids) /\ ids \in Seq(Ids)
      BY <2>2
    <3> HIDE DEF L, ids, Ids
    <3>1. /\ L \o ids \in Seq(Ids) /\ Len(L \o ids) = Len(L) + Len(ids)
          /\ \A i \in 1 .. Len(L) : (L \o ids)[i] = L[i]
          /\ \A i \in 1 .. Len(ids) : (L \o ids)[Len(L) + i] = ids[i]
      BY <3>0, Concat
    <3> QED BY <2>2, <3>1 DEF Ids
  <2>6. /\ \A i \in 1 .. k : ids[i] <= Len(asked) /\ asked[ids[i]] = Day
        /\ \A i, j \in 1 .. k : i < j => ids[i] < ids[j]
        /\ \A i \in 1 .. a, j \in 1 .. k : L[i] < ids[j]
        /\ \A i \in 1 .. k, j \in 1 .. Len(q) : ids[i] < q[j].id
    <3> HIDE DEF ids
    <3>1. \A i \in 1 .. k : ids[i] <= Len(asked) /\ asked[ids[i]] = Day
      BY <2>3 DEF LogInv, PendingInv, n
    <3>2. \A i, j \in 1 .. k : i < j => ids[i] < ids[j]
      BY <1>5, <2>1, <2>3 DEF LogInv, PendingInv, n
    <3>3. \A i \in 1 .. a, j \in 1 .. k : L[i] < ids[j]
      BY <2>1, <2>3 DEF LogInv, LoggedFirst, n
    <3>4. ASSUME NEW i \in 1 .. k, NEW j \in 1 .. Len(q)
          PROVE  ids[i] < q[j].id
      <4>1. q[j] = p[b + j] /\ b + j \in 1 .. n /\ pos[i] \in 1 .. n
        BY <1>2, <2>3
      <4>2. pos[i] < b + j
        BY <1>2, <2>3
      <4> QED BY <2>3, <4>1, <4>2 DEF LogInv, PendingInv, n
    <3> QED BY <3>1, <3>2, <3>3, <3>4
  <2>7. /\ \A i \in 1 .. a : L[i] <= Len(asked) /\ asked[L[i]] = Day
        /\ \A i, j \in 1 .. a : i < j => L[i] < L[j]
        /\ \A i \in 1 .. a, j \in 1 .. Len(q) : L[i] < q[j].id
    BY <1>3, <2>1 DEF LogInv, LoggedInv
  <2> HIDE DEF new, ids, L, a
  <2>8. a \in Nat
    BY <2>2 DEF a
  <2>9. ASSUME NEW i \in 1 .. a + k
        PROVE  (i \in 1 .. a /\ new[i] = L[i])
               \/ (i \notin 1 .. a /\ i - a \in 1 .. k /\ new[i] = ids[i - a])
    <3>1. CASE i <= a
      BY <2>5, <2>8, <3>1
    <3>2. CASE i > a
      <4>1. i - a \in 1 .. k /\ a + (i - a) = i
        BY <2>1, <2>8, <3>2
      <4>2. new[a + (i - a)] = ids[i - a]
        BY <2>5, <4>1
      <4>3. new[i] = ids[i - a]
        BY <4>1, <4>2, Zenon
      <4>4. i \notin 1 .. a
        BY <2>8, <3>2
      <4> QED BY <4>1, <4>3, <4>4
    <3> QED BY <2>1, <2>8, <3>1, <3>2
  <2>10. /\ \A i \in 1 .. Len(new) : new[i] <= Len(asked) /\ asked[new[i]] = Day
         /\ \A i \in 1 .. Len(new), j \in 1 .. Len(q) : new[i] < q[j].id
    <3> SUFFICES ASSUME NEW i \in 1 .. a + k
                 PROVE  /\ new[i] <= Len(asked) /\ asked[new[i]] = Day
                        /\ \A j \in 1 .. Len(q) : new[i] < q[j].id
      BY <2>5
    <3>1. CASE i \in 1 .. a /\ new[i] = L[i]
      BY <2>7, <3>1
    <3>2. CASE i - a \in 1 .. k /\ new[i] = ids[i - a]
      BY <2>6, <3>2
    <3> QED BY <2>9, <3>1, <3>2
  <2>11. \A i, j \in 1 .. Len(new) : i < j => new[i] < new[j]
    <3> SUFFICES ASSUME NEW i \in 1 .. a + k, NEW j \in 1 .. a + k, i < j
                 PROVE  new[i] < new[j]
      BY <2>5
    <3>1. CASE j \in 1 .. a
      <4>1. i \in 1 .. a
        BY <2>8, <3>1
      <4> QED BY <2>5, <2>7, <3>1, <4>1
    <3>2. CASE j \notin 1 .. a /\ i \in 1 .. a
      BY <2>6, <2>9, <3>2
    <3>3. CASE j \notin 1 .. a /\ i \notin 1 .. a
      <4>1. i - a \in 1 .. k /\ j - a \in 1 .. k /\ new[i] = ids[i - a] /\ new[j] = ids[j - a]
        BY <2>9, <3>3
      <4>2. i - a < j - a
        BY <2>8
      <4> QED BY <2>6, <4>1, <4>2
    <3> QED BY <3>1, <3>2, <3>3
  <2>12. logs'[Day] = new /\ logs' \in [Days -> Seq(Nat \ {0})]
         /\ \A d \in Days : d # Day => logs'[d] = logs[d]
    BY <1>1, <2>1, <2>4, <2>5 DEF LogTypes
  <2>13. LoggedInv'
    <3> SUFFICES ASSUME NEW d \in Days
                 PROVE  /\ \A i \in 1 .. Len(logs'[d]) : logs'[d][i] <= Len(asked)
                                                         /\ asked[logs'[d][i]] = d
                        /\ \A i, j \in 1 .. Len(logs'[d]) : i < j => logs'[d][i] < logs'[d][j]
      BY <1>3 DEF LoggedInv
    <3>1. CASE d = Day
      BY <2>10, <2>11, <2>12, <3>1
    <3>2. CASE d # Day
      BY <2>12, <3>2 DEF LogInv, LoggedInv
    <3> QED BY <3>1, <3>2
  <2>14. LoggedFirst'
    <3> SUFFICES ASSUME NEW d \in Days, NEW i \in 1 .. Len(logs'[d]), NEW j \in 1 .. Len(q)
                 PROVE  logs'[d][i] < q[j].id
      BY DEF LoggedFirst, q
    <3>1. CASE d = Day
      BY <2>10, <2>12, <3>1
    <3>2. CASE d # Day
      BY <1>3, <2>12, <3>2
    <3> QED BY <3>1, <3>2
  <2>15. ASSUME NEW d \in Days, NEW i \in 1 .. Len(logs[d])
         PROVE  i \in 1 .. Len(logs'[d]) /\ logs'[d][i] = logs[d][i]
    <3>1. CASE d = Day
      <4>1. i \in 1 .. a /\ L[i] = logs[d][i]
        BY <2>15, <3>1 DEF a, L
      <4>2. i \in 1 .. a + k
        BY <2>1, <2>8, <4>1
      <4> QED BY <2>5, <2>12, <3>1, <4>1, <4>2
    <3>2. CASE d # Day
      BY <2>12, <3>2
    <3> QED BY <3>1, <3>2
  <2>16. ASSUME NEW j \in 1 .. k
         PROVE  a + j \in 1 .. Len(logs'[Day]) /\ logs'[Day][a + j] = batch[j].id
    <3>1. ids[j] = batch[j].id
      BY DEF ids
    <3>2. a + j \in 1 .. a + k
      BY <2>1, <2>8
    <3> QED BY <2>5, <2>12, <3>1, <3>2
  <2>17. AllKept'
    <3> SUFFICES ASSUME faults = 0, k = m, NEW id \in 1 .. Len(asked), asked[id] # None
                 PROVE  (\E i \in 1 .. Len(q) : q[i].id = id)
                        \/ \E d \in Days : \E i \in 1 .. Len(logs'[d]) : logs'[d][i] = id
      BY <1>1, <1>3 DEF AllKept, InSomeLog, q
    <3>1. (\E i \in 1 .. n : p[i].id = id) \/ InSomeLog(id)
      BY DEF LogInv, AllKept, n
    <3>2. CASE InSomeLog(id)
      BY <2>15, <3>2 DEF InSomeLog
    <3>3. CASE \E i \in 1 .. n : p[i].id = id
      BY <1>8, <2>1, <2>16, <3>3, SMTT(30)
    <3> QED BY <3>1, <3>2, <3>3
  <2>18. LogTypes'
    BY <1>1, <1>3, <2>12 DEF LogTypes, q
  <2> QED BY <1>3, <2>13, <2>14, <2>17, <2>18 DEF LogInv
<1> QED BY <1>9, <1>10

LEMMA AppendsLog ==
  ASSUME LogInv, AppendLogs \/ AppendFails
  PROVE  LogInv'
<1>1. faults \in Nat /\ Flushed /\ Len(Collected) \in Nat
  BY BatchWritten DEF LogInv, LogTypes, AppendLogs, AppendFails
<1>2. CASE AppendLogs
  BY <1>1, <1>2, AppendedLog DEF AppendLogs
<1>3. CASE AppendFails
  <2>1. faults' \in Nat /\ faults' # 0
    BY <1>1, <1>3 DEF AppendFails, Fault
  <2> QED BY <1>1, <1>3, <2>1, AppendedLog DEF AppendFails
<1> QED BY <1>2, <1>3

\* A check is newer than all that came before.
LEMMA CheckLog ==
  ASSUME LogInv, NEW d \in Days \cup {None}, check(d)
  PROVE  LogInv'
<1> DEFINE p == pending_logs_
           q == pending_logs_'
           n == Len(p)
           a == Len(asked)
           msg == [day |-> d, id |-> a + 1]
<1>1. /\ p \in Seq(Messages) /\ n \in Nat /\ asked \in Seq(Days \cup {None}) /\ a \in Nat
      /\ logs \in [Days -> Seq(Nat \ {0})] /\ faults \in Nat
  BY DEF LogInv, LogTypes
<1>2. /\ asked' = Append(asked, d) /\ UNCHANGED <<logs, faults>>
      /\ q = Append(p, [day |-> d, id |-> Len(asked')])
  BY DEF check
<1>3. Len(asked') = a + 1 /\ asked'[a + 1] = d /\ asked' \in Seq(Days \cup {None})
      /\ \A i \in 1 .. a : asked'[i] = asked[i]
  BY <1>1, <1>2
<1>4. msg \in Messages /\ msg.id = a + 1 /\ msg.day = d
  BY <1>1 DEF Messages
<1>5. q = Append(p, msg)
  BY <1>2, <1>3
<1> HIDE DEF a, msg
<1>6. q \in Seq(Messages) /\ Len(q) = n + 1 /\ q[n + 1] = msg /\ \A i \in 1 .. n : q[i] = p[i]
  BY <1>1, <1>4, <1>5
<1> HIDE DEF q, n
<1>7. \A i \in 1 .. n : /\ p[i].id \in Nat \ {0} /\ p[i].id <= a /\ asked[p[i].id] = p[i].day
  <2>1. \A m \in Messages : m.id \in Nat \ {0}
    BY DEF Messages
  <2>2. \A i \in 1 .. n : p[i] \in Messages
    BY <1>1 DEF n
  <2> QED BY <2>1, <2>2 DEF LogInv, PendingInv, n, a
<1>8. \A e \in Days : \A i \in 1 .. Len(logs[e]) :
        logs[e][i] \in Nat \ {0} /\ logs[e][i] <= a /\ asked[logs[e][i]] = e
  BY <1>1 DEF LogInv, LoggedInv, a
<1>9. \A i \in 1 .. n + 1 : i \in 1 .. n \/ i = n + 1
  BY <1>1 DEF n
<1>10. PendingInv'
  <2>1. \A i \in 1 .. n + 1 : q[i].id <= Len(asked') /\ asked'[q[i].id] = q[i].day
    <3> SUFFICES ASSUME NEW i \in 1 .. n + 1
                 PROVE  q[i].id <= a + 1 /\ asked'[q[i].id] = q[i].day
      BY <1>3
    <3>1. CASE i = n + 1
      BY <1>1, <1>3, <1>4, <1>6, <3>1
    <3>2. CASE i \in 1 .. n
      <4>1. p[i].id \in 1 .. a
        BY <1>1, <1>7, <3>2
      <4>2. asked'[p[i].id] = p[i].day
        BY <1>3, <1>7, <3>2, <4>1
      <4>3. p[i].id <= a + 1
        BY <1>1, <4>1 DEF a
      <4> QED BY <1>6, <3>2, <4>2, <4>3
    <3> QED BY <1>9, <3>1, <3>2
  <2>2. \A i, j \in 1 .. n + 1 : i < j => q[i].id < q[j].id
    <3> SUFFICES ASSUME NEW i \in 1 .. n + 1, NEW j \in 1 .. n + 1, i < j
                 PROVE  q[i].id < q[j].id
      OBVIOUS
    <3>1. i \in 1 .. n /\ q[i] = p[i] /\ p[i].id <= a /\ p[i].id \in Nat
      BY <1>1, <1>6, <1>7 DEF n
    <3>2. CASE j = n + 1
      BY <1>1, <1>4, <1>6, <3>1, <3>2
    <3>3. CASE j \in 1 .. n
      BY <1>6, <3>1, <3>3 DEF LogInv, PendingInv, n
    <3> QED BY <1>9, <3>2, <3>3
  <2> QED BY <1>6, <2>1, <2>2 DEF PendingInv, q
<1>11. LoggedInv'
  <2>1. \A e \in Days : \A i \in 1 .. Len(logs[e]) :
          logs[e][i] <= Len(asked') /\ asked'[logs[e][i]] = e
    <3> SUFFICES ASSUME NEW e \in Days, NEW i \in 1 .. Len(logs[e])
                 PROVE  logs[e][i] <= a + 1 /\ asked'[logs[e][i]] = e
      BY <1>3
    <3>1. logs[e][i] \in 1 .. a
      BY <1>1, <1>8
    <3>2. asked'[logs[e][i]] = e
      BY <1>3, <1>8, <3>1
    <3>3. logs[e][i] <= a + 1
      BY <1>1, <3>1 DEF a
    <3> QED BY <3>2, <3>3
  <2>2. \A e \in Days : \A i, j \in 1 .. Len(logs[e]) : i < j => logs[e][i] < logs[e][j]
    BY DEF LogInv, LoggedInv
  <2> QED BY <1>2, <2>1, <2>2 DEF LoggedInv
<1>12. LoggedFirst'
  <2> SUFFICES ASSUME NEW e \in Days, NEW i \in 1 .. Len(logs[e]), NEW j \in 1 .. n + 1
               PROVE  logs[e][i] < q[j].id
    BY <1>2, <1>6 DEF LoggedFirst, q
  <2>1. CASE j = n + 1
    <3>1. q[j].id = a + 1
      BY <1>4, <1>6, <2>1
    <3>2. logs[e][i] \in Nat /\ logs[e][i] <= a /\ a \in Nat
      BY <1>1, <1>8 DEF a
    <3> QED BY <3>1, <3>2
  <2>2. CASE j \in 1 .. n
    BY <1>6, <2>2 DEF LogInv, LoggedFirst, n
  <2> QED BY <1>9, <2>1, <2>2
<1>13. AllKept'
  <2> SUFFICES ASSUME faults = 0, NEW id \in 1 .. a + 1, asked'[id] # None
               PROVE  (\E i \in 1 .. n + 1 : q[i].id = id) \/ InSomeLog(id)
    BY <1>2, <1>3, <1>6 DEF AllKept, InSomeLog, q
  <2>1. CASE id = a + 1
    <3>1. n + 1 \in 1 .. n + 1
      BY <1>1 DEF n
    <3> QED BY <1>4, <1>6, <2>1, <3>1
  <2>2. CASE id \in 1 .. a
    <3>1. asked[id] # None
      BY <1>3, <2>2
    <3>2. (\E i \in 1 .. n : p[i].id = id) \/ InSomeLog(id)
      BY <2>2, <3>1 DEF LogInv, AllKept, n, a
    <3>3. \A i \in 1 .. n : i \in 1 .. n + 1
      BY <1>1 DEF n
    <3> QED BY <1>6, <3>2, <3>3
  <2>3. id = a + 1 \/ id \in 1 .. a
    BY <1>1 DEF a
  <2> QED BY <2>1, <2>2, <2>3, Zenon
<1>14. LogTypes'
  BY <1>1, <1>2, <1>3, <1>6 DEF LogTypes, q
<1> QED BY <1>10, <1>11, <1>12, <1>13, <1>14 DEF LogInv

\* After a restart there is nothing in memory, and something may be lost.
LEMMA RestartLog ==
  ASSUME LogInv, Restart
  PROVE  LogInv'
<1>1. /\ pending_logs_' = <<>> /\ UNCHANGED <<logs, asked>> /\ faults' = faults + 1
      /\ LogTypes
  BY DEF Restart, Fault, LogInv
<1>2. faults' \in Nat /\ faults' # 0
  BY <1>1 DEF LogTypes
<1>3. pending_logs_' \in Seq(Messages) /\ Len(pending_logs_') = 0
  BY <1>1
<1>4. LogTypes' /\ LoggedInv' /\ AllKept'
  BY <1>1, <1>2, <1>3 DEF LogInv, LogTypes, LoggedInv, AllKept
<1>5. PendingInv' /\ LoggedFirst'
  BY <1>3 DEF PendingInv, LoggedFirst
<1> QED BY <1>4, <1>5 DEF LogInv

\* A step that leaves the logs alone, and may be one that fails.
LEMMA SameLog ==
  ASSUME LogInv, UNCHANGED log, faults' = faults \/ faults' = faults + 1
  PROVE  LogInv'
<1>1. faults \in Nat
  BY DEF LogInv, LogTypes
<1>2. faults' \in Nat /\ (faults' = 0 => faults = 0)
  BY <1>1
<1> QED BY <1>2, ZenonT(60)
        DEF log, LogInv, LogTypes, PendingInv, LoggedInv, LoggedFirst, AllKept, InSomeLog

LEMMA NextLog == LogInv /\ [Next]_vars => LogInv'
<1> SUFFICES ASSUME LogInv, [Next]_vars PROVE LogInv'
  OBVIOUS
<1>1. ASSUME NEW t, OpenForWriting(t) \/ OpenFails(t) \/ CloseWritten(t) \/ WriteFails(t)
      PROVE  LogInv'
  BY <1>1, SameLog DEF OpenForWriting, OpenFails, CloseWritten, WriteFails, Written, Fault
<1>2. CASE TakeReload \/ OpenForReading \/ LoadList \/ ReadFails
  BY <1>2, SameLog DEF TakeReload, OpenForReading, LoadList, ReadFails, Fault
<1>3. CASE StartLogs \/ EraseNext \/ AskReload \/ UNCHANGED vars
  BY <1>3, SameLog DEF StartLogs, EraseNext, AskReload, vars
<1>4. CASE AppendLogs \/ AppendFails \/ Restart
  BY <1>4, AppendsLog, RestartLog
<1>5. CASE Calls
  <2>1. ASSUME NEW d \in Days \cup {None}, check(d) PROVE LogInv'
    BY <2>1, CheckLog
  <2>2. ASSUME NEW n, NEW k, add_acl(n, k) \/ remove_acl(n) PROVE LogInv'
    BY <2>2, SameLog DEF add_acl, remove_acl
  <2>3. ASSUME NEW body, clear_acl \/ reload_acl \/ acl_post(body) PROVE LogInv'
    BY <2>3, SameLog DEF clear_acl, reload_acl, acl_post
  <2> QED BY <1>5, <2>1, <2>2, <2>3 DEF Calls
<1> QED BY <1>1, <1>2, <1>3, <1>4, <1>5 DEF Next, LoopTask, HttpdTask, CardFails

LEMMA InitLog == Init => LogInv
<1> SUFFICES ASSUME Init PROVE LogInv
  OBVIOUS
<1>1. /\ pending_logs_ = <<>> /\ asked = <<>> /\ logs = [d \in Days |-> <<>>] /\ faults = 0
  BY DEF Init
<1>2. Len(pending_logs_) = 0 /\ Len(asked) = 0 /\ \A d \in Days : Len(logs[d]) = 0
  BY <1>1
<1>3. LogTypes
  <2>1. <<>> \in Seq(Nat \ {0}) /\ <<>> \in Seq(Messages) /\ <<>> \in Seq(Days \cup {None})
    OBVIOUS
  <2> QED BY <1>1, <2>1 DEF LogTypes
<1>4. PendingInv /\ LoggedInv /\ LoggedFirst /\ AllKept
  BY <1>2 DEF PendingInv, LoggedInv, LoggedFirst, AllKept
<1> QED BY <1>3, <1>4 DEF LogInv

\* Each check is in the log of its own day, once and in order, and none with a
\* date is lost unless the card or the power failed, for any number of checks
\* and however the clock is set (acl_store.cpp:74-97, acl.cpp:62-66).
THEOREM EachCheckLogged == Spec => []LogBook
<1>1. ASSUME LogInv PROVE LogBook
  <2> DEFINE pending == {pending_logs_[i].id : i \in DOMAIN pending_logs_}
             written == UNION {Range(logs[d]) : d \in Days}
  <2>1. /\ DOMAIN pending_logs_ = 1 .. Len(pending_logs_) /\ DOMAIN asked = 1 .. Len(asked)
        /\ \A d \in Days : DOMAIN logs[d] = 1 .. Len(logs[d])
    BY <1>1 DEF LogInv, LogTypes
  <2>2. \A d \in Days : /\ \A i, j \in DOMAIN logs[d] : i < j => logs[d][i] < logs[d][j]
                        /\ \A id \in Range(logs[d]) : asked[id] = d
    BY <1>1, <2>1 DEF LogInv, LoggedInv, Range
  <2>3. \A p \in pending, w \in written : w < p
    BY <1>1, <2>1 DEF LogInv, LoggedFirst, Range
  <2>4. faults = 0 => \A id \in DOMAIN asked : asked[id] = None \/ id \in pending \cup written
    BY <1>1, <2>1 DEF LogInv, AllKept, InSomeLog, Range
  <2> QED BY <2>2, <2>3, <2>4 DEF LogBook
<1>2. QED
  BY <1>1, InitLog, NextLog, PTL DEF Spec

\* Lists, rows and logs have their types, and remove_acl() goes on only while
\* there is an entry to erase (acl.cpp:95-104).
THEOREM TypesKept == Spec => []TypeOK
<1>1. ASSUME ListsInv, LogInv PROVE TypeOK
  <2>1. pending_logs_ \in Seq([day : Days \cup {None}, id : DOMAIN asked])
    <3>1. \A i \in 1 .. Len(pending_logs_) :
            pending_logs_[i] \in [day : Days \cup {None}, id : DOMAIN asked]
      <4> SUFFICES ASSUME NEW i \in 1 .. Len(pending_logs_)
                   PROVE  pending_logs_[i] \in [day : Days \cup {None}, id : DOMAIN asked]
        OBVIOUS
      <4>1. pending_logs_[i] \in Messages
        BY <1>1 DEF LogInv, LogTypes
      <4>2. pending_logs_[i].id <= Len(asked) /\ pending_logs_[i].id \in Nat \ {0}
        BY <1>1, <4>1 DEF LogInv, PendingInv, Messages
      <4>3. Len(asked) \in Nat /\ DOMAIN asked = 1 .. Len(asked)
        BY <1>1 DEF LogInv, LogTypes
      <4>4. pending_logs_[i].id \in DOMAIN asked
        BY <4>2, <4>3
      <4> QED BY <4>1, <4>4 DEF Messages
    <3>2. pending_logs_ \in Seq(Messages)
      BY <1>1 DEF LogInv, LogTypes
    <3>3. Len(pending_logs_) \in Nat
          /\ pending_logs_ = [i \in 1 .. Len(pending_logs_) |-> pending_logs_[i]]
      BY <3>2
    <3> DEFINE Asked == [day : Days \cup {None}, id : DOMAIN asked]
    <3> HIDE DEF Asked
    <3>4. \A i \in 1 .. Len(pending_logs_) : pending_logs_[i] \in Asked
      BY <3>1 DEF Asked
    <3>5. pending_logs_ \in Seq(Asked)
      BY <3>3, <3>4
    <3> QED BY <3>5 DEF Asked
  <2>2. logs \in [Days -> Seq(DOMAIN asked)]
    <3>1. logs \in [Days -> Seq(Nat \ {0})] /\ Len(asked) \in Nat
          /\ DOMAIN asked = 1 .. Len(asked)
      BY <1>1 DEF LogInv, LogTypes
    <3>2. ASSUME NEW d \in Days PROVE logs[d] \in Seq(DOMAIN asked)
      <4>1. logs[d] \in Seq(Nat \ {0})
        BY <3>1
      <4>2. \A i \in 1 .. Len(logs[d]) : logs[d][i] \in Nat \ {0} /\ logs[d][i] <= Len(asked)
        BY <1>1, <4>1 DEF LogInv, LoggedInv
      <4>3. \A i \in 1 .. Len(logs[d]) : logs[d][i] \in DOMAIN asked
        BY <3>1, <4>2
      <4> QED BY <4>1, <4>3
    <3> QED BY <3>1, <3>2
  <2>3. {file, seen, out["loop"], out["httpd"]} \subseteq Seq(Text)
    BY <1>1 DEF ListsInv, Tasks
  <2> QED BY <1>1, <2>1, <2>2, <2>3
          DEF TypeOK, ListsInv, LogInv, LogTypes, AList, LoopStages, HttpdStages
<1>2. QED
  BY <1>1, InitLists, NextLists, InitLog, NextLog, PTL DEF Spec
=============================================================================
