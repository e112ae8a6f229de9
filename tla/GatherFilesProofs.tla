------------------------- MODULE GatherFilesProofs --------------------------
(***************************************************************************)
(* Theorems about GatherFiles, for any remote tree, any SRC lists and any  *)
(* number of failures and changes. TypeOK rests on the shape of the search *)
(* (TypeInv), Fetched on invariants of its three phases (IInv), PlanExact  *)
(* on what the search has promised, found and sorted out (PlanIInv).       *)
(***************************************************************************)
EXTENDS GatherFiles, FiniteSetTheorems, SequenceTheorems, WellFoundedInduction, TLAPS

-----------------------------------------------------------------------------
(* Natural numbers                                                         *)

\* The natural numbers are well-founded.
LEMMA LessWF == IsWellFoundedOn({r \in Nat \X Nat : r[1] < r[2]}, Nat)
BY NatLessThanWellFounded DEF OpToRel

\* Every nonempty set of natural numbers has a least element.
LEMMA LeastNat == ASSUME NEW T, T \subseteq Nat, T # {} PROVE \E x \in T : \A y \in T : x <= y
<1> DEFINE R == {r \in Nat \X Nat : r[1] < r[2]}
<1>1. IsWellFoundedOn(R, Nat) BY LessWF
<1>2. \A x, y \in Nat : x < y => <<x, y>> \in R OBVIOUS
<1> HIDE DEF R
<1>3. PICK x \in T : \A y \in T : <<y, x>> \notin R BY <1>1, WFMin
<1>4. \A y \in T : ~(y < x) BY <1>2, <1>3
<1>5. \A y \in T : x <= y BY <1>4
<1> QED BY <1>5

\* What is true of 0 and of a number's successor is true of all.
LEMMA Inductive ==
  ASSUME NEW T, 0 \in T, \A n \in Nat : n \in T => n + 1 \in T
  PROVE  Nat \subseteq T
<1> SUFFICES ASSUME Nat \ T # {} PROVE FALSE OBVIOUS
<1>1. PICK m \in Nat \ T : \A n \in Nat \ T : m <= n BY LeastNat
<1>2. m - 1 \in Nat /\ ~(m <= m - 1) BY <1>1
<1>3. m - 1 \in T BY <1>1, <1>2
<1>4. m - 1 + 1 \in T /\ m - 1 + 1 = m BY <1>2, <1>3
<1> QED BY <1>1, <1>4

-----------------------------------------------------------------------------
(* Lists and paths                                                         *)

\* The last of a list, and those before it.
LEMMA ListEnds ==
  ASSUME NEW S, NEW s \in Seq(S), s # <<>>
  PROVE  /\ Len(s) \in Nat \ {0}
         /\ Front(s) \in Seq(S) /\ Len(Front(s)) = Len(s) - 1
         /\ \A i \in 1..Len(Front(s)) : Front(s)[i] = s[i] /\ i \in 1..Len(s)
         /\ Last(s) \in S /\ Last(s) = s[Len(s)]
<1>1. Len(s) \in Nat \ {0} BY EmptySeq, LenProperties
<1>2. \A i \in 1..Len(s) : s[i] \in S BY ElementOfSeq
<1>3. \A i \in 1..Len(s) - 1 : s[i] \in S BY <1>1, <1>2
<1>4. /\ Front(s) \in Seq(S)
      /\ Len(Front(s)) = IF 1 <= Len(s) - 1 THEN Len(s) - 1 - 1 + 1 ELSE 0
      /\ \A i \in 1..Len(s) - 1 - 1 + 1 : Front(s)[i] = s[1 + i - 1]
  BY <1>1, <1>3, SubSeqProperties DEF Front
<1>5. Len(Front(s)) = Len(s) - 1
  <2>1. Len(Front(s)) = IF 1 <= Len(s) - 1 THEN Len(s) - 1 - 1 + 1 ELSE 0 BY <1>4
  <2>2. PICK n \in Nat : n = Len(s) /\ n # 0 BY <1>1
  <2>3. (IF 1 <= n - 1 THEN n - 1 - 1 + 1 ELSE 0) = n - 1 BY <2>2
  <2> QED BY <2>1, <2>2, <2>3
<1>6. \A i \in 1..Len(Front(s)) : Front(s)[i] = s[i] /\ i \in 1..Len(s) BY <1>1, <1>4, <1>5
<1> QED BY <1>1, <1>2, <1>4, <1>5, <1>6 DEF Last

\* The first of a list, and those after it.
LEMMA HeadRest ==
  ASSUME NEW S, NEW s \in Seq(S), s # <<>>
  PROVE  /\ Len(s) \in Nat \ {0} /\ Head(s) = s[1] /\ Head(s) \in S
         /\ Tail(s) \in Seq(S) /\ Len(Tail(s)) = Len(s) - 1
         /\ \A i \in 1..Len(Tail(s)) : Tail(s)[i] = s[i + 1] /\ i + 1 \in 1..Len(s)
<1>1. Len(s) \in Nat \ {0} BY EmptySeq, LenProperties
<1> QED BY <1>1, HeadTailProperties

\* The first i names.
Pre(p, i) == SubSeq(p, 1, i)

\* Its length and its names.
LEMMA PreFacts ==
  ASSUME NEW p \in Path, NEW i \in 0..Len(p)
  PROVE  /\ Pre(p, i) \in Path /\ Len(Pre(p, i)) = i
         /\ \A j \in 1..i : Pre(p, i)[j] = p[j]
<1>1. \A j \in 1..i : p[j] \in ToSet(Names) BY ElementOfSeq DEF Path
<1> QED BY <1>1, SubSeqProperties, LenProperties DEF Pre, Path

\* Paths of the same names are equal.
LEMMA PathEqual ==
  ASSUME NEW p \in Path, NEW q \in Path, Len(p) = Len(q), \A i \in 1..Len(p) : p[i] = q[i]
  PROVE  p = q
BY SeqEqual DEF Path

\* A path as a sequence.
LEMMA PathLen ==
  ASSUME NEW p \in Path
  PROVE  /\ Len(p) \in Nat /\ DOMAIN p = 1..Len(p)
         /\ \A i \in 1..Len(p) : p[i] \in ToSet(Names)
         /\ Len(p) = 0 <=> p = <<>>
<1>1. Len(p) \in Nat /\ DOMAIN p = 1..Len(p) BY LenProperties DEF Path
<1>2. \A i \in 1..Len(p) : p[i] \in ToSet(Names) BY ElementOfSeq DEF Path
<1>3. Len(p) = 0 <=> p = <<>> BY EmptySeq DEF Path
<1> QED BY <1>1, <1>2, <1>3

\* The root.
LEMMA EmptyPath == <<>> \in Path /\ Len(<<>>) = 0
BY EmptySeq DEF Path

\* All its names, and none.
LEMMA PreAll == ASSUME NEW p \in Path PROVE Pre(p, Len(p)) = p /\ Pre(p, 0) = <<>>
<1>1. Len(p) \in Nat BY PathLen
<1>2. Pre(p, Len(p)) = p BY <1>1, PreFacts, PathEqual
<1>3. Pre(p, 0) \in Path /\ Len(Pre(p, 0)) = 0 BY <1>1, PreFacts
<1> QED BY <1>2, <1>3, PathLen

\* The first of the first names.
LEMMA PrePre ==
  ASSUME NEW p \in Path, NEW i \in 0..Len(p), NEW j \in 0..i
  PROVE  Pre(Pre(p, i), j) = Pre(p, j)
<1>0. Len(p) \in Nat BY PathLen
<1>1. Pre(p, i) \in Path /\ Len(Pre(p, i)) = i /\ \A h \in 1..i : Pre(p, i)[h] = p[h] BY PreFacts
<1>2. j \in 0..Len(p) BY <1>0
<1>3. Pre(p, j) \in Path /\ Len(Pre(p, j)) = j /\ \A h \in 1..j : Pre(p, j)[h] = p[h] BY <1>2, PreFacts
<1> DEFINE q == Pre(p, i)
<1> HIDE DEF q
<1>4. Pre(q, j) \in Path /\ Len(Pre(q, j)) = j /\ \A h \in 1..j : Pre(q, j)[h] = q[h] BY <1>1, PreFacts DEF q
<1>5. \A h \in 1..j : h \in 1..i BY <1>0
<1>6. Pre(q, j) = Pre(p, j) BY <1>1, <1>3, <1>4, <1>5, PathEqual DEF q
<1> QED BY <1>6 DEF q

\* A path without its last name, and with one more.
LEMMA FrontFacts ==
  ASSUME NEW p \in Path, p # <<>>
  PROVE  /\ Front(p) = Pre(p, Len(p) - 1) /\ Front(p) \in Path /\ Len(Front(p)) = Len(p) - 1
         /\ \A i \in 1..Len(p) - 1 : Front(p)[i] = p[i]
         /\ Last(p) \in ToSet(Names) /\ Last(p) = p[Len(p)]
         /\ Append(Front(p), Last(p)) = p
         /\ Len(p) \in Nat \ {0}
<1>1. Len(p) \in Nat \ {0} BY PathLen
<1>2. Front(p) = Pre(p, Len(p) - 1) BY DEF Front, Pre
<1>3. Len(p) - 1 \in 0..Len(p) BY <1>1
<1>4. /\ Front(p) \in Path /\ Len(Front(p)) = Len(p) - 1
      /\ \A i \in 1..Len(p) - 1 : Front(p)[i] = p[i]
  BY <1>2, <1>3, PreFacts
<1>5. Last(p) \in ToSet(Names) /\ Last(p) = p[Len(p)] BY <1>1, PathLen DEF Last
<1>6. Append(Front(p), Last(p)) = p
  <2> DEFINE q == Front(p)
             n == Last(p)
  <2>0. q \in Seq(ToSet(Names)) /\ n \in ToSet(Names) BY <1>4, <1>5 DEF Path
  <2> HIDE DEF q, n
  <2>1. /\ Append(q, n) \in Path /\ Len(Append(q, n)) = Len(q) + 1
        /\ \A i \in 1..Len(q) : Append(q, n)[i] = q[i]
        /\ Append(q, n)[Len(q) + 1] = n
    BY <2>0, AppendProperties DEF Path
  <2>2. Len(q) = Len(p) - 1 /\ n = p[Len(p)] /\ \A i \in 1..Len(q) : q[i] = p[i] BY <1>4, <1>5 DEF q, n
  <2>3. \A i \in 1..Len(p) : Append(q, n)[i] = p[i]
    <3> SUFFICES ASSUME NEW i \in 1..Len(p) PROVE Append(q, n)[i] = p[i] OBVIOUS
    <3>1. CASE i = Len(p)
      <4>1. i = Len(q) + 1 BY <1>1, <2>2, <3>1
      <4> QED BY <2>1, <2>2, <3>1, <4>1
    <3>2. CASE i # Len(p)
      <4>1. i \in 1..Len(q) BY <1>1, <2>2, <3>2
      <4> QED BY <2>1, <2>2, <4>1
    <3> QED BY <3>1, <3>2
  <2>4. Append(q, n) = p
    <3> DEFINE r == Append(q, n)
    <3>1. r \in Path /\ Len(p) = Len(r) /\ \A i \in 1..Len(p) : p[i] = r[i] BY <1>1, <2>1, <2>2, <2>3
    <3> HIDE DEF r
    <3>2. p = r BY <3>1, PathEqual
    <3> QED BY <3>2 DEF r
  <2> QED BY <2>4 DEF q, n
<1> QED BY <1>1, <1>2, <1>4, <1>5, <1>6

\* A path with one more name.
LEMMA AppendFacts ==
  ASSUME NEW p \in Path, NEW n \in ToSet(Names)
  PROVE  /\ Append(p, n) \in Path /\ Append(p, n) # <<>> /\ Len(Append(p, n)) = Len(p) + 1
         /\ Front(Append(p, n)) = p /\ Last(Append(p, n)) = n
         /\ \A i \in 0..Len(p) : Pre(Append(p, n), i) = Pre(p, i)
         /\ \A i \in 1..Len(p) : Append(p, n)[i] = p[i]
         /\ Append(p, n)[Len(p) + 1] = n
<1> DEFINE q == Append(p, n)
<1>1. /\ q \in Path /\ q # <<>> /\ Len(q) = Len(p) + 1
      /\ \A i \in 1..Len(p) : q[i] = p[i]
      /\ q[Len(p) + 1] = n
  BY AppendProperties DEF Path
<1> HIDE DEF q
<1>2. Len(p) \in Nat BY PathLen
<1>3. Last(q) = n BY <1>1, FrontFacts
<1>4. ASSUME NEW i \in 0..Len(p) PROVE Pre(q, i) = Pre(p, i)
  <2>1. i \in 0..Len(q) BY <1>1, <1>2
  <2>2. Pre(q, i) \in Path /\ Len(Pre(q, i)) = i /\ \A j \in 1..i : Pre(q, i)[j] = q[j] BY <1>1, <2>1, PreFacts
  <2>3. Pre(p, i) \in Path /\ Len(Pre(p, i)) = i /\ \A j \in 1..i : Pre(p, i)[j] = p[j] BY PreFacts
  <2>4. \A j \in 1..i : j \in 1..Len(p) BY <1>2
  <2> QED BY <1>1, <2>2, <2>3, <2>4, PathEqual
<1>5. Front(q) = p
  <2>1. Front(q) = Pre(q, Len(p)) BY <1>1, <1>2, FrontFacts
  <2>2. Pre(q, Len(p)) = Pre(p, Len(p)) BY <1>2, <1>4
  <2> QED BY <2>1, <2>2, PreAll
<1> QED BY <1>1, <1>3, <1>4, <1>5 DEF q

\* What is true of the root and of a path that it is true of in front is true of all.
LEMMA PathInduction ==
  ASSUME NEW T, <<>> \in T, \A p \in Path : p # <<>> /\ Front(p) \in T => p \in T
  PROVE  Path \subseteq T
<1> DEFINE Right == {n \in Nat : \A p \in Path : Len(p) = n => p \in T}
<1>1. 0 \in Right BY PathLen
<1>2. ASSUME NEW n \in Nat, n \in Right PROVE n + 1 \in Right
  <2>1. ASSUME NEW p \in Path, Len(p) = n + 1 PROVE p \in T
    <3>1. p # <<>> BY <2>1, EmptyPath
    <3>2. Front(p) \in Path /\ Len(Front(p)) = n BY <2>1, <3>1, FrontFacts
    <3>3. Front(p) \in T BY <1>2, <3>2
    <3> QED BY <3>1, <3>3
  <2> QED BY <2>1
<1> HIDE DEF Right
<1>3. Nat \subseteq Right BY <1>1, <1>2, Inductive
<1>4. ASSUME NEW p \in Path PROVE p \in T
  <2>1. Len(p) \in Right BY <1>3, PathLen
  <2> QED BY <2>1 DEF Right
<1> QED BY <1>4

\* The prefixes of a path but the root.
LEMMA AlongFacts ==
  ASSUME NEW p \in Path
  PROVE  /\ Along(p) = {Pre(p, i) : i \in 1..Len(p)} /\ Along(p) \subseteq Path
         /\ Along(<<>>) = {}
         /\ p # <<>> => Along(p) = Along(Front(p)) \cup {p}
         /\ \A n \in ToSet(Names) : Along(Append(p, n)) = Along(p) \cup {Append(p, n)}
<1>1. ASSUME NEW q \in Path
      PROVE  Along(q) = {Pre(q, i) : i \in 1..Len(q)} /\ Along(q) \subseteq Path
  <2>1. Len(q) \in Nat BY PathLen
  <2>2. \A i \in 1..Len(q) : i \in 0..Len(q) /\ Pre(q, i) # <<>> /\ Pre(q, i) \in Path
    <3> SUFFICES ASSUME NEW i \in 1..Len(q) PROVE i \in 0..Len(q) /\ Pre(q, i) # <<>> /\ Pre(q, i) \in Path OBVIOUS
    <3>1. i \in 0..Len(q) /\ i # 0 BY <2>1
    <3>2. Pre(q, i) \in Path /\ Len(Pre(q, i)) = i BY <3>1, PreFacts
    <3> QED BY <3>1, <3>2, EmptyPath
  <2>3. Along(q) = {Pre(q, i) : i \in 0..Len(q)} \ {<<>>} BY DEF Along, Prefixes, Pre
  <2>4. Pre(q, 0) = <<>> BY PreAll
  <2>5. \A i \in 0..Len(q) : i = 0 \/ i \in 1..Len(q) BY <2>1
  <2>6. Along(q) = {Pre(q, i) : i \in 1..Len(q)} BY <2>2, <2>3, <2>4, <2>5
  <2> QED BY <2>2, <2>6
<1>2. Along(<<>>) = {} BY <1>1, EmptyPath
<1>3. ASSUME NEW q \in Path, NEW n \in ToSet(Names) PROVE Along(Append(q, n)) = Along(q) \cup {Append(q, n)}
  <2> DEFINE r == Append(q, n)
  <2>1. /\ r \in Path /\ Len(r) = Len(q) + 1 /\ Len(q) \in Nat
        /\ \A i \in 0..Len(q) : Pre(r, i) = Pre(q, i)
    BY AppendFacts, PathLen
  <2> HIDE DEF r
  <2>2. Pre(r, Len(q) + 1) = r BY <2>1, PreAll
  <2>3. \A i \in 1..Len(q) : Pre(r, i) = Pre(q, i) BY <2>1
  <2>4. \A i \in 1..Len(r) : i \in 1..Len(q) \/ i = Len(q) + 1 BY <2>1
  <2>5. 1..Len(q) \subseteq 1..Len(r) /\ Len(q) + 1 \in 1..Len(r) BY <2>1
  <2>6. Along(r) = {Pre(r, i) : i \in 1..Len(r)} /\ Along(q) = {Pre(q, i) : i \in 1..Len(q)} BY <1>1, <2>1
  <2>7. Along(r) = Along(q) \cup {r} BY <2>2, <2>3, <2>4, <2>5, <2>6
  <2> QED BY <2>7 DEF r
<1>4. ASSUME p # <<>> PROVE Along(p) = Along(Front(p)) \cup {p}
  <2>1. Front(p) \in Path /\ Last(p) \in ToSet(Names) /\ Append(Front(p), Last(p)) = p BY <1>4, FrontFacts
  <2> QED BY <1>3, <2>1
<1> QED BY <1>1, <1>2, <1>3, <1>4

\* Two paths, one after the other, and the rest of one.
LEMMA ConcatFacts ==
  ASSUME NEW p \in Path, NEW q \in Path
  PROVE  /\ p \o q \in Path /\ Len(p \o q) = Len(p) + Len(q)
         /\ \A i \in 1..Len(p) : (p \o q)[i] = p[i]
         /\ \A i \in 1..Len(q) : (p \o q)[Len(p) + i] = q[i]
<1>1. Len(p) \in Nat /\ Len(q) \in Nat BY PathLen
<1>2. /\ p \o q \in Path /\ Len(p \o q) = Len(p) + Len(q)
      /\ \A i \in 1..Len(p) + Len(q) : (p \o q)[i] = IF i <= Len(p) THEN p[i] ELSE q[i - Len(p)]
  BY ConcatProperties DEF Path
<1>3. ASSUME NEW i \in 1..Len(p) PROVE (p \o q)[i] = p[i]
  <2>1. i \in 1..Len(p) + Len(q) /\ i <= Len(p) BY <1>1
  <2> QED BY <1>2, <2>1
<1>4. ASSUME NEW i \in 1..Len(q) PROVE (p \o q)[Len(p) + i] = q[i]
  <2> PICK a \in Nat, b \in Nat : a = Len(p) /\ b = Len(q) BY <1>1
  <2> PICK j \in Nat : j = i /\ 1 <= j /\ j <= b OBVIOUS
  <2>1. a + j \in 1..a + b OBVIOUS
  <2>2. ~(a + j <= a) OBVIOUS
  <2>3. a + j - a = j OBVIOUS
  <2> QED BY <1>2, <2>1, <2>2, <2>3
<1> QED BY <1>2, <1>3, <1>4

\* All but the first i names.
Rest(p, i) == SubSeq(p, i + 1, Len(p))

\* Its length and its names.
LEMMA RestFacts ==
  ASSUME NEW p \in Path, NEW i \in 0..Len(p)
  PROVE  /\ Rest(p, i) \in Path /\ Len(Rest(p, i)) = Len(p) - i
         /\ \A j \in 1..Len(p) - i : Rest(p, i)[j] = p[i + j]
<1>1. Len(p) \in Nat /\ \A j \in 1..Len(p) : p[j] \in ToSet(Names) BY PathLen
<1>2. i + 1 \in Int /\ Len(p) \in Int BY <1>1
<1>3. \A j \in i + 1..Len(p) : p[j] \in ToSet(Names) BY <1>1
<1>4. /\ Rest(p, i) \in Path
      /\ Len(Rest(p, i)) = IF i + 1 <= Len(p) THEN Len(p) - (i + 1) + 1 ELSE 0
      /\ \A j \in 1..Len(p) - (i + 1) + 1 : Rest(p, i)[j] = p[i + 1 + j - 1]
  BY <1>2, <1>3, SubSeqProperties DEF Rest, Path
<1>5. Len(p) - (i + 1) + 1 = Len(p) - i /\ \A j \in 1..Len(p) - i : i + 1 + j - 1 = i + j BY <1>1
<1>6. Len(Rest(p, i)) = Len(p) - i BY <1>1, <1>4
<1> QED BY <1>4, <1>5, <1>6

-----------------------------------------------------------------------------
(* What is found at a path, name by name                                   *)

\* What is found before the first name.
Start == [ok |-> TRUE, at |-> <<>>, links |-> 0, via |-> {}]

\* A table of what is found after each of the first names.
Walks(user, s, name) == {Walk1(user, TRUE, r, name) : r \in s}

IsFound(found, user, p, n) ==
  found = [i \in 0..n |-> IF i = 0 THEN {Start} ELSE Walks(user, found[i - 1], p[i])]

\* From one find to one.
LEMMA WalksOne == ASSUME NEW user, NEW r, NEW name PROVE Walks(user, {r}, name) = {Walk1(user, TRUE, r, name)}
BY DEF Walks

\* There is such a table for any path.
LEMMA FoundExists == ASSUME NEW user, NEW p, NEW n \in Nat PROVE \E f : IsFound(f, user, p, n)
<1> DEFINE T == {m \in Nat : \E f : IsFound(f, user, p, m)}
<1>1. 0 \in T
  <2> DEFINE f == [i \in 0..0 |-> {Start}]
  <2>1. IsFound(f, user, p, 0)
    <3> DEFINE A(i) == IF i = 0 THEN {Start} ELSE Walks(user, f[i - 1], p[i])
    <3>1. \A i \in 0..0 : A(i) = {Start} OBVIOUS
    <3> HIDE DEF A
    <3>2. f = [i \in 0..0 |-> A(i)] BY <3>1
    <3>3. IsFound(f, user, p, 0) <=> f = [i \in 0..0 |-> A(i)]
      <4> HIDE DEF f
      <4> QED BY DEF A, IsFound
    <3> QED BY <3>2, <3>3
  <2> QED BY <2>1
<1>2. ASSUME NEW m \in Nat, m \in T PROVE m + 1 \in T
  <2>1. PICK g : IsFound(g, user, p, m) BY <1>2
  <2> DEFINE f == [i \in 0..m + 1 |-> IF i = m + 1 THEN Walks(user, g[m], p[i]) ELSE g[i]]
             A(i) == IF i = 0 THEN {Start} ELSE Walks(user, f[i - 1], p[i])
  <2>1a. \A i \in 0..m : g[i] = IF i = 0 THEN {Start} ELSE Walks(user, g[i - 1], p[i])
    <3> HIDE DEF f
    <3> QED BY <2>1 DEF IsFound
  <2>1b. \A i \in 0..m : f[i] = g[i] OBVIOUS
  <2>2. \A i \in 0..m : f[i] = g[i] /\ g[i] = IF i = 0 THEN {Start} ELSE Walks(user, g[i - 1], p[i])
    <3> HIDE DEF f
    <3> QED BY <2>1a, <2>1b
  <2>3. f[m + 1] = Walks(user, g[m], p[m + 1]) /\ DOMAIN f = 0..m + 1 OBVIOUS
  <2> HIDE DEF f
  <2>4. ASSUME NEW i \in 0..m + 1 PROVE f[i] = A(i)
    <3>1. CASE i = m + 1
      <4>1. f[i - 1] = g[m] /\ i # 0 BY <2>2, <3>1
      <4> QED BY <2>3, <3>1, <4>1
    <3>2. CASE i \in 1..m
      <4>1. i - 1 \in 0..m /\ i \in 0..m /\ i # 0 BY <3>2
      <4> QED BY <2>2, <4>1
    <3>3. CASE i = 0 BY <2>2, <3>3
    <3> QED BY <3>1, <3>2, <3>3
  <2>5. f = [i \in 0..m + 1 |-> A(i)]
    <3>1. f = [i \in 0..m + 1 |-> f[i]] BY <2>3 DEF f
    <3> HIDE DEF A
    <3> QED BY <2>4, <3>1
  <2>6. IsFound(f, user, p, m + 1) BY <2>5 DEF IsFound
  <2> QED BY <2>6
<1> HIDE DEF T
<1>3. n \in T BY <1>1, <1>2, Inductive
<1> QED BY <1>3 DEF T

\* Two tables agree on the names that the paths have in common, and hold one at each.
One(s) == \E r : s = {r}

SameNames(p, q, m) == \A i \in 1..m : p[i] = q[i]

SameFound(f, g, m) == \A i \in 0..m : f[i] = g[i] /\ One(f[i])

\* Such tables for paths that begin alike are alike there.
LEMMA FoundUnique ==
  ASSUME NEW user, NEW p, NEW q, NEW m \in Nat, NEW n \in Nat, m <= n, NEW f, NEW g,
         IsFound(f, user, p, m), IsFound(g, user, q, n), SameNames(p, q, m)
  PROVE  SameFound(f, g, m)
<1> DEFINE Same(i) == f[i] = g[i] /\ One(f[i])
           T == {i \in Nat : i <= m => Same(i)}
<1>1. \A i \in 0..m : f[i] = IF i = 0 THEN {Start} ELSE Walks(user, f[i - 1], p[i]) BY DEF IsFound
<1>2. \A i \in 0..n : g[i] = IF i = 0 THEN {Start} ELSE Walks(user, g[i - 1], q[i]) BY DEF IsFound
<1>3. 0 \in T
  <2>1. f[0] = {Start} /\ g[0] = {Start} BY <1>1, <1>2
  <2> QED BY <2>1 DEF One
<1>4. ASSUME NEW i \in Nat, i \in T PROVE i + 1 \in T
  <2> SUFFICES ASSUME i + 1 <= m PROVE Same(i + 1)
    <3> HIDE DEF Same
    <3> QED OBVIOUS
  <2>0. i <= m OBVIOUS
  <2>1. PICK r : f[i] = {r} /\ g[i] = {r}
    <3>1. Same(i)
      <4> HIDE DEF Same
      <4> QED BY <1>4, <2>0
    <3> QED BY <3>1 DEF One
  <2>2. PICK j : j = i + 1 /\ j \in 1..m /\ j \in 0..m /\ j \in 0..n /\ j # 0 /\ j - 1 = i OBVIOUS
  <2>3. f[j] = Walks(user, {r}, p[j]) /\ g[j] = Walks(user, {r}, p[j])
    BY <1>1, <1>2, <2>1, <2>2 DEF SameNames
  <2>a. Walks(user, {r}, p[j]) = {Walk1(user, TRUE, r, p[j])} BY WalksOne
  <2>4. f[j] = g[j] /\ f[j] = {Walk1(user, TRUE, r, p[j])} BY <2>3, <2>a
  <2>5. One(f[j]) BY <2>4 DEF One
  <2> QED BY <2>2, <2>4, <2>5
<1> HIDE DEF T, Same
<1>5. Nat \subseteq T BY <1>3, <1>4, Inductive
<1>6. ASSUME NEW i \in 0..m PROVE Same(i) BY <1>5 DEF T
<1> QED BY <1>6 DEF Same, SameFound

\* Follow() is the last entry of such a table.
LEMMA FollowTable ==
  ASSUME NEW user, NEW p \in Path
  PROVE  \E f : IsFound(f, user, p, Len(p)) /\ f[Len(p)] = {Follow(user, p)}
<1> DEFINE Table(f) == [i \in 0..Len(p) |->
                        IF i = 0 THEN {[ok |-> TRUE, at |-> <<>>, links |-> 0, via |-> {}]}
                        ELSE {Walk1(user, TRUE, r, p[i]) : r \in f[i - 1]}]
           found == CHOOSE f : f = Table(f)
<1>1. Follow(user, p) = CHOOSE r \in found[Len(p)] : TRUE BY DEF Follow
<1>2. \A f : IsFound(f, user, p, Len(p)) <=> f = Table(f) BY DEF IsFound, Start, Walks
<1> HIDE DEF Table
<1>0. Len(p) \in Nat BY PathLen
<1>3. PICK f : IsFound(f, user, p, Len(p)) BY <1>0, FoundExists
<1>4. f = Table(f) BY <1>2, <1>3
<1>5. found = Table(found) BY <1>4
<1>6. IsFound(found, user, p, Len(p)) BY <1>2, <1>5
<1> HIDE DEF found
<1>7. SameFound(found, found, Len(p)) BY <1>0, <1>6, FoundUnique DEF SameNames
<1>8. PICK r : found[Len(p)] = {r}
  <2>1. One(found[Len(p)]) BY <1>0, <1>7 DEF SameFound
  <2> QED BY <2>1 DEF One
<1>9. r = Follow(user, p) BY <1>1, <1>8
<1> QED BY <1>6, <1>8, <1>9

\* One name after another, from the root on.
FollowByNames ==
  \A user : \A p \in Path :
    Follow(user, p) =
      IF p = <<>> THEN Start ELSE Walk1(user, TRUE, Follow(user, Front(p)), Last(p))

\* Follow() does go by the names.
LEMMA FollowLemma == FollowByNames
<1> SUFFICES ASSUME NEW user, NEW p \in Path
             PROVE  Follow(user, p) =
                      IF p = <<>> THEN Start ELSE Walk1(user, TRUE, Follow(user, Front(p)), Last(p))
  BY DEF FollowByNames
<1>0. Len(p) \in Nat BY PathLen
<1>1. PICK f : IsFound(f, user, p, Len(p)) /\ f[Len(p)] = {Follow(user, p)} BY FollowTable
<1>2. \A i \in 0..Len(p) : f[i] = IF i = 0 THEN {Start} ELSE Walks(user, f[i - 1], p[i])
  BY <1>1 DEF IsFound
<1>3. CASE p = <<>>
  <2>1. Len(p) = 0 BY <1>3, EmptyPath
  <2>2. f[0] = {Start} BY <1>0, <1>2
  <2> QED BY <1>1, <1>3, <2>1, <2>2
<1>4. CASE p # <<>>
  <2>1. PICK q, m, n : q = Front(p) /\ m = Len(q) /\ n = Len(p) OBVIOUS
  <2>2. /\ q \in Path /\ m \in Nat /\ n \in Nat /\ m = n - 1 /\ m <= n
        /\ \A i \in 1..m : q[i] = p[i]
        /\ Last(p) = p[n]
    <3>1. /\ q \in Path /\ Len(q) = Len(p) - 1 /\ Len(p) \in Nat \ {0} /\ Last(p) = p[Len(p)]
          /\ \A i \in 1..Len(p) - 1 : q[i] = p[i]
      BY <1>4, <2>1, FrontFacts
    <3>2. m = n - 1 /\ n \in Nat \ {0} BY <2>1, <3>1
    <3> QED BY <2>1, <3>1, <3>2
  <2>3. PICK g : IsFound(g, user, q, m) /\ g[m] = {Follow(user, q)}
    <3>1. \E g : IsFound(g, user, q, Len(q)) /\ g[Len(q)] = {Follow(user, q)} BY <2>2, FollowTable
    <3> QED BY <2>1, <3>1
  <2>4. IsFound(f, user, p, n) BY <1>1, <2>1
  <2>5. SameFound(g, f, m)
    <3>1. SameNames(q, p, m) BY <2>2 DEF SameNames
    <3> QED BY <2>2, <2>3, <2>4, <3>1, FoundUnique
  <2>6. f[m] = {Follow(user, q)} BY <2>2, <2>3, <2>5 DEF SameFound
  <2>7. f[n] = Walks(user, {Follow(user, q)}, p[n])
    <3>1. n \in 0..Len(p) /\ n # 0 /\ n - 1 = m BY <2>1, <2>2
    <3> QED BY <1>2, <2>6, <3>1
  <2>8. Walks(user, {Follow(user, q)}, p[n]) = {Walk1(user, TRUE, Follow(user, q), p[n])} BY WalksOne
  <2>9. {Follow(user, p)} = {Walk1(user, TRUE, Follow(user, q), p[n])} BY <1>1, <2>1, <2>7, <2>8
  <2>10. Follow(user, p) = Walk1(user, TRUE, Follow(user, q), p[n]) BY <2>9
  <2> QED BY <1>4, <2>1, <2>2, <2>10
<1> QED BY <1>3, <1>4

-----------------------------------------------------------------------------
(* What is found is there                                                  *)

\* What may be found.
Finding == [ok : BOOLEAN, at : Path, links : Nat, via : SUBSET Path]

\* What is found is there and no link, and all that leads to it has been looked at.
Real(r) ==
  r.ok => /\ Along(r.at) \subseteq r.via /\ There(r.at)
          /\ r.at # <<>> => r.at \in Node /\ Kind[r.at] # "link"

\* A path that is there, name by name.
LEMMA ThereFacts ==
  ASSUME NEW p \in Path
  PROVE  /\ There(<<>>)
         /\ There(p) /\ p # <<>> => p \in Node /\ p \notin gone /\ There(Front(p))
         /\ \A n \in ToSet(Names) : There(Append(p, n)) <=> There(p) /\ Append(p, n) \in Node \ gone
<1>1. There(<<>>) BY AlongFacts, EmptyPath DEF There
<1>2. ASSUME There(p), p # <<>> PROVE p \in Node /\ p \notin gone /\ There(Front(p))
  <2>1. Along(p) = Along(Front(p)) \cup {p} BY <1>2, AlongFacts
  <2> QED BY <1>2, <2>1 DEF There
<1>3. ASSUME NEW n \in ToSet(Names) PROVE There(Append(p, n)) <=> There(p) /\ Append(p, n) \in Node \ gone
  <2>1. Along(Append(p, n)) = Along(p) \cup {Append(p, n)} BY AlongFacts
  <2> QED BY <2>1 DEF There
<1> QED BY <1>1, <1>2, <1>3

\* What the tree is assumed to be, at one node.
LEMMA NodeFacts ==
  ASSUME NEW p \in Node
  PROVE  /\ p \in Path /\ p # <<>> /\ Up \notin ToSet(p) /\ Last(p) # Up
         /\ Kind[p] \in {"dir", "file", "link", "other"}
         /\ Front(p) # <<>> => Front(p) \in Node /\ Kind[Front(p)] = "dir"
         /\ Kind[p] = "link" => LinkTo[p] \in Path /\ (LinkTo[p] \in Node => Kind[LinkTo[p]] # "link")
<1>1. /\ p \in Path /\ p # <<>> /\ Up \notin ToSet(p)
      /\ Kind[p] \in {"dir", "file", "link", "other"}
      /\ Len(p) > 1 => Front(p) \in Node /\ Kind[Front(p)] = "dir"
      /\ Kind[p] = "link" => LinkTo[p] \in Path /\ (LinkTo[p] \in Node => Kind[LinkTo[p]] # "link")
  BY TreeAssumption
<1>2. Last(p) \in ToSet(p) BY <1>1, FrontFacts, PathLen DEF ToSet
<1>3. Front(p) # <<>> => Len(p) > 1
  <2>1. Len(p) \in Nat \ {0} /\ Len(Front(p)) = Len(p) - 1 /\ Front(p) \in Path BY <1>1, FrontFacts
  <2>2. Front(p) # <<>> => Len(Front(p)) # 0 BY <2>1, PathLen
  <2> QED BY <2>1, <2>2
<1> QED BY <1>1, <1>2, <1>3

\* One name on.
LEMMA WalkReal ==
  ASSUME NEW user, NEW follow \in BOOLEAN, NEW r \in Finding, Real(r), NEW n \in ToSet(Names)
  PROVE  /\ Walk1(user, follow, r, n) \in Finding
         /\ follow => Real(Walk1(user, follow, r, n))
         /\ r.via \subseteq Walk1(user, follow, r, n).via
<1>p. PICK child, w : child = Append(r.at, n) /\ w = Walk1(user, follow, r, n) OBVIOUS
<1> SUFFICES w \in Finding /\ (follow => Real(w)) /\ r.via \subseteq w.via BY <1>p
<1>0. r.ok \in BOOLEAN /\ r.at \in Path /\ r.links \in Nat /\ r.via \subseteq Path BY DEF Finding
<1>1. child \in Path /\ child # <<>> /\ Along(child) = Along(r.at) \cup {child} BY <1>0, <1>p, AppendFacts, AlongFacts
<1>2. CASE ~r.ok
  <2>1. w = r BY <1>2, <1>p DEF Walk1
  <2> QED BY <2>1
<1>3. CASE r.ok /\ n = Up
  <2>1. w = [r EXCEPT !.at = IF r.at = <<>> THEN r.at ELSE Front(r.at)] BY <1>3, <1>p DEF Walk1
  <2>2. CASE r.at = <<>>
    <3>1. w = r BY <1>0, <2>1, <2>2 DEF Finding
    <3> QED BY <3>1
  <2>3. CASE r.at # <<>>
    <3>1. w = [r EXCEPT !.at = Front(r.at)] BY <2>1, <2>3
    <3>2. Front(r.at) \in Path BY <1>0, <2>3, FrontFacts
    <3>3. w \in Finding /\ w.at = Front(r.at) /\ w.via = r.via /\ w.ok = r.ok BY <3>1, <3>2 DEF Finding
    <3>4. Along(r.at) = Along(Front(r.at)) \cup {r.at} BY <1>0, <2>3, AlongFacts
    <3>5. There(Front(r.at)) /\ r.at \in Node BY <1>0, <1>3, <2>3, ThereFacts DEF Real
    <3>6. Front(r.at) # <<>> => Front(r.at) \in Node /\ Kind[Front(r.at)] # "link" BY <3>5, NodeFacts
    <3> QED BY <1>3, <3>3, <3>4, <3>5, <3>6 DEF Real
  <2> QED BY <2>2, <2>3
<1>4. CASE r.ok /\ n # Up /\ (~There(child) \/ ~May(user, child))
  <2>1. w = [r EXCEPT !.ok = FALSE, !.via = @ \cup {child}] BY <1>4, <1>p DEF Walk1
  <2>2. w \in Finding /\ w.ok = FALSE /\ w.via = r.via \cup {child} BY <1>0, <1>1, <2>1 DEF Finding
  <2>3. Real(w) BY <2>2 DEF Real
  <2> QED BY <2>2, <2>3
<1>5. CASE r.ok /\ n # Up /\ There(child) /\ May(user, child) /\ (Kind[child] # "link" \/ ~follow)
  <2>1. w = [r EXCEPT !.at = child, !.via = @ \cup {child}] BY <1>5, <1>p DEF Walk1
  <2>a. PICK via : via = r.via \cup {child} OBVIOUS
  <2>b. via \subseteq Path BY <1>0, <1>1, <2>a
  <2>2. w \in Finding /\ w.at = child /\ w.ok = r.ok /\ w.via = r.via \cup {child}
    BY <1>0, <1>1, <2>1, <2>a, <2>b DEF Finding
  <2>3. child \in Node BY <1>1, <1>5, ThereFacts
  <2>4. ASSUME follow PROVE Real(w)
    <3>1. Kind[child] # "link" BY <1>5, <2>4
    <3>2. Along(child) \subseteq w.via BY <1>1, <1>5, <2>2 DEF Real
    <3> QED BY <1>5, <2>2, <2>3, <3>1, <3>2 DEF Real
  <2> QED BY <2>2, <2>4
<1>6. CASE r.ok /\ n # Up /\ There(child) /\ May(user, child) /\ Kind[child] = "link" /\ follow
  <2>t. PICK to : to = LinkTo[child] OBVIOUS
  <2>1. w = [ok |-> r.links < MaxLinks /\ There(to) /\ May(user, to), at |-> to,
             links |-> r.links + 1, via |-> r.via \cup {child} \cup Along(to)]
    BY <1>6, <1>p, <2>t DEF Walk1
  <2>2. child \in Node BY <1>1, <1>6, ThereFacts
  <2>3. to \in Path /\ (to \in Node => Kind[to] # "link") BY <1>6, <2>2, <2>t, NodeFacts
  <2>4. Along(to) \subseteq Path BY <2>3, AlongFacts
  <2>5. /\ w \in Finding /\ w.at = to /\ (w.ok => There(to))
        /\ w.via = r.via \cup {child} \cup Along(to)
    <3> DEFINE ok == r.links < MaxLinks /\ There(to) /\ May(user, to)
               via == r.via \cup {child} \cup Along(to)
    <3>a. ok \in BOOLEAN /\ (ok => There(to))
      <4>1. There(to) \in BOOLEAN /\ May(user, to) \in BOOLEAN BY DEF There, May
      <4>2. ok \in BOOLEAN BY <4>1
      <4>3. ok => There(to) OBVIOUS
      <4> QED BY <4>2, <4>3
    <3>1. via \subseteq Path /\ r.links + 1 \in Nat BY <1>0, <1>1, <2>4
    <3> HIDE DEF ok, via
    <3>2. w = [ok |-> ok, at |-> to, links |-> r.links + 1, via |-> via] BY <2>1 DEF ok, via
    <3> QED BY <2>3, <3>1, <3>2, <3>a DEF Finding, via
  <2>6. w.ok /\ to # <<>> => to \in Node BY <2>3, <2>5, ThereFacts
  <2> QED BY <2>3, <2>5, <2>6 DEF Real
<1> QED BY <1>0, <1>2, <1>3, <1>4, <1>5, <1>6

\* What is found at any path.
FollowReal == \A user : \A p \in Path : Follow(user, p) \in Finding /\ Real(Follow(user, p))

\* It is always real.
LEMMA FollowRealLemma == FollowReal
<1> SUFFICES ASSUME NEW user PROVE \A p \in Path : Follow(user, p) \in Finding /\ Real(Follow(user, p))
  BY DEF FollowReal
<1> DEFINE T == {p \in Path : Follow(user, p) \in Finding /\ Real(Follow(user, p))}
<1>1. <<>> \in T
  <2>1. Follow(user, <<>>) = Start BY EmptyPath, FollowLemma DEF FollowByNames
  <2>2. Start \in Finding /\ Real(Start) BY EmptyPath, AlongFacts, ThereFacts DEF Start, Finding, Real
  <2> QED BY <2>1, <2>2, EmptyPath
<1>2. ASSUME NEW p \in Path, p # <<>>, Front(p) \in T PROVE p \in T
  <2>1. Follow(user, p) = Walk1(user, TRUE, Follow(user, Front(p)), Last(p))
    BY <1>2, FollowLemma DEF FollowByNames
  <2>2. Last(p) \in ToSet(Names) BY <1>2, FrontFacts
  <2> QED BY <1>2, <2>1, <2>2, WalkReal
<1> HIDE DEF T
<1>3. Path \subseteq T BY <1>1, <1>2, PathInduction
<1> QED BY <1>3 DEF T

-----------------------------------------------------------------------------
(* What a change elsewhere leaves as it is                                 *)

\* More is looked at with every name.
ViaGrows ==
  \A user : \A p \in Path : p # <<>> => Follow(user, Front(p)).via \subseteq Follow(user, p).via

\* It is.
LEMMA ViaGrowsLemma == ViaGrows
<1> SUFFICES ASSUME NEW user, NEW p \in Path, p # <<>>
             PROVE  Follow(user, Front(p)).via \subseteq Follow(user, p).via
  BY DEF ViaGrows
<1>1. Front(p) \in Path /\ Last(p) \in ToSet(Names) BY FrontFacts
<1>2. PICK r : r = Follow(user, Front(p)) OBVIOUS
<1>3. r \in Finding /\ Real(r) BY <1>1, <1>2, FollowRealLemma DEF FollowReal
<1>4. Follow(user, p) = Walk1(user, TRUE, r, Last(p)) BY <1>2, FollowLemma DEF FollowByNames
<1> QED BY <1>1, <1>2, <1>3, <1>4, WalkReal

\* What a change of a node elsewhere leaves as it is: one name on, and a whole path.
Looked(r) == r.ok => Along(r.at) \subseteq r.via

Turns(x) == gone' = gone \ {x} \/ gone' = gone \cup {x}

\* What is found one name on is the same if what has changed is not on the way,
LEMMA WalkTurns ==
  ASSUME NEW x, Turns(x), NEW user, NEW follow \in BOOLEAN, NEW n \in ToSet(Names),
         NEW r \in Finding, Looked(r), NEW w, w = Walk1(user, TRUE, r, n)', x \notin w.via
  PROVE  Walk1(user, follow, r, n)' = Walk1(user, follow, r, n)
<1>p. PICK child, to : child = Append(r.at, n) /\ to = LinkTo[child] OBVIOUS
<1>0. r.ok \in BOOLEAN /\ r.at \in Path /\ r.links \in Nat /\ r.via \subseteq Path BY DEF Finding
<1>1. child \in Path /\ Along(child) = Along(r.at) \cup {child} BY <1>0, <1>p, AlongFacts, AppendFacts
<1>2. \A q : x \notin Along(q) => (There(q)' <=> There(q)) BY DEF There, Turns
<1>3. CASE ~r.ok \/ n = Up BY <1>3 DEF Walk1
<1>4. CASE r.ok /\ n # Up
  <2>1. r.via \cup {child} \subseteq w.via
    <3>1. CASE ~There(child)' \/ ~May(user, child)
      <4>1. w = [r EXCEPT !.ok = FALSE, !.via = @ \cup {child}] BY <1>4, <1>p, <3>1 DEF Walk1, May
      <4> QED BY <1>0, <4>1 DEF Finding
    <3>2. CASE There(child)' /\ May(user, child) /\ Kind[child] # "link"
      <4>1. w = [r EXCEPT !.at = child, !.via = @ \cup {child}] BY <1>4, <1>p, <3>2 DEF Walk1, May
      <4> QED BY <1>0, <4>1 DEF Finding
    <3>3. CASE There(child)' /\ May(user, child) /\ Kind[child] = "link"
      <4>1. w.via = r.via \cup {child} \cup Along(to) BY <1>4, <1>p, <3>3 DEF Walk1, May
      <4> QED BY <4>1
    <3> QED BY <3>1, <3>2, <3>3
  <2>3. x \notin Along(child) BY <1>1, <1>4, <1>p, <2>1 DEF Looked
  <2>4. There(child)' <=> There(child) BY <1>2, <2>3
  <2>5. CASE ~There(child) \/ ~May(user, child) BY <1>4, <1>p, <2>4, <2>5 DEF Walk1, May
  <2>6. CASE There(child) /\ May(user, child) /\ (Kind[child] # "link" \/ ~follow)
    BY <1>4, <1>p, <2>4, <2>6 DEF Walk1, May
  <2>7. CASE There(child) /\ May(user, child) /\ Kind[child] = "link" /\ follow
    <3>0. There(child)' BY <2>4, <2>7
    <3>1. x \notin Along(to)
      <4>1. w.via = r.via \cup {child} \cup Along(to) BY <1>4, <1>p, <2>7, <3>0 DEF Walk1, May
      <4> QED BY <4>1
    <3>2. There(to)' <=> There(to) BY <1>2, <3>1
    <3>3. Walk1(user, follow, r, n) = [ok |-> r.links < MaxLinks /\ There(to) /\ May(user, to), at |-> to,
                  links |-> r.links + 1, via |-> r.via \cup {child} \cup Along(to)]
      BY <1>4, <1>p, <2>7 DEF Walk1
    <3>4. Walk1(user, follow, r, n)' = [ok |-> r.links < MaxLinks /\ There(to)' /\ May(user, to), at |-> to,
                  links |-> r.links + 1, via |-> r.via \cup {child} \cup Along(to)]
      BY <1>4, <1>p, <2>4, <2>7 DEF Walk1, May
    <3>5. (r.links < MaxLinks /\ There(to)' /\ May(user, to)) = (r.links < MaxLinks /\ There(to) /\ May(user, to))
      BY <3>2 DEF There
    <3> QED BY <3>3, <3>4, <3>5
  <2> QED BY <2>5, <2>6, <2>7
<1> QED BY <1>3, <1>4

\* and so is what is found at a path.
LEMMA FollowTurns ==
  ASSUME NEW x, Turns(x), NEW user, NEW p \in Path, x \notin Follow(user, p)'.via
  PROVE  Follow(user, p)' = Follow(user, p)
<1>1. FollowByNames' /\ FollowReal' /\ ViaGrows' BY FollowLemma, FollowRealLemma, ViaGrowsLemma, PTL
<1> DEFINE T == {q \in Path : x \notin Follow(user, q)'.via => Follow(user, q)' = Follow(user, q)}
<1>2. <<>> \in T
  <2>1. Follow(user, <<>>) = Start /\ Follow(user, <<>>)' = Start
    BY <1>1, FollowLemma, EmptyPath DEF FollowByNames, Start
  <2> QED BY <2>1, EmptyPath
<1>3. ASSUME NEW q \in Path, q # <<>>, Front(q) \in T PROVE q \in T
  <2> SUFFICES ASSUME x \notin Follow(user, q)'.via PROVE Follow(user, q)' = Follow(user, q) OBVIOUS
  <2>1. Front(q) \in Path /\ Last(q) \in ToSet(Names) BY <1>3, FrontFacts
  <2>2. PICK f, n, r : f = Front(q) /\ n = Last(q) /\ r = Follow(user, f) OBVIOUS
  <2>3. Follow(user, f)'.via \subseteq Follow(user, q)'.via BY <1>1, <1>3, <2>2 DEF ViaGrows
  <2>4. Follow(user, f)' = r BY <1>3, <2>2, <2>3
  <2>5. r \in Finding /\ Looked(r)
    BY <2>1, <2>2, FollowRealLemma DEF FollowReal, Real, Looked
  <2>6. Follow(user, q) = Walk1(user, TRUE, r, n) BY <1>3, <2>2, FollowLemma DEF FollowByNames
  <2>7. Follow(user, q)' = Walk1(user, TRUE, r, n)'
    <3>1. Follow(user, q)' = Walk1(user, TRUE, Follow(user, f), n)' BY <1>1, <1>3, <2>2 DEF FollowByNames
    <3> QED BY <2>4, <3>1
  <2>8. PICK w : w = Walk1(user, TRUE, r, n)' OBVIOUS
  <2>9. x \notin w.via BY <2>7, <2>8
  <2>10. n \in ToSet(Names) BY <2>1, <2>2
  <2> HIDE DEF T
  <2>11. Walk1(user, TRUE, r, n)' = Walk1(user, TRUE, r, n) BY <2>5, <2>8, <2>9, <2>10, WalkTurns, ZenonT(60)
  <2> QED BY <2>6, <2>7, <2>11
<1> HIDE DEF T
<1>4. p \in T BY <1>2, <1>3, PathInduction
<1> QED BY <1>4 DEF T

\* What has been looked at for a prefix has been for the path.
ViaPrefix ==
  \A user : \A p \in Path : \A i \in 0..Len(p) : Follow(user, Pre(p, i)).via \subseteq Follow(user, p).via

\* It has.
LEMMA ViaPrefixLemma == ViaPrefix
<1> SUFFICES ASSUME NEW user
             PROVE  \A p \in Path : \A i \in 0..Len(p) : Follow(user, Pre(p, i)).via \subseteq Follow(user, p).via
  BY DEF ViaPrefix
<1> DEFINE Right(p) == \A i \in 0..Len(p) : Follow(user, Pre(p, i)).via \subseteq Follow(user, p).via
           T == {p \in Path : Right(p)}
<1>1. <<>> \in T
  <2>1. \A i \in 0..Len(<<>>) : Pre(<<>>, i) = <<>> BY EmptyPath, PreAll
  <2> QED BY <2>1, EmptyPath
<1>2. ASSUME NEW p \in Path, p # <<>>, Front(p) \in T PROVE p \in T
  <2> SUFFICES ASSUME NEW i \in 0..Len(p) PROVE Follow(user, Pre(p, i)).via \subseteq Follow(user, p).via OBVIOUS
  <2>1. /\ Front(p) \in Path /\ Len(p) \in Nat \ {0} /\ Len(Front(p)) = Len(p) - 1
        /\ Front(p) = Pre(p, Len(p) - 1)
    BY <1>2, FrontFacts
  <2>2. CASE i = Len(p) BY <2>2, PreAll
  <2>3. CASE i # Len(p)
    <3>1. i \in 0..Len(p) - 1 /\ Len(p) - 1 \in 0..Len(p) /\ i \in 0..Len(Front(p)) BY <2>1, <2>3
    <3>2. Pre(Front(p), i) = Pre(p, i) BY <2>1, <3>1, PrePre
    <3>3. Follow(user, Pre(Front(p), i)).via \subseteq Follow(user, Front(p)).via BY <1>2, <3>1
    <3>4. Follow(user, Front(p)).via \subseteq Follow(user, p).via BY <1>2, ViaGrowsLemma DEF ViaGrows
    <3> QED BY <3>2, <3>3, <3>4
  <2> QED BY <2>2, <2>3
<1> HIDE DEF T
<1>3. Path \subseteq T BY <1>1, <1>2, PathInduction
<1> QED BY <1>3 DEF T

\* What the login user finds along a path is what was found there.
SameAt(q) ==
  /\ Follow("login", q)' = Follow("login", q)
  /\ Lstat("login", q)' = Lstat("login", q)

\* It is, if what has changed is not on the way.
LEMMA SameFinds ==
  ASSUME NEW x, Turns(x), NEW q \in Path, x \notin Follow("login", q)'.via
  PROVE  SameAt(q)
<1>1. FollowByNames' /\ ViaGrows' BY FollowLemma, ViaGrowsLemma, PTL
<1>2. Follow("login", q)' = Follow("login", q) BY FollowTurns
<1>3. CASE q = <<>> BY <1>2, <1>3 DEF Lstat, SameAt
<1>4. CASE q # <<>>
  <2>1. Front(q) \in Path /\ Last(q) \in ToSet(Names) BY <1>4, FrontFacts
  <2>2. PICK f, n, r : f = Front(q) /\ n = Last(q) /\ r = Follow("login", f) OBVIOUS
  <2>3. Follow("login", f)'.via \subseteq Follow("login", q)'.via BY <1>1, <1>4, <2>2 DEF ViaGrows
  <2>4. Follow("login", f)' = r
    <3>1. x \notin Follow("login", f)'.via BY <2>3
    <3>2. f \in Path BY <2>1, <2>2
    <3> QED BY <2>2, <3>1, <3>2, FollowTurns
  <2>5. r \in Finding /\ Looked(r) BY <2>1, <2>2, FollowRealLemma DEF FollowReal, Real, Looked
  <2>6. PICK w : w = Walk1("login", TRUE, r, n)' OBVIOUS
  <2>7. x \notin w.via
    <3>1. Follow("login", q)' = Walk1("login", TRUE, Follow("login", f), n)' BY <1>1, <1>4, <2>2 DEF FollowByNames
    <3> QED BY <2>4, <2>6, <3>1
  <2>8. n \in ToSet(Names) BY <2>1, <2>2
  <2>9. Walk1("login", FALSE, r, n)' = Walk1("login", FALSE, r, n) BY <2>5, <2>6, <2>7, <2>8, WalkTurns
  <2>10. Lstat("login", q) = KindAt(Walk1("login", FALSE, r, n)) BY <1>4, <2>2 DEF Lstat
  <2>11. Lstat("login", q)' = KindAt(Walk1("login", FALSE, r, n)')
    <3>1. Lstat("login", q)' = KindAt(Walk1("login", FALSE, Follow("login", f), n)') BY <1>4, <2>2 DEF Lstat, KindAt
    <3> QED BY <2>4, <3>1
  <2> QED BY <1>2, <2>9, <2>10, <2>11 DEF SameAt
<1> QED BY <1>3, <1>4

-----------------------------------------------------------------------------
(* Sorted lists                                                            *)

\* p differs from q at the i-th name first, and ends there or has the lower name.
Differs(p, q, i) ==
  /\ i \in 1..Len(q) /\ i - 1 <= Len(p)
  /\ \A j \in 1..i - 1 : p[j] = q[j]
  /\ i > Len(p) \/ Rank(p[i]) < Rank(q[i])

\* Names are told apart by their place in the order.
LEMMA RankFacts ==
  ASSUME NEW m \in ToSet(Names), NEW n \in ToSet(Names)
  PROVE  Rank(m) \in Nat /\ Rank(n) \in Nat /\ (Rank(m) = Rank(n) => m = n)
<1>1. \A x \in ToSet(Names) : Rank(x) \in DOMAIN Names /\ Names[Rank(x)] = x BY DEF ToSet, Rank
<1>2. DOMAIN Names = 1..Len(Names) /\ Len(Names) \in Nat BY TreeAssumption, LenProperties
<1> QED BY <1>1, <1>2

\* When two paths begin with the same names.
LEMMA PreEqual ==
  ASSUME NEW p \in Path, NEW q \in Path, NEW i \in 0..Len(p), i <= Len(q)
  PROVE  Pre(p, i) = Pre(q, i) <=> \A j \in 1..i : p[j] = q[j]
<1>1. Len(p) \in Nat /\ Len(q) \in Nat /\ i \in 0..Len(q) BY PathLen
<1>2. Pre(p, i) \in Path /\ Len(Pre(p, i)) = i /\ \A j \in 1..i : Pre(p, i)[j] = p[j] BY PreFacts
<1>3. Pre(q, i) \in Path /\ Len(Pre(q, i)) = i /\ \A j \in 1..i : Pre(q, i)[j] = q[j] BY <1>1, PreFacts
<1> QED BY <1>2, <1>3, PathEqual

\* When one path is a prefix of another.
LEMMA PrefixFacts ==
  ASSUME NEW p \in Path, NEW q \in Path
  PROVE  /\ IsPrefix(p, q) <=> Len(p) <= Len(q) /\ Pre(q, Len(p)) = p
         /\ IsPrefix(p, q) <=> Len(p) <= Len(q) /\ \A j \in 1..Len(p) : p[j] = q[j]
         /\ IsStrictPrefix(p, q) <=> IsPrefix(p, q) /\ Len(p) < Len(q)
<1>1. Len(p) \in Nat /\ Len(q) \in Nat BY PathLen
<1>2. IsPrefix(p, q) <=> Len(p) <= Len(q) /\ Pre(p, Len(p)) = Pre(q, Len(p)) BY DEF IsPrefix, Pre
<1>3. IsPrefix(p, q) <=> Len(p) <= Len(q) /\ Pre(q, Len(p)) = p BY <1>2, PreAll
<1>4. IsPrefix(p, q) <=> Len(p) <= Len(q) /\ \A j \in 1..Len(p) : p[j] = q[j] BY <1>1, <1>2, PreEqual
<1>5. IsPrefix(p, q) /\ Len(p) = Len(q) => p = q BY <1>1, <1>4, PathEqual
<1> QED BY <1>1, <1>3, <1>4, <1>5 DEF IsStrictPrefix

\* The order of paths is that of the first name in which they differ.
LEMMA EarlierDiffers ==
  ASSUME NEW p \in Path, NEW q \in Path
  PROVE  Earlier(p, q) <=> \E i \in Nat : Differs(p, q, i)
<1>1. /\ Len(p) \in Nat /\ Len(q) \in Nat
      /\ DOMAIN p = 1..Len(p) /\ DOMAIN q = 1..Len(q)
  BY PathLen
<1>2. ASSUME IsStrictPrefix(p, q) PROVE \E i \in Nat : Differs(p, q, i)
  <2>1. Len(p) < Len(q) /\ \A j \in 1..Len(p) : p[j] = q[j] BY <1>2, PrefixFacts
  <2>2. Differs(p, q, Len(p) + 1) BY <1>1, <2>1 DEF Differs
  <2> QED BY <1>1, <2>2
<1>3. ASSUME NEW i \in DOMAIN p \cap DOMAIN q, SubSeq(p, 1, i - 1) = SubSeq(q, 1, i - 1), Rank(p[i]) < Rank(q[i])
      PROVE  \E j \in Nat : Differs(p, q, j)
  <2>1. i \in Nat /\ i \in 1..Len(q) /\ i - 1 \in 0..Len(p) /\ i - 1 <= Len(q) BY <1>1
  <2>2. Pre(p, i - 1) = Pre(q, i - 1) BY <1>3 DEF Pre
  <2>3. \A j \in 1..i - 1 : p[j] = q[j] BY <2>1, <2>2, PreEqual
  <2>4. Differs(p, q, i) BY <1>1, <1>3, <2>1, <2>3 DEF Differs
  <2> QED BY <2>1, <2>4
<1>4. ASSUME NEW i \in Nat, Differs(p, q, i) PROVE Earlier(p, q)
  <2>1. /\ i \in 1..Len(q) /\ i - 1 <= Len(p) /\ \A j \in 1..i - 1 : p[j] = q[j]
        /\ i > Len(p) \/ Rank(p[i]) < Rank(q[i])
    BY <1>4 DEF Differs
  <2>2. CASE i > Len(p)
    <3>1. i - 1 = Len(p) /\ Len(p) < Len(q) BY <1>1, <2>1, <2>2
    <3>2. \A j \in 1..Len(p) : p[j] = q[j] BY <2>1, <3>1
    <3>3. IsStrictPrefix(p, q) BY <1>1, <3>1, <3>2, PrefixFacts
    <3> QED BY <3>3 DEF Earlier
  <2>3. CASE ~(i > Len(p))
    <3>1. i \in DOMAIN p \cap DOMAIN q /\ i - 1 \in 0..Len(p) /\ i - 1 <= Len(q) BY <1>1, <2>1, <2>3
    <3>2. Pre(p, i - 1) = Pre(q, i - 1) BY <2>1, <3>1, PreEqual
    <3> QED BY <2>1, <2>3, <3>1, <3>2 DEF Earlier, Pre
  <2> QED BY <2>2, <2>3
<1> QED BY <1>2, <1>3, <1>4 DEF Earlier

\* A strict order in which any two are related, as a set of pairs.
Ordered(R, S) ==
  /\ \A x \in S : <<x, x>> \notin R
  /\ \A x, y, z \in S : <<x, y>> \in R /\ <<y, z>> \in R => <<x, z>> \in R
  /\ \A x, y \in S : x # y => <<x, y>> \in R \/ <<y, x>> \in R

\* The paths are ordered by it.
LEMMA EarlierOrders == Ordered({e \in Path \X Path : Earlier(e[1], e[2])}, Path)
<1> DEFINE R == {e \in Path \X Path : Earlier(e[1], e[2])}
<1>0. \A x, y \in Path : <<x, y>> \in R <=> \E i \in Nat : Differs(x, y, i)
  <2> SUFFICES ASSUME NEW x \in Path, NEW y \in Path PROVE <<x, y>> \in R <=> \E i \in Nat : Differs(x, y, i) OBVIOUS
  <2>1. <<x, y>> \in R <=> Earlier(x, y) OBVIOUS
  <2> QED BY <2>1, EarlierDiffers
<1>1. ASSUME NEW x \in Path, NEW i \in Nat, Differs(x, x, i) PROVE FALSE
  <2>1. Len(x) \in Nat /\ i \in 1..Len(x) /\ Rank(x[i]) < Rank(x[i]) BY <1>1, PathLen DEF Differs
  <2>2. Rank(x[i]) \in Nat BY <2>1, PathLen, RankFacts
  <2> QED BY <2>1, <2>2
<1>2. ASSUME NEW x \in Path, NEW y \in Path, NEW z \in Path, NEW i \in Nat, NEW j \in Nat,
             Differs(x, y, i), Differs(y, z, j)
      PROVE  \E h \in Nat : Differs(x, z, h)
  <2>1. /\ i \in 1..Len(y) /\ i - 1 <= Len(x) /\ \A h \in 1..i - 1 : x[h] = y[h]
        /\ i > Len(x) \/ Rank(x[i]) < Rank(y[i])
    BY <1>2 DEF Differs
  <2>2. /\ j \in 1..Len(z) /\ j - 1 <= Len(y) /\ \A h \in 1..j - 1 : y[h] = z[h]
        /\ j > Len(y) \/ Rank(y[j]) < Rank(z[j])
    BY <1>2 DEF Differs
  <2>3. Len(x) \in Nat /\ Len(y) \in Nat /\ Len(z) \in Nat BY PathLen
  <2>4. CASE i < j
    <3>1. i \in 1..j - 1 /\ i \in 1..Len(z) /\ \A h \in 1..i - 1 : h \in 1..j - 1 BY <2>2, <2>3, <2>4, <2>1
    <3>2. y[i] = z[i] /\ \A h \in 1..i - 1 : x[h] = z[h] BY <2>1, <2>2, <3>1
    <3>3. Differs(x, z, i) BY <2>1, <3>1, <3>2 DEF Differs
    <3> QED BY <3>3
  <2>5. CASE i = j
    <3>1. Rank(y[i]) < Rank(z[i]) BY <2>1, <2>2, <2>3, <2>5
    <3>2. i > Len(x) \/ Rank(x[i]) < Rank(z[i])
      <4>1. CASE i > Len(x) BY <4>1
      <4>2. CASE ~(i > Len(x))
        <5>1. i \in 1..Len(x) /\ i \in 1..Len(y) /\ i \in 1..Len(z) BY <2>1, <2>2, <2>3, <2>5, <4>2
        <5>2. Rank(x[i]) \in Nat /\ Rank(y[i]) \in Nat /\ Rank(z[i]) \in Nat BY <5>1, PathLen, RankFacts
        <5> QED BY <2>1, <3>1, <4>2, <5>2
      <4> QED BY <4>1, <4>2
    <3>3. \A h \in 1..i - 1 : x[h] = z[h] BY <2>1, <2>2, <2>5
    <3>4. Differs(x, z, i) BY <2>1, <2>2, <2>5, <3>2, <3>3 DEF Differs
    <3> QED BY <3>4
  <2>6. CASE j < i
    <3>1. j \in 1..i - 1 /\ j - 1 <= Len(x) /\ j \in 1..Len(y) /\ \A h \in 1..j - 1 : h \in 1..i - 1
      BY <2>1, <2>2, <2>3, <2>6
    <3>2. x[j] = y[j] /\ \A h \in 1..j - 1 : x[h] = z[h] BY <2>1, <2>2, <3>1
    <3>3. Rank(y[j]) < Rank(z[j]) BY <2>2, <2>3, <3>1
    <3>4. Differs(x, z, j) BY <2>2, <3>1, <3>2, <3>3 DEF Differs
    <3> QED BY <3>4
  <2> QED BY <2>4, <2>5, <2>6
<1>3. ASSUME NEW x \in Path, NEW y \in Path, x # y
      PROVE  \E i \in Nat : Differs(x, y, i) \/ Differs(y, x, i)
  <2>0. Len(x) \in Nat /\ Len(y) \in Nat BY PathLen
  <2> DEFINE T == {i \in Nat \ {0} : i > Len(x) \/ i > Len(y) \/ x[i] # y[i]}
  <2>1. Len(x) + 1 \in T BY <2>0
  <2>2. PICK i \in T : \A j \in T : i <= j BY <2>1, LeastNat
  <2>3. \A j \in 1..i - 1 : j <= Len(x) /\ j <= Len(y) /\ x[j] = y[j]
    <3> SUFFICES ASSUME NEW j \in 1..i - 1 PROVE j <= Len(x) /\ j <= Len(y) /\ x[j] = y[j] OBVIOUS
    <3>1. j \in Nat \ {0} /\ ~(i <= j) BY <2>2
    <3>2. j \notin T BY <2>2, <3>1
    <3> QED BY <2>0, <3>1, <3>2
  <2>4. i \in Nat \ {0} /\ (i > Len(x) \/ i > Len(y) \/ x[i] # y[i]) BY <2>2
  <2> HIDE DEF T
  <2>5. i - 1 <= Len(x) /\ i - 1 <= Len(y)
    <3>1. CASE i = 1 BY <2>0, <3>1
    <3>2. CASE i # 1
      <4>1. i - 1 \in 1..i - 1 BY <2>4, <3>2
      <4> QED BY <2>3, <4>1
    <3> QED BY <3>1, <3>2
  <2>6. CASE i > Len(x)
    <3>1. i <= Len(y)
      <4> SUFFICES ASSUME ~(i <= Len(y)) PROVE FALSE OBVIOUS
      <4>1. Len(x) = i - 1 /\ Len(y) = i - 1 BY <2>0, <2>4, <2>5, <2>6
      <4>2. \A j \in 1..Len(x) : x[j] = y[j] BY <2>3, <4>1
      <4>3. x = y BY <4>1, <4>2, PathEqual
      <4> QED BY <1>3, <4>3
    <3>2. i \in 1..Len(y) BY <2>0, <2>4, <3>1
    <3>3. Differs(x, y, i) BY <2>3, <2>5, <2>6, <3>2 DEF Differs
    <3> QED BY <2>4, <3>3
  <2>7. CASE i > Len(y) /\ ~(i > Len(x))
    <3>1. i \in 1..Len(x) BY <2>0, <2>4, <2>7
    <3>2. Differs(y, x, i) BY <2>3, <2>5, <2>7, <3>1 DEF Differs
    <3> QED BY <2>4, <3>2
  <2>8. CASE ~(i > Len(x)) /\ ~(i > Len(y))
    <3>1. i \in 1..Len(x) /\ i \in 1..Len(y) /\ x[i] # y[i] BY <2>0, <2>4, <2>8
    <3>2. x[i] \in ToSet(Names) /\ y[i] \in ToSet(Names) BY <3>1, PathLen
    <3>3. Rank(x[i]) < Rank(y[i]) \/ Rank(y[i]) < Rank(x[i]) BY <3>1, <3>2, RankFacts
    <3>4. Differs(x, y, i) \/ Differs(y, x, i) BY <2>3, <2>5, <3>1, <3>3 DEF Differs
    <3> QED BY <2>4, <3>4
  <2> QED BY <2>6, <2>7, <2>8
<1> HIDE DEF R
<1>4. \A x \in Path : <<x, x>> \notin R BY <1>0, <1>1
<1>5. \A x, y, z \in Path : <<x, y>> \in R /\ <<y, z>> \in R => <<x, z>> \in R BY <1>0, <1>2
<1>6. \A x, y \in Path : x # y => <<x, y>> \in R \/ <<y, x>> \in R BY <1>0, <1>3
<1>7. Ordered(R, Path) BY <1>4, <1>5, <1>6 DEF Ordered
<1> QED BY <1>7 DEF R

\* In a finite set with such an order each number of predecessors has one element.
LEMMA Counting ==
  ASSUME NEW S, IsFiniteSet(S), NEW R, Ordered(R, S), NEW f,
         f = [x \in S |-> Cardinality({y \in S : <<y, x>> \in R})]
  PROVE  /\ Cardinality(S) \in Nat
         /\ \A x, y \in S : f[x] = f[y] => x = y
         /\ \A x \in S : f[x] \in 0..Cardinality(S) - 1
         /\ \A i \in 0..Cardinality(S) - 1 : \E x \in S : f[x] = i
<1> DEFINE Below(x) == {y \in S : <<y, x>> \in R}
<1>0. Cardinality(S) \in Nat BY FS_CardinalityType
<1>1. \A x \in S : f[x] = Cardinality(Below(x)) OBVIOUS
<1>2. ASSUME NEW x \in S PROVE IsFiniteSet(Below(x)) /\ Cardinality(Below(x)) \in Nat
  <2>1. Below(x) \subseteq S OBVIOUS
  <2> QED BY <2>1, FS_Subset, FS_CardinalityType
<1>3. ASSUME NEW x \in S, NEW y \in S, <<x, y>> \in R PROVE Cardinality(Below(x)) < Cardinality(Below(y))
  <2>1. Below(x) \subseteq Below(y) BY <1>3 DEF Ordered
  <2>2. x \in Below(y) /\ x \notin Below(x) BY <1>3 DEF Ordered
  <2> HIDE DEF Below
  <2>3. /\ Cardinality(Below(x)) <= Cardinality(Below(y))
        /\ Cardinality(Below(y)) = Cardinality(Below(x)) => Below(y) = Below(x)
    BY <1>2, <2>1, FS_Subset
  <2> QED BY <1>2, <2>2, <2>3
<1>4. ASSUME NEW x \in S, NEW y \in S, f[x] = f[y] PROVE x = y
  <2>1. x # y => <<x, y>> \in R \/ <<y, x>> \in R BY DEF Ordered
  <2> HIDE DEF Below
  <2> QED BY <1>1, <1>2, <1>3, <1>4, <2>1
<1>5. ASSUME NEW x \in S PROVE f[x] \in 0..Cardinality(S) - 1
  <2>1. Below(x) \subseteq S /\ x \notin Below(x) BY DEF Ordered
  <2> HIDE DEF Below
  <2>2. Cardinality(Below(x)) <= Cardinality(S) /\ (Cardinality(S) = Cardinality(Below(x)) => S = Below(x))
    BY <2>1, FS_Subset
  <2>3. Cardinality(Below(x)) \in Nat /\ Cardinality(Below(x)) # Cardinality(S) BY <1>2, <2>1, <2>2
  <2>4. Cardinality(Below(x)) \in 0..Cardinality(S) - 1 BY <1>0, <2>2, <2>3
  <2> QED BY <1>1, <2>4
<1>6. f \in Injection(S, 0..Cardinality(S) - 1)
  <2>1. DOMAIN f = S OBVIOUS
  <2>2. f = [x \in S |-> f[x]] OBVIOUS
  <2>3. f \in [S -> 0..Cardinality(S) - 1]
    <3> HIDE DEF Below
    <3> QED BY <1>5, <2>2
  <2> QED BY <1>4, <2>3 DEF Injection, IsInjective
<1>7. IsFiniteSet(0..Cardinality(S) - 1) /\ Cardinality(0..Cardinality(S) - 1) = Cardinality(S)
  <2>0. PICK n \in Nat : n = Cardinality(S) BY <1>0
  <2>1. IsFiniteSet(0..n - 1) /\ Cardinality(0..n - 1) = IF 0 > n - 1 THEN 0 ELSE n - 1 - 0 + 1
    BY FS_Interval
  <2>2. (IF 0 > n - 1 THEN 0 ELSE n - 1 - 0 + 1) = n OBVIOUS
  <2> QED BY <2>0, <2>1, <2>2
<1>8. f \in Surjection(S, 0..Cardinality(S) - 1) BY <1>6, <1>7, FS_Injection
<1> QED BY <1>0, <1>4, <1>5, <1>8 DEF Surjection

\* A sorted list has each path of the set once.
LEMMA SortedFacts ==
  ASSUME NEW S, S \subseteq Path, IsFiniteSet(S)
  PROVE  /\ Sorted(S) \in Seq(S) /\ Len(Sorted(S)) = Cardinality(S) /\ ToSet(Sorted(S)) = S
         /\ \A i, j \in 1..Len(Sorted(S)) : Sorted(S)[i] = Sorted(S)[j] => i = j
<1> DEFINE R == {e \in Path \X Path : Earlier(e[1], e[2])}
           before == [p \in S |-> Cardinality({q \in S : Earlier(q, p)})]
           Nth(n) == CHOOSE p \in S : before[p] = n - 1
           list == [n \in 1..Cardinality(S) |-> Nth(n)]
<1>1. Sorted(S) = list
  <2>1. Sorted(S) = CHOOSE s \in {[n \in 1..Cardinality(S) |-> CHOOSE p \in S : b[p] = n - 1] : b \in {before}} : TRUE
    BY DEF Sorted
  <2> HIDE DEF before
  <2>2. {[n \in 1..Cardinality(S) |-> CHOOSE p \in S : b[p] = n - 1] : b \in {before}} = {list} OBVIOUS
  <2>3. Sorted(S) = CHOOSE s \in {list} : TRUE BY <2>1, <2>2
  <2> HIDE DEF list
  <2> QED BY <2>3
<1>2. Ordered(R, S)
  <2>1. Ordered(R, Path) BY EarlierOrders
  <2> HIDE DEF R
  <2> QED BY <2>1 DEF Ordered
<1>3. before = [p \in S |-> Cardinality({q \in S : <<q, p>> \in R})]
  <2>1. ASSUME NEW p \in S PROVE {q \in S : Earlier(q, p)} = {q \in S : <<q, p>> \in R} OBVIOUS
  <2> HIDE DEF R
  <2> QED BY <2>1
<1> HIDE DEF R, before
<1>4. /\ Cardinality(S) \in Nat
      /\ \A x, y \in S : before[x] = before[y] => x = y
      /\ \A x \in S : before[x] \in 0..Cardinality(S) - 1
      /\ \A i \in 0..Cardinality(S) - 1 : \E x \in S : before[x] = i
  BY <1>2, <1>3, Counting
<1>5. \A n \in 1..Cardinality(S) : Nth(n) \in S /\ before[Nth(n)] = n - 1
  <2> SUFFICES ASSUME NEW n \in 1..Cardinality(S) PROVE Nth(n) \in S /\ before[Nth(n)] = n - 1 OBVIOUS
  <2>1. n - 1 \in 0..Cardinality(S) - 1 BY <1>4
  <2>2. \E x \in S : before[x] = n - 1 BY <1>4, <2>1
  <2> QED BY <2>2
<1> HIDE DEF Nth
<1>6. list \in Seq(S) /\ Len(list) = Cardinality(S) BY <1>4, <1>5, IsASeq
<1>7. \A n \in 1..Cardinality(S) : list[n] = Nth(n) OBVIOUS
<1>8. DOMAIN list = 1..Cardinality(S) OBVIOUS
<1> HIDE DEF list
<1>9. \A i, j \in 1..Cardinality(S) : list[i] = list[j] => i = j BY <1>4, <1>5, <1>7
<1>10. ASSUME NEW x \in S PROVE \E n \in 1..Cardinality(S) : list[n] = x
  <2>1. before[x] + 1 \in 1..Cardinality(S) BY <1>4
  <2>2. before[Nth(before[x] + 1)] = before[x] /\ Nth(before[x] + 1) \in S
    <3>1. PICK n \in 1..Cardinality(S) : n = before[x] + 1 BY <2>1
    <3>2. n - 1 = before[x] BY <1>4, <3>1
    <3> QED BY <1>5, <3>1, <3>2
  <2>3. Nth(before[x] + 1) = x BY <1>4, <2>2
  <2> QED BY <1>7, <2>1, <2>3
<1>11. ToSet(list) = S BY <1>5, <1>7, <1>8, <1>10 DEF ToSet
<1> QED BY <1>1, <1>6, <1>9, <1>11

-----------------------------------------------------------------------------
(* What is in a directory and below it                                     *)

\* There are finitely many names.
LEMMA NamesFinite == IsFiniteSet(ToSet(Names))
<1>1. Names \in Seq(ToSet(Names)) BY TreeAssumption
<1>2. Len(Names) \in Nat /\ DOMAIN Names = 1..Len(Names) /\ Names \in [1..Len(Names) -> ToSet(Names)]
  BY <1>1, LenProperties
<1>3. Names \in Surjection(1..Len(Names), ToSet(Names)) BY <1>2 DEF Surjection, ToSet
<1>4. IsFiniteSet(1..Len(Names)) BY <1>2, FS_Interval
<1> QED BY <1>3, <1>4, FS_Surjection

\* listdir() gives paths of one name each.
LEMMA ListingFacts ==
  ASSUME NEW user, NEW p
  PROVE  /\ Listing(user, p) \subseteq Path /\ IsFiniteSet(Listing(user, p))
         /\ \A name \in Listing(user, p) : name \in Path /\ Len(name) = 1
<1>1. \A n \in ToSet(Names) : <<n>> \in Path /\ Len(<<n>>) = 1 BY EmptyPath, AppendProperties DEF Path
<1> DEFINE One1 == {<<n>> : n \in ToSet(Names)}
<1>2. IsFiniteSet(One1)
  <2> DEFINE f == [n \in ToSet(Names) |-> <<n>>]
  <2>1. f \in Surjection(ToSet(Names), One1) BY DEF Surjection
  <2> HIDE DEF f, One1
  <2> QED BY <2>1, NamesFinite, FS_Surjection
<1>3. Listing(user, p) \subseteq One1 BY DEF Listing
<1>4. IsFiniteSet(Listing(user, p)) BY <1>2, <1>3, FS_Subset
<1> QED BY <1>1, <1>3, <1>4

\* The paths of what is below a directory.
LEMMA RenamedFacts ==
  ASSUME NEW user, NEW p \in Path, NEW n \in Under(user, p)
  PROVE  /\ n \in Node /\ n \in Path /\ Follow(user, p).at \in Path
         /\ Len(Follow(user, p).at) \in 0..Len(n) - 1 /\ Len(Follow(user, p).at) \in 0..Len(n)
         /\ Renamed(user, p, n) = p \o Rest(n, Len(Follow(user, p).at))
         /\ Renamed(user, p, n) \in Path
<1>1. Follow(user, p).at \in Path BY FollowRealLemma DEF FollowReal, Finding
<1>2. n \in Node /\ n \in Path /\ IsStrictPrefix(Follow(user, p).at, n) BY NodeFacts DEF Under
<1>3. Len(Follow(user, p).at) < Len(n) BY <1>1, <1>2, PrefixFacts
<1>4. Len(Follow(user, p).at) \in Nat /\ Len(n) \in Nat BY <1>1, <1>2, PathLen
<1>5. Renamed(user, p, n) = p \o Rest(n, Len(Follow(user, p).at)) BY DEF Renamed, Rest
<1>6. Len(Follow(user, p).at) \in 0..Len(n) BY <1>3, <1>4
<1>7. Rest(n, Len(Follow(user, p).at)) \in Path BY <1>2, <1>6, RestFacts
<1>8. Renamed(user, p, n) \in Path BY <1>5, <1>7, ConcatFacts
<1> QED BY <1>1, <1>2, <1>3, <1>4, <1>5, <1>6, <1>8

\* os.walk() finds finitely many paths.
LEMMA OsWalkFacts ==
  ASSUME NEW user, NEW p \in Path
  PROVE  OsWalk(user, p) \subseteq Path /\ IsFiniteSet(OsWalk(user, p))
<1>1. IsFiniteSet(Under(user, p))
  <2>1. Under(user, p) \subseteq Node BY DEF Under
  <2> QED BY <2>1, FS_Subset, TreeAssumption
<1> DEFINE Names1 == {Renamed(user, p, n) : n \in Under(user, p)}
<1>2. IsFiniteSet(Names1)
  <2> DEFINE f == [n \in Under(user, p) |-> Renamed(user, p, n)]
  <2>1. f \in Surjection(Under(user, p), Names1) BY DEF Surjection
  <2> HIDE DEF f, Names1
  <2> QED BY <1>1, <2>1, FS_Surjection
<1>3. OsWalk(user, p) \subseteq Names1 BY DEF OsWalk
<1>4. Names1 \subseteq Path BY RenamedFacts
<1> HIDE DEF Names1
<1> QED BY <1>2, <1>3, <1>4, FS_Subset

-----------------------------------------------------------------------------
(* What is on the way to a path                                            *)

\* What a step to an existing path has found.
LEMMA WalkOk ==
  ASSUME NEW user, NEW r \in Finding, NEW n, Walk1(user, TRUE, r, n).ok
  PROVE  r.ok /\ (n # Up => There(Append(r.at, n)) /\ May(user, Append(r.at, n)))
<1>p. PICK child : child = Append(r.at, n) OBVIOUS
<1>1. r.ok
  <2>1. ~r.ok => Walk1(user, TRUE, r, n) = r BY DEF Walk1
  <2> QED BY <2>1
<1>2. ASSUME n # Up, ~There(child) \/ ~May(user, child) PROVE FALSE
  <2>1. Walk1(user, TRUE, r, n) = [r EXCEPT !.ok = FALSE, !.via = @ \cup {child}] BY <1>1, <1>2, <1>p DEF Walk1
  <2>2. Walk1(user, TRUE, r, n).ok = FALSE BY <2>1 DEF Finding
  <2> QED BY <2>2
<1> QED BY <1>1, <1>2, <1>p

\* What is found somewhere is found before.
OkBefore == \A user : \A p \in Path : Follow(user, p).ok => \A i \in 0..Len(p) : Follow(user, Pre(p, i)).ok
\* A step that finds something goes on from something found.
LEMMA OkBeforeLemma == OkBefore
<1> SUFFICES ASSUME NEW user
             PROVE  \A p \in Path : Follow(user, p).ok => \A i \in 0..Len(p) : Follow(user, Pre(p, i)).ok
  BY DEF OkBefore
<1> DEFINE Right(p) == Follow(user, p).ok => \A i \in 0..Len(p) : Follow(user, Pre(p, i)).ok
           T == {p \in Path : Right(p)}
<1>1. <<>> \in T
  <2>1. \A i \in 0..Len(<<>>) : Pre(<<>>, i) = <<>> BY EmptyPath, PreAll
  <2> QED BY <2>1, EmptyPath
<1>2. ASSUME NEW p \in Path, p # <<>>, Front(p) \in T PROVE p \in T
  <2> SUFFICES ASSUME Follow(user, p).ok, NEW i \in 0..Len(p) PROVE Follow(user, Pre(p, i)).ok OBVIOUS
  <2>1. /\ Front(p) \in Path /\ Len(p) \in Nat \ {0} /\ Len(Front(p)) = Len(p) - 1
        /\ Front(p) = Pre(p, Len(p) - 1)
    BY <1>2, FrontFacts
  <2>2. CASE i = Len(p) BY <2>2, PreAll
  <2>3. CASE i # Len(p)
    <3>1. i \in 0..Len(p) - 1 /\ Len(p) - 1 \in 0..Len(p) /\ i \in 0..Len(Front(p)) BY <2>1, <2>3
    <3>2. Pre(Front(p), i) = Pre(p, i) BY <2>1, <3>1, PrePre
    <3>3. Follow(user, Front(p)).ok
      <4>1. PICK r, w : r = Follow(user, Front(p)) /\ w = Walk1(user, TRUE, r, Last(p)) OBVIOUS
      <4>2. r \in Finding BY <2>1, <4>1, FollowRealLemma DEF FollowReal
      <4>3. Follow(user, p) = w BY <1>2, <4>1, FollowLemma DEF FollowByNames
      <4> QED BY <4>1, <4>2, <4>3, WalkOk
    <3>4. Follow(user, Pre(Front(p), i)).ok BY <1>2, <3>1, <3>3
    <3> QED BY <3>2, <3>4
  <2> QED BY <2>2, <2>3
<1> HIDE DEF T
<1>3. Path \subseteq T BY <1>1, <1>2, PathInduction
<1> QED BY <1>3 DEF T

\* What stat() may answer.
LEMMA StatFacts ==
  ASSUME NEW user, NEW p \in Path
  PROVE  /\ Stat(user, p) \in {"none", "dir", "file", "other"}
         /\ Stat(user, p) # "none" <=> Follow(user, p).ok
<1>1. PICK r : r = Follow(user, p) OBVIOUS
<1>2. r \in Finding /\ Real(r) BY <1>1, FollowRealLemma DEF FollowReal
<1>3. r.ok /\ r.at # <<>> => r.at \in Node /\ Kind[r.at] \in {"dir", "file", "link", "other"} /\ Kind[r.at] # "link"
  BY <1>2, NodeFacts DEF Real
<1>4. KindAt(r) \in {"none", "dir", "file", "other"} /\ (KindAt(r) # "none" <=> r.ok) BY <1>2, <1>3 DEF KindAt, Finding
<1> QED BY <1>1, <1>4 DEF Stat

\* A name in a directory: the directory can be listed and has it.
LEMMA EntryFacts ==
  ASSUME NEW user, NEW p \in Path, p # <<>>, Follow(user, p).ok, Last(p) # Up
  PROVE  /\ Stat(user, Front(p)) = "dir" /\ Listable(user, Front(p))
         /\ <<Last(p)>> \in Listing(user, Front(p))
         /\ There(Append(Follow(user, Front(p)).at, Last(p)))
<1>1. Front(p) \in Path /\ Last(p) \in ToSet(Names) BY FrontFacts
<1>2. PICK r, n, a, child : r = Follow(user, Front(p)) /\ n = Last(p) /\ a = r.at /\ child = Append(a, n) OBVIOUS
<1>3. r \in Finding /\ Real(r) /\ a \in Path BY <1>1, <1>2, FollowRealLemma DEF FollowReal, Finding
<1>4. Walk1(user, TRUE, r, n).ok BY <1>2, FollowLemma DEF FollowByNames
<1>5. r.ok /\ There(child) /\ May(user, child) BY <1>2, <1>3, <1>4, WalkOk
<1>6. /\ child \in Path /\ child # <<>> /\ Front(child) = a /\ Len(child) = Len(a) + 1
      /\ Pre(child, Len(a)) = a /\ Len(a) \in Nat
  <2>1. n \in ToSet(Names) /\ Len(a) \in Nat BY <1>1, <1>2, <1>3, PathLen
  <2>2. child \in Path /\ child # <<>> /\ Front(child) = a /\ Len(child) = Len(a) + 1
    BY <1>2, <1>3, <2>1, AppendFacts
  <2>3. \A i \in 0..Len(a) : Pre(child, i) = Pre(a, i) BY <1>2, <1>3, <2>1, AppendFacts
  <2>4. Len(a) \in 0..Len(a) BY <2>1
  <2> QED BY <1>3, <2>1, <2>2, <2>3, <2>4, PreAll
<1>7. child \in Node BY <1>5, <1>6, ThereFacts
<1>8. a # <<>> => Kind[a] = "dir" BY <1>6, <1>7, NodeFacts
<1>9. Stat(user, Front(p)) = "dir" BY <1>2, <1>5, <1>8 DEF Stat, KindAt
<1>10. IsStrictPrefix(a, child) BY <1>3, <1>6, PrefixFacts
<1>11. user = "root" \/ a \notin Private BY <1>5, <1>10 DEF May
<1>12. Listable(user, Front(p)) BY <1>2, <1>9, <1>11 DEF Listable
<1>13. a \o <<n>> = child
  <2>1. n \in ToSet(Names) /\ a \in Seq(ToSet(Names)) BY <1>1, <1>2, <1>3 DEF Path
  <2> QED BY <1>2, <2>1
<1>14. <<n>> \in Listing(user, Front(p)) BY <1>1, <1>2, <1>5, <1>13 DEF Listing
<1> QED BY <1>2, <1>5, <1>9, <1>12, <1>14

\* One name up there is a directory.
LEMMA UpIsDir ==
  ASSUME NEW user, NEW p \in Path, p # <<>>, Follow(user, p).ok, Last(p) = Up
  PROVE  Stat(user, p) = "dir"
<1>1. Front(p) \in Path /\ Last(p) \in ToSet(Names) BY FrontFacts
<1>2. PICK r, n, w : r = Follow(user, Front(p)) /\ n = Last(p) /\ w = Walk1(user, TRUE, r, n) OBVIOUS
<1>3. r \in Finding /\ Real(r) /\ r.at \in Path BY <1>1, <1>2, FollowRealLemma DEF FollowReal, Finding
<1>4. Follow(user, p) = w BY <1>2, FollowLemma DEF FollowByNames
<1>5. r.ok BY <1>2, <1>3, <1>4, WalkOk
<1>6. w = [r EXCEPT !.at = IF r.at = <<>> THEN r.at ELSE Front(r.at)] BY <1>2, <1>5 DEF Walk1
<1>7. w.at = IF r.at = <<>> THEN r.at ELSE Front(r.at) BY <1>3, <1>6 DEF Finding
<1>8. w.at = <<>> \/ Kind[w.at] = "dir"
  <2>1. CASE r.at = <<>> BY <1>7, <2>1
  <2>2. CASE r.at # <<>>
    <3>1. r.at \in Node BY <1>3, <1>5, <2>2 DEF Real
    <3> QED BY <1>7, <2>2, <3>1, NodeFacts
  <2> QED BY <2>1, <2>2
<1> QED BY <1>4, <1>8 DEF Stat, KindAt

\* The superuser finds what the login user does.
RootSees == \A p \in Path : Follow("login", p).ok => Follow("root", p) = Follow("login", p)
\* What stops the superuser stops any other, name by name.
LEMMA RootSeesLemma == RootSees
<1> DEFINE T == {p \in Path : Follow("login", p).ok => Follow("root", p) = Follow("login", p)}
<1>1. <<>> \in T
  <2>1. Follow("login", <<>>) = Start /\ Follow("root", <<>>) = Start BY EmptyPath, FollowLemma DEF FollowByNames
  <2> QED BY <2>1, EmptyPath
<1>2. ASSUME NEW p \in Path, p # <<>>, Front(p) \in T PROVE p \in T
  <2> SUFFICES ASSUME Follow("login", p).ok PROVE Follow("root", p) = Follow("login", p) OBVIOUS
  <2>1. Front(p) \in Path /\ Last(p) \in ToSet(Names) BY <1>2, FrontFacts
  <2>2. PICK r, n, child : r = Follow("login", Front(p)) /\ n = Last(p) /\ child = Append(r.at, n) OBVIOUS
  <2>3. r \in Finding BY <2>1, <2>2, FollowRealLemma DEF FollowReal
  <2>4. Follow("login", p) = Walk1("login", TRUE, r, n) BY <1>2, <2>2, FollowLemma DEF FollowByNames
  <2>5. r.ok /\ (n # Up => There(child) /\ May("login", child)) BY <2>2, <2>3, <2>4, WalkOk
  <2>6. Follow("root", Front(p)) = r BY <1>2, <2>2, <2>5
  <2>7. Follow("root", p) = Walk1("root", TRUE, r, n) BY <1>2, <2>2, <2>6, FollowLemma DEF FollowByNames
  <2>8. May("root", child) BY DEF May
  <2> HIDE DEF T
  <2>9. Walk1("root", TRUE, r, n) = Walk1("login", TRUE, r, n)
    <3>1. CASE n = Up BY <2>5, <3>1 DEF Walk1
    <3>2. CASE n # Up /\ Kind[child] # "link" BY <2>2, <2>5, <2>8, <3>2 DEF Walk1
    <3>3. CASE n # Up /\ Kind[child] = "link"
      <4>1. PICK to : to = LinkTo[child] OBVIOUS
      <4>2. \A user : May(user, child) => Walk1(user, TRUE, r, n) =
               [ok |-> r.links < MaxLinks /\ There(to) /\ May(user, to), at |-> to,
                links |-> r.links + 1, via |-> r.via \cup {child} \cup Along(to)]
        BY <2>2, <2>5, <3>3, <4>1 DEF Walk1
      <4> DEFINE Ok(user) == r.links < MaxLinks /\ There(to) /\ May(user, to)
      <4>3. Ok("login") => Ok("root") BY DEF May
      <4>4. Ok("login") \in BOOLEAN /\ Ok("root") \in BOOLEAN
        <5>1. There(to) \in BOOLEAN /\ May("login", to) \in BOOLEAN /\ May("root", to) \in BOOLEAN BY DEF There, May
        <5> QED BY <5>1
      <4>5. \A user : May(user, child) => Walk1(user, TRUE, r, n) =
               [ok |-> Ok(user), at |-> to, links |-> r.links + 1, via |-> r.via \cup {child} \cup Along(to)]
        BY <4>2
      <4> HIDE DEF Ok
      <4>6. PICK ok1 \in BOOLEAN, ok2 \in BOOLEAN : ok1 = Ok("login") /\ ok2 = Ok("root") /\ (ok1 => ok2) BY <4>3, <4>4
      <4>7. PICK via, links : via = r.via \cup {child} \cup Along(to) /\ links = r.links + 1 OBVIOUS
      <4>8. /\ Walk1("login", TRUE, r, n) = [ok |-> ok1, at |-> to, links |-> links, via |-> via]
            /\ Walk1("root", TRUE, r, n) = [ok |-> ok2, at |-> to, links |-> links, via |-> via]
        BY <2>5, <2>8, <3>3, <4>5, <4>6, <4>7
      <4>9. PICK w : w = Walk1("login", TRUE, r, n) OBVIOUS
      <4>10. ok1
        <5>1. w.ok BY <2>4, <4>9
        <5>2. ~ok1 => w = [ok |-> FALSE, at |-> to, links |-> links, via |-> via] BY <4>6, <4>8, <4>9
        <5>3. w = [ok |-> FALSE, at |-> to, links |-> links, via |-> via] => w.ok = FALSE OBVIOUS
        <5> QED BY <4>6, <5>1, <5>2, <5>3
      <4>11. ok1 = ok2 BY <4>6, <4>10
      <4> QED BY <4>8, <4>11
    <3> QED BY <3>1, <3>2, <3>3
  <2> QED BY <2>4, <2>7, <2>9
<1> HIDE DEF T
<1>3. Path \subseteq T BY <1>1, <1>2, PathInduction
<1> QED BY <1>3 DEF T, RootSees

\* One name more.
LEMMA PreNext ==
  ASSUME NEW p \in Path, NEW i \in 0..Len(p) - 1
  PROVE  /\ Pre(p, i) \in Path /\ Pre(p, i + 1) \in Path /\ Pre(p, i + 1) # <<>>
         /\ Len(Pre(p, i)) = i /\ Len(Pre(p, i + 1)) = i + 1
         /\ Front(Pre(p, i + 1)) = Pre(p, i) /\ Last(Pre(p, i + 1)) = p[i + 1]
         /\ Pre(p, i + 1) = Append(Pre(p, i), p[i + 1]) /\ p[i + 1] \in ToSet(Names)
<1>1. Len(p) \in Nat BY PathLen
<1>2. i \in 0..Len(p) /\ i + 1 \in 0..Len(p) /\ i + 1 \in 1..i + 1 /\ i \in 0..i + 1 /\ i + 1 \in 1..Len(p) BY <1>1
<1>3. PICK q : q = Pre(p, i + 1) OBVIOUS
<1>4. q \in Path /\ Len(q) = i + 1 /\ q[i + 1] = p[i + 1] BY <1>2, <1>3, PreFacts
<1>5. q # <<>> BY <1>2, <1>4, EmptyPath
<1>6. Front(q) = Pre(q, Len(q) - 1) /\ Last(q) = q[Len(q)] /\ Append(Front(q), Last(q)) = q BY <1>4, <1>5, FrontFacts
<1>7. Len(q) - 1 = i BY <1>2, <1>4
<1>8. Pre(q, i) = Pre(p, i) BY <1>2, <1>3, PrePre
<1>9. Pre(p, i) \in Path /\ Len(Pre(p, i)) = i BY <1>2, PreFacts
<1>10. p[i + 1] \in ToSet(Names) BY <1>2, PathLen
<1> QED BY <1>3, <1>4, <1>5, <1>6, <1>7, <1>8, <1>9, <1>10

\* Prefixes of a path are its first names.
LEMMA StrictPre ==
  ASSUME NEW p \in Path, NEW q \in Path, IsStrictPrefix(q, p)
  PROVE  Len(q) \in 0..Len(p) - 1 /\ Len(q) \in 0..Len(p) /\ q = Pre(p, Len(q)) /\ p # <<>>
<1>1. Len(p) \in Nat /\ Len(q) \in Nat BY PathLen
<1>2. Len(q) < Len(p) /\ Pre(p, Len(q)) = q BY PrefixFacts
<1>3. p # <<>> BY <1>1, <1>2, EmptyPath
<1> QED BY <1>1, <1>2, <1>3

\* The path of the next name on the way from q to p.
Toward(q, p) == <<p[Len(q) + 1]>>

\* On the way to what is there every directory can be listed and has the next name.
LEMMA DownFacts ==
  ASSUME NEW p \in Path, Follow("login", p).ok, NEW q \in Path, IsStrictPrefix(q, p), p[Len(q) + 1] # Up
  PROVE  /\ Stat("login", q) = "dir" /\ Listable("login", q) /\ Toward(q, p) \in Listing("login", q)
         /\ q \o Toward(q, p) = Pre(p, Len(q) + 1)
         /\ IsPrefix(q \o Toward(q, p), p)
<1>1. Len(p) \in Nat /\ Len(q) \in 0..Len(p) - 1 /\ q = Pre(p, Len(q)) BY StrictPre, PathLen
<1>2. PICK i, n, r : i = Len(q) /\ n = p[i + 1] /\ r = Pre(p, i + 1) OBVIOUS
<1>3. i \in 0..Len(p) - 1 /\ i + 1 \in 0..Len(p) BY <1>1, <1>2
<1>4. /\ r \in Path /\ r # <<>> /\ Len(r) = i + 1 /\ Front(r) = q /\ Last(r) = n
      /\ r = Append(q, n) /\ n \in ToSet(Names)
  BY <1>1, <1>2, <1>3, PreNext
<1>5. Follow("login", r).ok BY <1>2, <1>3, OkBeforeLemma DEF OkBefore
<1>6. n # Up BY <1>2
<1>7. Stat("login", q) = "dir" /\ Listable("login", q) /\ <<n>> \in Listing("login", q) BY <1>4, <1>5, <1>6, EntryFacts
<1>8. q \o <<n>> = r
  <2>1. q \in Seq(ToSet(Names)) BY DEF Path
  <2> QED BY <1>4, <2>1
<1>9. IsPrefix(r, p)
  <2>1. Len(r) <= Len(p) /\ Pre(p, Len(r)) = r BY <1>1, <1>2, <1>3, <1>4
  <2> QED BY <1>4, <2>1, PrefixFacts
<1> QED BY <1>2, <1>7, <1>8, <1>9 DEF Toward

\* What is no link is where its name says.
LEMMA StraightFacts ==
  ASSUME NEW p \in Path, p # <<>>, Follow("login", p).ok, Last(p) # Up, Lstat("login", p) # "link"
  PROVE  Follow("login", p).at = Append(Follow("login", Front(p)).at, Last(p))
<1>1. Front(p) \in Path /\ Last(p) \in ToSet(Names) BY FrontFacts
<1>2. PICK r, n, child : r = Follow("login", Front(p)) /\ n = Last(p) /\ child = Append(r.at, n) OBVIOUS
<1>3. r \in Finding /\ r.at \in Path BY <1>1, <1>2, FollowRealLemma DEF FollowReal, Finding
<1>4. Follow("login", p) = Walk1("login", TRUE, r, n) BY <1>2, FollowLemma DEF FollowByNames
<1>5. r.ok /\ There(child) /\ May("login", child) /\ n # Up
  <2>1. Walk1("login", TRUE, r, n).ok /\ n # Up BY <1>2, <1>4
  <2> QED BY <1>2, <1>3, <2>1, WalkOk
<1>6. child # <<>> BY <1>1, <1>2, <1>3, AppendFacts
<1>7. Kind[child] # "link"
  <2> SUFFICES ASSUME Kind[child] = "link" PROVE FALSE OBVIOUS
  <2>1. PICK w : w = Walk1("login", FALSE, r, n) OBVIOUS
  <2>2. w = [r EXCEPT !.at = child, !.via = @ \cup {child}] BY <1>2, <1>5, <2>1 DEF Walk1
  <2>3. w.ok /\ w.at = child BY <1>3, <1>5, <2>2 DEF Finding
  <2>4. Lstat("login", p) = KindAt(w) BY <1>2, <2>1 DEF Lstat
  <2> QED BY <1>6, <2>3, <2>4 DEF KindAt
<1>8. PICK w : w = Walk1("login", TRUE, r, n) OBVIOUS
<1>9. w = [r EXCEPT !.at = child, !.via = @ \cup {child}] BY <1>2, <1>5, <1>7, <1>8 DEF Walk1
<1>10. w.at = child BY <1>3, <1>9 DEF Finding
<1> QED BY <1>2, <1>4, <1>8, <1>10

\* From its b-th name on a path goes down, and through no link.
Downward(p, b) == \A i \in b + 1..Len(p) : p[i] # Up
LinkFree(p, b) == \A i \in b + 1..Len(p) - 1 : Lstat("login", Pre(p, i)) # "link"

\* Below q, the node that p would be if no link were on the way.
Below(a, q, p) == a \o Rest(p, Len(q))

\* Its names are those of a and those that follow q.
IsBelow(n, a, q, p) ==
  /\ n \in Path /\ Len(n) = Len(a) + Len(p) - Len(q) /\ Len(a) \in 0..Len(n) - 1
  /\ Len(a) \in Nat /\ Len(q) \in Nat /\ Len(p) \in Nat /\ Len(n) \in Nat
  /\ Pre(n, Len(a)) = a /\ IsStrictPrefix(a, n)
  /\ \A j \in 1..Len(p) - Len(q) : n[Len(a) + j] = p[Len(q) + j]
\* The path below a node with the rest of another, name by name.
LEMMA BelowFacts ==
  ASSUME NEW a \in Path, NEW p \in Path, NEW q \in Path, IsStrictPrefix(q, p)
  PROVE  IsBelow(Below(a, q, p), a, q, p)
<1> PICK n : n = Below(a, q, p) OBVIOUS
<1>1. Len(a) \in Nat /\ Len(q) \in Nat /\ Len(p) \in Nat BY PathLen
<1>2. Len(q) \in 0..Len(p) - 1 /\ Len(q) \in 0..Len(p) BY StrictPre
<1>3. PICK t, lq : lq = Len(q) /\ t = Rest(p, lq) OBVIOUS
<1>4. t \in Path /\ Len(t) = Len(p) - lq /\ \A j \in 1..Len(p) - lq : t[j] = p[lq + j] BY <1>2, <1>3, RestFacts
<1>5. /\ n \in Path /\ Len(n) = Len(a) + Len(t)
      /\ \A i \in 1..Len(a) : n[i] = a[i]
      /\ \A i \in 1..Len(t) : n[Len(a) + i] = t[i]
  <2>1. n = a \o t BY <1>3 DEF Below
  <2>2. /\ a \o t \in Path /\ Len(a \o t) = Len(a) + Len(t)
        /\ \A i \in 1..Len(a) : (a \o t)[i] = a[i]
        /\ \A i \in 1..Len(t) : (a \o t)[Len(a) + i] = t[i]
    BY <1>4, ConcatFacts
  <2> QED BY <2>1, <2>2
<1>6. Len(n) = Len(a) + Len(p) - lq /\ Len(a) \in 0..Len(n) - 1 /\ Len(n) \in Nat BY <1>1, <1>2, <1>3, <1>4, <1>5
<1>7. IsStrictPrefix(a, n)
  <2>1. Len(a) < Len(n) /\ Len(a) <= Len(n) BY <1>6
  <2>2. \A j \in 1..Len(a) : a[j] = n[j] BY <1>5
  <2> QED BY <1>5, <2>1, <2>2, PrefixFacts
<1>8. Pre(n, Len(a)) = a BY <1>5, <1>7, StrictPre
<1>9. \A j \in 1..Len(p) - lq : n[Len(a) + j] = p[lq + j] BY <1>4, <1>5
<1>10. IsBelow(n, a, q, p) BY <1>1, <1>3, <1>5, <1>6, <1>7, <1>8, <1>9 DEF IsBelow
<1> QED BY <1>10

\* Counting from two places in step.
InStep(b, m, lp, ln, j) ==
  /\ j + 1 < lp - b =>
       /\ b + (j + 1) = b + j + 1 /\ m + (j + 1) = m + j + 1 /\ b + j \in 0..lp - 1 /\ m + j \in 0..ln - 1
       /\ b + j + 1 \in b + 1..lp - 1 /\ b + j + 1 \in b + 1..lp /\ b + j + 1 \in 0..lp
       /\ j + 1 \in 1..lp - b /\ j < lp - b
  /\ j = lp - b - 1 =>
       /\ j \in 0..lp - b - 1 /\ b + j = lp - 1 /\ m + j = ln - 1
       /\ lp - b \in 1..lp - b /\ m + (lp - b) = ln /\ b + (lp - b) = lp /\ ln > 0
\* Counting on keeps the two places in step.
LEMMA StepFacts ==
  ASSUME NEW b \in Nat, NEW m \in Nat, NEW lp \in Nat, NEW ln \in Nat, ln = m + lp - b, NEW j \in Nat
  PROVE  InStep(b, m, lp, ln, j)
BY DEF InStep

\* It is, if none is.
IsStraight(n, a, q, p) ==
  \A j \in 0..Len(p) - Len(q) - 1 : Follow("login", Pre(p, Len(q) + j)).at = Pre(n, Len(a) + j)
\* Name by name, none of them ".." or a link.
LEMMA StraightDown ==
  ASSUME NEW p \in Path, Follow("login", p).ok, NEW q \in Path, IsStrictPrefix(q, p),
         Downward(p, Len(q)), LinkFree(p, Len(q)),
         NEW a, a = Follow("login", q).at
  PROVE  IsStraight(Below(a, q, p), a, q, p)
<1> PICK n : n = Below(a, q, p) OBVIOUS
<1>0. a \in Path BY FollowRealLemma DEF FollowReal, Finding
<1> PICK b, m, lp : b = Len(q) /\ m = Len(a) /\ lp = Len(p) OBVIOUS
<1>1. /\ n \in Path /\ Len(n) = m + lp - b /\ b \in Nat /\ m \in Nat /\ lp \in Nat
      /\ Pre(n, m) = a /\ \A j \in 1..lp - b : n[m + j] = p[b + j]
  <2>1. /\ n \in Path /\ Len(n) = Len(a) + Len(p) - Len(q)
        /\ Len(a) \in Nat /\ Len(q) \in Nat /\ Len(p) \in Nat
        /\ Pre(n, Len(a)) = a
        /\ \A j \in 1..Len(p) - Len(q) : n[Len(a) + j] = p[Len(q) + j]
    <3>1. IsBelow(n, a, q, p) BY <1>0, BelowFacts
    <3> QED BY <3>1 DEF IsBelow
  <2>2. PICK ln : ln = Len(n) OBVIOUS
  <2>3. ln = m + lp - b BY <2>1, <2>2
  <2> QED BY <2>1, <2>2, <2>3
<1>2. q = Pre(p, b) /\ b \in 0..lp - 1 BY StrictPre
<1> DEFINE Right(j) == Follow("login", Pre(p, b + j)).at = Pre(n, m + j)
           T == {j \in Nat : j < lp - b => Right(j)}
<1>3. 0 \in T
  <2>1. b + 0 = b /\ m + 0 = m BY <1>1
  <2> QED BY <1>1, <1>2, <2>1
<1>4. ASSUME NEW j \in Nat, j \in T PROVE j + 1 \in T
  <2> SUFFICES ASSUME j + 1 < lp - b PROVE Right(j + 1)
    <3> HIDE DEF Right
    <3> QED OBVIOUS
  <2>1. PICK i, h : i = b + j /\ h = m + j OBVIOUS
  <2>2. /\ b + (j + 1) = i + 1 /\ m + (j + 1) = h + 1 /\ i \in 0..Len(p) - 1 /\ h \in 0..Len(n) - 1
        /\ i + 1 \in Len(q) + 1..Len(p) - 1 /\ i + 1 \in Len(q) + 1..Len(p) /\ i + 1 \in 0..Len(p)
        /\ j + 1 \in 1..lp - b /\ j < lp - b
    <3> HIDE DEF T, Right
    <3>1. PICK ln : ln = Len(n) OBVIOUS
    <3>2. ln \in Nat /\ ln = m + lp - b BY <1>1, <3>1, PathLen
    <3>3. InStep(b, m, lp, ln, j) BY <1>1, <3>2, StepFacts
    <3> QED BY <2>1, <3>1, <3>3 DEF InStep
  <2>3. Right(j) BY <1>4, <2>2
  <2>4. Follow("login", Pre(p, i)).at = Pre(n, h) BY <2>1, <2>3
  <2> HIDE DEF T, Right
  <2>5. n[h + 1] = p[i + 1] BY <1>1, <2>2
  <2>6. PICK r : r = Pre(p, i + 1) OBVIOUS
  <2>7. r \in Path /\ r # <<>> /\ Front(r) = Pre(p, i) /\ Last(r) = p[i + 1] BY <2>2, <2>6, PreNext
  <2>8. Follow("login", r).ok BY <2>2, <2>6, OkBeforeLemma DEF OkBefore
  <2>9. Last(r) # Up /\ Lstat("login", r) # "link" BY <2>2, <2>6, <2>7 DEF Downward, LinkFree
  <2>10. Follow("login", r).at = Append(Pre(n, h), n[h + 1]) BY <2>4, <2>5, <2>7, <2>8, <2>9, StraightFacts
  <2>11. Pre(n, h + 1) = Append(Pre(n, h), n[h + 1]) BY <1>1, <2>2, PreNext
  <2> QED BY <2>2, <2>6, <2>10, <2>11 DEF Right
<1> HIDE DEF T, Right
<1>5. Nat \subseteq T BY <1>3, <1>4, Inductive
<1>6. ASSUME NEW j \in 0..lp - b - 1 PROVE Right(j)
  <2>1. j \in T /\ j < lp - b BY <1>1, <1>5, <1>6
  <2> QED BY <2>1 DEF T
<1>7. IsStraight(n, a, q, p) BY <1>6 DEF Right, IsStraight
<1> QED BY <1>7

\* os.walk() as the superuser finds the files that the login user finds there, unless a link leads to them.
LEMMA OsWalkHas ==
  ASSUME NEW p \in Path, Stat("login", p) = "file", NEW q \in Path, IsStrictPrefix(q, p),
         Downward(p, Len(q)), LinkFree(p, Len(q))
  PROVE  p \in OsWalk("root", q)
<1>1. Follow("login", p).ok BY StatFacts
<1>2. Len(q) \in 0..Len(p) - 1 /\ Len(q) \in 0..Len(p) /\ q = Pre(p, Len(q)) /\ p # <<>> /\ Len(p) \in Nat BY StrictPre, PathLen
<1>3. Follow("login", q).ok BY <1>1, <1>2, OkBeforeLemma DEF OkBefore
<1>4. Follow("root", q) = Follow("login", q) /\ Follow("root", p) = Follow("login", p)
  BY <1>1, <1>3, RootSeesLemma DEF RootSees
<1>5. p[Len(q) + 1] # Up BY <1>2 DEF Downward
<1>6. Stat("root", q) = "dir" BY <1>1, <1>4, <1>5, DownFacts DEF Stat
<1>7. Stat("root", p) # "dir" BY <1>4 DEF Stat
<1>8. PICK a, n : a = Follow("login", q).at /\ n = Below(a, q, p) OBVIOUS
<1>9. a \in Path BY <1>8, FollowRealLemma DEF FollowReal, Finding
<1>10. /\ n \in Path /\ Len(n) = Len(a) + Len(p) - Len(q) /\ Len(a) \in 0..Len(n) - 1
       /\ Len(a) \in Nat /\ Len(q) \in Nat /\ Len(n) \in Nat /\ IsStrictPrefix(a, n)
       /\ \A j \in 1..Len(p) - Len(q) : n[Len(a) + j] = p[Len(q) + j]
  <2>1. n = Below(a, q, p) BY <1>8
  <2>2. IsBelow(n, a, q, p) BY <1>9, <2>1, BelowFacts
  <2> QED BY <2>2 DEF IsBelow
<1>11. n = Append(Follow("login", Front(p)).at, Last(p))
  <2>1. PICK j : j = Len(p) - Len(q) - 1 OBVIOUS
  <2>2. /\ j \in 0..Len(p) - Len(q) - 1 /\ Len(q) + j = Len(p) - 1 /\ Len(a) + j = Len(n) - 1
        /\ Len(p) - Len(q) \in 1..Len(p) - Len(q) /\ Len(a) + (Len(p) - Len(q)) = Len(n)
        /\ Len(q) + (Len(p) - Len(q)) = Len(p) /\ Len(n) > 0
    <3>1. PICK lp, lq, la, ln : lp = Len(p) /\ lq = Len(q) /\ la = Len(a) /\ ln = Len(n) OBVIOUS
    <3>2. lp \in Nat /\ lq \in Nat /\ la \in Nat /\ ln \in Nat /\ lq < lp BY <1>2, <1>10, <3>1
    <3>3. ln = la + lp - lq /\ j = lp - lq - 1 BY <1>10, <2>1, <3>1
    <3>4. j \in Nat BY <3>2, <3>3
    <3>5. InStep(lq, la, lp, ln, j) BY <3>2, <3>3, <3>4, StepFacts
    <3>6. /\ j \in 0..lp - lq - 1 /\ lq + j = lp - 1 /\ la + j = ln - 1
          /\ lp - lq \in 1..lp - lq /\ la + (lp - lq) = ln /\ lq + (lp - lq) = lp /\ ln > 0
      BY <3>3, <3>5 DEF InStep
    <3> QED BY <3>1, <3>6
  <2>3. Follow("login", Pre(p, Len(q) + j)).at = Pre(n, Len(a) + j)
    <3>1. a = Follow("login", q).at /\ n = Below(a, q, p) BY <1>8
    <3>2. IsStraight(n, a, q, p) BY <1>1, <3>1, StraightDown
    <3> QED BY <2>2, <3>2 DEF IsStraight
  <2>4. Front(p) = Pre(p, Len(p) - 1) /\ Last(p) = p[Len(p)] BY <1>2, FrontFacts
  <2>5. n # <<>> BY <1>10, <2>2, EmptyPath
  <2>6. Front(n) = Pre(n, Len(n) - 1) /\ Last(n) = n[Len(n)] /\ Append(Front(n), Last(n)) = n BY <1>10, <2>5, FrontFacts
  <2>7. n[Len(n)] = p[Len(p)] BY <1>10, <2>2
  <2> QED BY <2>2, <2>3, <2>4, <2>6, <2>7
<1>12. There(n)
  <2>1. Last(p) # Up
    <3>1. Last(p) = p[Len(p)] /\ Len(p) \in Len(q) + 1..Len(p) BY <1>2, FrontFacts
    <3> QED BY <3>1 DEF Downward
  <2> QED BY <1>1, <1>2, <1>11, <2>1, EntryFacts
<1>13. n # <<>> BY <1>10, EmptyPath
<1>14. n \in Node BY <1>10, <1>12, <1>13, ThereFacts
<1>15. n \in Under("root", q) BY <1>4, <1>8, <1>10, <1>12, <1>14 DEF Under, May
<1>16. Renamed("root", q, n) = p
  <2>1. Len(a) \in 0..Len(n) BY <1>10
  <2>2. PICK t : t = Rest(n, Len(a)) OBVIOUS
  <2>3. t \in Path /\ Len(t) = Len(n) - Len(a) /\ \A j \in 1..Len(n) - Len(a) : t[j] = n[Len(a) + j]
    BY <1>10, <2>1, <2>2, RestFacts
  <2>4. PICK c : c = q \o t OBVIOUS
  <2>5. /\ c \in Path /\ Len(c) = Len(q) + Len(t)
        /\ \A i \in 1..Len(q) : c[i] = q[i]
        /\ \A i \in 1..Len(t) : c[Len(q) + i] = t[i]
    BY <2>3, <2>4, ConcatFacts
  <2>6. Len(t) = Len(p) - Len(q) /\ Len(c) = Len(p) BY <1>2, <1>10, <2>3, <2>5
  <2>7. \A i \in 1..Len(q) : q[i] = p[i] BY <1>2, PrefixFacts DEF IsStrictPrefix
  <2>8. ASSUME NEW i \in 1..Len(p) PROVE c[i] = p[i]
    <3>1. CASE i <= Len(q) BY <1>10, <2>5, <2>7, <3>1
    <3>2. CASE i > Len(q)
      <4>1. PICK j : j = i - Len(q) OBVIOUS
      <4>2. j \in 1..Len(p) - Len(q) /\ Len(q) + j = i BY <1>2, <1>10, <3>2, <4>1
      <4>3. c[Len(q) + j] = t[j] BY <2>5, <2>6, <4>2
      <4>4. t[j] = n[Len(a) + j]
        <5>1. j \in 1..Len(n) - Len(a) BY <2>3, <2>6, <4>2
        <5> QED BY <2>3, <5>1
      <4> QED BY <1>10, <4>2, <4>3, <4>4
    <3> QED BY <1>2, <1>10, <3>1, <3>2
  <2>9. c = p BY <2>5, <2>6, <2>8, PathEqual
  <2> QED BY <1>4, <1>8, <2>2, <2>4, <2>9 DEF Renamed, Rest
<1> QED BY <1>6, <1>7, <1>15, <1>16 DEF OsWalk

\* What leads to what is there is a directory.
LEMMA InnerFacts ==
  ASSUME NEW n \in Path, There(n), NEW i \in 1..Len(n) - 1
  PROVE  There(Pre(n, i)) /\ Pre(n, i) \in Node /\ Pre(n, i) # <<>> /\ Kind[Pre(n, i)] = "dir"
<1>1. Len(n) \in Nat /\ i \in 0..Len(n) /\ i \in 1..Len(n) /\ i + 1 \in 1..Len(n) /\ i \in 0..Len(n) - 1 BY PathLen
<1>2. \A j \in 1..Len(n) : Pre(n, j) \in Node \ gone BY AlongFacts DEF There
<1>3. PICK q : q = Pre(n, i) OBVIOUS
<1>4. q \in Path /\ Len(q) = i BY <1>1, <1>3, PreFacts
<1>5. There(q)
  <2>1. \A j \in 1..i : Pre(q, j) = Pre(n, j) /\ j \in 1..Len(n)
    <3> TAKE j \in 1..i
    <3>1. j \in 0..i /\ j \in 1..Len(n) BY <1>1
    <3> QED BY <1>1, <1>3, <3>1, PrePre
  <2>2. Along(q) = {Pre(q, j) : j \in 1..i} BY <1>4, AlongFacts
  <2> QED BY <1>2, <2>1, <2>2 DEF There
<1>6. q # <<>> BY <1>4, EmptyPath
<1>7. q \in Node BY <1>1, <1>2, <1>3
<1>8. Pre(n, i + 1) \in Node /\ Front(Pre(n, i + 1)) = q BY <1>1, <1>2, <1>3, PreNext
<1>9. Kind[q] = "dir" BY <1>6, <1>8, NodeFacts
<1> QED BY <1>3, <1>5, <1>6, <1>7, <1>9

\* The path of what is below a directory goes down from there.
LEMMA RenamedDown ==
  ASSUME NEW user, NEW q \in Path, NEW n \in Under(user, q),
         NEW a, a = Follow(user, q).at
  PROVE  /\ IsBelow(Renamed(user, q, n), q, a, n) /\ Downward(Renamed(user, q, n), Len(q))
         /\ a \in Path /\ n \in Path /\ n \in Node /\ There(n) /\ IsStrictPrefix(a, n)
<1> PICK c : c = Renamed(user, q, n) OBVIOUS
<1>1. n \in Node /\ n \in Path /\ a \in Path /\ There(n) /\ IsStrictPrefix(a, n) BY RenamedFacts DEF Under
<1>2. c = Below(q, a, n) BY RenamedFacts DEF Below
<1>3. IsBelow(c, q, a, n) BY <1>1, <1>2, BelowFacts
<1>4. Downward(c, Len(q))
  <2> SUFFICES ASSUME NEW i \in Len(q) + 1..Len(c) PROVE c[i] # Up BY DEF Downward
  <2>1. /\ Len(c) = Len(q) + Len(n) - Len(a) /\ Len(q) \in Nat /\ Len(a) \in Nat /\ Len(n) \in Nat
        /\ \A j \in 1..Len(n) - Len(a) : c[Len(q) + j] = n[Len(a) + j]
    BY <1>3 DEF IsBelow
  <2>2. PICK j : j = i - Len(q) OBVIOUS
  <2>3. j \in 1..Len(n) - Len(a) /\ i = Len(q) + j /\ Len(a) + j \in 1..Len(n)
    <3>1. PICK lq, la, ln : lq = Len(q) /\ la = Len(a) /\ ln = Len(n) OBVIOUS
    <3>2. i \in lq + 1..lq + ln - la /\ lq \in Nat /\ la \in Nat /\ ln \in Nat BY <2>1, <3>1
    <3>3. j \in 1..ln - la /\ i = lq + j /\ la + j \in 1..ln BY <2>2, <3>1, <3>2
    <3> QED BY <3>1, <3>3
  <2>4. c[i] = n[Len(a) + j] BY <2>1, <2>3
  <2>5. n[Len(a) + j] \in ToSet(n)
    <3>1. DOMAIN n = 1..Len(n) BY <1>1, PathLen
    <3> QED BY <2>3, <3>1 DEF ToSet
  <2> QED BY <1>1, <2>4, <2>5, NodeFacts
<1> QED BY <1>1, <1>3, <1>4

\* One name on for the superuser,
LEMMA RootWalk ==
  ASSUME NEW r \in Finding, r.ok, NEW name, name # Up,
         There(Append(r.at, name)), Kind[Append(r.at, name)] = "dir"
  PROVE  Walk1("root", TRUE, r, name).ok /\ Walk1("root", TRUE, r, name).at = Append(r.at, name)
<1> PICK child, w : child = Append(r.at, name) /\ w = Walk1("root", TRUE, r, name) OBVIOUS
<1>1. w = [r EXCEPT !.at = child, !.via = @ \cup {child}] BY DEF Walk1, May
<1> QED BY <1>1 DEF Finding

\* and for the login user, who follows no link there.
LEMMA LoginWalk ==
  ASSUME NEW r \in Finding, NEW name, name # Up, NEW child, r.ok => child = Append(r.at, name),
         child # <<>>, Kind[child] = "dir", NEW w, w = Walk1("login", FALSE, r, name)
  PROVE  KindAt(w) # "link"
<1>1. CASE ~r.ok BY <1>1 DEF Walk1, KindAt
<1>2. CASE r.ok /\ (~There(child) \/ ~May("login", child))
  <2>1. w = [r EXCEPT !.ok = FALSE, !.via = @ \cup {child}] BY <1>2 DEF Walk1
  <2>2. w.ok = FALSE BY <2>1 DEF Finding
  <2> QED BY <2>2 DEF KindAt
<1>3. CASE r.ok /\ There(child) /\ May("login", child)
  <2>1. w = [r EXCEPT !.at = child, !.via = @ \cup {child}] BY <1>3 DEF Walk1
  <2>2. w.ok /\ w.at = child BY <1>3, <2>1 DEF Finding
  <2> QED BY <2>2 DEF KindAt
<1> QED BY <1>1, <1>2, <1>3

\* What os.walk() finds as the superuser is below the directory, and no link leads to it.
LEMMA OsWalkOnly ==
  ASSUME NEW q \in Path, NEW c \in OsWalk("root", q)
  PROVE  c \in Path /\ IsStrictPrefix(q, c) /\ Downward(c, Len(q)) /\ LinkFree(c, Len(q))
<1>1. Stat("root", q) = "dir" /\ \E n \in Under("root", q) : c = Renamed("root", q, n) BY DEF OsWalk
<1>2. PICK n \in Under("root", q) : c = Renamed("root", q, n) BY <1>1
<1>3. PICK a : a = Follow("root", q).at OBVIOUS
<1>4. /\ IsBelow(c, q, a, n) /\ Downward(c, Len(q))
      /\ a \in Path /\ n \in Path /\ n \in Node /\ There(n) /\ IsStrictPrefix(a, n)
  BY <1>2, <1>3, RenamedDown
<1>5. Follow("root", q).ok BY <1>1, StatFacts
<1> PICK b, m, lc, ln : b = Len(q) /\ m = Len(a) /\ lc = Len(c) /\ ln = Len(n) OBVIOUS
<1>6. /\ c \in Path /\ lc = b + ln - m /\ b \in Nat /\ m \in Nat /\ ln \in Nat /\ lc \in Nat
      /\ Pre(c, b) = q /\ IsStrictPrefix(q, c)
      /\ \A j \in 1..ln - m : c[b + j] = n[m + j]
  BY <1>4 DEF IsBelow
<1>7. Pre(n, m) = a /\ m \in 0..ln - 1 BY <1>4, StrictPre
<1> DEFINE Right(j) == Follow("root", Pre(c, b + j)).ok /\ Follow("root", Pre(c, b + j)).at = Pre(n, m + j)
           T == {j \in Nat : j < ln - m => Right(j)}
<1>8. 0 \in T
  <2>1. b + 0 = b /\ m + 0 = m BY <1>6
  <2> QED BY <1>3, <1>5, <1>6, <1>7, <2>1
<1> DEFINE Advance(j) ==
             /\ b + (j + 1) = b + j + 1 /\ m + (j + 1) = m + j + 1 /\ b + j \in 0..lc - 1 /\ m + j \in 0..ln - 1
             /\ m + j + 1 \in 1..ln - 1 /\ j < ln - m /\ c[b + j + 1] = n[m + j + 1] /\ c[b + j + 1] # Up
<1>s. ASSUME NEW j \in Nat, j + 1 < ln - m PROVE Advance(j)
  <2> HIDE DEF T, Right
  <2>1. /\ b + (j + 1) = b + j + 1 /\ m + (j + 1) = m + j + 1 /\ b + j \in 0..lc - 1 /\ m + j \in 0..ln - 1
        /\ m + j + 1 \in 1..ln - 1 /\ j < ln - m /\ j + 1 \in 1..ln - m /\ b + j + 1 \in b + 1..lc
    <3>1. /\ lc = b + ln - m /\ b \in Nat /\ m \in Nat /\ ln \in Nat /\ lc \in Nat BY <1>6
    <3> QED BY <1>s, <3>1
  <2>2. c[b + (j + 1)] = n[m + (j + 1)] BY <1>6, <2>1
  <2>3. PICK y \in b + 1..lc : y = b + j + 1 BY <2>1
  <2>4. c[y] # Up BY <1>4, <2>3 DEF Downward
  <2> QED BY <2>1, <2>2, <2>3, <2>4
<1> HIDE DEF Advance
<1>9. ASSUME NEW j \in Nat, j \in T PROVE j + 1 \in T
  <2> SUFFICES ASSUME j + 1 < ln - m PROVE Right(j + 1)
    <3> HIDE DEF Right
    <3> QED OBVIOUS
  <2>1. PICK i, h : i = b + j /\ h = m + j OBVIOUS
  <2>2. /\ b + (j + 1) = i + 1 /\ m + (j + 1) = h + 1 /\ i \in 0..lc - 1 /\ h \in 0..ln - 1
        /\ h + 1 \in 1..ln - 1 /\ j < ln - m /\ c[i + 1] = n[h + 1] /\ c[i + 1] # Up
    <3> HIDE DEF T, Right
    <3>1. Advance(j) BY <1>s
    <3> QED BY <2>1, <3>1 DEF Advance
  <2>3. Right(j) BY <1>9, <2>2
  <2>4. PICK f : f = Follow("root", Pre(c, i)) OBVIOUS
  <2>5. f.ok /\ f.at = Pre(n, h) BY <2>1, <2>3, <2>4
  <2> HIDE DEF T, Right
  <2>6. PICK r, child : r = Pre(c, i + 1) /\ child = Pre(n, h + 1) OBVIOUS
  <2>7. r \in Path /\ r # <<>> /\ Front(r) = Pre(c, i) /\ Last(r) = c[i + 1] /\ Pre(c, i) \in Path
    BY <1>6, <2>2, <2>6, PreNext
  <2>8. child = Append(f.at, c[i + 1])
    <3>1. n \in Path /\ h \in 0..Len(n) - 1 BY <1>4, <2>2
    <3>2. Pre(n, h + 1) = Append(Pre(n, h), n[h + 1]) BY <3>1, PreNext
    <3> QED BY <2>2, <2>5, <2>6, <3>2
  <2>9. There(child) /\ Kind[child] = "dir" BY <1>4, <2>2, <2>6, InnerFacts
  <2>10. f \in Finding BY <2>4, <2>7, FollowRealLemma DEF FollowReal
  <2>11. Follow("root", r) = Walk1("root", TRUE, f, c[i + 1]) BY <2>4, <2>7, FollowLemma DEF FollowByNames
  <2>12. Follow("root", r).ok /\ Follow("root", r).at = child
    <3>1. PICK name : name = c[i + 1] OBVIOUS
    <3>2. /\ name # Up /\ f.ok /\ There(Append(f.at, name)) /\ Kind[Append(f.at, name)] = "dir"
          /\ child = Append(f.at, name)
      BY <2>2, <2>5, <2>8, <2>9, <3>1
    <3>3. Walk1("root", TRUE, f, name).ok /\ Walk1("root", TRUE, f, name).at = child BY <2>10, <3>2, RootWalk
    <3> QED BY <2>11, <3>1, <3>3
  <2> QED BY <2>2, <2>6, <2>12 DEF Right
<1> HIDE DEF T, Right
<1>10. Nat \subseteq T BY <1>8, <1>9, Inductive
<1>11. LinkFree(c, b)
  <2> SUFFICES ASSUME NEW g \in b + 1..lc - 1 PROVE Lstat("login", Pre(c, g)) # "link" BY DEF LinkFree
  <2>1. PICK j, i, h : j = g - 1 - b /\ i = b + j /\ h = m + j OBVIOUS
  <2>2. j \in Nat /\ j + 1 < ln - m /\ g = i + 1 BY <1>6, <2>1
  <2>3. /\ i \in 0..lc - 1 /\ h \in 0..ln - 1 /\ h + 1 \in 1..ln - 1 /\ j < ln - m
        /\ c[i + 1] = n[h + 1] /\ c[i + 1] # Up
    <3>1. Advance(j) BY <1>s, <2>2
    <3> QED BY <2>1, <3>1 DEF Advance
  <2>4. Right(j) BY <1>10, <2>2, <2>3 DEF T
  <2>5. PICK f, child : f = Follow("login", Pre(c, i)) /\ child = Pre(n, h + 1) OBVIOUS
  <2>6. PICK r : r = Pre(c, i + 1) OBVIOUS
  <2>7. r \in Path /\ r # <<>> /\ Front(r) = Pre(c, i) /\ Last(r) = c[i + 1] /\ Pre(c, i) \in Path
    BY <1>6, <2>3, <2>6, PreNext
  <2>8. f.ok => f.at = Pre(n, h)
    <3>1. f.ok => f = Follow("root", Pre(c, i)) BY <2>5, <2>7, RootSeesLemma DEF RootSees
    <3> QED BY <2>1, <2>4, <3>1 DEF Right
  <2>9. f.ok => child = Append(f.at, c[i + 1])
    <3>1. n \in Path /\ h \in 0..Len(n) - 1 BY <1>4, <2>3
    <3>2. Pre(n, h + 1) = Append(Pre(n, h), n[h + 1]) BY <3>1, PreNext
    <3> QED BY <2>3, <2>5, <2>8, <3>2
  <2>10. child # <<>> /\ Kind[child] = "dir" BY <1>4, <2>3, <2>5, InnerFacts
  <2>11. f \in Finding BY <2>5, <2>7, FollowRealLemma DEF FollowReal
  <2>12. PICK w : w = Walk1("login", FALSE, f, c[i + 1]) OBVIOUS
  <2>13. Lstat("login", r) = KindAt(w) BY <2>5, <2>7, <2>12 DEF Lstat
  <2>14. KindAt(w) # "link" BY <2>3, <2>9, <2>10, <2>11, <2>12, LoginWalk
  <2> QED BY <2>2, <2>6, <2>13, <2>14
<1> QED BY <1>4, <1>6, <1>11

-----------------------------------------------------------------------------
(* What the search has where                                               *)

\* Where an SRC begins.
LEMMA SrcTyped ==
  ASSUME srcs \in Requests, NEW i \in 1..Len(srcs)
  PROVE  /\ Base(srcs[i]) \in Path /\ srcs[i].path \in Path /\ srcs[i].tail \in Seq(SUBSET ToSet(Names))
         /\ Len(srcs) \in Nat /\ DOMAIN srcs = 1..Len(srcs)
<1> DEFINE SRC == [from : {"root", "relative", "tilde"}, path : Path, tail : Seq(SUBSET ToSet(Names))]
<1>1. srcs \in Seq(SRC) BY GatherAssumption
<1>2. srcs[i] \in SRC /\ Len(srcs) \in Nat /\ DOMAIN srcs = 1..Len(srcs) BY <1>1, ElementOfSeq, LenProperties
<1>3. srcs[i].path \in Path /\ srcs[i].tail \in Seq(SUBSET ToSet(Names)) BY <1>2
<1>4. Home \in Path /\ <<>> \in Path BY GatherAssumption, EmptyPath
<1>5. Base(srcs[i]) \in Path
  <2>1. PICK p \in Path, q \in Path : p = (IF srcs[i].from = "root" THEN <<>> ELSE Home) /\ q = srcs[i].path BY <1>3, <1>4
  <2>2. Base(srcs[i]) = p \o q BY <2>1 DEF Base
  <2> QED BY <2>2, ConcatFacts
<1> QED BY <1>2, <1>3, <1>5

\* The labels of the search, and of parts of it.
Seeking == { "source", "srcDir", "srcNotFile", "srcFile", "rootExists", "rootDir", "list",
  "childFile", "childLink", "walk", "walkDir", "walkLink", "walkFile", "walkAgain", "sudoDir",
  "sudoRoot", "sudoWalk" }

SudoLabels == {"sudoDir", "sudoRoot", "sudoWalk"}

ChildLabels == {"childFile", "childLink"}

DirLabels == {"walkDir", "walkLink", "walkFile", "walkAgain"}

\* The types of its variables.
SearchTyped ==
  /\ mode \in {"sftp", "pack", "sudo"} /\ srcs \in Requests /\ k \in 0..Len(srcs)
  /\ rx \in {"none", "exact", "tail"}
  /\ stack \in Seq(Path) /\ dir \in Path /\ names \in Seq(Path)
  /\ candidates \subseteq Path /\ IsFiniteSet(candidates)

\* The paths of a list are below the root of the search; they are one name; they match.
BelowRoot(list) == \A i \in 1..Len(list) : IsPrefix(Root, list[i])

OneName(list) == \A i \in 1..Len(list) : Len(list[i]) = 1

AllMatch(list) == \A i \in 1..Len(list) : Matches(list[i])

\* How it goes on is what the SRC calls for.
RxFits ==
  /\ rx = "none" /\ k > 0 => Literal(srcs[k])
  /\ rx = "tail" => k > 0 /\ ~Literal(srcs[k])
  /\ rx = "exact" => k > 0 /\ Literal(srcs[k]) /\ Src # <<>>

\* Where the search is, and what its lists hold then.
ShapeAt(l) ==
  /\ l \in Seeking \ {"source"} => k > 0 /\ ~Rejected(srcs[k])
  /\ RxFits
  /\ l \in {"srcDir", "srcNotFile", "srcFile", "sudoDir", "walkAgain"} => rx = "none"
  /\ l \in {"rootExists", "rootDir", "list", "childFile", "childLink", "walkLink", "sudoRoot"} => rx # "none"
  /\ l \in {"childLink", "walkLink"} => Packs
  /\ l \in {"list", "childFile", "childLink"} => Shallow
  /\ l \in ChildLabels => dir = Root /\ AllMatch(names)
  /\ l \in DirLabels \cup {"walk"} => BelowRoot(stack)
  /\ l \in DirLabels => IsPrefix(Root, dir)
  /\ l \in {"childLink", "walkLink", "walkFile", "walkAgain"} => names # <<>>
  /\ OneName(names)
  /\ l \in SudoLabels => mode = "sudo"
  /\ l \in Seeking \ (SudoLabels \cup {"source"}) => mode # "sudo"

Shape == ShapeAt(pc)

\* Nothing of the request changes.
SameRequest ==
  UNCHANGED <<mode, srcs, k, rx>> =>
    /\ Src' = Src /\ Root' = Root /\ (Shallow' <=> Shallow) /\ (RxFits' <=> RxFits) /\ (Packs' <=> Packs)
    /\ \A p : (Matches(p)' <=> Matches(p)) /\ RelTo(p)' = RelTo(p)

\* So it looks for the same things.
LEMMA RequestStays == SameRequest
<1> SUFFICES ASSUME UNCHANGED <<mode, srcs, k, rx>>
             PROVE  /\ Src' = Src /\ Root' = Root /\ (Shallow' <=> Shallow) /\ (RxFits' <=> RxFits) /\ (Packs' <=> Packs)
                    /\ \A p : (Matches(p)' <=> Matches(p)) /\ RelTo(p)' = RelTo(p)
  BY DEF SameRequest
<1>1. Src' = Src BY DEF Src, Base
<1>2. Root' = Root BY <1>1 DEF Root
<1>3. Shallow' <=> Shallow BY DEF Shallow
<1>4. RxFits' <=> RxFits BY <1>1 DEF RxFits, Literal
<1>5. \A p : (Matches(p)' <=> Matches(p)) /\ RelTo(p)' = RelTo(p) BY <1>1, <1>2 DEF Matches, Found, RelTo
<1>6. Packs' <=> Packs BY DEF Packs
<1> QED BY <1>1, <1>2, <1>3, <1>4, <1>5, <1>6

\* The root of the search is a path, and so is the SRC.
LEMMA RootTyped ==
  ASSUME SearchTyped, RxFits, k > 0
  PROVE  /\ k \in 1..Len(srcs) /\ Src \in Path /\ Root \in Path
         /\ rx # "exact" => Root = Src
         /\ rx = "exact" => Src # <<>> /\ Root = Front(Src) /\ Root = Pre(Src, Len(Src) - 1)
<1>1. k \in 1..Len(srcs) BY SrcTyped DEF SearchTyped
<1>2. Src \in Path BY <1>1, SrcTyped DEF SearchTyped, Src
<1>3. rx = "exact" => Src # <<>> BY DEF RxFits
<1>4. Root \in Path BY <1>2, <1>3, FrontFacts DEF Root
<1>5. rx = "exact" => Root = Pre(Src, Len(Src) - 1) BY <1>2, <1>3, FrontFacts DEF Root
<1> QED BY <1>1, <1>2, <1>3, <1>4, <1>5 DEF Root

\* The name looked at is in the directory listed.
LEMMA HereTyped ==
  ASSUME SearchTyped, names # <<>>, OneName(names)
  PROVE  /\ Head(names) = names[1] /\ Head(names) \in Path /\ Here \in Path
         /\ Len(Here) = Len(dir) + 1 /\ Front(Here) = dir /\ IsPrefix(dir, Here)
         /\ Tail(names) \in Seq(Path) /\ OneName(Tail(names))
         /\ Len(names) \in Nat \ {0} /\ Len(Tail(names)) = Len(names) - 1
         /\ \A i \in 1..Len(Tail(names)) : Tail(names)[i] = names[i + 1] /\ i + 1 \in 1..Len(names)
         /\ \A q \in Path : IsPrefix(q, dir) => IsPrefix(q, Here)
<1> PICK n : n = Head(names) OBVIOUS
<1>1. names \in Seq(Path) /\ dir \in Path BY DEF SearchTyped
<1>2. /\ Len(names) \in Nat \ {0} /\ Head(names) = names[1] /\ Head(names) \in Path
      /\ Tail(names) \in Seq(Path) /\ Len(Tail(names)) = Len(names) - 1
      /\ \A i \in 1..Len(Tail(names)) : Tail(names)[i] = names[i + 1] /\ i + 1 \in 1..Len(names)
  BY <1>1, HeadRest
<1>3. n = names[1] /\ n \in Path /\ Here = dir \o n BY <1>2 DEF Here
<1>4. Len(n) = 1 BY <1>2, <1>3 DEF OneName
<1>5. OneName(Tail(names)) BY <1>2 DEF OneName
<1>6. /\ Here \in Path /\ Len(Here) = Len(dir) + 1 /\ Len(dir) \in Nat
      /\ \A i \in 1..Len(dir) : Here[i] = dir[i]
  <2>1. /\ dir \o n \in Path /\ Len(dir \o n) = Len(dir) + Len(n)
        /\ \A i \in 1..Len(dir) : (dir \o n)[i] = dir[i]
    BY <1>1, <1>3, ConcatFacts
  <2> QED BY <1>1, <1>3, <1>4, <2>1, PathLen
<1>7. IsPrefix(dir, Here) BY <1>1, <1>6, PrefixFacts
<1>8. Here # <<>> BY <1>6, EmptyPath
<1>9. Front(Here) = dir
  <2>1. Front(Here) = Pre(Here, Len(dir)) BY <1>6, <1>8, FrontFacts
  <2>2. Pre(Here, Len(dir)) = dir BY <1>1, <1>6, <1>7, PrefixFacts
  <2> QED BY <2>1, <2>2
<1>10. ASSUME NEW q \in Path, IsPrefix(q, dir) PROVE IsPrefix(q, Here)
  <2>1. Len(q) \in Nat /\ Len(q) <= Len(dir) /\ \A j \in 1..Len(q) : q[j] = dir[j] BY <1>1, <1>10, PrefixFacts, PathLen
  <2>2. \A j \in 1..Len(q) : j \in 1..Len(dir) BY <1>6, <2>1
  <2>3. Len(q) <= Len(Here) /\ \A j \in 1..Len(q) : q[j] = Here[j] BY <1>6, <2>1, <2>2
  <2> QED BY <1>6, <2>3, PrefixFacts
<1> QED BY <1>2, <1>3, <1>5, <1>6, <1>7, <1>9, <1>10

-----------------------------------------------------------------------------
(* A step of the search                                                    *)

\* The shape depends on nothing else.
LEMMA ShapeStays ==
  ASSUME UNCHANGED <<mode, srcs, k, rx, stack, dir, names>>, NEW l
  PROVE  ShapeAt(l)' <=> ShapeAt(l)
<1>1. /\ Src' = Src /\ Root' = Root /\ (Shallow' <=> Shallow) /\ (RxFits' <=> RxFits) /\ (Packs' <=> Packs)
      /\ \A p : (Matches(p)' <=> Matches(p)) /\ RelTo(p)' = RelTo(p)
  BY RequestStays DEF SameRequest
<1>2. /\ BelowRoot(stack)' <=> BelowRoot(stack)
      /\ OneName(names)' <=> OneName(names)
      /\ AllMatch(names)' <=> AllMatch(names)
  BY <1>1 DEF BelowRoot, OneName, AllMatch
<1>3. k > 0 => (Rejected(srcs[k])' <=> Rejected(srcs[k])) BY DEF Rejected
<1>4. IsPrefix(Root, dir)' <=> IsPrefix(Root, dir) BY <1>1
<1>5. (l \in Seeking \ {"source"} => k > 0 /\ ~Rejected(srcs[k]))' <=> (l \in Seeking \ {"source"} => k > 0 /\ ~Rejected(srcs[k]))
  BY DEF Rejected, Seeking
<1> QED BY <1>1, <1>2, <1>4, <1>5 DEF ShapeAt, Seeking, SudoLabels, ChildLabels, DirLabels

\* The invariant of the search.
Search == SearchTyped /\ Shape

\* The search goes on at another label.
LEMMA GotoSearch ==
  ASSUME SearchTyped, UNCHANGED <<mode, srcs, k, rx, stack, dir, names, candidates>>, ShapeAt(pc')
  PROVE  Search'
<1>1. PICK l : l = pc' OBVIOUS
<1>2. ShapeAt(l)' BY <1>1, ShapeStays
<1>3. Shape' BY <1>1, <1>2 DEF Shape
<1>4. SearchTyped' BY DEF SearchTyped
<1> QED BY <1>3, <1>4 DEF Search

\* It goes on with the next name, which may be a candidate or a directory to walk.
LEMMA NextName ==
  ASSUME Search, names # <<>>, UNCHANGED <<mode, srcs, k, rx, dir>>, names' = Tail(names),
         \/ pc \in DirLabels /\ pc' = "walkDir"
         \/ pc \in ChildLabels /\ pc' = "childFile",
         stack' = stack \/ (pc = "walkDir" /\ stack' = Append(stack, Here)),
         candidates' \in {candidates, candidates \cup {Here}}
  PROVE  Search'
<1>0. SearchTyped /\ Shape /\ RxFits /\ OneName(names) /\ k > 0
  BY DEF Search, Shape, ShapeAt, Seeking, DirLabels, ChildLabels
<1>1. /\ Here \in Path /\ Tail(names) \in Seq(Path) /\ OneName(Tail(names))
      /\ Len(names) \in Nat \ {0}
      /\ \A i \in 1..Len(Tail(names)) : Tail(names)[i] = names[i + 1] /\ i + 1 \in 1..Len(names)
      /\ \A q \in Path : IsPrefix(q, dir) => IsPrefix(q, Here)
  BY <1>0, HereTyped
<1>2. /\ Src' = Src /\ Root' = Root /\ (Shallow' <=> Shallow) /\ (RxFits' <=> RxFits) /\ (Packs' <=> Packs)
      /\ \A p : (Matches(p)' <=> Matches(p)) /\ RelTo(p)' = RelTo(p)
  BY RequestStays DEF SameRequest
<1>3. Root \in Path BY <1>0, RootTyped
<1>4. OneName(names)' BY <1>1 DEF OneName
<1>5. AllMatch(names) => AllMatch(names)' BY <1>1, <1>2 DEF AllMatch
<1>6. BelowRoot(stack) /\ stack' = stack => BelowRoot(stack)' BY <1>2 DEF BelowRoot
<1>7. BelowRoot(stack) /\ IsPrefix(Root, dir) /\ stack' = Append(stack, Here) => BelowRoot(stack)'
  <2> SUFFICES ASSUME BelowRoot(stack), IsPrefix(Root, dir), stack' = Append(stack, Here),
                      NEW i \in 1..Len(stack')
               PROVE  IsPrefix(Root, stack'[i])
    BY <1>2 DEF BelowRoot
  <2>1. stack \in Seq(Path) /\ Len(stack) \in Nat BY <1>0, LenProperties DEF SearchTyped
  <2> PICK h \in Path : h = Here BY <1>1
  <2>2. /\ Len(stack') = Len(stack) + 1 /\ stack'[Len(stack) + 1] = h
        /\ \A j \in 1..Len(stack) : stack'[j] = stack[j]
    BY <2>1, AppendProperties
  <2>3. CASE i = Len(stack) + 1 BY <1>1, <1>3, <2>2, <2>3
  <2>4. CASE i # Len(stack) + 1
    <3>1. i \in 1..Len(stack) BY <2>1, <2>2, <2>4
    <3> QED BY <2>2, <3>1 DEF BelowRoot
  <2> QED BY <2>3, <2>4
<1>8. Rejected(srcs[k])' <=> Rejected(srcs[k]) BY DEF Rejected
<1>9. Shape'
  <2>1. CASE pc \in DirLabels
    <3>1. BelowRoot(stack) /\ IsPrefix(Root, dir) /\ mode # "sudo" /\ ~Rejected(srcs[k])
      BY <1>0, <2>1 DEF Shape, ShapeAt, DirLabels, Seeking, SudoLabels
    <3>2. BelowRoot(stack)' /\ IsPrefix(Root', dir') BY <1>2, <1>6, <1>7, <3>1
    <3>3. pc' = "walkDir" BY <2>1 DEF DirLabels, ChildLabels
    <3> QED BY <1>0, <1>2, <1>4, <1>8, <3>1, <3>2, <3>3 DEF Shape, ShapeAt, DirLabels, ChildLabels, Seeking, SudoLabels
  <2>2. CASE pc \in ChildLabels
    <3>1. dir = Root /\ AllMatch(names) /\ Shallow /\ mode # "sudo" /\ ~Rejected(srcs[k]) /\ rx # "none"
      BY <1>0, <2>2 DEF Shape, ShapeAt, ChildLabels, Seeking, SudoLabels
    <3>2. dir' = Root' /\ AllMatch(names)' BY <1>2, <1>5, <3>1
    <3>3. pc' = "childFile" BY <2>2 DEF DirLabels, ChildLabels
    <3> QED BY <1>0, <1>2, <1>4, <1>8, <3>1, <3>2, <3>3 DEF Shape, ShapeAt, DirLabels, ChildLabels, Seeking, SudoLabels
  <2> QED BY <2>1, <2>2
<1>10. SearchTyped'
  <2>1. stack' \in Seq(Path)
    <3>1. stack \in Seq(Path) BY <1>0 DEF SearchTyped
    <3>2. Append(stack, Here) \in Seq(Path) BY <1>1, <3>1, AppendProperties
    <3> QED BY <3>1, <3>2
  <2>2. candidates' \subseteq Path /\ IsFiniteSet(candidates')
    <3>1. candidates \subseteq Path /\ IsFiniteSet(candidates) BY <1>0 DEF SearchTyped
    <3>2. IsFiniteSet(candidates \cup {Here}) BY <3>1, FS_AddElement
    <3> QED BY <1>1, <3>1, <3>2
  <2> QED BY <1>0, <1>1, <2>1, <2>2 DEF SearchTyped
<1> QED BY <1>9, <1>10 DEF Search

\* A walk begins at its root.
LEMMA BeginWalk ==
  ASSUME Search, StartWalk, UNCHANGED <<mode, srcs, k>>, pc \in Seeking \ (SudoLabels \cup {"source"})
  PROVE  Search'
<1>0. SearchTyped /\ Shape /\ RxFits /\ OneName(names) /\ k > 0 /\ mode # "sudo" /\ ~Rejected(srcs[k])
  BY DEF Search, Shape, ShapeAt
<1>1. pc' = "walk" /\ stack' = <<Root>> /\ UNCHANGED <<rx, dir, names, candidates>> BY DEF StartWalk
<1>2. Src' = Src /\ Root' = Root /\ (RxFits' <=> RxFits) BY <1>1, RequestStays DEF SameRequest
<1>3. Root \in Path BY <1>0, RootTyped
<1>4. stack' \in Seq(Path) /\ Len(stack') = 1 /\ stack'[1] = Root
  <2> PICK r \in Path : r = Root BY <1>3
  <2>1. Len(<<r>>) = 1 /\ <<r>>[1] = r /\ <<r>> \in Seq(Path) OBVIOUS
  <2> QED BY <1>1, <2>1
<1>5. IsPrefix(Root, Root) BY <1>3, PrefixFacts, PathLen
<1>6. BelowRoot(stack)'
  <2> SUFFICES ASSUME NEW i \in 1..Len(stack') PROVE IsPrefix(Root', stack'[i]) BY DEF BelowRoot
  <2>1. i = 1 BY <1>4
  <2> QED BY <1>2, <1>4, <1>5, <2>1
<1>7. OneName(names)' BY <1>0, <1>1 DEF OneName
<1>8. Shape' BY <1>0, <1>1, <1>2, <1>6, <1>7 DEF Shape, ShapeAt, Seeking, SudoLabels, DirLabels, ChildLabels, Rejected
<1>9. SearchTyped' BY <1>0, <1>1, <1>4 DEF SearchTyped
<1> QED BY <1>8, <1>9 DEF Search

\* A directory is listed.
LEMMA List ==
  ASSUME Search, UNCHANGED <<mode, srcs, k, rx, candidates>>,
         NEW S, S \subseteq Listing("login", dir'), names' = Sorted(S),
         \/ /\ pc = "list" /\ pc' = "childFile" /\ dir' = Root /\ stack' = stack
            /\ \A name \in S : Matches(name)
         \/ /\ pc = "walk" /\ pc' = "walkDir" /\ stack # <<>> /\ dir' = Last(stack) /\ stack' = Front(stack)
  PROVE  Search'
<1>0. SearchTyped /\ Shape /\ RxFits /\ k > 0 /\ mode # "sudo" /\ ~Rejected(srcs[k])
  BY DEF Search, Shape, ShapeAt, Seeking, SudoLabels
<1>1. S \subseteq Path /\ IsFiniteSet(S) /\ \A name \in S : Len(name) = 1
  <2>1. /\ Listing("login", dir') \subseteq Path /\ IsFiniteSet(Listing("login", dir'))
        /\ \A name \in Listing("login", dir') : Len(name) = 1
    BY ListingFacts
  <2> QED BY <2>1, FS_Subset
<1>2. names' \in Seq(S) BY <1>1, SortedFacts
<1>3. names' \in Seq(Path) /\ \A i \in 1..Len(names') : names'[i] \in S
  BY <1>1, <1>2, SeqMonotonic, ElementOfSeq
<1>4. OneName(names)' BY <1>1, <1>3 DEF OneName
<1>5. Src' = Src /\ Root' = Root /\ (RxFits' <=> RxFits) /\ (Shallow' <=> Shallow) /\ \A p : Matches(p)' <=> Matches(p)
  BY RequestStays DEF SameRequest
<1>6. Root \in Path BY <1>0, RootTyped
<1>7. CASE pc = "list" /\ pc' = "childFile" /\ dir' = Root /\ stack' = stack /\ \A name \in S : Matches(name)
  <2>1. AllMatch(names)' BY <1>3, <1>5, <1>7 DEF AllMatch
  <2>2. Shape' BY <1>0, <1>4, <1>5, <1>7, <2>1
    DEF Shape, ShapeAt, Seeking, SudoLabels, DirLabels, ChildLabels, Rejected
  <2>3. SearchTyped' BY <1>0, <1>3, <1>6, <1>7 DEF SearchTyped
  <2> QED BY <2>2, <2>3 DEF Search
<1>8. CASE pc = "walk" /\ pc' = "walkDir" /\ stack # <<>> /\ dir' = Last(stack) /\ stack' = Front(stack)
  <2>0. stack \in Seq(Path) /\ BelowRoot(stack) BY <1>0, <1>8 DEF SearchTyped, Shape, ShapeAt
  <2>1. /\ Len(stack) \in Nat \ {0} /\ stack' \in Seq(Path) /\ dir' \in Path /\ dir' = stack[Len(stack)]
        /\ \A i \in 1..Len(stack') : stack'[i] = stack[i] /\ i \in 1..Len(stack)
    BY <1>8, <2>0, ListEnds
  <2>2. BelowRoot(stack)' BY <1>5, <2>0, <2>1 DEF BelowRoot
  <2>3. IsPrefix(Root', dir') BY <1>5, <2>0, <2>1 DEF BelowRoot
  <2>4. Shape' BY <1>0, <1>4, <1>5, <1>8, <2>2, <2>3
    DEF Shape, ShapeAt, Seeking, SudoLabels, DirLabels, ChildLabels, Rejected
  <2>5. SearchTyped' BY <1>0, <1>3, <1>8, <2>1 DEF SearchTyped
  <2> QED BY <2>4, <2>5 DEF Search
<1> QED BY <1>7, <1>8

-----------------------------------------------------------------------------
(* The search, action by action                                            *)

\* It is kept when the next SRC is begun,
LEMMA SearchSource ==
  ASSUME Search, NextSource
  PROVE  Search'
<1>0. SearchTyped /\ Shape /\ OneName(names) BY DEF Search, Shape, ShapeAt
<1>1. /\ UNCHANGED <<mode, srcs, stack, dir, names, candidates>>
      /\ OneName(names)'
  BY <1>0 DEF NextSource, OneName
<1>2. CASE k = Len(srcs)
  <2>1. pc' = "exists" /\ UNCHANGED <<k, rx>> BY <1>2 DEF NextSource
  <2>2. RxFits' <=> RxFits BY <1>1, <2>1, RequestStays DEF SameRequest
  <2>3. Shape' BY <1>0, <1>1, <2>1, <2>2 DEF Shape, ShapeAt, Seeking, SudoLabels, DirLabels, ChildLabels
  <2> QED BY <1>0, <1>1, <2>1, <2>3 DEF Search, SearchTyped
<1>3. CASE k # Len(srcs)
  <2>0. Len(srcs) \in Nat /\ k \in 0..Len(srcs) BY <1>0, GatherAssumption, LenProperties DEF SearchTyped
  <2>1. /\ k' = k + 1 /\ k' \in 0..Len(srcs') /\ k' > 0
        /\ rx' = IF Literal(srcs[k + 1]) THEN "none" ELSE "tail"
    BY <1>1, <1>3, <2>0 DEF NextSource
  <2>2. RxFits'
    <3>1. Literal(srcs[k])' <=> Literal(srcs[k + 1]) BY <1>1, <2>1 DEF Literal
    <3> QED BY <2>1, <3>1 DEF RxFits
  <2>3. Rejected(srcs[k])' <=> Rejected(srcs[k + 1]) BY <1>1, <2>1 DEF Rejected
  <2>4. /\ Rejected(srcs[k + 1]) => pc' = "source"
        /\ ~Rejected(srcs[k + 1]) /\ mode = "sudo" => pc' = IF Literal(srcs[k + 1]) THEN "sudoDir" ELSE "sudoRoot"
        /\ ~Rejected(srcs[k + 1]) /\ mode # "sudo" => pc' = IF Literal(srcs[k + 1]) THEN "srcDir" ELSE "rootExists"
    BY <1>3 DEF NextSource
  <2>5. Shape'
    <3>1. CASE pc' = "source"
      BY <1>1, <2>2, <3>1 DEF Shape, ShapeAt, Seeking, SudoLabels, DirLabels, ChildLabels
    <3>2. CASE ~Rejected(srcs[k + 1]) /\ pc' \in {"sudoDir", "srcDir", "rootExists", "sudoRoot"}
      <4>1. /\ pc' \in {"sudoDir", "sudoRoot"} => mode = "sudo"
            /\ pc' \in {"srcDir", "rootExists"} => mode # "sudo"
            /\ pc' \in {"sudoDir", "srcDir"} => rx' = "none"
            /\ pc' \in {"sudoRoot", "rootExists"} => rx' # "none"
        BY <2>1, <2>4, <3>2
      <4> QED BY <1>1, <2>1, <2>2, <2>3, <3>2, <4>1
        DEF Shape, ShapeAt, Seeking, SudoLabels, DirLabels, ChildLabels
    <3> QED BY <2>4, <3>1, <3>2
  <2>6. SearchTyped' BY <1>0, <1>1, <2>1 DEF SearchTyped
  <2> QED BY <2>5, <2>6 DEF Search
<1> QED BY <1>2, <1>3

\* by what is asked about the SRC itself,
LEMMA SearchSrc ==
  ASSUME Search, SrcDir \/ SrcNotFile \/ SrcFile \/ RootExists \/ RootDir
  PROVE  Search'
<1>0. /\ SearchTyped /\ Shape /\ k > 0 /\ RxFits /\ OneName(names) /\ mode # "sudo"
      /\ pc \in {"srcDir", "srcNotFile", "srcFile", "rootExists", "rootDir"}
      /\ UNCHANGED <<mode, srcs, k>> /\ ~Rejected(srcs[k])
  BY DEF Search, Shape, ShapeAt, Unplanned, SrcDir, SrcNotFile, SrcFile, RootExists, RootDir, Seeking, SudoLabels
<1>1. ASSUME NEW l, Goto(l), ShapeAt(l) PROVE Search'
  BY <1>0, <1>1, GotoSearch DEF Goto, walkVars
<1>2. ASSUME StartWalk PROVE Search'
  BY <1>0, <1>2, BeginWalk DEF Seeking, SudoLabels
<1>3. CASE SrcDir \/ SrcNotFile
  <2>1. Goto("srcNotFile") \/ Goto("srcFile") \/ StartWalk BY <1>3 DEF SrcDir, SrcNotFile, Asks
  <2>2. pc \in {"srcDir", "srcNotFile"} BY <1>3 DEF SrcDir, SrcNotFile
  <2>3. ShapeAt("srcNotFile") /\ ShapeAt("srcFile")
    BY <1>0, <2>2 DEF Shape, ShapeAt, Seeking, SudoLabels, DirLabels, ChildLabels
  <2> QED BY <1>1, <1>2, <2>1, <2>3
<1>4. CASE SrcFile
  <2>1. pc = "srcFile" /\ rx = "none" /\ (TakeSrc \/ SplitLiteral)
    BY <1>0, <1>4 DEF SrcFile, Asks, Shape, ShapeAt
  <2>2. Src \in Path BY <1>0, RootTyped
  <2>3. OneName(names) /\ UNCHANGED names => OneName(names)' BY DEF OneName
  <2>4. UNCHANGED rx => (RxFits' <=> RxFits) BY <1>0, RequestStays DEF SameRequest
  <2>5. CASE pc' = "source" /\ UNCHANGED walkVars /\ candidates' \in {candidates, candidates \cup {Src}}
    <3>1. candidates' \subseteq Path /\ IsFiniteSet(candidates') BY <1>0, <2>2, <2>5, FS_AddElement DEF SearchTyped
    <3>2. Shape' BY <1>0, <2>3, <2>4, <2>5 DEF Shape, ShapeAt, walkVars, Seeking, SudoLabels, DirLabels, ChildLabels
    <3>3. SearchTyped' BY <1>0, <2>5, <3>1 DEF SearchTyped, walkVars
    <3> QED BY <3>2, <3>3 DEF Search
  <2>6. CASE SplitLiteral /\ Src # <<>>
    <3>1. pc' = "rootExists" /\ rx' = "exact" /\ UNCHANGED <<stack, dir, names, candidates>> BY <2>6 DEF SplitLiteral
    <3>2. Src' = Src BY <1>0 DEF Src, Base
    <3>3. RxFits' BY <1>0, <2>1, <2>6, <3>1, <3>2 DEF RxFits, Literal
    <3>4. Shape' BY <1>0, <2>3, <3>1, <3>3 DEF Shape, ShapeAt, Rejected, Seeking, SudoLabels, DirLabels, ChildLabels
    <3>5. SearchTyped' BY <1>0, <3>1 DEF SearchTyped
    <3> QED BY <3>4, <3>5 DEF Search
  <2>7. SplitLiteral /\ Src = <<>> => pc' = "source" /\ UNCHANGED walkVars /\ candidates' = candidates
    BY DEF SplitLiteral, walkVars
  <2> QED BY <2>1, <2>5, <2>6, <2>7 DEF TakeSrc
<1>5. CASE RootExists \/ RootDir
  <2>1. /\ pc \in {"rootExists", "rootDir"}
        /\ Goto("rootDir") \/ Goto("source") \/ StartWalk \/ (Shallow /\ Goto("list"))
    BY <1>5 DEF RootExists, RootDir, Asks
  <2>2. ShapeAt("rootDir") /\ ShapeAt("source") /\ (Shallow => ShapeAt("list"))
    BY <1>0, <2>1 DEF Shape, ShapeAt, Seeking, SudoLabels, DirLabels, ChildLabels
  <2> QED BY <1>1, <1>2, <2>1, <2>2
<1> QED BY <1>3, <1>4, <1>5

\* when a directory is listed,
LEMMA SearchList ==
  ASSUME Search, ListRoot \/ WalkList
  PROVE  Search'
<1>0. /\ SearchTyped /\ Shape /\ k > 0 /\ RxFits /\ OneName(names) /\ mode # "sudo"
      /\ pc \in {"list", "walk"}
      /\ UNCHANGED <<mode, srcs, k>> /\ ~Rejected(srcs[k])
  BY DEF Search, Shape, ShapeAt, Unplanned, ListRoot, WalkList, Seeking, SudoLabels
<1>1. CASE ListRoot
  <2>1. CASE StartWalk BY <1>0, <2>1, BeginWalk DEF Seeking, SudoLabels
  <2>2. CASE ~StartWalk
    <3> DEFINE S == {name \in Listing("login", Root) : Matches(name)}
    <3>1. /\ pc = "list" /\ pc' = "childFile" /\ dir' = Root /\ UNCHANGED <<rx, stack, candidates>>
          /\ names' = Sorted(S)
      BY <1>1, <2>2 DEF ListRoot
    <3>2. S \subseteq Listing("login", dir') /\ \A name \in S : Matches(name) BY <3>1
    <3> HIDE DEF S
    <3> QED BY <1>0, <3>1, <3>2, List
  <2> QED BY <2>1, <2>2
<1>2. CASE WalkList
  <2>1. CASE stack = <<>>
    <3>1. Goto("source") BY <1>2, <2>1 DEF WalkList
    <3>2. ShapeAt("source") BY <1>0 DEF Shape, ShapeAt, Seeking, SudoLabels, DirLabels, ChildLabels
    <3> QED BY <1>0, <3>1, <3>2, GotoSearch DEF Goto, walkVars
  <2>2. CASE stack # <<>>
    <3> PICK S : S = Listing("login", Last(stack)) OBVIOUS
    <3>1. /\ pc = "walk" /\ stack' = Front(stack) /\ dir' = Last(stack) /\ UNCHANGED <<rx, candidates>>
          /\ (pc' = "walkDir" /\ names' = Sorted(S)) \/ UNCHANGED <<pc, names>>
      BY <1>2, <2>2 DEF WalkList
    <3>2. CASE pc' = "walkDir" /\ names' = Sorted(S) BY <1>0, <2>2, <3>1, <3>2, List
    <3>3. CASE UNCHANGED <<pc, names>>
      <4>0. stack \in Seq(Path) /\ BelowRoot(stack) BY <1>0, <3>1 DEF SearchTyped, Shape, ShapeAt
      <4>1. /\ Len(stack) \in Nat \ {0} /\ stack' \in Seq(Path) /\ dir' \in Path
            /\ \A i \in 1..Len(stack') : stack'[i] = stack[i] /\ i \in 1..Len(stack)
        BY <2>2, <3>1, <4>0, ListEnds
      <4>2. Root' = Root /\ (RxFits' <=> RxFits) BY <1>0, <3>1, RequestStays DEF SameRequest
      <4>3. BelowRoot(stack)' BY <4>0, <4>1, <4>2 DEF BelowRoot
      <4>4. OneName(names)' BY <1>0, <3>3 DEF OneName
      <4>5. Shape' BY <1>0, <3>1, <3>3, <4>2, <4>3, <4>4
        DEF Shape, ShapeAt, Rejected, Seeking, SudoLabels, DirLabels, ChildLabels
      <4>6. SearchTyped' BY <1>0, <3>1, <3>3, <4>1 DEF SearchTyped
      <4> QED BY <4>5, <4>6 DEF Search
    <3> QED BY <3>1, <3>2, <3>3
  <2> QED BY <2>1, <2>2
<1> QED BY <1>1, <1>2

\* by what is asked about the names in the root,
LEMMA SearchChild ==
  ASSUME Search, ChildFile \/ ChildLink
  PROVE  Search'
<1>0. SearchTyped /\ Shape /\ pc \in {"childFile", "childLink"} /\ UNCHANGED <<mode, srcs, k>>
  BY DEF Search, Unplanned, ChildFile, ChildLink
<1>1. ASSUME names # <<>>, Take("childFile") \/ Skip("childFile") PROVE Search'
  <2>1. /\ UNCHANGED <<rx, dir, stack>> /\ names' = Tail(names) /\ pc' = "childFile"
        /\ candidates' \in {candidates, candidates \cup {Here}}
    BY <1>1 DEF Take, Skip, Here
  <2>2. pc \in ChildLabels BY <1>0 DEF ChildLabels
  <2>3. UNCHANGED <<mode, srcs, k, rx, dir>> BY <1>0, <2>1
  <2>4. stack' = stack \/ (pc = "walkDir" /\ stack' = Append(stack, Here)) BY <2>1
  <2>5. \/ pc \in DirLabels /\ pc' = "walkDir"
        \/ pc \in ChildLabels /\ pc' = "childFile"
    BY <2>1, <2>2
  <2>6. names' = Tail(names) /\ candidates' \in {candidates, candidates \cup {Here}} BY <2>1
  <2> QED BY <1>1, <2>3, <2>4, <2>5, <2>6, NextName
<1>2. CASE ChildLink
  <2>1. names # <<>> /\ (Take("childFile") \/ Skip("childFile"))
    BY <1>0, <1>2 DEF Shape, ShapeAt, ChildLink, Asks
  <2> QED BY <1>1, <2>1
<1>3. CASE ChildFile
  <2>1. /\ pc = "childFile"
        /\ \/ names = <<>> /\ Goto("source")
           \/ names # <<>> /\ (Take("childFile") \/ Skip("childFile"))
           \/ names # <<>> /\ Packs /\ Goto("childLink")
    BY <1>3 DEF ChildFile, Asks
  <2>2. ShapeAt("source") /\ (names # <<>> /\ Packs => ShapeAt("childLink"))
    BY <1>0, <2>1 DEF Shape, ShapeAt, Seeking, SudoLabels, DirLabels, ChildLabels
  <2>3. ASSUME NEW l, Goto(l), ShapeAt(l) PROVE Search'
    BY <1>0, <2>3, GotoSearch DEF Goto, walkVars
  <2> QED BY <1>1, <2>1, <2>2, <2>3
<1> QED BY <1>2, <1>3

\* by what is asked on a walk,
LEMMA SearchWalk ==
  ASSUME Search, WalkDir \/ WalkLink \/ WalkFile \/ WalkAgain
  PROVE  Search'
<1>0. SearchTyped /\ Shape /\ pc \in DirLabels /\ UNCHANGED <<mode, srcs, k>>
  BY DEF Search, Unplanned, DirLabels, WalkDir, WalkLink, WalkFile, WalkAgain
<1>1. ASSUME names # <<>>, Take("walkDir") \/ Skip("walkDir") \/ (pc = "walkDir" /\ Push) PROVE Search'
  <2>1. /\ UNCHANGED <<rx, dir>> /\ names' = Tail(names) /\ pc' = "walkDir"
        /\ candidates' \in {candidates, candidates \cup {Here}}
        /\ stack' = stack \/ (pc = "walkDir" /\ stack' = Append(stack, Here))
    <3>1. Take("walkDir") => /\ UNCHANGED <<rx, dir, stack>> /\ names' = Tail(names) /\ pc' = "walkDir"
                             /\ candidates' = candidates \cup {Here}
      BY DEF Take, Here
    <3>2. Skip("walkDir") => /\ UNCHANGED <<rx, dir, stack, candidates>> /\ names' = Tail(names) /\ pc' = "walkDir"
      BY DEF Skip
    <3>3. Push => /\ UNCHANGED <<rx, dir, candidates>> /\ names' = Tail(names) /\ pc' = "walkDir"
                  /\ stack' = Append(stack, Here)
      BY DEF Push
    <3> QED BY <1>1, <3>1, <3>2, <3>3
  <2>2. UNCHANGED <<mode, srcs, k, rx, dir>> BY <1>0, <2>1
  <2> QED BY <1>0, <1>1, <2>1, <2>2, NextName
<1>2. ASSUME NEW l, Goto(l), ShapeAt(l) PROVE Search'
  BY <1>0, <1>2, GotoSearch DEF Goto, walkVars
<1>3. ASSUME names # <<>>, Yield PROVE Search'
  <2>1. (rx = "none" /\ Goto("walkAgain")) \/ Take("walkDir") \/ Skip("walkDir") BY <1>3 DEF Yield
  <2>2. rx = "none" => ShapeAt("walkAgain")
    BY <1>0, <1>3 DEF Shape, ShapeAt, Seeking, SudoLabels, DirLabels, ChildLabels
  <2> QED BY <1>1, <1>2, <1>3, <2>1, <2>2
<1>4. CASE WalkDir
  <2>1. /\ pc = "walkDir"
        /\ \/ names = <<>> /\ Goto("walk")
           \/ names # <<>> /\ Push
           \/ names # <<>> /\ Packs /\ rx # "none" /\ Goto("walkLink")
           \/ names # <<>> /\ Goto("walkFile")
    BY <1>4 DEF WalkDir, Asks
  <2>2. /\ ShapeAt("walk") /\ (names # <<>> => ShapeAt("walkFile"))
        /\ names # <<>> /\ Packs /\ rx # "none" => ShapeAt("walkLink")
    BY <1>0, <2>1 DEF Shape, ShapeAt, Seeking, SudoLabels, DirLabels, ChildLabels
  <2> QED BY <1>1, <1>2, <2>1, <2>2
<1>5. CASE WalkLink \/ WalkFile \/ WalkAgain
  <2>1. names # <<>> BY <1>0, <1>5 DEF Shape, ShapeAt, WalkLink, WalkFile, WalkAgain
  <2>2. Yield \/ Goto("walkFile") \/ Skip("walkDir") \/ Take("walkDir")
    BY <1>5 DEF WalkLink, WalkFile, WalkAgain, Asks
  <2>3. ShapeAt("walkFile")
    BY <1>0, <2>1 DEF Shape, ShapeAt, Seeking, SudoLabels, DirLabels, ChildLabels
  <2> QED BY <1>1, <1>2, <1>3, <2>1, <2>2, <2>3
<1> QED BY <1>4, <1>5

\* and by the remote commands.
LEMMA SearchSudo ==
  ASSUME Search, SudoDir \/ SudoRoot \/ SudoWalk
  PROVE  Search'
<1>0. /\ SearchTyped /\ Shape /\ pc \in SudoLabels /\ UNCHANGED <<mode, srcs, k>>
      /\ k > 0 /\ RxFits /\ OneName(names) /\ ~Rejected(srcs[k]) /\ mode = "sudo"
  BY DEF Search, Shape, ShapeAt, Seeking, Unplanned, SudoLabels, SudoDir, SudoRoot, SudoWalk
<1>1. ShapeAt("sudoWalk") /\ ShapeAt("source") /\ ShapeAt("raised")
  BY <1>0 DEF Shape, ShapeAt, Seeking, SudoLabels, DirLabels, ChildLabels
<1>2. ASSUME NEW l, Goto(l), ShapeAt(l) PROVE Search'
  BY <1>0, <1>2, GotoSearch DEF Goto, walkVars
<1>3. CASE SudoRoot
  <2>1. Goto("sudoWalk") \/ Goto("source") \/ Goto("raised") BY <1>3 DEF SudoRoot, Raises
  <2> QED BY <1>1, <1>2, <2>1
<1>4. CASE SudoDir
  <2>1. \/ Goto("sudoWalk") \/ Goto("source") \/ Goto("raised")
        \/ Src # <<>> /\ pc' = "sudoRoot" /\ rx' = "exact" /\ UNCHANGED <<stack, dir, names, candidates>>
    BY <1>4 DEF SudoDir, Raises
  <2>2. CASE Src # <<>> /\ pc' = "sudoRoot" /\ rx' = "exact" /\ UNCHANGED <<stack, dir, names, candidates>>
    <3>0. pc = "sudoDir" /\ rx = "none" BY <1>0, <1>4 DEF SudoDir, Shape, ShapeAt
    <3>1. Src' = Src BY <1>0 DEF Src, Base
    <3>2. RxFits' BY <1>0, <2>2, <3>0, <3>1 DEF RxFits, Literal
    <3>3. OneName(names)' BY <1>0, <2>2 DEF OneName
    <3>4. Shape' BY <1>0, <2>2, <3>2, <3>3 DEF Shape, ShapeAt, Rejected, Seeking, SudoLabels, DirLabels, ChildLabels
    <3>5. SearchTyped' BY <1>0, <2>2 DEF SearchTyped
    <3> QED BY <3>4, <3>5 DEF Search
  <2> QED BY <1>1, <1>2, <2>1, <2>2
<1>5. CASE SudoWalk
  <2>1. \/ Goto("raised")
        \/ /\ pc' = "source" /\ UNCHANGED walkVars
           /\ candidates' = candidates \/ \E user \in User : candidates' = candidates \cup Walked(user)
    BY <1>5 DEF SudoWalk, Raises
  <2>2. CASE ~Goto("raised")
    <3>1. Root \in Path BY <1>0, RootTyped
    <3>2. \A user : Walked(user) \subseteq Path /\ IsFiniteSet(Walked(user))
      <4> TAKE user
      <4>1. Walked(user) \subseteq OsWalk(user, Root) BY DEF Walked
      <4> QED BY <3>1, <4>1, OsWalkFacts, FS_Subset
    <3>3. candidates' \subseteq Path /\ IsFiniteSet(candidates')
      BY <1>0, <2>1, <2>2, <3>2, FS_Union DEF SearchTyped
    <3>4. SearchTyped' BY <1>0, <2>1, <2>2, <3>3 DEF SearchTyped, walkVars
    <3>5. OneName(names)' /\ (RxFits' <=> RxFits)
      BY <1>0, <2>1, <2>2, RequestStays DEF SameRequest, OneName, walkVars
    <3>6. Shape' BY <1>0, <2>1, <2>2, <3>5 DEF Shape, ShapeAt, Seeking, SudoLabels, DirLabels, ChildLabels
    <3> QED BY <3>4, <3>6 DEF Search
  <2> QED BY <1>1, <1>2, <2>2
<1> QED BY <1>3, <1>4, <1>5

-----------------------------------------------------------------------------
(* Places                                                                  *)

\* The safe names of a place.
SafeParts == Seq({Safe[n] : n \in DOMAIN Safe})

Part(parts, n) == IF n # Up THEN Append(parts, Safe[n]) 
  ELSE IF parts = <<>> \/ Last(parts) = "_" THEN parts ELSE Front(parts)

PartOf(it, s, p) == IF s = {} THEN <<>> ELSE Part(it[s \ {Max(s)}], p[Max(s)])

IsParts(it, m, p) == it = [s \in SUBSET (1..m) |-> PartOf(it, s, p)]

\* The last of some indices.
LEMMA MaxFacts ==
  ASSUME NEW m \in Nat, NEW s \in SUBSET (1..m), s # {}
  PROVE  Max(s) \in s /\ \A y \in s : y <= Max(s)
<1> DEFINE B == {u \in Nat : \A y \in s : y <= u}
<1>1. m \in B OBVIOUS
<1>2. PICK u \in B : \A v \in B : u <= v BY <1>1, LeastNat
<1>3. u \in s
  <2> SUFFICES ASSUME u \notin s PROVE FALSE OBVIOUS
  <2>1. PICK z : z \in s OBVIOUS
  <2>2. u - 1 \in Nat /\ \A y \in s : y <= u - 1
    <3>1. \A y \in s : y \in Nat /\ y > 0 /\ y <= u /\ y # u BY <1>2
    <3>2. u \in Nat BY <1>2
    <3> HIDE DEF B
    <3> QED BY <2>1, <3>1, <3>2
  <2>3. u - 1 \in B BY <2>2
  <2> HIDE DEF B
  <2>4. u <= u - 1 BY <1>2, <2>3
  <2>5. u \in Nat BY <1>2 DEF B
  <2> QED BY <2>4, <2>5
<1>4. \A y \in s : y <= u BY <1>2
<1>5. \E x \in s : \A y \in s : x >= y
  <2>1. \A y \in s : u >= y BY <1>2
  <2> QED BY <1>3, <2>1
<1>6. Max(s) \in s /\ \A y \in s : Max(s) >= y BY <1>5 DEF Max
<1> QED BY <1>6

\* There is a table of the places of the parts of a path.
LEMMA PartsExist == ASSUME NEW p, NEW n \in Nat PROVE \E it : IsParts(it, n, p)
<1> DEFINE T == {m \in Nat : \E it : IsParts(it, m, p)}
<1>1. 0 \in T
  <2> DEFINE it == [s \in SUBSET (1..0) |-> <<>>]
  <2>1. \A s \in SUBSET (1..0) : PartOf(it, s, p) = <<>>
    <3>1. \A s \in SUBSET (1..0) : s = {} OBVIOUS
    <3> QED BY <3>1 DEF PartOf
  <2>2. it = [s \in SUBSET (1..0) |-> PartOf(it, s, p)]
    <3> DEFINE A(s) == PartOf(it, s, p)
    <3>1. \A s \in SUBSET (1..0) : A(s) = <<>> BY <2>1
    <3> HIDE DEF A
    <3>2. it = [s \in SUBSET (1..0) |-> A(s)] BY <3>1
    <3> QED BY <3>2 DEF A
  <2> HIDE DEF it
  <2> QED BY <2>2 DEF IsParts
<1>2. ASSUME NEW m \in Nat, m \in T PROVE m + 1 \in T
  <2>1. PICK g : IsParts(g, m, p) BY <1>2
  <2> DEFINE A(s) == PartOf(g, s, p)
             it == [s \in SUBSET (1..m + 1) |-> A(s)]
  <2>2. \A s \in SUBSET (1..m) : g[s] = PartOf(g, s, p) BY <2>1 DEF IsParts
  <2>3. ASSUME NEW s \in SUBSET (1..m + 1), s # {} PROVE s \ {Max(s)} \in SUBSET (1..m)
    <3>0. m + 1 \in Nat OBVIOUS
    <3>1. Max(s) \in s /\ \A y \in s : y <= Max(s) BY <2>3, <3>0, MaxFacts
    <3>2. \A y \in s \ {Max(s)} : y \in 1..m
      <4> SUFFICES ASSUME NEW y \in s, y # Max(s) PROVE y \in 1..m OBVIOUS
      <4>1. y \in 1..m + 1 /\ Max(s) \in 1..m + 1 /\ y <= Max(s) BY <3>1
      <4> QED BY <4>1
    <3> QED BY <3>2
  <2>4. \A s \in SUBSET (1..m) : it[s] = g[s]
    <3>1. \A s \in SUBSET (1..m) : s \in SUBSET (1..m + 1) OBVIOUS
    <3>2. \A s \in SUBSET (1..m) : g[s] = A(s) BY <2>2
    <3> HIDE DEF A
    <3> QED BY <3>1, <3>2
  <2>5. it = [s \in SUBSET (1..m + 1) |-> PartOf(g, s, p)] OBVIOUS
  <2> HIDE DEF it, A
  <2>6. \A s \in SUBSET (1..m + 1) : PartOf(g, s, p) = PartOf(it, s, p) BY <2>3, <2>4 DEF PartOf
  <2>7. IsParts(it, m + 1, p) BY <2>5, <2>6 DEF IsParts
  <2> QED BY <2>7
<1> HIDE DEF T
<1>3. n \in T BY <1>1, <1>2, Inductive
<1> QED BY <1>3 DEF T

\* A place has safe names only.
LEMMA PlaceTyped == ASSUME NEW p \in Path PROVE Place(p) \in SafeParts
<1> DEFINE n == Len(p)
           Table(it) == [s \in SUBSET DOMAIN p |->
                         IF s = {} THEN <<>>
                         ELSE LET x == Max(s) IN
                              IF p[x] # Up THEN Append(it[s \ {x}], Safe[p[x]])
                              ELSE IF it[s \ {x}] = <<>> \/ Last(it[s \ {x}]) = "_" THEN it[s \ {x}]
                              ELSE Front(it[s \ {x}])]
           iter == CHOOSE it : it = Table(it)
<1>0. n \in Nat /\ DOMAIN p = 1..n /\ \A i \in 1..n : p[i] \in ToSet(Names) BY PathLen
<1>1. Place(p) = iter[DOMAIN p] BY DEF Place, FoldLeft, MapThenFoldSet
<1>2. \A it : IsParts(it, n, p) <=> it = Table(it) BY <1>0 DEF IsParts, PartOf, Part
<1> HIDE DEF Table
<1>3. PICK it : IsParts(it, n, p) BY <1>0, PartsExist
<1>4. iter = Table(iter) BY <1>2, <1>3
<1>5. IsParts(iter, n, p) BY <1>2, <1>4
<1> HIDE DEF iter, n
<1> DEFINE Safely(m) == \A s \in SUBSET (1..m) : iter[s] \in SafeParts
           T == {m \in Nat : m <= n => Safely(m)}
<1>6. \A s \in SUBSET (1..n) : iter[s] = PartOf(iter, s, p) BY <1>5 DEF IsParts
<1>7. 0 \in T
  <2>1. \A s \in SUBSET (1..0) : s = {} /\ s \in SUBSET (1..n) BY <1>0
  <2>2. iter[{}] = <<>> BY <1>6, <2>1 DEF PartOf
  <2> QED BY <2>1, <2>2, EmptySeq DEF SafeParts
<1>8. ASSUME NEW m \in Nat, m \in T PROVE m + 1 \in T
  <2> SUFFICES ASSUME m + 1 <= n PROVE Safely(m + 1)
    <3> HIDE DEF Safely
    <3> QED OBVIOUS
  <2> SUFFICES ASSUME NEW s \in SUBSET (1..m + 1) PROVE iter[s] \in SafeParts OBVIOUS
  <2>1. s \in SUBSET (1..n) BY <1>0
  <2>2. CASE s = {} BY <1>6, <2>1, <2>2, EmptySeq DEF PartOf, SafeParts
  <2>3. CASE s # {}
    <3>1. PICK x : x = Max(s) OBVIOUS
    <3>2. x \in s /\ \A y \in s : y <= x BY <2>3, <3>1, MaxFacts
    <3>3. s \ {x} \in SUBSET (1..m)
      <4>1. \A y \in s \ {x} : y \in 1..m
        <5> SUFFICES ASSUME NEW y \in s, y # x PROVE y \in 1..m OBVIOUS
        <5>1. y \in 1..m + 1 /\ x \in 1..m + 1 /\ y <= x BY <3>2
        <5> QED BY <5>1
      <4> QED BY <4>1
    <3>4. PICK parts \in SafeParts : parts = iter[s \ {x}] BY <1>0, <1>8, <3>3
    <3>5. iter[s] = Part(parts, p[x]) BY <1>6, <2>1, <2>3, <3>1, <3>4 DEF PartOf
    <3>6. Safe[p[x]] \in {Safe[a] : a \in DOMAIN Safe} BY <1>0, <2>1, <3>2, GatherAssumption
    <3>7. Append(parts, Safe[p[x]]) \in SafeParts BY <3>6, AppendProperties DEF SafeParts
    <3>8. parts # <<>> => Front(parts) \in SafeParts
      <4>1. Len(parts) \in Nat /\ \A i \in 1..Len(parts) : parts[i] \in {Safe[a] : a \in DOMAIN Safe}
        BY LenProperties, ElementOfSeq DEF SafeParts
      <4>2. \A i \in 1..Len(parts) - 1 : parts[i] \in {Safe[a] : a \in DOMAIN Safe} BY <4>1
      <4> QED BY <4>1, <4>2, SubSeqProperties DEF Front, SafeParts
    <3> QED BY <3>5, <3>7, <3>8 DEF Part
  <2> QED BY <2>2, <2>3
<1> HIDE DEF T
<1>9. n \in T BY <1>0, <1>7, <1>8, Inductive
<1>10. iter[1..n] \in SafeParts BY <1>0, <1>9 DEF T
<1> QED BY <1>0, <1>1, <1>10

-----------------------------------------------------------------------------
(* Type correctness                                                        *)

\* The labels of the filter, and of the getting of files.
Filtering == {"exists", "isDir", "isLink", "isFile"}

Getting == pc \in {"entry", "get"} \/ (pc = "end" /\ ~Packs)

\* All that such a step does outside the walk's own variables.
Seeks ==
  /\ pc \in Seeking /\ pc' \in Seeking \cup {"raised"}
  /\ UNCHANGED <<mode, srcs, k, filterVars, getVars, treeVars>>

\* The steps of the search are such steps.
LEMMA SeekSteps ==
  ASSUME \/ SrcDir \/ SrcNotFile \/ SrcFile \/ RootExists \/ RootDir \/ ListRoot \/ ChildFile
         \/ ChildLink \/ WalkList \/ WalkDir \/ WalkLink \/ WalkFile \/ WalkAgain
         \/ SudoDir \/ SudoRoot \/ SudoWalk
  PROVE  Seeks
<1>1. ASSUME Unplanned, pc \in Seeking, pc' \in Seeking \cup {"raised"} PROVE Seeks
  BY <1>1 DEF Unplanned, Seeks
<1>2. CASE SrcDir \/ SrcNotFile \/ SrcFile
  BY <1>1, <1>2 DEF SrcDir, SrcNotFile, SrcFile, Asks, Goto, StartWalk, TakeSrc, SplitLiteral, Seeking
<1>3. CASE RootExists \/ RootDir \/ ListRoot
  BY <1>1, <1>3 DEF RootExists, RootDir, ListRoot, CannotList, Asks, Goto, StartWalk, Seeking
<1>4. ASSUME NEW l, Take(l) \/ Skip(l) \/ Goto(l) PROVE pc' = l
  BY <1>4 DEF Take, Skip, Goto
<1>5. CASE ChildFile \/ ChildLink
  <2>1. Unplanned /\ pc \in {"childFile", "childLink"} BY <1>5 DEF ChildFile, ChildLink
  <2>2. pc' \in {"source", "childFile", "childLink"} BY <1>4, <1>5, <2>1 DEF ChildFile, ChildLink, Asks
  <2> QED BY <1>1, <2>1, <2>2 DEF Seeking
<1>6. CASE WalkList BY <1>1, <1>6 DEF WalkList, Goto, Seeking
<1>7. CASE WalkDir \/ WalkLink \/ WalkFile \/ WalkAgain
  <2>1. Unplanned /\ pc \in {"walkDir", "walkLink", "walkFile", "walkAgain"}
    BY <1>7 DEF WalkDir, WalkLink, WalkFile, WalkAgain
  <2>2. \/ Yield \/ Push \/ Take("walkDir") \/ Skip("walkDir")
        \/ Goto("walk") \/ Goto("walkLink") \/ Goto("walkFile")
    BY <1>7 DEF WalkDir, WalkLink, WalkFile, WalkAgain, Asks
  <2>3. Push => pc' = "walkDir" BY DEF Push
  <2>4. Yield => pc' \in {"walkAgain", "walkDir"} BY <1>4 DEF Yield
  <2>5. pc' \in {"walk", "walkAgain", "walkDir", "walkLink", "walkFile"} BY <1>4, <2>2, <2>3, <2>4
  <2> QED BY <1>1, <2>1, <2>5 DEF Seeking
<1>8. CASE SudoDir \/ SudoRoot \/ SudoWalk
  <2>1. Unplanned /\ pc \in SudoLabels BY <1>8 DEF SudoDir, SudoRoot, SudoWalk, SudoLabels
  <2>2. pc' \in {"sudoWalk", "source", "sudoRoot", "raised"}
    BY <1>8 DEF SudoDir, SudoRoot, SudoWalk, Goto, Raises
  <2> QED BY <1>1, <2>1, <2>2 DEF Seeking, SudoLabels
<1> QED BY <1>2, <1>3, <1>5, <1>6, <1>7, <1>8

\* What is known of the candidates, the plan and the places.
RestTyped ==
  /\ pc \in Labels
  /\ todo \in Seq(Path) /\ files \in Seq(Path) /\ symlinks \in Seq(Path) /\ plan \in Seq(Path)
  /\ pc \in {"isDir", "isLink", "isFile"} => todo # <<>>
  /\ trial \in 0..Len(plan) /\ processed \in Nat /\ errors \in Nat
  /\ processed + errors <= IF pc = "get" THEN trial - 1 ELSE trial
  /\ pc = "get" => trial > 0
  /\ pc \in Seeking \cup Filtering => trial = 0

\* What is local.
PlacesTyped ==
  /\ DOMAIN local \subseteq SafeParts
  /\ \A q \in DOMAIN local : local[q] \in Path
  /\ partial \subseteq SafeParts \ DOMAIN local

\* The failures.
FaultsTyped == session \in BOOLEAN /\ faults \in 0..MaxFaults /\ hit \subseteq Path

\* The inductive invariant.
TypeInv == Search /\ RestTyped /\ PlacesTyped /\ TreeTypeOK /\ FaultsTyped

\* A call is answered or fails.
Calls == UNCHANGED faultVars \/ \E p \in Path : CallFails(p)

\* The failures are counted up to the bound.
LEMMA FaultsStay == ASSUME FaultsTyped, Calls PROVE FaultsTyped'
<1>1. MaxFaults \in Nat BY GatherAssumption
<1>2. CASE UNCHANGED faultVars BY <1>2 DEF FaultsTyped, faultVars
<1>3. CASE \E p \in Path : CallFails(p)
  <2>1. PICK p \in Path : CallFails(p) BY <1>3
  <2>2. hit' = hit \cup {p} /\ session' = session /\ (faults' = faults \/ (faults < MaxFaults /\ faults' = faults + 1))
    BY <2>1 DEF CallFails
  <2> QED BY <1>1, <2>2 DEF FaultsTyped
<1> QED BY <1>2, <1>3 DEF Calls

\* A call that is answered.
LEMMA WorksCalls == ASSUME Works PROVE Calls
BY DEF Works, Calls

\* What is asked for is a path.
LEMMA SearchCalls ==
  ASSUME Search,
         \/ SrcDir \/ SrcNotFile \/ SrcFile \/ RootExists \/ RootDir \/ ListRoot \/ ChildFile
         \/ ChildLink \/ WalkList \/ WalkDir \/ WalkLink \/ WalkFile \/ WalkAgain
         \/ SudoDir \/ SudoRoot \/ SudoWalk
  PROVE  Calls
<1>1. ASSUME pc \in Seeking \ {"source"} PROVE Src \in Path /\ Root \in Path
  <2>1. SearchTyped /\ RxFits /\ k > 0 BY <1>1 DEF Search, Shape, ShapeAt
  <2> QED BY <2>1, RootTyped
<1>2. ASSUME names # <<>> PROVE Here \in Path
  <2>1. SearchTyped /\ OneName(names) BY DEF Search, Shape, ShapeAt
  <2> QED BY <1>2, <2>1, HereTyped
<1>3. CASE SrcDir \/ SrcNotFile \/ SrcFile \/ RootExists \/ RootDir
  <2>1. pc \in Seeking \ {"source"} BY <1>3 DEF SrcDir, SrcNotFile, SrcFile, RootExists, RootDir, Seeking
  <2>2. \E p \in Path, h \in BOOLEAN : Works \/ CallFails(p)
    BY <1>1, <1>3, <2>1 DEF SrcDir, SrcNotFile, SrcFile, RootExists, RootDir, Asks
  <2> QED BY <2>2, WorksCalls DEF Calls
<1>4. CASE ListRoot
  <2>1. Root \in Path BY <1>1, <1>4 DEF ListRoot, Seeking
  <2>2. Works \/ CallFails(Root) BY <1>4 DEF ListRoot, CannotList
  <2> QED BY <2>1, <2>2, WorksCalls DEF Calls
<1>5. CASE ChildFile \/ WalkDir
  <2>1. UNCHANGED faultVars \/ (names # <<>> /\ (Works \/ CallFails(Here)))
    BY <1>5 DEF ChildFile, WalkDir, Asks
  <2> QED BY <1>2, <2>1, WorksCalls DEF Calls
<1>6. CASE ChildLink \/ WalkLink \/ WalkFile \/ WalkAgain
  <2>1. names # <<>> BY <1>6 DEF ChildLink, WalkLink, WalkFile, WalkAgain, Search, Shape, ShapeAt
  <2>2. Works \/ CallFails(Here) BY <1>6 DEF ChildLink, WalkLink, WalkFile, WalkAgain, Asks
  <2> QED BY <1>2, <2>1, <2>2, WorksCalls DEF Calls
<1>7. CASE WalkList
  <2>1. UNCHANGED faultVars \/ (stack # <<>> /\ (Works \/ CallFails(Last(stack))))
    BY <1>7 DEF WalkList, CannotList
  <2>2. stack # <<>> => Last(stack) \in Path
    <3>1. stack \in Seq(Path) BY DEF Search, SearchTyped
    <3> QED BY <3>1, ListEnds
  <2> QED BY <2>1, <2>2, WorksCalls DEF Calls
<1>8. CASE SudoDir \/ SudoRoot \/ SudoWalk
  <2>1. pc \in Seeking \ {"source"} BY <1>8 DEF SudoDir, SudoRoot, SudoWalk, Seeking
  <2>2. Works \/ CallFails(Src) \/ CallFails(Root)
    BY <1>8 DEF SudoDir, SudoRoot, SudoWalk, Raises, Runs
  <2> QED BY <1>1, <2>1, <2>2, WorksCalls DEF Calls
<1> QED BY <1>3, <1>4, <1>5, <1>6, <1>7, <1>8

\* The types are kept by the search,
LEMMA TypedSeek ==
  ASSUME TypeInv,
         \/ SrcDir \/ SrcNotFile \/ SrcFile \/ RootExists \/ RootDir \/ ListRoot \/ ChildFile
         \/ ChildLink \/ WalkList \/ WalkDir \/ WalkLink \/ WalkFile \/ WalkAgain
         \/ SudoDir \/ SudoRoot \/ SudoWalk
  PROVE  TypeInv'
<1>1. Search' BY SearchSrc, SearchList, SearchChild, SearchWalk, SearchSudo DEF TypeInv
<1>2. FaultsTyped' BY SearchCalls, FaultsStay DEF TypeInv
<1>3. Seeks BY SeekSteps
<1>4. RestTyped'
  BY <1>3 DEF TypeInv, RestTyped, Seeks, Seeking, Filtering, Labels, filterVars, getVars
<1>5. PlacesTyped' /\ TreeTypeOK'
  BY <1>3 DEF TypeInv, PlacesTyped, TreeTypeOK, Seeks, getVars, treeVars
<1> QED BY <1>1, <1>2, <1>4, <1>5 DEF TypeInv

\* when the next SRC is begun or all have been,
LEMMA TypedSource == ASSUME TypeInv, NextSource PROVE TypeInv'
<1>1. Search' BY SearchSource DEF TypeInv
<1>2. UNCHANGED <<files, symlinks, plan, getVars, treeVars, faultVars, candidates>> BY DEF NextSource
<1>3. FaultsTyped' /\ PlacesTyped' /\ TreeTypeOK'
  BY <1>2 DEF TypeInv, FaultsTyped, PlacesTyped, TreeTypeOK, getVars, treeVars, faultVars
<1>4. todo' \in Seq(Path)
  <2>1. candidates \subseteq Path /\ IsFiniteSet(candidates) BY DEF TypeInv, Search, SearchTyped
  <2>2. Sorted(candidates) \in Seq(Path) BY <2>1, SortedFacts, SeqMonotonic
  <2> QED BY <2>2 DEF NextSource, TypeInv, RestTyped
<1>5. pc = "source" /\ pc' \in {"exists", "source", "sudoDir", "sudoRoot", "srcDir", "rootExists"} BY DEF NextSource
<1>6. RestTyped' BY <1>2, <1>4, <1>5 DEF TypeInv, RestTyped, Labels, Seeking, Filtering, getVars
<1> QED BY <1>1, <1>3, <1>6 DEF TypeInv

\* The search is over.
LEMMA SearchOver ==
  ASSUME Search, pc \notin Seeking, pc' \notin Seeking, UNCHANGED <<mode, srcs, k, walkVars, candidates>>
  PROVE  Search'
<1>1. ShapeAt(pc') BY DEF Search, Shape, ShapeAt, Seeking, SudoLabels, ChildLabels, DirLabels
<1> QED BY <1>1, GotoSearch DEF Search, walkVars

\* by the filter,
LEMMA TypedFilter == ASSUME TypeInv, FilterExists \/ FilterDir \/ FilterLink \/ FilterFile PROVE TypeInv'
<1>1. /\ pc \in Filtering /\ UNCHANGED <<mode, srcs, k, walkVars, candidates, getVars, treeVars>>
      /\ pc \in {"isDir", "isLink", "isFile"} => todo # <<>>
  BY DEF FilterExists, FilterDir, FilterLink, FilterFile, Unfiltered, Filtering, TypeInv, RestTyped
<1>2. \/ /\ todo # <<>> /\ (Works \/ CallFails(Candidate))
         /\ \/ Drop \/ AddLink \/ AddFile
            \/ FilterGoto("isDir") \/ FilterGoto("isLink") \/ FilterGoto("isFile")
      \/ /\ todo = <<>> /\ UNCHANGED <<todo, files, symlinks, faultVars>>
         /\ plan' \in {files \o symlinks, files} /\ pc' \in {"entry", "end"}
  BY <1>1 DEF FilterExists, FilterDir, FilterLink, FilterFile, Asks
<1>3. /\ todo \in Seq(Path) /\ files \in Seq(Path) /\ symlinks \in Seq(Path) /\ plan \in Seq(Path)
      /\ trial = 0
  BY <1>1 DEF TypeInv, RestTyped
<1>4. PICK c : c = Candidate OBVIOUS
<1>5. todo # <<>> => c \in Path /\ Tail(todo) \in Seq(Path) BY <1>3, <1>4, HeadRest DEF Candidate
<1>6. /\ todo' \in Seq(Path) /\ files' \in Seq(Path) /\ symlinks' \in Seq(Path) /\ plan' \in Seq(Path)
      /\ pc' \in Filtering \cup {"entry", "end"}
      /\ pc' \in {"isDir", "isLink", "isFile"} => todo' # <<>>
  <2>1. todo # <<>> => Append(files, c) \in Seq(Path) /\ Append(symlinks, c) \in Seq(Path)
    BY <1>3, <1>5, AppendProperties
  <2>2. files \o symlinks \in Seq(Path) BY <1>3, ConcatProperties
  <2>3. ASSUME todo # <<>>, Drop PROVE <1>6!: BY <1>3, <1>5, <2>3 DEF Drop, Filtering
  <2>4. ASSUME todo # <<>>, AddLink \/ AddFile PROVE <1>6!:
    BY <1>3, <1>4, <1>5, <2>1, <2>4 DEF AddLink, AddFile, Filtering
  <2>5. ASSUME todo # <<>>, FilterGoto("isDir") \/ FilterGoto("isLink") \/ FilterGoto("isFile") PROVE <1>6!:
    BY <1>3, <2>5 DEF FilterGoto, filterVars, Filtering
  <2>6. ASSUME plan' \in {files \o symlinks, files}, pc' \in {"entry", "end"}, UNCHANGED <<todo, files, symlinks>> PROVE <1>6!:
    BY <1>3, <2>2, <2>6
  <2> QED BY <1>2, <2>3, <2>4, <2>5, <2>6
<1>7. Calls
  <2>1. UNCHANGED faultVars \/ (todo # <<>> /\ (Works \/ CallFails(c))) BY <1>2, <1>4
  <2> QED BY <1>5, <2>1, WorksCalls DEF Calls
<1>8. Search'
  <2>1. pc \notin Seeking /\ pc' \notin Seeking BY <1>1, <1>6 DEF Filtering, Seeking
  <2> QED BY <1>1, <2>1, SearchOver DEF TypeInv
<1>9. FaultsTyped' BY <1>7, FaultsStay DEF TypeInv
<1>10. PlacesTyped' /\ TreeTypeOK'
  BY <1>1 DEF TypeInv, PlacesTyped, TreeTypeOK, getVars, treeVars
<1>11. RestTyped'
  <2>1. trial' = 0 /\ processed' = processed /\ errors' = errors BY <1>1, <1>3 DEF getVars
  <2>2. processed \in Nat /\ errors \in Nat /\ processed + errors <= trial BY <1>1 DEF TypeInv, RestTyped, Filtering
  <2>3. Len(plan') \in Nat BY <1>6, LenProperties
  <2>4. pc' \in Labels /\ pc' # "get" BY <1>6 DEF Labels, Filtering
  <2> QED BY <1>3, <1>6, <2>1, <2>2, <2>3, <2>4 DEF RestTyped
<1> QED BY <1>8, <1>9, <1>10, <1>11 DEF TypeInv

\* by getting the files,
LEMMA TypedGet == ASSUME TypeInv, NextEntry \/ Get PROVE TypeInv'
<1>1. /\ pc \in {"entry", "get"} /\ pc' \in {"entry", "get", "end", "raised"}
      /\ UNCHANGED <<mode, srcs, k, walkVars, candidates, filterVars, treeVars>>
  BY DEF NextEntry, Get, Unfetched
<1>2. Search'
  <2>1. pc \notin Seeking /\ pc' \notin Seeking BY <1>1 DEF Seeking
  <2> QED BY <1>1, <2>1, SearchOver DEF TypeInv
<1>3. TreeTypeOK' BY <1>1 DEF TypeInv, TreeTypeOK, treeVars
<1>4. /\ todo' \in Seq(Path) /\ files' \in Seq(Path) /\ symlinks' \in Seq(Path) /\ plan' \in Seq(Path)
      /\ plan \in Seq(Path) /\ plan' = plan /\ Len(plan) \in Nat
      /\ trial \in 0..Len(plan) /\ processed \in Nat /\ errors \in Nat
      /\ pc' \in Labels /\ pc' \notin Seeking \cup Filtering /\ pc' \notin {"isDir", "isLink", "isFile"}
  BY <1>1, LenProperties DEF TypeInv, RestTyped, filterVars, Labels, Seeking, Filtering
<1>5. CASE NextEntry
  <2>1. UNCHANGED <<processed, errors, local, partial, faultVars>> /\ pc = "entry" BY <1>5 DEF NextEntry
  <2>2. \/ trial' = trial /\ pc' = "end"
        \/ trial # Len(plan) /\ trial' = trial + 1 /\ pc' \in {"get", "raised"}
    BY <1>5 DEF NextEntry
  <2>3. processed + errors <= trial BY <2>1 DEF TypeInv, RestTyped
  <2>4. trial' \in 0..Len(plan) /\ (pc' = "get" => trial' > 0)
        /\ processed' + errors' <= (IF pc' = "get" THEN trial' - 1 ELSE trial')
    BY <1>4, <2>1, <2>2, <2>3
  <2>5. RestTyped' BY <1>4, <2>1, <2>4 DEF RestTyped
  <2>6. FaultsTyped' /\ PlacesTyped' BY <2>1 DEF TypeInv, FaultsTyped, PlacesTyped, faultVars
  <2> QED BY <1>2, <1>3, <2>5, <2>6 DEF TypeInv
<1>6. CASE Get
  <2>1. PICK p, place : p = Entry /\ place = Place(p) OBVIOUS
  <2>2. trial > 0 /\ processed + errors <= trial - 1 /\ pc = "get" BY <1>6 DEF Get, TypeInv, RestTyped
  <2>3. p \in Path
    <3>1. trial \in 1..Len(plan) BY <1>4, <2>2
    <3> QED BY <1>4, <2>1, <3>1, ElementOfSeq DEF Entry
  <2>4. place \in SafeParts BY <2>1, <2>3, PlaceTyped
  <2>5. /\ pc' = "entry" /\ trial' = trial
        /\ \/ /\ Works /\ local' = Write(DOMAIN local \cup {place}, place, p) /\ partial' = partial \ {place}
              /\ processed' = processed + 1 /\ errors' = errors
           \/ /\ Works \/ CallFails(p)
              /\ \/ UNCHANGED <<local, partial>>
                 \/ (local' = Write(DOMAIN local \ {place}, place, p) /\ partial' = partial \cup {place})
              /\ errors' = errors + 1 /\ processed' = processed
    BY <1>6, <2>1 DEF Get
  <2>6. Calls BY <2>3, <2>5, WorksCalls DEF Calls
  <2>7. FaultsTyped' BY <2>6, FaultsStay DEF TypeInv
  <2>8. processed' \in Nat /\ errors' \in Nat /\ processed' + errors' <= trial' BY <1>4, <2>2, <2>5
  <2>9. RestTyped' BY <1>4, <2>5, <2>8 DEF RestTyped
  <2>10. PlacesTyped'
    <3>1. PlacesTyped BY DEF TypeInv
    <3>2. CASE local' = Write(DOMAIN local \cup {place}, place, p) /\ partial' = partial \ {place}
      BY <2>3, <2>4, <3>1, <3>2 DEF PlacesTyped, Write
    <3>3. CASE local' = Write(DOMAIN local \ {place}, place, p) /\ partial' = partial \cup {place}
      BY <2>3, <2>4, <3>1, <3>3 DEF PlacesTyped, Write
    <3>4. CASE UNCHANGED <<local, partial>> BY <3>1, <3>4 DEF PlacesTyped
    <3> QED BY <2>5, <3>2, <3>3, <3>4
  <2> QED BY <1>2, <1>3, <2>7, <2>9, <2>10 DEF TypeInv
<1> QED BY <1>5, <1>6

\* by what happens elsewhere,
LEMMA TypedQuiet == ASSUME TypeInv, Change \/ LoseSession \/ UNCHANGED vars PROVE TypeInv'
<1>1. /\ UNCHANGED <<pc, mode, srcs, k, walkVars, candidates, filterVars, getVars>>
      /\ UNCHANGED <<faults, hit>> /\ session' \in {session, FALSE}
  BY DEF Change, LoseSession, vars, faultVars
<1>2. Search' BY <1>1, GotoSearch DEF TypeInv, Search, Shape, walkVars
<1>3. RestTyped' BY <1>1 DEF TypeInv, RestTyped, filterVars, getVars
<1>4. PlacesTyped' BY <1>1 DEF TypeInv, PlacesTyped, getVars
<1>5. FaultsTyped' BY <1>1 DEF TypeInv, FaultsTyped
<1>6. TreeTypeOK'
  <2>1. CASE UNCHANGED treeVars BY <2>1 DEF TypeInv, TreeTypeOK, treeVars
  <2>2. CASE Change
    <3>1. PICK p \in Movable : gone' \in {gone \ {p}, gone \cup {p}} /\ touched' = touched \cup {p}
      BY <2>2 DEF Change, ChangeTree
    <3>2. changes < MaxChanges /\ changes' = changes + 1 BY <2>2 DEF Change, ChangeTree
    <3>3. p \in Node /\ MaxChanges \in Nat BY TreeAssumption
    <3> QED BY <3>1, <3>2, <3>3 DEF TypeInv, TreeTypeOK
  <2> QED BY <2>1, <2>2 DEF LoseSession, vars
<1> QED BY <1>2, <1>3, <1>4, <1>5, <1>6 DEF TypeInv

\* and they hold at the beginning.
LEMMA TypedInit == ASSUME Init PROVE TypeInv
<1>1. SearchTyped
  <2>1. Len(srcs) \in Nat
    <3>1. srcs \in Requests BY DEF Init
    <3> QED BY <3>1, GatherAssumption, LenProperties
  <2> QED BY <2>1, EmptyPath, FS_EmptySet DEF Init, SearchTyped
<1>2. OneName(names) BY EmptyPath DEF Init, OneName
<1>3. Shape BY <1>2 DEF Init, Shape, ShapeAt, RxFits, Seeking, SudoLabels, ChildLabels, DirLabels
<1>4. RestTyped BY EmptyPath DEF Init, RestTyped, Labels
<1>5. PlacesTyped BY DEF Init, PlacesTyped
<1>6. TreeTypeOK BY TreeAssumption DEF Init, TreeInit, TreeTypeOK
<1>7. FaultsTyped BY GatherAssumption DEF Init, FaultsTyped
<1> QED BY <1>1, <1>3, <1>4, <1>5, <1>6, <1>7 DEF TypeInv, Search

\* No step breaks them.
LEMMA TypedStep == TypeInv /\ [Next]_vars => TypeInv'
<1> SUFFICES ASSUME TypeInv, [Next]_vars PROVE TypeInv' OBVIOUS
<1>1. CASE NextSource BY <1>1, TypedSource
<1>2. CASE FilterExists \/ FilterDir \/ FilterLink \/ FilterFile BY <1>2, TypedFilter
<1>3. CASE NextEntry \/ Get BY <1>3, TypedGet
<1>4. CASE Change \/ LoseSession \/ UNCHANGED vars BY <1>4, TypedQuiet
<1>5. CASE \/ SrcDir \/ SrcNotFile \/ SrcFile \/ RootExists \/ RootDir \/ ListRoot \/ ChildFile
           \/ ChildLink \/ WalkList \/ WalkDir \/ WalkLink \/ WalkFile \/ WalkAgain
           \/ SudoDir \/ SudoRoot \/ SudoWalk
  BY <1>5, TypedSeek
<1> QED BY <1>1, <1>2, <1>3, <1>4, <1>5 DEF Next, Step

\* So they always hold.
LEMMA TypeInvariance == Spec => []TypeInv
<1>1. Init => TypeInv BY TypedInit
<1> QED BY <1>1, TypedStep, PTL DEF Spec

\* They are those of TypeOK.
LEMMA TypeImplies == TypeInv => TypeOK
<1> SUFFICES ASSUME TypeInv PROVE TypeOK OBVIOUS
<1>1. SearchTyped /\ RestTyped /\ PlacesTyped /\ TreeTypeOK /\ FaultsTyped BY DEF TypeInv, Search
<1>2. Len(plan) \in Nat BY <1>1, LenProperties DEF RestTyped
<1>3. trial \in 0..Len(plan) /\ processed \in 0..trial /\ errors \in 0..trial
  <2>1. trial \in Nat /\ processed \in Nat /\ errors \in Nat BY <1>1, <1>2 DEF RestTyped
  <2>2. processed + errors <= trial BY <1>1, <2>1 DEF RestTyped
  <2> QED BY <1>1, <2>1, <2>2 DEF RestTyped
<1>4. pc \in Labels /\ {todo, files, symlinks, plan} \subseteq Seq(Path) BY <1>1 DEF RestTyped
<1>5. /\ DOMAIN local \subseteq Seq({Safe[n] : n \in DOMAIN Safe})
      /\ \A q \in DOMAIN local : local[q] \in Path
      /\ partial \subseteq Seq({Safe[n] : n \in DOMAIN Safe}) \ DOMAIN local
  BY <1>1 DEF PlacesTyped, SafeParts
<1>6. /\ mode \in {"sftp", "pack", "sudo"} /\ srcs \in Requests /\ k \in 0..Len(srcs)
      /\ rx \in {"none", "exact", "tail"}
      /\ stack \in Seq(Path) /\ dir \in Path /\ names \in Seq(Path)
      /\ candidates \subseteq Path
  BY <1>1 DEF SearchTyped
<1> QED BY <1>1, <1>3, <1>4, <1>5, <1>6 DEF TypeOK, FaultsTyped

\* Every variable of a host's gathering always has its type: what is listed, found and planned
\* are paths, what is local has a safe place, and the counters stay within the plan
\* (_build_plan_for_host, run_host_gather).
THEOREM GatherTyped == Spec => []TypeOK
BY TypeInvariance, TypeImplies, PTL

-----------------------------------------------------------------------------
(* What has been fetched                                                   *)

\* Nothing is gone if nothing has changed.
TreeInv == touched = {} => gone = {}

\* Nothing is fetched before there is a plan.
Idle == trial = 0 /\ processed = 0 /\ errors = 0 /\ DOMAIN local = {} /\ partial = {}

SeekInv == pc \in Seeking => files = <<>> /\ Idle

\* A file is in the list because the remote host has said that it is one, which stays true
\* as long as nothing changes there.
AreFiles(list) == touched = {} => \A p \in ToSet(list) : IsFile(p)

FilterInv ==
  pc \in Filtering =>
    /\ todo \in Seq(candidates) /\ files \in Seq(candidates)
    /\ pc # "exists" => todo # <<>>
    /\ AreFiles(files) /\ Idle

\* The entries that have been dealt with, and what is local because of them.
Done == IF pc = "get" THEN trial - 1 ELSE trial

Settled ==
  \A i \in 1..Done :
    (\A j \in i + 1..Done : Place(plan[j]) # Place(plan[i])) =>
      Place(plan[i]) \in DOMAIN local /\ local[Place(plan[i])] = plan[i]

GetInv ==
  Getting =>
    /\ plan \in Seq(candidates) /\ AreFiles(plan)
    /\ trial \in 0..Len(plan) /\ processed \in Nat /\ errors \in Nat
    /\ pc = "get" => trial > 0
    /\ pc = "end" => trial = Len(plan)
    /\ processed + errors = Done
    /\ \A q \in DOMAIN local \cup partial : \E j \in 1..Done : q = Place(plan[j])
    /\ errors = 0 => partial = {} /\ Settled
    /\ errors > 0 => hit # {} \/ touched # {} \/ Clash

\* The inductive invariant.
IInv == TreeInv /\ SeekInv /\ FilterInv /\ GetInv

\* What is found at a path depends on what has been taken away, and on nothing else.
LEMMA StatStays == ASSUME UNCHANGED gone, NEW p PROVE Stat("login", p)' = Stat("login", p)
BY DEF Stat, KindAt, Follow, Walk1, There, May

\* Neither does what is a file.
LEMMA FileStays == ASSUME UNCHANGED gone, NEW p PROVE IsFile(p)' <=> IsFile(p)
BY StatStays DEF IsFile

\* What is in a longer list.
LEMMA InAppended ==
  ASSUME NEW S, NEW list \in Seq(S), NEW c \in S, NEW p \in ToSet(Append(list, c))
  PROVE  p \in ToSet(list) \/ p = c
<1>1. PICK i \in 1..Len(list) + 1 : p = Append(list, c)[i]
  BY AppendProperties DEF ToSet
<1>2. CASE i = Len(list) + 1 BY <1>1, <1>2, AppendProperties
<1>3. CASE i # Len(list) + 1
  <2>1. i \in 1..Len(list) /\ Append(list, c)[i] = list[i] BY <1>1, <1>3, AppendProperties, LenProperties
  <2>2. DOMAIN list = 1..Len(list) BY LenProperties
  <2> QED BY <1>1, <2>1, <2>2 DEF ToSet
<1> QED BY <1>2, <1>3

\* What is a file stays one while the tree does.
LEMMA ListStays ==
  ASSUME UNCHANGED <<gone, touched>>, NEW list
  PROVE  AreFiles(list)' <=> AreFiles(list)
BY FileStays DEF AreFiles

\* Nothing is gone unless something has changed.
LEMMA TreeStep == ASSUME TreeInv, [Next]_vars PROVE TreeInv'
<1>1. CASE UNCHANGED treeVars BY <1>1 DEF treeVars, TreeInv
<1>2. CASE Change
  <2>1. touched' # {} BY <1>2 DEF Change, ChangeTree
  <2> QED BY <2>1 DEF TreeInv
<1>3. CASE LoseSession BY <1>1, <1>3 DEF LoseSession
<1>4. CASE Step
  <2>1. CASE NextSource BY <1>1, <2>1 DEF NextSource
  <2>2. CASE FilterExists \/ FilterDir \/ FilterLink \/ FilterFile
    BY <1>1, <2>2 DEF FilterExists, FilterDir, FilterLink, FilterFile, Unfiltered
  <2>3. CASE NextEntry \/ Get BY <1>1, <2>3 DEF NextEntry, Get, Unfetched
  <2>4. CASE Seeks BY <1>1, <2>4 DEF Seeks
  <2> QED BY <1>4, <2>1, <2>2, <2>3, <2>4, SeekSteps DEF Step
<1>5. CASE UNCHANGED vars BY <1>1, <1>5 DEF vars
<1> QED BY <1>2, <1>3, <1>4, <1>5 DEF Next

\* The invariants of the three phases.
PhaseInv == SeekInv /\ FilterInv /\ GetInv

\* The search leaves the invariants as they are,
LEMMA SeekPhase ==
  ASSUME SeekInv, Seeks
  PROVE  PhaseInv'
<1>1. pc \in Seeking /\ pc' \in Seeking \cup {"raised"} /\ UNCHANGED <<files, getVars>>
  BY DEF Seeks, filterVars
<1>2. pc' \notin Filtering /\ ~Getting' BY <1>1 DEF Seeking, Filtering, Getting
<1>3. SeekInv' BY <1>1 DEF SeekInv, Seeks, Idle, getVars
<1> QED BY <1>2, <1>3 DEF PhaseInv, FilterInv, GetInv

\* and so does the end of it.
LEMMA SourcePhase ==
  ASSUME SearchTyped, SeekInv, NextSource
  PROVE  PhaseInv'
<1>1. pc = "source" /\ UNCHANGED <<candidates, files, getVars, treeVars>> BY DEF NextSource
<1>2. files = <<>> /\ Idle BY <1>1 DEF SeekInv, Seeking
<1>3. Idle' BY <1>1, <1>2 DEF Idle, getVars
<1>4. CASE pc' = "exists" /\ todo' = Sorted(candidates)
  <2>1. candidates' = candidates BY <1>1
  <2>2. todo' \in Seq(candidates') BY <1>4, <2>1, SortedFacts DEF SearchTyped
  <2>3. files' = <<>> /\ files' \in Seq(candidates') BY <1>1, <1>2
  <2>4. ToSet(files') = {} BY <2>3 DEF ToSet
  <2>5. AreFiles(files)' BY <2>4 DEF AreFiles
  <2>6. FilterInv' BY <1>3, <1>4, <2>2, <2>3, <2>5 DEF FilterInv
  <2> QED BY <1>4, <2>6 DEF PhaseInv, SeekInv, GetInv, Getting, Seeking
<1>5. CASE pc' \in Seeking
  <2>1. SeekInv' BY <1>1, <1>2, <1>3 DEF SeekInv
  <2> QED BY <1>5, <2>1 DEF PhaseInv, FilterInv, GetInv, Getting, Seeking, Filtering
<1> QED BY <1>1, <1>4, <1>5 DEF NextSource, Seeking

\* A candidate is put away, or asked the next thing.
LEMMA FilterPhase ==
  ASSUME FilterInv, FilterExists \/ FilterDir \/ FilterLink \/ FilterFile
  PROVE  PhaseInv'
<1>1. /\ pc \in Filtering /\ UNCHANGED <<mode, candidates, getVars, treeVars>>
  BY DEF FilterExists, FilterDir, FilterLink, FilterFile, Unfiltered, Filtering
<1>2. todo \in Seq(candidates) /\ files \in Seq(candidates) /\ AreFiles(files) /\ Idle
  BY <1>1 DEF FilterInv
<1>3. candidates' = candidates BY <1>1
<1>4. Idle' BY <1>1, <1>2 DEF Idle, getVars
<1>5. ASSUME pc' \in Filtering, todo' \in Seq(candidates), files' \in Seq(candidates), AreFiles(files)',
             pc' # "exists" => todo' # <<>>
      PROVE  PhaseInv'
  <2>1. FilterInv' BY <1>3, <1>4, <1>5 DEF FilterInv
  <2> QED BY <1>5, <2>1 DEF PhaseInv, SeekInv, GetInv, Getting, Filtering, Seeking
<1>6. ASSUME UNCHANGED files PROVE AreFiles(files)'
  BY <1>1, <1>2, <1>6, ListStays DEF treeVars
<1>7. ASSUME todo # <<>>, Drop \/ AddLink PROVE PhaseInv'
  <2>1. pc' = "exists" /\ todo' = Tail(todo) /\ UNCHANGED files BY <1>7 DEF Drop, AddLink
  <2>2. todo' \in Seq(candidates) BY <1>2, <1>7, <2>1, HeadTailProperties
  <2> QED BY <1>2, <1>5, <1>6, <2>1, <2>2 DEF Filtering
<1>8. ASSUME todo # <<>>, NEW l \in Filtering, FilterGoto(l) PROVE PhaseInv'
  <2>1. pc' = l /\ UNCHANGED <<todo, files>> BY <1>8 DEF FilterGoto, filterVars
  <2> QED BY <1>2, <1>5, <1>6, <1>8, <2>1
<1>9. ASSUME todo # <<>>, IsFile(Candidate), AddFile PROVE PhaseInv'
  <2>1. PICK c : c = Head(todo) OBVIOUS
  <2>2. /\ pc' = "exists" /\ todo' = Tail(todo) /\ files' = Append(files, c) /\ IsFile(c)
    BY <1>9, <2>1 DEF AddFile, Candidate
  <2>3. c \in candidates /\ todo' \in Seq(candidates) BY <1>2, <1>9, <2>1, <2>2, HeadTailProperties
  <2>4. files' \in Seq(candidates) BY <1>2, <2>2, <2>3, AppendProperties
  <2>5. AreFiles(files)'
    <3> SUFFICES ASSUME touched' = {}, NEW p \in ToSet(files') PROVE IsFile(p)'
      BY DEF AreFiles
    <3>1. p \in ToSet(files) \/ p = c BY <1>2, <2>2, <2>3, InAppended
    <3>2. IsFile(p) BY <1>1, <1>2, <2>2, <3>1 DEF AreFiles, treeVars
    <3> QED BY <1>1, <3>2, FileStays DEF treeVars
  <2> QED BY <1>5, <2>2, <2>3, <2>4, <2>5 DEF Filtering
<1>10. CASE FilterDir \/ FilterLink \/ FilterFile
  <2>1. pc \in {"isDir", "isLink", "isFile"} BY <1>10 DEF FilterDir, FilterLink, FilterFile
  <2>2. todo # <<>> BY <1>1, <2>1 DEF FilterInv
  <2>3. \/ Drop \/ AddLink \/ FilterGoto("isLink") \/ FilterGoto("isFile")
        \/ IsFile(Candidate) /\ AddFile
    BY <1>10 DEF FilterDir, FilterLink, FilterFile, Asks
  <2> QED BY <1>7, <1>8, <1>9, <2>2, <2>3 DEF Filtering
<1>11. CASE FilterExists /\ todo # <<>>
  <2>1. FilterGoto("isDir") \/ Drop BY <1>11 DEF FilterExists, Asks
  <2> QED BY <1>7, <1>8, <1>11, <2>1 DEF Filtering
\* There is a plan; the first entry is still to come.
<1>12. CASE FilterExists /\ todo = <<>>
  <2>1. /\ pc' \in {"entry", "end"} /\ (pc' = "end" => Packs)
        /\ ~Packs => plan' = files
        /\ UNCHANGED files
    BY <1>12 DEF FilterExists
  <2>2. Packs' <=> Packs BY <1>1 DEF Packs
  <2>3. GetInv'
    <3> SUFFICES ASSUME Getting' PROVE GetInv' BY DEF GetInv
    <3>1. pc' = "entry" /\ plan' = files BY <1>12, <2>1, <2>2 DEF Getting, FilterExists
    <3>2. plan' \in Seq(candidates') BY <1>2, <1>3, <3>1
    <3>3. AreFiles(plan)'
      <4>1. \A p \in ToSet(plan') : touched = {} => IsFile(p)' 
        BY <1>1, <1>2, <3>1, FileStays DEF AreFiles, treeVars
      <4> QED BY <1>1, <4>1 DEF AreFiles, treeVars
    <3>4. Len(plan') \in Nat BY <3>2, LenProperties
    <3>5. Done' = 0 BY <1>4, <3>1 DEF Done, Idle
    <3>6. Settled' BY <3>5 DEF Settled
    <3> QED BY <1>4, <3>1, <3>2, <3>3, <3>4, <3>5, <3>6 DEF GetInv, Idle
  <2> QED BY <2>1, <2>3 DEF PhaseInv, SeekInv, FilterInv, Seeking, Filtering
<1> QED BY <1>10, <1>11, <1>12

\* The next entry is begun, or there is none.
LEMMA EntryPhase ==
  ASSUME GetInv, NextEntry
  PROVE  PhaseInv'
<1>1. /\ pc = "entry" /\ UNCHANGED <<mode, candidates, plan, treeVars>>
      /\ UNCHANGED <<processed, errors, local, partial, hit>>
  BY DEF NextEntry, Unfetched, filterVars, faultVars
<1>2. Getting /\ Done = trial BY <1>1 DEF Getting, Done
<1>3. /\ plan \in Seq(candidates) /\ AreFiles(plan) /\ trial \in 0..Len(plan)
      /\ processed \in Nat /\ errors \in Nat /\ processed + errors = Done
  BY <1>2 DEF GetInv
<1>4. Len(plan) \in Nat BY <1>3, LenProperties
<1>5. CASE pc' = "raised"
  BY <1>5 DEF PhaseInv, SeekInv, FilterInv, GetInv, Getting, Seeking, Filtering
<1>6. \/ pc' = "raised"
      \/ trial = Len(plan) /\ pc' = "end" /\ trial' = trial
      \/ trial # Len(plan) /\ pc' = "get" /\ trial' = trial + 1
  BY DEF NextEntry
<1>7. CASE pc' \in {"end", "get"}
  <2>1. Done' = Done /\ trial' \in 0..Len(plan) /\ (pc' = "get" => trial' > 0)
        /\ (pc' = "end" => trial' = Len(plan))
    BY <1>2, <1>3, <1>4, <1>6, <1>7 DEF Done
  <2>2. plan' \in Seq(candidates') BY <1>1, <1>3
  <2>3. AreFiles(plan)' BY <1>1, <1>3, ListStays DEF treeVars
  <2>4. \A q \in DOMAIN local' \cup partial' : \E j \in 1..Done' : q = Place(plan'[j])
    BY <1>1, <1>2, <2>1 DEF GetInv
  <2>5. errors' = 0 => partial' = {} /\ Settled'
    <3>1. Settled => Settled' BY <1>1, <2>1 DEF Settled
    <3> QED BY <1>1, <1>2, <3>1 DEF GetInv
  <2>6. errors' > 0 => hit' # {} \/ touched' # {} \/ Clash'
    BY <1>1, <1>2 DEF GetInv, Clash, treeVars
  <2>7. GetInv' BY <1>1, <1>3, <2>1, <2>2, <2>3, <2>4, <2>5, <2>6 DEF GetInv
  <2> QED BY <1>7, <2>7 DEF PhaseInv, SeekInv, FilterInv, Seeking, Filtering
<1> QED BY <1>5, <1>6, <1>7

\* An entry is fetched, or counted as an error. In the first case its place holds it, and no
\* other place changes; in the second there is a cause.
LEMMA GetPhase ==
  ASSUME GetInv, Get
  PROVE  PhaseInv'
<1>1. /\ pc = "get" /\ pc' = "entry" /\ UNCHANGED <<mode, candidates, plan, treeVars, trial>>
  BY DEF Get, Unfetched, filterVars
<1>2. Getting /\ Done = trial - 1 BY <1>1 DEF Getting, Done
<1>3. /\ plan \in Seq(candidates) /\ AreFiles(plan) /\ trial \in 0..Len(plan) /\ trial > 0
      /\ processed \in Nat /\ errors \in Nat /\ processed + errors = Done
  BY <1>1, <1>2 DEF GetInv
<1>4. Len(plan) \in Nat /\ DOMAIN plan = 1..Len(plan) BY <1>3, LenProperties
<1>5. Done' = trial /\ trial \in Nat BY <1>1, <1>3, <1>4 DEF Done
<1>6. PICK place : place = Place(Entry) OBVIOUS
<1>7. /\ DOMAIN local' \cup partial' \subseteq DOMAIN local \cup partial \cup {place}
      /\ \/ /\ processed' = processed + 1 /\ errors' = errors
            /\ local' = Write(DOMAIN local \cup {place}, place, Entry)
            /\ partial' = partial \ {place} /\ hit \subseteq hit'
         \/ /\ errors' = errors + 1 /\ processed' = processed
            /\ \/ Works /\ (IsLocalDir(place) \/ ~IsFile(Entry))
               \/ CallFails(Entry)
  BY <1>6 DEF Get, Write, Works, faultVars
<1>8. \A q \in DOMAIN local' \cup partial' : \E j \in 1..Done' : q = Place(plan'[j])
  <2> TAKE q \in DOMAIN local' \cup partial'
  <2>1. CASE q = place BY <1>1, <1>3, <1>5, <1>6, <2>1 DEF Entry
  <2>2. CASE q \in DOMAIN local \cup partial
    <3>1. PICK j \in 1..Done : q = Place(plan[j]) BY <1>2, <2>2 DEF GetInv
    <3>2. j \in 1..Done' BY <1>2, <1>5, <3>1
    <3> QED BY <1>1, <3>1, <3>2
  <2> QED BY <1>7, <2>1, <2>2
<1>9. processed' \in Nat /\ errors' \in Nat /\ processed' + errors' = Done'
  BY <1>2, <1>3, <1>5, <1>7
<1>10. errors' = 0 => partial' = {} /\ Settled'
  <2> SUFFICES ASSUME errors' = 0 PROVE partial' = {} /\ Settled' OBVIOUS
  <2>1. /\ errors = 0 /\ local' = Write(DOMAIN local \cup {place}, place, Entry)
        /\ partial' = partial \ {place}
    BY <1>3, <1>7
  <2>2. partial = {} /\ Settled BY <1>2, <2>1 DEF GetInv
  <2>3. ASSUME NEW i \in 1..trial,
               \A j \in i + 1..trial : Place(plan[j]) # Place(plan[i])
        PROVE  Place(plan[i]) \in DOMAIN local' /\ local'[Place(plan[i])] = plan[i]
    <3>1. CASE i = trial BY <1>6, <2>1, <3>1 DEF Write, Entry
    <3>2. CASE i # trial
      <4>1. i \in 1..Done /\ trial \in i + 1..trial BY <1>2, <1>5, <3>2
      <4>2. Place(plan[i]) # place BY <1>6, <2>3, <4>1 DEF Entry
      <4>3. Place(plan[i]) \in DOMAIN local /\ local[Place(plan[i])] = plan[i]
        <5>1. \A j \in i + 1..Done : j \in i + 1..trial BY <1>2, <1>5
        <5> QED BY <2>2, <2>3, <4>1, <5>1 DEF Settled
      <4> QED BY <2>1, <4>2, <4>3 DEF Write
    <3> QED BY <3>1, <3>2
  <2>4. Settled' BY <1>1, <1>5, <2>3 DEF Settled
  <2> QED BY <2>1, <2>2, <2>4
<1>11. errors' > 0 => hit' # {} \/ touched' # {} \/ Clash'
  <2>0. Clash' <=> Clash BY <1>1 DEF Clash
  <2>1. CASE errors' = errors /\ hit \subseteq hit'
    BY <1>1, <1>2, <2>0, <2>1 DEF GetInv, treeVars
  <2>2. CASE CallFails(Entry) BY <2>2 DEF CallFails
  <2>3. Entry = plan[trial] /\ Entry \in ToSet(plan) BY <1>3, <1>4 DEF Entry, ToSet
  <2>4. CASE IsLocalDir(place)
    <3>1. PICK q \in DOMAIN local \cup partial : IsStrictPrefix(place, q) BY <2>4 DEF IsLocalDir
    <3>2. PICK j \in 1..Done : q = Place(plan[j]) BY <1>2 DEF GetInv
    <3>3. plan[j] \in ToSet(plan) BY <1>2, <1>3, <1>4, <3>2 DEF ToSet
    <3>4. Clash BY <1>6, <2>3, <3>1, <3>2, <3>3 DEF Clash
    <3> QED BY <2>0, <3>4
  <2>5. CASE ~IsFile(Entry)
    <3>1. PICK p \in ToSet(plan) : p = Entry BY <2>3
    <3>2. touched # {} BY <1>3, <2>5, <3>1 DEF AreFiles
    <3> QED BY <1>1, <3>2 DEF treeVars
  <2> QED BY <1>7, <2>1, <2>2, <2>4, <2>5
<1>12. GetInv'
  <2>1. plan' \in Seq(candidates') BY <1>1, <1>3
  <2>2. AreFiles(plan)' BY <1>1, <1>3, ListStays DEF treeVars
  <2> QED BY <1>1, <1>3, <1>8, <1>9, <1>10, <1>11, <2>1, <2>2 DEF GetInv
<1> QED BY <1>1, <1>12 DEF PhaseInv, SeekInv, FilterInv, Seeking, Filtering

\* The remote tree changes, or the session is lost, or nothing happens: no file is one any
\* more that was one, or the change is remembered.
LEMMA QuietPhase ==
  ASSUME PhaseInv, Change \/ LoseSession \/ UNCHANGED vars
  PROVE  PhaseInv'
<1>1. /\ UNCHANGED <<pc, mode, candidates, todo, files, plan, getVars, hit>>
      /\ touched' # {} \/ UNCHANGED treeVars
  BY DEF Change, ChangeTree, LoseSession, vars, filterVars, faultVars
<1>2. ASSUME NEW list PROVE AreFiles(list) => AreFiles(list)'
  <2>1. CASE touched' # {} BY <2>1 DEF AreFiles
  <2>2. CASE UNCHANGED treeVars BY <2>2, ListStays DEF treeVars
  <2> QED BY <1>1, <2>1, <2>2
<1>3. candidates' = candidates /\ (Idle' <=> Idle) /\ (Getting' <=> Getting) /\ Done' = Done
  BY <1>1 DEF Idle, Getting, Packs, Done, getVars
<1>4. SeekInv' BY <1>1, <1>3 DEF PhaseInv, SeekInv
<1>5. FilterInv'
  <2>1. AreFiles(files) => AreFiles(files)'
    <3>1. PICK list : list = files OBVIOUS
    <3>2. AreFiles(list)' => AreFiles(files)' BY <1>1, <3>1 DEF AreFiles
    <3> QED BY <1>2, <3>1, <3>2
  <2> QED BY <1>1, <1>3, <2>1 DEF PhaseInv, FilterInv
<1>6. GetInv'
  <2> SUFFICES ASSUME Getting PROVE GetInv' BY <1>3 DEF GetInv
  <2>0. GetInv BY DEF PhaseInv
  <2>1. AreFiles(plan)'
    <3>1. PICK list : list = plan OBVIOUS
    <3>2. AreFiles(list)' => AreFiles(plan)' BY <1>1, <3>1 DEF AreFiles
    <3> QED BY <1>2, <2>0, <3>1, <3>2 DEF GetInv
  <2>2. /\ plan' \in Seq(candidates')
        /\ trial' \in 0..Len(plan') /\ processed' \in Nat /\ errors' \in Nat
        /\ (pc' = "get" => trial' > 0) /\ (pc' = "end" => trial' = Len(plan'))
        /\ processed' + errors' = Done'
    BY <1>1, <1>3, <2>0 DEF GetInv, getVars
  <2>3. \A q \in DOMAIN local' \cup partial' : \E j \in 1..Done' : q = Place(plan'[j])
    BY <1>1, <1>3, <2>0 DEF GetInv, getVars
  <2>4. errors' = 0 => partial' = {} /\ Settled'
    <3>1. Settled => Settled' BY <1>1, <1>3 DEF Settled, getVars
    <3> QED BY <1>1, <2>0, <3>1 DEF GetInv, getVars
  <2>5. errors' > 0 => hit' # {} \/ touched' # {} \/ Clash'
    BY <1>1, <2>0 DEF GetInv, Clash, getVars, treeVars
  <2> QED BY <2>1, <2>2, <2>3, <2>4, <2>5 DEF GetInv
<1> QED BY <1>4, <1>5, <1>6 DEF PhaseInv

\* No step breaks them.
LEMMA PhaseStep == ASSUME SearchTyped, PhaseInv, [Next]_vars PROVE PhaseInv'
<1>1. CASE Change \/ LoseSession \/ UNCHANGED vars BY <1>1, QuietPhase
<1>2. CASE Step
  <2>1. CASE Seeks BY <2>1, SeekPhase DEF PhaseInv
  <2>2. CASE NextSource BY <2>2, SourcePhase DEF PhaseInv
  <2>3. CASE FilterExists \/ FilterDir \/ FilterLink \/ FilterFile BY <2>3, FilterPhase DEF PhaseInv
  <2>4. CASE NextEntry BY <2>4, EntryPhase DEF PhaseInv
  <2>5. CASE Get BY <2>5, GetPhase DEF PhaseInv
  <2> QED BY <1>2, <2>1, <2>2, <2>3, <2>4, <2>5, SeekSteps DEF Step
<1> QED BY <1>1, <1>2 DEF Next

\* They hold at the beginning.
LEMMA InitInv == ASSUME Init PROVE IInv
<1>1. Idle BY DEF Init, Idle
<1>2. TreeInv BY DEF Init, TreeInit, TreeInv
<1> QED BY <1>1, <1>2 DEF Init, IInv, SeekInv, FilterInv, GetInv, Getting, Filtering

\* So they always hold.
LEMMA Invariance == Spec => []IInv
<1>1. Init => IInv BY InitInv
<1>2. SearchTyped /\ IInv /\ [Next]_vars => IInv' BY TreeStep, PhaseStep DEF IInv, PhaseInv
<1>3. TypeInv => SearchTyped BY DEF TypeInv, Search
<1> QED BY <1>1, <1>2, <1>3, TypeInvariance, PTL DEF Spec

\* Every entry of a host's plan is counted once; without an error every place holds the file
\* that was fetched to it last, whole, and an error has a cause: a call that has failed, a
\* change of the remote tree, or a file and a directory of one local name.
THEOREM FetchedTruly == Spec => []Fetched
<1>1. IInv => Fetched
  <2> SUFFICES ASSUME IInv, pc = "end", ~Packs PROVE Fetched BY DEF Fetched
  <2>1. GetInv /\ Getting /\ Done = trial BY DEF IInv, Getting, Done
  <2>2. plan \in Seq(candidates) /\ trial = Len(plan) /\ processed + errors = trial
    BY <2>1 DEF GetInv
  <2>3. DOMAIN plan = 1..trial BY <2>2, LenProperties
  <2>4. errors = 0 =>
          /\ partial = {}
          /\ \A i \in DOMAIN plan :
               (\A j \in i + 1..Len(plan) : Place(plan[j]) # Place(plan[i])) =>
                 Place(plan[i]) \in DOMAIN local /\ local[Place(plan[i])] = plan[i]
    BY <2>1, <2>2, <2>3 DEF GetInv, Settled
  <2> QED BY <2>1, <2>2, <2>4 DEF Fetched, GetInv
<1> QED BY <1>1, Invariance, PTL

-----------------------------------------------------------------------------
(* What a step leaves as it is                                             *)

\* No step undoes a failure or a change.
LEMMA StepTree ==
  ASSUME TypeInv, [Next]_vars
  PROVE  /\ hit \subseteq hit'
         /\ \/ UNCHANGED <<gone, touched>>
            \/ \E x : Turns(x) /\ touched' = touched \cup {x}
<1>1. ASSUME Calls PROVE hit \subseteq hit' BY <1>1 DEF Calls, CallFails, faultVars
<1>2. CASE \/ SrcDir \/ SrcNotFile \/ SrcFile \/ RootExists \/ RootDir \/ ListRoot \/ ChildFile
           \/ ChildLink \/ WalkList \/ WalkDir \/ WalkLink \/ WalkFile \/ WalkAgain
           \/ SudoDir \/ SudoRoot \/ SudoWalk
  <2>1. Calls BY <1>2, SearchCalls DEF TypeInv
  <2>2. Seeks BY <1>2, SeekSteps
  <2> QED BY <1>1, <2>1, <2>2 DEF Seeks, treeVars
<1>3. CASE NextSource BY <1>3 DEF NextSource, treeVars, faultVars
<1>4. CASE FilterExists \/ FilterDir \/ FilterLink \/ FilterFile
  <2>1. UNCHANGED faultVars \/ CallFails(Candidate)
    <3>1. CASE FilterExists BY <3>1 DEF FilterExists, Asks, Works
    <3>2. CASE FilterDir \/ FilterLink \/ FilterFile BY <3>2 DEF FilterDir, FilterLink, FilterFile, Asks, Works
    <3> QED BY <1>4, <3>1, <3>2
  <2>2. UNCHANGED treeVars BY <1>4 DEF FilterExists, FilterDir, FilterLink, FilterFile, Unfiltered
  <2> QED BY <2>1, <2>2 DEF CallFails, faultVars, treeVars
<1>5. CASE NextEntry \/ Get
  <2>1. UNCHANGED faultVars \/ CallFails(Entry) BY <1>5 DEF NextEntry, Get, Works
  <2>2. UNCHANGED treeVars BY <1>5 DEF NextEntry, Get, Unfetched
  <2> QED BY <2>1, <2>2 DEF CallFails, faultVars, treeVars
<1>6. CASE Change
  <2>1. hit' = hit BY <1>6 DEF Change, faultVars
  <2>2. PICK x \in Movable : gone' = (IF x \in gone THEN gone \ {x} ELSE gone \cup {x}) /\ touched' = touched \cup {x}
    BY <1>6 DEF Change, ChangeTree
  <2>3. Turns(x) BY <2>2 DEF Turns
  <2> QED BY <2>1, <2>2, <2>3
<1>7. CASE LoseSession \/ UNCHANGED vars BY <1>7 DEF LoseSession, vars, treeVars, faultVars
<1> QED BY <1>2, <1>3, <1>4, <1>5, <1>6, <1>7 DEF Next, Step

\* A path along which nothing has been disturbed has not been before, and nothing is found
\* there that was not.
LEMMA Steady ==
  ASSUME TypeInv, [Next]_vars, NEW p \in Path, Undisturbed(p)'
  PROVE  Undisturbed(p) /\ \A i \in 0..Len(p) : SameAt(Pre(p, i))
<1>0. Len(p) \in Nat /\ Pre(p, Len(p)) = p BY PathLen, PreAll
<1>1. /\ \A q \in hit' : ~IsPrefix(q, p)
      /\ (Follow("login", p)'.via \cup Along(p)) \cap touched' = {}
  BY DEF Undisturbed, Along
<1>2. \A q \in hit : ~IsPrefix(q, p) BY <1>1, StepTree
<1>3. CASE UNCHANGED <<gone, touched>>
  <2>1. ASSUME NEW q \in Path PROVE SameAt(q)
    <3>1. \A path : Follow("login", path)' = Follow("login", path) BY <1>3 DEF Follow, Walk1, There, May
    <3>2. PICK f, n, r : f = Front(q) /\ n = Last(q) /\ r = Follow("login", f) OBVIOUS
    <3>3. Follow("login", f)' = r BY <3>1, <3>2
    <3>4. Walk1("login", FALSE, r, n)' = Walk1("login", FALSE, r, n) BY <1>3 DEF Walk1, There, May
    <3>5. Lstat("login", q)' = Lstat("login", q)
      <4>1. CASE q = <<>> BY <4>1 DEF Lstat
      <4>2. CASE q # <<>>
        <5>1. Lstat("login", q) = KindAt(Walk1("login", FALSE, r, n)) BY <3>2, <4>2 DEF Lstat
        <5>2. Lstat("login", q)' = KindAt(Walk1("login", FALSE, Follow("login", f), n)')
          BY <3>2, <4>2 DEF Lstat, KindAt
        <5> QED BY <3>3, <3>4, <5>1, <5>2
      <4> QED BY <4>1, <4>2
    <3> QED BY <3>1, <3>5 DEF SameAt
  <2>2. \A i \in 0..Len(p) : SameAt(Pre(p, i)) BY <2>1, PreFacts
  <2>3. Follow("login", p)' = Follow("login", p) BY <2>1 DEF SameAt
  <2>4. (Follow("login", p).via \cup Along(p)) \cap touched = {} BY <1>1, <1>3, <2>3
  <2>5. Undisturbed(p) BY <1>2, <2>4 DEF Undisturbed
  <2> QED BY <2>2, <2>5
<1>4. ASSUME NEW x, Turns(x), touched' = touched \cup {x}
      PROVE  Undisturbed(p) /\ \A i \in 0..Len(p) : SameAt(Pre(p, i))
  <2>1. x \notin Follow("login", p)'.via BY <1>1, <1>4
  <2>2. ViaPrefix' BY ViaPrefixLemma, PTL
  <2>3. \A i \in 0..Len(p) : SameAt(Pre(p, i))
    <3> TAKE i \in 0..Len(p)
    <3> PICK q : q = Pre(p, i) OBVIOUS
    <3>1. q \in Path BY PreFacts
    <3>2. Follow("login", q)'.via \subseteq Follow("login", p)'.via BY <2>2 DEF ViaPrefix
    <3>3. x \notin Follow("login", q)'.via BY <2>1, <3>2
    <3> QED BY <1>4, <3>1, <3>3, SameFinds
  <2>4. SameAt(p) BY <1>0, <2>3
  <2>5. Follow("login", p)' = Follow("login", p) BY <2>4 DEF SameAt
  <2> QED BY <1>1, <1>2, <1>4, <2>3, <2>5 DEF Undisturbed
<1> QED BY <1>3, <1>4, StepTree

\* What is the same there.
LEMMA SameFacts ==
  ASSUME NEW q, SameAt(q)
  PROVE  /\ Stat("login", q)' = Stat("login", q) /\ (Listable("login", q)' <=> Listable("login", q))
         /\ (Exists(q)' <=> Exists(q)) /\ (IsDir(q)' <=> IsDir(q)) /\ (IsFile(q)' <=> IsFile(q))
         /\ (IsLink(q)' <=> IsLink(q))
<1>1. Stat("login", q)' = Stat("login", q) BY DEF SameAt, Stat, KindAt
<1>2. Listable("login", q)' <=> Listable("login", q) BY <1>1 DEF SameAt, Listable
<1>3. IsLink(q)' <=> IsLink(q) BY DEF SameAt, IsLink
<1> QED BY <1>1, <1>2, <1>3 DEF Exists, IsDir, IsFile

\* The request stays.
LEMMA RequestKept == ASSUME [Next]_vars PROVE UNCHANGED <<mode, srcs>>
<1>1. CASE \/ SrcDir \/ SrcNotFile \/ SrcFile \/ RootExists \/ RootDir \/ ListRoot \/ ChildFile
           \/ ChildLink \/ WalkList \/ WalkDir \/ WalkLink \/ WalkFile \/ WalkAgain
           \/ SudoDir \/ SudoRoot \/ SudoWalk
  <2>1. Seeks BY <1>1, SeekSteps
  <2> QED BY <2>1 DEF Seeks
<1>2. CASE NextSource BY <1>2 DEF NextSource
<1>3. CASE FilterExists \/ FilterDir \/ FilterLink \/ FilterFile
  BY <1>3 DEF FilterExists, FilterDir, FilterLink, FilterFile, Unfiltered
<1>4. CASE NextEntry \/ Get BY <1>4 DEF NextEntry, Get, Unfetched
<1>5. CASE Change \/ LoseSession \/ UNCHANGED vars BY <1>5 DEF Change, LoseSession, vars
<1> QED BY <1>1, <1>2, <1>3, <1>4, <1>5 DEF Next, Step

\* A path that a step leaves alone: no call for it or for what is above it has failed, and what
\* is found along it is the same.
Calm(p) == (\A q \in hit' : ~IsPrefix(q, p)) /\ \A i \in 0..Len(p) : SameAt(Pre(p, i))

\* It is asked for as before,
LEMMA ReachesSame ==
  ASSUME UNCHANGED mode, NEW s, Base(s) \in Path, NEW p \in Path, \A i \in 0..Len(p) : SameAt(Pre(p, i))
  PROVE  Reaches(s, p)' <=> Reaches(s, p)
<1> PICK b : b = Len(Base(s)) OBVIOUS
<1>1. Len(p) \in Nat /\ b \in Nat BY PathLen
<1>2. \A i \in b + 1..Len(p) - 1 : IsLink(SubSeq(p, 1, i))' <=> IsLink(SubSeq(p, 1, i))
  <2> TAKE i \in b + 1..Len(p) - 1
  <2>1. SameAt(Pre(p, i)) BY <1>1
  <2> QED BY <2>1, SameFacts DEF Pre
<1> QED BY <1>2 DEF Reaches, Found, Rejected, Literal, Base

\* and what is wanted has been before.
Wanted(s, p) == Reaches(s, p) /\ Eligible(p) /\ Undisturbed(p) /\ Downward(p, Len(Base(s)))
\* A step that leaves a path wanted found it wanted, and leaves it alone.
LEMMA Keeps ==
  ASSUME TypeInv, [Next]_vars, NEW i \in 1..Len(srcs), NEW p \in Path, Wanted(srcs[i], p)'
  PROVE  Wanted(srcs[i], p) /\ Calm(p)
<1>1. UNCHANGED <<mode, srcs>> BY RequestKept
<1>2. PICK s : s = srcs[i] OBVIOUS
<1>3. Base(s) \in Path BY <1>2, SrcTyped DEF TypeInv, Search, SearchTyped
<1>4. Reaches(s, p)' /\ Eligible(p)' /\ Undisturbed(p)' /\ Downward(p, Len(Base(s)))
  BY <1>1, <1>2 DEF Wanted, Downward, Base
<1>5. Undisturbed(p) /\ \A j \in 0..Len(p) : SameAt(Pre(p, j)) BY <1>4, Steady
<1>6. Reaches(s, p) BY <1>1, <1>3, <1>4, <1>5, ReachesSame
<1>7. Eligible(p)
  <2>1. SameAt(Pre(p, Len(p))) /\ Pre(p, Len(p)) = p BY <1>5, PathLen, PreAll
  <2> QED BY <1>1, <1>4, <2>1, SameFacts DEF Eligible, Packs
<1>8. \A q \in hit' : ~IsPrefix(q, p) BY <1>4 DEF Undisturbed
<1> QED BY <1>2, <1>4, <1>5, <1>6, <1>7, <1>8 DEF Wanted, Calm

\* What is the same of a path along which nothing is disturbed.
LEMMA SteadyFacts ==
  ASSUME TypeInv, [Next]_vars, NEW p \in Path, Undisturbed(p)'
  PROVE  /\ Undisturbed(p) /\ Stat("login", p)' = Stat("login", p) /\ (Eligible(p)' <=> Eligible(p))
         /\ (Exists(p)' <=> Exists(p)) /\ (IsDir(p)' <=> IsDir(p)) /\ (IsFile(p)' <=> IsFile(p))
         /\ (IsLink(p)' <=> IsLink(p))
<1>1. Undisturbed(p) /\ \A i \in 0..Len(p) : SameAt(Pre(p, i)) BY Steady
<1>2. SameAt(Pre(p, Len(p))) /\ Pre(p, Len(p)) = p BY <1>1, PathLen, PreAll
<1>3. mode' = mode BY RequestKept
<1> QED BY <1>1, <1>2, <1>3, SameFacts DEF Eligible, Packs

-----------------------------------------------------------------------------
(* Nothing wanted is missed: where the search stands with it               *)

\* What the lists still hold for a path: a directory above it, a name above it, or itself.
BelowStack(p) == \E i \in 1..Len(stack) : IsStrictPrefix(stack[i], p)
BelowNames(p, j) == \E i \in j..Len(names) : IsPrefix(dir \o names[i], p)
Later(p, j) == \E i \in j..Len(names) : p = dir \o names[i]

\* Where the search stands with a path that is wanted.
Promised(p) ==
  /\ pc \notin Seeking \ {"source"} => p \in candidates
  /\ pc = "srcNotFile" => IsDir(Src)
  /\ pc = "srcFile" => ~IsDir(Src)
  /\ rx = "exact" /\ pc \in Seeking \ {"source"} => mode = "sudo" /\ p = Src
  /\ pc = "walk" => p \in candidates \/ BelowStack(p)
  /\ pc = "walkDir" => p \in candidates \/ BelowStack(p) \/ BelowNames(p, 1)
  /\ pc \in {"walkLink", "walkFile", "walkAgain"} =>
       p \in candidates \/ BelowStack(p) \/ p = Here \/ BelowNames(p, 2)
  /\ pc = "childFile" => p \in candidates \/ Later(p, 1)
  /\ pc = "childLink" => p \in candidates \/ Later(p, 2)
  /\ pc = "sudoWalk" /\ rx = "none" => p # Src

Sought(p) == Search /\ k > 0 /\ Wanted(srcs[k], p) /\ Promised(p) /\ Calm(p)

\* A path that is wanted: it is a file, all above it as far as the SRC are directories that can
\* be listed and have the next name.
Reachable(b, p) ==
  \A q \in Path : IsPrefix(b, q) /\ IsStrictPrefix(q, p) =>
    /\ IsDir(q) /\ Listable("login", q) /\ Toward(q, p) \in Listing("login", q)
    /\ IsPrefix(q \o Toward(q, p), p) /\ q \o Toward(q, p) = Pre(p, Len(q) + 1)
\* A path sought is such a path, below the SRC.
LEMMA SoughtFacts ==
  ASSUME NEW p \in Path, Sought(p)
  PROVE  /\ k \in 1..Len(srcs) /\ Src \in Path /\ Root \in Path /\ IsPrefix(Src, p) /\ Src = Base(srcs[k])
         /\ rx # "exact" => Root = Src
         /\ rx = "exact" => Src # <<>> /\ Root = Front(Src) /\ Root = Pre(Src, Len(Src) - 1)
         /\ Follow("login", p).ok /\ Stat("login", p) = "file" /\ IsFile(p) /\ ~IsDir(p) /\ Exists(p)
         /\ p # Src => IsStrictPrefix(Src, p)
         /\ Reachable(Src, p) /\ Downward(p, Len(Src))
<1>1. SearchTyped /\ RxFits /\ k > 0 BY DEF Sought, Search, Shape, ShapeAt
<1>2. /\ k \in 1..Len(srcs) /\ Src \in Path /\ Root \in Path /\ Src = Base(srcs[k])
      /\ rx # "exact" => Root = Src
      /\ rx = "exact" => Src # <<>> /\ Root = Front(Src) /\ Root = Pre(Src, Len(Src) - 1)
  BY <1>1, RootTyped DEF Src
<1>3. Reaches(srcs[k], p) /\ Eligible(p) /\ Downward(p, Len(Src)) BY <1>2 DEF Sought, Wanted
<1>4. p = Src \/ IsStrictPrefix(Src, p) BY <1>2, <1>3 DEF Reaches
<1>5. IsPrefix(Src, p) BY <1>2, <1>4, PrefixFacts, PathLen
<1>6. IsFile(p) /\ Stat("login", p) = "file" BY <1>3 DEF Eligible, IsFile
<1>7. ~IsDir(p) /\ Exists(p) /\ Follow("login", p).ok BY <1>6, StatFacts DEF IsDir, Exists
<1>8. Reachable(Src, p)
  <2> SUFFICES ASSUME NEW q \in Path, IsPrefix(Src, q), IsStrictPrefix(q, p)
               PROVE  /\ IsDir(q) /\ Listable("login", q) /\ Toward(q, p) \in Listing("login", q)
                      /\ IsPrefix(q \o Toward(q, p), p) /\ q \o Toward(q, p) = Pre(p, Len(q) + 1)
    BY DEF Reachable
  <2>1. p[Len(q) + 1] # Up
    <3>1. PICK y : y = Len(q) + 1 OBVIOUS
    <3>2. Len(Src) <= Len(q) /\ Len(q) \in 0..Len(p) - 1 /\ Len(Src) \in Nat /\ Len(q) \in Nat /\ Len(p) \in Nat
      BY <1>2, PrefixFacts, StrictPre, PathLen
    <3>3. y \in Len(Src) + 1..Len(p) BY <3>1, <3>2
    <3> QED BY <1>3, <3>1, <3>3 DEF Downward
  <2> QED BY <1>7, <2>1, DownFacts DEF IsDir
<1> QED BY <1>2, <1>3, <1>4, <1>5, <1>6, <1>7, <1>8

\* No call for what is above it fails.
LEMMA NoFailure == ASSUME NEW p, Calm(p), NEW q, IsPrefix(q, p) PROVE ~CallFails(q)
BY DEF Calm, CallFails

\* The label after such a step.
LEMMA GotoLabel ==
  ASSUME NEW l, Goto(l) PROVE pc' = l /\ UNCHANGED <<rx, stack, dir, names, candidates>>
BY DEF Goto, walkVars

\* A step of the search leaves the tree and the request alone.
LEMMA SeekKeeps ==
  ASSUME Seeks
  PROVE  /\ UNCHANGED <<mode, srcs, k, gone>> /\ Src' = Src
         /\ \A q : (IsDir(q)' <=> IsDir(q)) /\ (IsFile(q)' <=> IsFile(q))
<1>1. UNCHANGED <<mode, srcs, k, gone>> BY DEF Seeks, treeVars
<1>2. Src' = Src BY <1>1 DEF Src, Base
<1> QED BY <1>1, <1>2, StatStays DEF IsDir, IsFile

\* What is wanted stays promised, by the actions on the SRC itself,
LEMMA PromiseSrc ==
  ASSUME NEW p \in Path, Sought(p), SrcDir \/ SrcNotFile \/ SrcFile
  PROVE  Promised(p)'
<1>1. /\ k \in 1..Len(srcs) /\ Src \in Path /\ Root \in Path /\ IsPrefix(Src, p) /\ Src = Base(srcs[k])
      /\ rx # "exact" => Root = Src
      /\ IsFile(p) /\ ~IsDir(p)
      /\ p # Src => IsStrictPrefix(Src, p)
      /\ Reachable(Src, p)
  BY SoughtFacts
<1>2. Promised(p) /\ Calm(p) /\ ShapeAt(pc) BY DEF Sought, Search, Shape
<1>3. pc \in {"srcDir", "srcNotFile", "srcFile"} BY DEF SrcDir, SrcNotFile, SrcFile
<1>4. rx = "none" /\ Root = Src BY <1>1, <1>2, <1>3 DEF ShapeAt
<1>5. Seeks BY SeekSteps
<1>6. /\ UNCHANGED <<mode, srcs, k>> /\ Src' = Src
      /\ \A q : (IsDir(q)' <=> IsDir(q)) /\ (IsFile(q)' <=> IsFile(q))
  BY <1>5, SeekKeeps
<1>7. ~CallFails(Src) BY <1>1, <1>2, NoFailure
<1>8. IsPrefix(Src, Src) BY <1>1, PrefixFacts, PathLen
<1>9. p # Src => IsDir(Src) BY <1>1, <1>8 DEF Reachable
<1>10. CASE SrcDir
  <2>1. IF IsDir(Src) THEN Goto("srcNotFile") ELSE Goto("srcFile") BY <1>7, <1>10 DEF SrcDir, Asks
  <2>2. rx' = "none" /\ (IF IsDir(Src) THEN pc' = "srcNotFile" ELSE pc' = "srcFile") BY <1>4, <2>1, GotoLabel
  <2> QED BY <1>6, <2>2 DEF Promised, Seeking
<1>11. CASE SrcNotFile
  <2>1. pc = "srcNotFile" BY <1>11 DEF SrcNotFile
  <2>2. IsDir(Src) BY <1>2, <2>1 DEF Promised
  <2>3. ~IsFile(Src) BY <2>2 DEF IsDir, IsFile
  <2>4. StartWalk BY <1>7, <1>11, <2>3 DEF SrcNotFile, Asks
  <2>5. pc' = "walk" /\ stack' = <<Src>> /\ rx' = "none" BY <1>4, <2>4 DEF StartWalk
  <2>6. IsStrictPrefix(Src, p) BY <1>1, <2>2
  <2>7. BelowStack(p)'
    <3>1. Len(<<Src>>) = 1 /\ <<Src>>[1] = Src /\ 1 \in 1..1 OBVIOUS
    <3> QED BY <2>5, <2>6, <3>1 DEF BelowStack
  <2> QED BY <2>5, <2>7 DEF Promised, Seeking
<1>12. CASE SrcFile
  <2>1. pc = "srcFile" BY <1>12 DEF SrcFile
  <2>2. ~IsDir(Src) BY <1>2, <2>1 DEF Promised
  <2>3. p = Src BY <1>9, <2>2
  <2>4. TakeSrc BY <1>1, <1>7, <1>12, <2>3 DEF SrcFile, Asks
  <2>5. pc' = "source" /\ p \in candidates' BY <2>3, <2>4 DEF TakeSrc
  <2> QED BY <2>5 DEF Promised, Seeking
<1> QED BY <1>10, <1>11, <1>12

\* those on its root,
LEMMA PromiseRoot ==
  ASSUME NEW p \in Path, Sought(p), RootExists \/ RootDir
  PROVE  Promised(p)'
<1>1. /\ k \in 1..Len(srcs) /\ Src \in Path /\ Root \in Path /\ IsPrefix(Src, p) /\ Src = Base(srcs[k])
      /\ rx # "exact" => Root = Src
      /\ p # Src => IsStrictPrefix(Src, p)
      /\ Reachable(Src, p)
  BY SoughtFacts
<1>2. Promised(p) /\ Calm(p) /\ ShapeAt(pc) /\ rx \in {"none", "exact", "tail"} /\ Wanted(srcs[k], p)
  BY DEF Sought, Search, SearchTyped, Shape
<1>3. pc \in {"rootExists", "rootDir"} BY DEF RootExists, RootDir
<1>4. mode # "sudo" /\ rx # "none" BY <1>2, <1>3 DEF ShapeAt, Seeking, SudoLabels
<1>5. rx = "tail" /\ Root = Src
  <2>1. rx # "exact" BY <1>2, <1>3, <1>4 DEF Promised, Seeking
  <2> QED BY <1>1, <1>2, <1>4, <2>1
<1>6. p # Src
  <2>1. ~Literal(srcs[k]) BY <1>2, <1>5 DEF ShapeAt, RxFits
  <2>2. IsStrictPrefix(Base(srcs[k]), p) BY <1>2, <2>1 DEF Wanted, Reaches
  <2> QED BY <1>1, <2>2, PrefixFacts, PathLen
<1>7. ~CallFails(Root) BY <1>1, <1>2, <1>5, NoFailure
<1>8. IsPrefix(Src, Src) BY <1>1, PrefixFacts, PathLen
<1>9. IsDir(Root) /\ Exists(Root) BY <1>1, <1>5, <1>6, <1>8 DEF Reachable, IsDir, Exists
<1>10. CASE RootExists
  <2>1. Goto("rootDir") BY <1>7, <1>9, <1>10 DEF RootExists, Asks
  <2>2. pc' = "rootDir" /\ rx' = "tail" BY <1>5, <2>1, GotoLabel
  <2> QED BY <2>2 DEF Promised, Seeking
<1>11. CASE RootDir
  <2>1. IF Shallow THEN Goto("list") ELSE StartWalk BY <1>7, <1>9, <1>11 DEF RootDir, Asks
  <2>2. CASE Shallow
    <3>1. pc' = "list" /\ rx' = "tail" BY <1>5, <2>1, <2>2, GotoLabel
    <3> QED BY <3>1 DEF Promised, Seeking
  <2>3. CASE ~Shallow
    <3>1. pc' = "walk" /\ stack' = <<Src>> /\ rx' = "tail" BY <1>5, <2>1, <2>3 DEF StartWalk
    <3>2. BelowStack(p)'
      <4>1. Len(<<Src>>) = 1 /\ <<Src>>[1] = Src /\ 1 \in 1..1 OBVIOUS
      <4> QED BY <1>1, <1>6, <3>1, <4>1 DEF BelowStack
    <3> QED BY <3>1, <3>2 DEF Promised, Seeking
  <2> QED BY <2>2, <2>3
<1> QED BY <1>10, <1>11

\* A name of a directory is in the sorted list of them.
LEMMA InListing ==
  ASSUME NEW user, NEW q, NEW S, S \subseteq Listing(user, q), NEW name \in S
  PROVE  \E i \in 1..Len(Sorted(S)) : Sorted(S)[i] = name
<1>1. S \subseteq Path /\ IsFiniteSet(S) BY ListingFacts, FS_Subset
<1>2. PICK s : s = Sorted(S) OBVIOUS
<1>3. s \in Seq(S) /\ ToSet(s) = S BY <1>1, <1>2, SortedFacts
<1>4. DOMAIN s = 1..Len(s) BY <1>3, LenProperties
<1> QED BY <1>2, <1>3, <1>4 DEF ToSet

\* by the listing of the root,
LEMMA PromiseList ==
  ASSUME NEW p \in Path, Sought(p), ListRoot
  PROVE  Promised(p)'
<1>1. /\ k \in 1..Len(srcs) /\ Src \in Path /\ Root \in Path /\ IsPrefix(Src, p) /\ Src = Base(srcs[k])
      /\ rx # "exact" => Root = Src
      /\ Reachable(Src, p)
  BY SoughtFacts
<1>2. /\ Promised(p) /\ Calm(p) /\ ShapeAt(pc) /\ rx \in {"none", "exact", "tail"} /\ Wanted(srcs[k], p)
      /\ SearchTyped
  BY DEF Sought, Search, SearchTyped, Shape
<1>3. pc = "list" BY DEF ListRoot
<1>4. mode # "sudo" /\ rx # "none" /\ Shallow BY <1>2, <1>3 DEF ShapeAt, Seeking, SudoLabels
<1>5. rx = "tail" /\ Root = Src
  <2>1. rx # "exact" BY <1>2, <1>3, <1>4 DEF Promised, Seeking
  <2> QED BY <1>1, <1>2, <1>4, <2>1
<1>6. Len(srcs[k].tail) = 1 BY <1>4, <1>5 DEF Shallow
<1>7. PICK rel : rel = Rest(p, Len(Src)) OBVIOUS
<1>8. IsStrictPrefix(Src, p) /\ Found(srcs[k].tail, rel) /\ Len(rel) = 1
  <2>1. ~Literal(srcs[k]) BY <1>2, <1>5 DEF ShapeAt, RxFits
  <2>2. Reaches(srcs[k], p) /\ rel = SubSeq(p, Len(Src) + 1, Len(p)) BY <1>2, <1>7 DEF Wanted, Rest
  <2> QED BY <1>1, <1>4, <1>6, <2>1, <2>2 DEF Reaches
<1>9. PICK name : name = Toward(Src, p) OBVIOUS
<1>10. IsPrefix(Src, Src) BY <1>1, PrefixFacts, PathLen
<1>11. Listable("login", Src) /\ name \in Listing("login", Src) /\ Src \o name = Pre(p, Len(Src) + 1)
  BY <1>1, <1>8, <1>9, <1>10 DEF Reachable
<1>12. name \in Path /\ Len(name) = 1 BY <1>11, ListingFacts
<1>13. Len(Src) \in 0..Len(p) /\ Len(p) \in Nat /\ Len(Src) \in Nat BY <1>1, <1>8, StrictPre, PathLen
<1>14. rel \in Path /\ Len(rel) = Len(p) - Len(Src) /\ \A j \in 1..Len(p) - Len(Src) : rel[j] = p[Len(Src) + j]
  BY <1>7, <1>13, RestFacts
<1>15. Len(p) = Len(Src) + 1
  <2>1. PICK lp, ls : lp = Len(p) /\ ls = Len(Src) OBVIOUS
  <2>2. lp \in Nat /\ ls \in Nat /\ 1 = lp - ls BY <1>8, <1>13, <1>14, <2>1
  <2>3. lp = ls + 1 BY <2>2
  <2> QED BY <2>1, <2>3
<1>16. rel = name
  <2>1. rel[1] = p[Len(Src) + 1] BY <1>14, <1>15
  <2>2. name[1] = p[Len(Src) + 1] BY <1>9 DEF Toward
  <2>3. \A j \in 1..Len(rel) : rel[j] = name[j] BY <1>8, <2>1, <2>2
  <2> QED BY <1>8, <1>12, <1>14, <2>3, PathEqual
<1>17. Src \o name = p BY <1>11, <1>15, PreAll
<1>18. Matches(name) BY <1>5, <1>8, <1>16 DEF Matches
<1>19. ~CallFails(Src) BY <1>1, <1>2, NoFailure
<1> DEFINE S == {x \in Listing("login", Src) : Matches(x)}
<1>20. dir' = Src /\ names' = Sorted(S) /\ pc' = "childFile" /\ rx' = rx
  <2>1. ~CannotList(Root) BY <1>5, <1>11, <1>19 DEF CannotList
  <2> QED BY <1>5, <2>1 DEF ListRoot
<1>21. Later(p, 1)'
  <2>1. name \in S /\ S \subseteq Listing("login", Src) BY <1>11, <1>18
  <2> HIDE DEF S
  <2>2. PICK i \in 1..Len(Sorted(S)) : Sorted(S)[i] = name BY <2>1, InListing
  <2> QED BY <1>17, <1>20, <2>2 DEF Later
<1> QED BY <1>5, <1>20, <1>21 DEF Promised, Seeking

\* Looking at the next name.
LEMMA NamesKept ==
  ASSUME SearchTyped, names # <<>>, OneName(names), NEW p
  PROVE  /\ Later(p, 1) => p = Here \/ Later(p, 2)
         /\ BelowNames(p, 1) => IsPrefix(Here, p) \/ BelowNames(p, 2)
         /\ names' = Tail(names) /\ dir' = dir =>
              (Later(p, 2) => Later(p, 1)') /\ (BelowNames(p, 2) => BelowNames(p, 1)')
<1> PICK n : n = Len(names) OBVIOUS
<1>1. /\ Head(names) = names[1] /\ n \in Nat \ {0} /\ Len(Tail(names)) = n - 1
      /\ \A i \in 1..Len(Tail(names)) : Tail(names)[i] = names[i + 1]
  BY HereTyped
<1>2. dir \o names[1] = Here BY <1>1 DEF Here
<1>3. \A i \in 1..n : i = 1 \/ i \in 2..n BY <1>1
<1>4. Later(p, 1) => p = Here \/ Later(p, 2) BY <1>2, <1>3 DEF Later
<1>5. BelowNames(p, 1) => IsPrefix(Here, p) \/ BelowNames(p, 2) BY <1>2, <1>3 DEF BelowNames
<1>6. ASSUME names' = Tail(names), dir' = dir, NEW i \in 2..n
      PROVE  \E j \in 1..Len(names') : dir' \o names'[j] = dir \o names[i]
  <2>1. PICK j : j = i - 1 OBVIOUS
  <2>2. j \in 1..n - 1 /\ j + 1 = i BY <1>1, <2>1
  <2>3. j \in 1..Len(Tail(names)) BY <1>1, <2>2
  <2>4. Tail(names)[j] = names[i] BY <1>1, <2>2, <2>3
  <2> QED BY <1>6, <2>3, <2>4
<1>7. ASSUME names' = Tail(names), dir' = dir, Later(p, 2) PROVE Later(p, 1)'
  <2>1. PICK i \in 2..n : p = dir \o names[i] BY <1>7 DEF Later
  <2> QED BY <1>6, <1>7, <2>1 DEF Later
<1>8. ASSUME names' = Tail(names), dir' = dir, BelowNames(p, 2) PROVE BelowNames(p, 1)'
  <2>1. PICK i \in 2..n : IsPrefix(dir \o names[i], p) BY <1>8 DEF BelowNames
  <2>2. PICK j \in 1..Len(names') : dir' \o names'[j] = dir \o names[i] BY <1>6, <1>8
  <2>3. IsPrefix(dir' \o names'[j], p) BY <2>1, <2>2
  <2> QED BY <2>3 DEF BelowNames
<1> QED BY <1>4, <1>5, <1>7, <1>8

\* No name is left.
LEMMA NoNames == ASSUME names = <<>>, NEW p PROVE ~Later(p, 1) /\ ~BelowNames(p, 1)
<1>1. Len(names) = 0 OBVIOUS
<1> QED BY <1>1 DEF Later, BelowNames

\* What such steps do.
LEMMA TakeSkip ==
  ASSUME NEW l
  PROVE  /\ Take(l) => /\ pc' = l /\ names' = Tail(names) /\ candidates' = candidates \cup {Here}
                       /\ UNCHANGED <<rx, stack, dir>>
         /\ Skip(l) => pc' = l /\ names' = Tail(names) /\ UNCHANGED <<rx, stack, dir, candidates>>
BY DEF Take, Skip, Here

\* by what is asked about the names in it,
LEMMA PromiseChild ==
  ASSUME NEW p \in Path, Sought(p), ChildFile \/ ChildLink
  PROVE  Promised(p)'
<1>1. IsFile(p) /\ IsPrefix(p, p) BY SoughtFacts, PrefixFacts, PathLen
<1>2. Promised(p) /\ Calm(p) /\ ShapeAt(pc) /\ rx \in {"none", "exact", "tail"} /\ SearchTyped
  BY DEF Sought, Search, SearchTyped, Shape
<1>3. pc \in {"childFile", "childLink"} BY DEF ChildFile, ChildLink
<1>4. rx = "tail"
  <2>1. mode # "sudo" /\ rx # "none" BY <1>2, <1>3 DEF ShapeAt, Seeking, SudoLabels
  <2> QED BY <1>2, <1>3, <2>1 DEF Promised, Seeking
<1>5. ~CallFails(p) BY <1>1, <1>2, NoFailure
<1>6. ASSUME names # <<>>, p \in candidates \/ p = Here \/ Later(p, 2),
             Take("childFile") \/ (Skip("childFile") /\ p # Here)
      PROVE  Promised(p)'
  <2>1. OneName(names) BY <1>2 DEF ShapeAt
  <2>2. /\ pc' = "childFile" /\ names' = Tail(names) /\ dir' = dir /\ rx' = rx
        /\ candidates \subseteq candidates' /\ (p = Here => p \in candidates')
    BY <1>6, TakeSkip
  <2>3. Later(p, 2) => Later(p, 1)' BY <1>2, <1>6, <2>1, <2>2, NamesKept
  <2>4. p \in candidates' \/ Later(p, 1)' BY <1>6, <2>2, <2>3
  <2> QED BY <1>4, <2>2, <2>4 DEF Promised, Seeking
<1>7. CASE ChildFile
  <2>1. pc = "childFile" BY <1>7 DEF ChildFile
  <2>2. p \in candidates \/ Later(p, 1) BY <1>2, <2>1 DEF Promised
  <2>3. CASE names = <<>>
    <3>1. Goto("source") BY <1>7, <2>3 DEF ChildFile
    <3>2. pc' = "source" /\ candidates' = candidates BY <3>1, GotoLabel
    <3>3. p \in candidates BY <2>2, <2>3, NoNames
    <3> QED BY <3>2, <3>3 DEF Promised, Seeking
  <2>4. CASE names # <<>>
    <3>1. Asks(Here, IsFile(Here), Take("childFile"), IF Packs THEN Goto("childLink") ELSE Skip("childFile"))
      BY <1>7, <2>1, <2>4 DEF ChildFile
    <3>2. OneName(names) BY <1>2 DEF ShapeAt
    <3>3. p \in candidates \/ p = Here \/ Later(p, 2) BY <1>2, <2>2, <2>4, <3>2, NamesKept
    <3>4. p = Here => Take("childFile") BY <1>1, <1>5, <3>1 DEF Asks
    <3>5. Take("childFile") \/ Goto("childLink") \/ Skip("childFile") BY <3>1 DEF Asks
    <3>6. CASE p # Here /\ Goto("childLink")
      <4>1. pc' = "childLink" /\ UNCHANGED <<rx, stack, dir, names, candidates>> BY <3>6, GotoLabel
      <4>2. Later(p, 2) => Later(p, 2)' BY <4>1 DEF Later
      <4> QED BY <1>4, <3>3, <3>6, <4>1, <4>2 DEF Promised, Seeking
    <3> QED BY <1>6, <2>4, <3>3, <3>4, <3>5, <3>6
  <2> QED BY <2>3, <2>4
<1>8. CASE ChildLink
  <2>1. pc = "childLink" BY <1>8 DEF ChildLink
  <2>2. p \in candidates \/ Later(p, 2) BY <1>2, <2>1 DEF Promised
  <2>3. names # <<>> BY <1>2, <2>1 DEF ShapeAt
  <2>4. Take("childFile") \/ Skip("childFile") BY <1>8 DEF ChildLink, Asks
  <2>5. CASE p # Here \/ Take("childFile") BY <1>6, <2>2, <2>3, <2>4, <2>5
  <2>6. CASE p = Here /\ Skip("childFile")
    <3>1. OneName(names) BY <1>2, <2>1 DEF ShapeAt
    <3>2. /\ pc' = "childFile" /\ names' = Tail(names) /\ dir' = dir /\ rx' = rx /\ candidates' = candidates
      BY <2>6, TakeSkip
    <3>3. Later(p, 2) => Later(p, 1)' BY <1>2, <2>3, <3>1, <3>2, NamesKept
    <3> QED BY <1>4, <2>2, <3>2, <3>3 DEF Promised, Seeking
  <2> QED BY <2>4, <2>5, <2>6
<1> QED BY <1>7, <1>8

\* Where a walk is below the SRC, with a path that is wanted.
LEMMA WalkSought ==
  ASSUME NEW p \in Path, Sought(p), pc \in DirLabels \cup {"walk"}
  PROVE  /\ Src \in Path /\ Root = Src /\ rx # "exact" /\ rx \in {"none", "tail"} /\ IsPrefix(p, p)
         /\ IsFile(p) /\ ~IsDir(p) /\ Reachable(Src, p) /\ Promised(p) /\ Calm(p) /\ SearchTyped /\ OneName(names)
         /\ BelowRoot(stack) /\ (pc # "walk" => IsPrefix(Src, dir)) /\ dir \in Path
         /\ pc \in {"walkLink", "walkFile", "walkAgain"} => names # <<>>
         /\ rx = "tail" => Found(srcs[k].tail, RelTo(p))
<1>1. /\ k \in 1..Len(srcs) /\ Src \in Path /\ IsPrefix(Src, p) /\ Src = Base(srcs[k])
      /\ rx # "exact" => Root = Src
      /\ IsFile(p) /\ ~IsDir(p) /\ Reachable(Src, p)
  BY SoughtFacts
<1>2. /\ Promised(p) /\ Calm(p) /\ ShapeAt(pc) /\ rx \in {"none", "exact", "tail"} /\ Wanted(srcs[k], p)
      /\ SearchTyped /\ dir \in Path
  BY DEF Sought, Search, SearchTyped, Shape
<1>3. mode # "sudo" BY <1>2 DEF ShapeAt, Seeking, SudoLabels, DirLabels
<1>4. rx # "exact" BY <1>2, <1>3 DEF Promised, Seeking, DirLabels
<1>5. IsPrefix(p, p) BY PrefixFacts, PathLen
<1>6. /\ OneName(names) /\ BelowRoot(stack) /\ (pc # "walk" => IsPrefix(Root, dir))
      /\ pc \in {"walkLink", "walkFile", "walkAgain"} => names # <<>>
  BY <1>2 DEF ShapeAt, DirLabels
<1>7. rx = "tail" => Found(srcs[k].tail, RelTo(p))
  <2> SUFFICES ASSUME rx = "tail" PROVE Found(srcs[k].tail, RelTo(p)) OBVIOUS
  <2>1. ~Literal(srcs[k]) BY <1>2 DEF ShapeAt, RxFits
  <2>2. Found(srcs[k].tail, SubSeq(p, Len(Base(srcs[k])) + 1, Len(p))) BY <1>2, <2>1 DEF Wanted, Reaches
  <2> QED BY <1>1, <1>4, <2>2 DEF RelTo
<1> QED BY <1>1, <1>2, <1>4, <1>5, <1>6, <1>7

\* by the listing of the next directory,
LEMMA PromiseWalkList ==
  ASSUME NEW p \in Path, Sought(p), WalkList
  PROVE  Promised(p)'
<1>1. pc = "walk" BY DEF WalkList
<1>2. /\ Src \in Path /\ Root = Src /\ rx \in {"none", "tail"} /\ Reachable(Src, p) /\ Promised(p) /\ Calm(p)
      /\ BelowRoot(stack) /\ SearchTyped
  BY <1>1, WalkSought
<1>3. p \in candidates \/ BelowStack(p) BY <1>1, <1>2 DEF Promised
<1>4. CASE stack = <<>>
  <2>1. pc' = "source" /\ candidates' = candidates BY <1>4, GotoLabel DEF WalkList
  <2>2. ~BelowStack(p)
    <3>1. Len(stack) = 0 BY <1>4
    <3> QED BY <3>1 DEF BelowStack
  <2> QED BY <1>3, <2>1, <2>2 DEF Promised, Seeking
<1>5. CASE stack # <<>>
  <2> PICK d, n : d = Last(stack) /\ n = Len(stack) OBVIOUS
  <2>1. /\ stack' = Front(stack) /\ dir' = d /\ rx' = rx /\ candidates' = candidates
        /\ \/ Listable("login", d) /\ names' = Sorted(Listing("login", d)) /\ pc' = "walkDir"
           \/ CannotList(d) /\ pc' = "walk" /\ UNCHANGED names
    BY <1>1, <1>5 DEF WalkList
  <2>2. stack \in Seq(Path) BY <1>2 DEF SearchTyped
  <2>3. /\ n \in Nat \ {0} /\ Len(Front(stack)) = n - 1 /\ d = stack[n] /\ d \in Path
        /\ \A i \in 1..Len(Front(stack)) : Front(stack)[i] = stack[i]
    BY <1>5, <2>2, ListEnds
  <2>4. CASE p \in candidates BY <1>2, <2>1, <2>4 DEF Promised, Seeking
  <2>5. ASSUME NEW i \in 1..n - 1, IsStrictPrefix(stack[i], p) PROVE Promised(p)'
    <3>1. i \in 1..Len(stack') /\ stack'[i] = stack[i] BY <2>1, <2>3
    <3>2. BelowStack(p)' BY <2>5, <3>1 DEF BelowStack
    <3> QED BY <1>2, <2>1, <3>2 DEF Promised, Seeking
  <2>6. CASE IsStrictPrefix(d, p)
    <3>1. IsPrefix(Src, d)
      <4>1. n \in 1..n BY <2>3
      <4> QED BY <1>2, <2>3, <4>1 DEF BelowRoot
    <3>2. PICK name : name = Toward(d, p) OBVIOUS
    <3>3. Listable("login", d) /\ name \in Listing("login", d) /\ IsPrefix(d \o name, p)
      BY <1>2, <2>3, <2>6, <3>1, <3>2 DEF Reachable
    <3>4. ~CannotList(d) BY <1>2, <2>6, <3>3, NoFailure DEF CannotList, IsStrictPrefix
    <3>5. names' = Sorted(Listing("login", d)) /\ pc' = "walkDir" BY <2>1, <3>4
    <3>6. PICK j \in 1..Len(Sorted(Listing("login", d))) : Sorted(Listing("login", d))[j] = name BY <3>3, InListing
    <3>7. BelowNames(p, 1)' BY <2>1, <3>3, <3>5, <3>6 DEF BelowNames
    <3> QED BY <1>2, <2>1, <3>5, <3>7 DEF Promised, Seeking
  <2>7. ASSUME BelowStack(p) PROVE Promised(p)'
    <3>1. PICK i \in 1..n : IsStrictPrefix(stack[i], p) BY <2>7 DEF BelowStack
    <3>2. i = n \/ i \in 1..n - 1 BY <2>3
    <3> QED BY <2>3, <2>5, <2>6, <3>1, <3>2
  <2> QED BY <1>3, <2>4, <2>7
<1> QED BY <1>4, <1>5

\* The directories to walk stay, and one is added.
LEMMA StackKept ==
  ASSUME stack \in Seq(Path), NEW p
  PROVE  /\ stack' = stack => (BelowStack(p) => BelowStack(p)')
         /\ \A q \in Path : stack' = Append(stack, q) => (BelowStack(p) \/ IsStrictPrefix(q, p) => BelowStack(p)')
<1>1. ASSUME NEW q \in Path, stack' = Append(stack, q), BelowStack(p) \/ IsStrictPrefix(q, p) PROVE BelowStack(p)'
  <2>1. /\ Len(stack) \in Nat /\ Len(Append(stack, q)) = Len(stack) + 1
        /\ \A i \in 1..Len(stack) : Append(stack, q)[i] = stack[i]
        /\ Append(stack, q)[Len(stack) + 1] = q
    BY AppendProperties, LenProperties
  <2>2. Len(stack) + 1 \in 1..Len(stack') /\ \A i \in 1..Len(stack) : i \in 1..Len(stack') BY <1>1, <2>1
  <2>3. CASE BelowStack(p)
    <3>1. PICK i \in 1..Len(stack) : IsStrictPrefix(stack[i], p) BY <2>3 DEF BelowStack
    <3>2. i \in 1..Len(stack') /\ stack'[i] = stack[i] BY <1>1, <2>1, <2>2
    <3> QED BY <3>1, <3>2 DEF BelowStack
  <2>4. CASE IsStrictPrefix(q, p)
    <3>1. stack'[Len(stack) + 1] = q BY <1>1, <2>1
    <3>2. PICK i \in 1..Len(stack') : stack'[i] = q BY <2>2, <3>1
    <3> QED BY <2>4, <3>2 DEF BelowStack
  <2> QED BY <1>1, <2>3, <2>4
<1> QED BY <1>1 DEF BelowStack

\* by the question whether a name is a directory,
LEMMA PromiseWalkDir ==
  ASSUME NEW p \in Path, Sought(p), WalkDir
  PROVE  Promised(p)'
<1>1. pc = "walkDir" BY DEF WalkDir
<1>2. /\ Src \in Path /\ rx \in {"none", "tail"} /\ ~IsDir(p) /\ Reachable(Src, p) /\ Promised(p) /\ Calm(p)
      /\ SearchTyped /\ OneName(names) /\ IsPrefix(Src, dir) /\ dir \in Path /\ stack \in Seq(Path)
  BY <1>1, WalkSought DEF DirLabels, SearchTyped
<1>3. p \in candidates \/ BelowStack(p) \/ BelowNames(p, 1) BY <1>1, <1>2 DEF Promised
<1>4. CASE names = <<>>
  <2>1. pc' = "walk" /\ UNCHANGED <<rx, stack, dir, names, candidates>> BY <1>4, GotoLabel DEF WalkDir
  <2>2. ~BelowNames(p, 1) BY <1>4, NoNames
  <2>3. BelowStack(p) => BelowStack(p)' BY <1>2, <2>1, StackKept
  <2> QED BY <1>2, <1>3, <2>1, <2>2, <2>3 DEF Promised, Seeking
<1>5. CASE names # <<>>
  <2> PICK l : l = (IF Packs /\ rx # "none" THEN "walkLink" ELSE "walkFile") OBVIOUS
  <2>1. \/ IsDir(Here) /\ Push
        \/ (~IsDir(Here) \/ CallFails(Here)) /\ Goto(l)
    BY <1>5 DEF WalkDir, Asks
  <2>2. Here \in Path /\ IsPrefix(Src, Here) BY <1>2, <1>5, HereTyped
  <2>3. p \in candidates \/ BelowStack(p) \/ IsPrefix(Here, p) \/ BelowNames(p, 2) BY <1>2, <1>3, <1>5, NamesKept
  <2>4. IsPrefix(Here, p) /\ p # Here => IsStrictPrefix(Here, p) /\ IsDir(Here)
    BY <1>2, <2>2 DEF Reachable, IsStrictPrefix
  <2>5. CASE IsDir(Here) /\ Push
    <3>1. /\ pc' = "walkDir" /\ stack' = Append(stack, Here) /\ names' = Tail(names)
          /\ UNCHANGED <<rx, dir, candidates>>
      BY <2>5 DEF Push
    <3>2. BelowNames(p, 2) => BelowNames(p, 1)' BY <1>2, <1>5, <3>1, NamesKept
    <3>3. p # Here BY <1>2, <2>5
    <3>4. BelowStack(p) \/ IsStrictPrefix(Here, p) => BelowStack(p)' BY <1>2, <2>2, <3>1, StackKept
    <3> QED BY <1>2, <2>3, <2>4, <3>1, <3>2, <3>3, <3>4 DEF Promised, Seeking
  <2>6. CASE (~IsDir(Here) \/ CallFails(Here)) /\ Goto(l)
    <3>1. pc' = l /\ UNCHANGED <<rx, stack, dir, names, candidates>> BY <2>6, GotoLabel
    <3>2. BelowStack(p) => BelowStack(p)' BY <1>2, <3>1, StackKept
    <3>3. BelowNames(p, 2) => BelowNames(p, 2)' BY <3>1 DEF BelowNames
    <3>4. Here' = Here BY <3>1 DEF Here
    <3>5. IsPrefix(Here, p) => p = Here BY <1>2, <2>4, <2>6, NoFailure
    <3>6. l \in {"walkLink", "walkFile"} OBVIOUS
    <3> QED BY <1>2, <2>3, <3>1, <3>2, <3>3, <3>4, <3>5, <3>6 DEF Promised, Seeking
  <2> QED BY <2>1, <2>5, <2>6
<1> QED BY <1>4, <1>5

\* and by what is asked about one that is none.
LEMMA PromiseWalk ==
  ASSUME NEW p \in Path, Sought(p), WalkLink \/ WalkFile \/ WalkAgain
  PROVE  Promised(p)'
<1>1. pc \in {"walkLink", "walkFile", "walkAgain"} BY DEF WalkLink, WalkFile, WalkAgain
<1>2. /\ rx \in {"none", "tail"} /\ IsFile(p) /\ IsPrefix(p, p) /\ Promised(p) /\ Calm(p)
      /\ SearchTyped /\ OneName(names) /\ stack \in Seq(Path) /\ names # <<>>
      /\ rx = "tail" => Found(srcs[k].tail, RelTo(p))
  BY <1>1, WalkSought DEF DirLabels, SearchTyped
<1>3. p \in candidates \/ BelowStack(p) \/ p = Here \/ BelowNames(p, 2) BY <1>1, <1>2 DEF Promised
<1>4. ~CallFails(p) BY <1>2, NoFailure
<1>5. ASSUME Take("walkDir") \/ (Skip("walkDir") /\ p # Here) PROVE Promised(p)'
  <2>1. /\ pc' = "walkDir" /\ names' = Tail(names) /\ UNCHANGED <<rx, stack, dir>>
        /\ candidates \subseteq candidates' /\ (p = Here => p \in candidates')
    BY <1>5, TakeSkip
  <2>2. BelowNames(p, 2) => BelowNames(p, 1)' BY <1>2, <2>1, NamesKept
  <2>3. BelowStack(p) => BelowStack(p)' BY <1>2, <2>1, StackKept
  <2> QED BY <1>2, <1>3, <2>1, <2>2, <2>3 DEF Promised, Seeking
<1>6. ASSUME NEW l \in {"walkFile", "walkAgain"}, Goto(l) PROVE Promised(p)'
  <2>1. pc' = l /\ UNCHANGED <<rx, stack, dir, names, candidates>> BY <1>6, GotoLabel
  <2>2. BelowStack(p) => BelowStack(p)' BY <1>2, <2>1, StackKept
  <2>3. BelowNames(p, 2) => BelowNames(p, 2)' BY <2>1 DEF BelowNames
  <2>4. Here' = Here BY <2>1 DEF Here
  <2> QED BY <1>2, <1>3, <2>1, <2>2, <2>3, <2>4 DEF Promised, Seeking
<1>7. ASSUME Yield PROVE Promised(p)'
  <2>1. CASE rx = "none" BY <1>6, <1>7, <2>1 DEF Yield
  <2>2. CASE rx = "tail"
    <3>1. p = Here => Matches(RelTo(Here)) BY <1>2, <2>2 DEF Matches
    <3>2. Take("walkDir") \/ (Skip("walkDir") /\ p # Here) BY <1>7, <2>2, <3>1 DEF Yield
    <3> QED BY <1>5, <3>2
  <2> QED BY <1>2, <2>1, <2>2
<1>8. CASE WalkLink
  <2>1. Yield \/ Goto("walkFile") BY <1>8 DEF WalkLink, Asks
  <2> QED BY <1>6, <1>7, <2>1
<1>9. CASE WalkFile
  <2>1. Yield \/ (Skip("walkDir") /\ p # Here) BY <1>2, <1>4, <1>9 DEF WalkFile, Asks
  <2> QED BY <1>5, <1>7, <2>1
<1>10. CASE WalkAgain
  <2>1. Take("walkDir") \/ (Skip("walkDir") /\ p # Here) BY <1>2, <1>4, <1>10 DEF WalkAgain, Asks
  <2> QED BY <1>5, <2>1
<1> QED BY <1>8, <1>9, <1>10

\* A file is the last name of its path in the directory above it.
LEMMA FileIn ==
  ASSUME NEW p \in Path, Stat("login", p) = "file"
  PROVE  /\ p # <<>> /\ Last(p) # Up /\ Stat("login", Front(p)) = "dir" /\ IsStrictPrefix(Front(p), p)
         /\ Downward(p, Len(Front(p))) /\ LinkFree(p, Len(Front(p)))
<1>1. p # <<>>
  <2>1. Follow("login", <<>>) = Start BY EmptyPath, FollowLemma DEF FollowByNames
  <2>2. Stat("login", <<>>) = "dir" BY <2>1 DEF Stat, KindAt, Start
  <2> QED BY <2>2
<1>2. Follow("login", p).ok BY StatFacts
<1>3. Last(p) # Up BY <1>1, <1>2, UpIsDir
<1>4. Stat("login", Front(p)) = "dir" BY <1>1, <1>2, <1>3, EntryFacts
<1>5. Front(p) \in Path /\ Len(p) \in Nat \ {0} /\ Len(Front(p)) = Len(p) - 1 /\ Last(p) = p[Len(p)]
      /\ Front(p) = Pre(p, Len(p) - 1)
  BY <1>1, FrontFacts
<1> PICK f, n : f = Front(p) /\ n = Len(p) OBVIOUS
<1>6. f \in Path /\ n \in Nat \ {0} /\ Len(f) = n - 1 /\ f = Pre(p, n - 1) BY <1>5
<1>7. IsStrictPrefix(f, p)
  <2>1. Len(f) <= Len(p) /\ Len(f) < Len(p) /\ Pre(p, Len(f)) = f BY <1>6
  <2> QED BY <1>6, <2>1, PrefixFacts
<1>8. Downward(p, n - 1)
  <2>1. ASSUME NEW i \in n - 1 + 1..n PROVE i = n BY <1>6
  <2> QED BY <1>3, <1>5, <2>1 DEF Downward
<1>9. LinkFree(p, n - 1)
  <2>1. ASSUME NEW i \in n - 1 + 1..n - 1 PROVE FALSE BY <1>6
  <2> QED BY <2>1 DEF LinkFree
<1> QED BY <1>1, <1>3, <1>4, <1>6, <1>7, <1>8, <1>9

\* The rest of a path after all but its last name.
LEMMA RestLast ==
  ASSUME NEW p \in Path, p # <<>>
  PROVE  Rest(p, Len(Front(p))) = <<Last(p)>>
<1>1. Len(p) \in Nat \ {0} /\ Len(Front(p)) = Len(p) - 1 /\ Last(p) = p[Len(p)] /\ Last(p) \in ToSet(Names)
  BY FrontFacts
<1> PICK n, t : n = Len(p) /\ t = Rest(p, n - 1) OBVIOUS
<1>2. n \in Nat \ {0} /\ n - 1 \in 0..Len(p) /\ n - (n - 1) = 1 /\ (n - 1) + 1 = n BY <1>1
<1>3. t \in Path /\ Len(t) = n - (n - 1) /\ \A j \in 1..n - (n - 1) : t[j] = p[n - 1 + j] BY <1>2, RestFacts
<1>4. t \in Path /\ Len(t) = 1 /\ t[1] = p[n] BY <1>2, <1>3
<1>5. <<Last(p)>> \in Path /\ Len(<<Last(p)>>) = 1 /\ <<Last(p)>>[1] = p[n] BY <1>1 DEF Path
<1>6. t = <<Last(p)>> BY <1>4, <1>5, PathEqual
<1> QED BY <1>1, <1>6

\* The superuser finds the directory that the login user finds.
LEMMA RootStat ==
  ASSUME NEW q \in Path, Follow("login", q).ok
  PROVE  Stat("root", q) = Stat("login", q)
BY RootSeesLemma DEF RootSees, Stat

\* by the commands of the sudo route.
LEMMA PromiseSudo ==
  ASSUME NEW p \in Path, Sought(p), SudoDir \/ SudoRoot \/ SudoWalk
  PROVE  Promised(p)'
<1>1. /\ k \in 1..Len(srcs) /\ Src \in Path /\ Root \in Path /\ IsPrefix(Src, p) /\ Src = Base(srcs[k])
      /\ rx # "exact" => Root = Src
      /\ rx = "exact" => Src # <<>> /\ Root = Front(Src)
      /\ Follow("login", p).ok /\ Stat("login", p) = "file" /\ ~IsDir(p)
      /\ p # Src => IsStrictPrefix(Src, p)
      /\ Reachable(Src, p) /\ Downward(p, Len(Src))
  BY SoughtFacts
<1>2. Promised(p) /\ Calm(p) /\ ShapeAt(pc) /\ rx \in {"none", "exact", "tail"} /\ Wanted(srcs[k], p)
  BY DEF Sought, Search, SearchTyped, Shape
<1>3. pc \in SudoLabels BY DEF SudoDir, SudoRoot, SudoWalk, SudoLabels
<1>4. mode = "sudo" BY <1>2, <1>3 DEF ShapeAt
<1>5. Seeks BY SeekSteps
<1>6. UNCHANGED <<mode, srcs, k>> /\ Src' = Src BY <1>5, SeekKeeps
<1>7. IsPrefix(Src, Src) BY <1>1, PrefixFacts, PathLen
<1>8. p # Src => Stat("login", Src) = "dir" BY <1>1, <1>7 DEF Reachable, IsDir
<1>9. CASE SudoDir
  <2>1. pc = "sudoDir" BY <1>9 DEF SudoDir
  <2>2. rx = "none" BY <1>2, <2>1 DEF ShapeAt
  <2>3. ~CallFails(Src) BY <1>1, <1>2, NoFailure
  <2>4. IF Stat("root", Src) = "dir" THEN Goto("sudoWalk")
        ELSE IF Src = <<>> THEN Goto("source")
        ELSE pc' = "sudoRoot" /\ rx' = "exact" /\ UNCHANGED <<stack, dir, names, candidates>>
    BY <1>9, <2>3 DEF SudoDir, Runs, Raises, User
  <2>5. CASE p = Src
    <3>1. Stat("root", Src) # "dir" /\ Src # <<>> BY <1>1, <2>5, RootStat, FileIn
    <3>2. pc' = "sudoRoot" BY <2>4, <3>1
    <3> QED BY <1>4, <1>6, <2>5, <3>2 DEF Promised, Seeking
  <2>6. CASE p # Src
    <3>1. Stat("login", Src) = "dir" BY <1>8, <2>6
    <3>2. Stat("root", Src) = "dir" BY <1>1, <3>1, StatFacts, RootStat
    <3>3. pc' = "sudoWalk" /\ rx' = "none" BY <2>2, <2>4, <3>2, GotoLabel
    <3> QED BY <1>6, <2>6, <3>3 DEF Promised, Seeking
  <2> QED BY <2>5, <2>6
<1>10. rx = "exact" => p = Src BY <1>2, <1>3 DEF Promised, Seeking, SudoLabels
<1>11. rx = "tail" => p # Src /\ Found(srcs[k].tail, RelTo(p))
  <2> SUFFICES ASSUME rx = "tail" PROVE p # Src /\ Found(srcs[k].tail, RelTo(p)) OBVIOUS
  <2>1. ~Literal(srcs[k]) BY <1>2 DEF ShapeAt, RxFits
  <2>2. IsStrictPrefix(Src, p) /\ Found(srcs[k].tail, SubSeq(p, Len(Src) + 1, Len(p)))
    BY <1>1, <1>2, <2>1 DEF Wanted, Reaches
  <2>3. p # Src BY <1>1, <2>2, PrefixFacts, PathLen
  <2> QED BY <1>1, <2>2, <2>3 DEF RelTo
<1>12. ASSUME rx # "none" \/ p # Src
       PROVE  Stat("login", Root) = "dir" /\ IsStrictPrefix(Root, p)
  <2>1. CASE rx = "exact" BY <1>1, <1>10, <2>1, FileIn
  <2>2. CASE rx # "exact" BY <1>1, <1>2, <1>8, <1>11, <1>12, <2>2
  <2> QED BY <2>1, <2>2
<1>13. CASE SudoRoot
  <2>1. pc = "sudoRoot" BY <1>13 DEF SudoRoot
  <2>2. rx # "none" BY <1>2, <2>1 DEF ShapeAt
  <2>3. Stat("login", Root) = "dir" /\ IsPrefix(Root, p) BY <1>12, <2>2 DEF IsStrictPrefix
  <2>4. ~CallFails(Root) BY <1>2, <2>3, NoFailure
  <2>5. Stat("root", Root) = "dir" BY <1>1, <2>3, StatFacts, RootStat
  <2>6. Goto("sudoWalk") BY <1>13, <2>4, <2>5 DEF SudoRoot, Runs, Raises, User
  <2>7. pc' = "sudoWalk" /\ rx' = rx BY <2>6, GotoLabel
  <2> QED BY <1>4, <1>6, <1>10, <2>2, <2>7 DEF Promised, Seeking
<1>14. CASE SudoWalk
  <2>1. pc = "sudoWalk" BY <1>14 DEF SudoWalk
  <2>2. rx # "none" \/ p # Src BY <1>2, <2>1 DEF Promised
  <2>3. Stat("login", Root) = "dir" /\ IsStrictPrefix(Root, p) BY <1>12, <2>2
  <2>4. ~CallFails(Root) BY <1>2, <2>3, NoFailure DEF IsStrictPrefix
  <2>5. pc' = "source" /\ candidates' = candidates \cup Walked("root")
    BY <1>14, <2>4 DEF SudoWalk, Runs, Raises, User
  <2>6. Downward(p, Len(Root)) /\ LinkFree(p, Len(Root))
    <3>1. CASE rx = "exact" BY <1>1, <1>10, <3>1, FileIn
    <3>2. CASE rx # "exact"
      <4>1. p # Src /\ Root = Src BY <1>1, <1>2, <1>11, <2>2, <3>2
      <4>2. \A i \in Len(Src) + 1..Len(p) - 1 : ~IsLink(SubSeq(p, 1, i))
        BY <1>1, <1>2, <1>4, <4>1 DEF Wanted, Reaches
      <4> QED BY <1>1, <4>1, <4>2 DEF LinkFree, IsLink, Pre
    <3> QED BY <3>1, <3>2
  <2>7. p \in OsWalk("root", Root) BY <1>1, <2>3, <2>6, OsWalkHas
  <2>8. rx = "none" \/ Matches(RelTo(p))
    <3>1. CASE rx = "exact"
      <4>1. RelTo(p) = <<Last(Src)>> BY <1>1, <1>10, <3>1, RestLast DEF RelTo, Rest
      <4> QED BY <3>1, <4>1 DEF Matches
    <3>2. CASE rx = "tail" BY <1>11, <3>2 DEF Matches
    <3> QED BY <1>2, <3>1, <3>2
  <2>9. p \in Walked("root") BY <2>7, <2>8 DEF Walked
  <2> QED BY <2>5, <2>9 DEF Promised, Seeking
<1> QED BY <1>9, <1>13, <1>14

\* No candidate is taken back.
LEMMA CandidatesGrow ==
  ASSUME \/ SrcDir \/ SrcNotFile \/ SrcFile \/ RootExists \/ RootDir \/ ListRoot \/ ChildFile
         \/ ChildLink \/ WalkList \/ WalkDir \/ WalkLink \/ WalkFile \/ WalkAgain
         \/ SudoDir \/ SudoRoot \/ SudoWalk
  PROVE  candidates \subseteq candidates'
<1>1. ASSUME NEW l, Take(l) \/ Skip(l) \/ Goto(l) PROVE candidates \subseteq candidates'
  BY <1>1, TakeSkip, GotoLabel
<1>2. ASSUME StartWalk \/ TakeSrc \/ SplitLiteral \/ Push PROVE candidates \subseteq candidates'
  BY <1>2 DEF StartWalk, TakeSrc, SplitLiteral, Push
<1>3. Yield => candidates \subseteq candidates' BY <1>1 DEF Yield
<1>4. CASE SrcDir \/ SrcNotFile \/ SrcFile BY <1>1, <1>2, <1>4 DEF SrcDir, SrcNotFile, SrcFile, Asks
<1>5. CASE RootExists \/ RootDir BY <1>1, <1>2, <1>5 DEF RootExists, RootDir, Asks
<1>6. CASE ListRoot BY <1>2, <1>6 DEF ListRoot
<1>7. CASE ChildFile \/ ChildLink BY <1>1, <1>7 DEF ChildFile, ChildLink, Asks
<1>8. CASE WalkList BY <1>1, <1>8 DEF WalkList
<1>9. CASE WalkDir \/ WalkLink \/ WalkFile \/ WalkAgain
  <2>1. CASE WalkDir BY <1>1, <1>2, <2>1 DEF WalkDir, Asks
  <2>2. CASE WalkLink \/ WalkFile \/ WalkAgain BY <1>1, <1>3, <2>2 DEF WalkLink, WalkFile, WalkAgain, Asks
  <2> QED BY <1>9, <2>1, <2>2
<1>10. CASE SudoDir BY <1>1, <1>10 DEF SudoDir, Raises
<1>11. CASE SudoRoot BY <1>1, <1>11 DEF SudoRoot, Raises
<1>12. CASE SudoWalk BY <1>1, <1>12 DEF SudoWalk, Raises
<1> QED BY <1>4, <1>5, <1>6, <1>7, <1>8, <1>9, <1>10, <1>11, <1>12

\* All that has been wanted since the search for it is a candidate, or the search will find it.
Complete ==
  /\ \A i \in 1..Len(srcs) : i < k => \A p \in Path : Wanted(srcs[i], p) => p \in candidates
  /\ k > 0 /\ pc # "raised" => \A p \in Path : Wanted(srcs[k], p) => Promised(p)

\* The search keeps what it has promised.
LEMMA PromiseSeek ==
  ASSUME NEW p \in Path, Sought(p),
         \/ SrcDir \/ SrcNotFile \/ SrcFile \/ RootExists \/ RootDir \/ ListRoot \/ ChildFile
         \/ ChildLink \/ WalkList \/ WalkDir \/ WalkLink \/ WalkFile \/ WalkAgain
         \/ SudoDir \/ SudoRoot \/ SudoWalk
  PROVE  Promised(p)'
BY PromiseSrc, PromiseRoot, PromiseList, PromiseChild, PromiseWalkList, PromiseWalkDir, PromiseWalk, PromiseSudo

\* A change elsewhere leaves the promise as it is.
LEMMA PromiseQuiet ==
  ASSUME NEW p \in Path, Sought(p), Change \/ LoseSession \/ UNCHANGED vars
  PROVE  Promised(p)'
<1>1. UNCHANGED <<pc, mode, srcs, k, rx, stack, dir, names, candidates>>
  BY DEF Change, LoseSession, vars, walkVars
<1>2. Src \in Path /\ IsPrefix(Src, p) /\ Promised(p) /\ Calm(p) BY SoughtFacts DEF Sought
<1>3. SameAt(Src)
  <2>1. Len(Src) \in Nat /\ Len(p) \in Nat /\ Len(Src) <= Len(p) /\ Pre(p, Len(Src)) = Src
    BY <1>2, PrefixFacts, PathLen
  <2>2. Len(Src) \in 0..Len(p) BY <2>1
  <2>3. SameAt(Pre(p, Len(Src))) BY <1>2, <2>2 DEF Calm
  <2> QED BY <2>1, <2>3
<1>4. Src' = Src BY <1>1 DEF Src, Base
<1>5. IsDir(Src)' <=> IsDir(Src)
  <2>1. PICK q : q = Src OBVIOUS
  <2>2. IsDir(q)' <=> IsDir(q) BY <1>3, <2>1, SameFacts
  <2>3. IsDir(Src)' <=> IsDir(q)' BY <1>4, <2>1 DEF IsDir, Stat, KindAt
  <2> QED BY <2>1, <2>2, <2>3
<1>6. /\ BelowStack(p)' <=> BelowStack(p)
      /\ Later(p, 1)' <=> Later(p, 1)
      /\ Later(p, 2)' <=> Later(p, 2)
      /\ BelowNames(p, 1)' <=> BelowNames(p, 1)
      /\ BelowNames(p, 2)' <=> BelowNames(p, 2)
      /\ Here' = Here
  <2>1. BelowStack(p)' <=> BelowStack(p) BY <1>1 DEF BelowStack
  <2>2. BelowNames(p, 1)' <=> BelowNames(p, 1) BY <1>1 DEF BelowNames
  <2>3. BelowNames(p, 2)' <=> BelowNames(p, 2) BY <1>1 DEF BelowNames
  <2>4. Later(p, 1)' <=> Later(p, 1) BY <1>1 DEF Later, BelowStack, BelowNames
  <2>5. Later(p, 2)' <=> Later(p, 2) BY <1>1 DEF Later, BelowStack, BelowNames
  <2>6. Here' = Here BY <1>1 DEF Here
  <2> QED BY <2>1, <2>2, <2>3, <2>4, <2>5, <2>6
<1> QED BY <1>1, <1>2, <1>4, <1>5, <1>6 DEF Promised
\* No step loses what has been wanted since it was to be searched for.
LEMMA CompleteStep == ASSUME TypeInv, Complete, [Next]_vars PROVE Complete'
<1>1. /\ Search /\ SearchTyped /\ k \in 0..Len(srcs) /\ Len(srcs) \in Nat
  <2>1. SearchTyped /\ Search BY DEF TypeInv, Search
  <2>2. Len(srcs) \in Nat
    <3>1. PICK SRC : srcs \in Seq(SRC) BY <2>1, GatherAssumption DEF SearchTyped
    <3> QED BY <3>1, LenProperties
  <2> QED BY <2>1, <2>2 DEF SearchTyped
<1>2. srcs' = srcs BY RequestKept
<1>3. ASSUME candidates \subseteq candidates', NEW i \in 1..Len(srcs), i < k, NEW p \in Path, Wanted(srcs[i], p)'
      PROVE  p \in candidates'
  <2>1. Wanted(srcs[i], p) BY <1>3, Keeps
  <2> QED BY <1>3, <2>1 DEF Complete
<1>4. ASSUME k > 0, pc # "raised", NEW p \in Path, Wanted(srcs[k], p)', k' = k
      PROVE  Sought(p)
  <2>1. k \in 1..Len(srcs) BY <1>1, <1>4
  <2>2. PICK j \in 1..Len(srcs) : j = k BY <2>1
  <2>3. Wanted(srcs[j], p)' BY <1>2, <1>4, <2>2
  <2>4. Wanted(srcs[j], p) /\ Calm(p) BY <2>3, Keeps
  <2> QED BY <1>1, <1>4, <2>2, <2>4 DEF Complete, Sought
<1>5. ASSUME candidates \subseteq candidates', k' = k,
             pc' # "raised" => pc # "raised" /\ \A p \in Path : Sought(p) => Promised(p)'
      PROVE  Complete'
  <2>1. \A i \in 1..Len(srcs') : i < k' => \A p \in Path : Wanted(srcs[i], p)' => p \in candidates'
    BY <1>2, <1>3, <1>5
  <2>2. k' > 0 /\ pc' # "raised" => \A p \in Path : Wanted(srcs[k], p)' => Promised(p)' BY <1>4, <1>5
  <2> QED BY <2>1, <2>2 DEF Complete
<1>6. CASE \/ SrcDir \/ SrcNotFile \/ SrcFile \/ RootExists \/ RootDir \/ ListRoot \/ ChildFile
           \/ ChildLink \/ WalkList \/ WalkDir \/ WalkLink \/ WalkFile \/ WalkAgain
           \/ SudoDir \/ SudoRoot \/ SudoWalk
  <2>1. Seeks BY <1>6, SeekSteps
  <2>2. k' = k /\ pc # "raised" BY <2>1 DEF Seeks, Seeking
  <2> QED BY <1>5, <1>6, <2>2, PromiseSeek, CandidatesGrow
<1>7. CASE Change \/ LoseSession \/ UNCHANGED vars
  <2>1. UNCHANGED <<pc, k, candidates>> BY <1>7 DEF Change, LoseSession, vars
  <2> QED BY <1>5, <1>7, <2>1, PromiseQuiet
<1>8. CASE FilterExists \/ FilterDir \/ FilterLink \/ FilterFile \/ NextEntry \/ Get
  <2>1. UNCHANGED <<k, candidates>>
    BY <1>8 DEF FilterExists, FilterDir, FilterLink, FilterFile, Unfiltered, NextEntry, Get, Unfetched
  <2>2. pc \notin Seeking \cup {"raised"} /\ pc' \notin Seeking
    <3>1. CASE FilterExists BY <3>1 DEF FilterExists, Asks, FilterGoto, Drop, Seeking
    <3>2. CASE FilterDir BY <3>2 DEF FilterDir, Asks, FilterGoto, Drop, Seeking
    <3>3. CASE FilterLink BY <3>3 DEF FilterLink, Asks, FilterGoto, AddLink, Seeking
    <3>4. CASE FilterFile BY <3>4 DEF FilterFile, Asks, AddFile, Drop, Seeking
    <3>5. CASE NextEntry BY <3>5 DEF NextEntry, Seeking
    <3>6. CASE Get BY <3>6 DEF Get, Seeking
    <3> QED BY <1>8, <3>1, <3>2, <3>3, <3>4, <3>5, <3>6
  <2>3. \A p \in Path : Sought(p) => Promised(p)' BY <2>1, <2>2 DEF Sought, Promised, Seeking
  <2> QED BY <1>5, <2>1, <2>2, <2>3
<1>9. CASE NextSource
  <2>1. pc = "source" /\ UNCHANGED <<mode, candidates>> BY <1>9 DEF NextSource
  <2>2. CASE k = Len(srcs)
    <3>1. pc' = "exists" /\ k' = k BY <1>9, <2>2 DEF NextSource
    <3>2. \A p \in Path : Sought(p) => Promised(p)' BY <2>1, <3>1 DEF Sought, Promised, Seeking
    <3> QED BY <1>5, <2>1, <3>1, <3>2
  <2>3. CASE k # Len(srcs)
    <3>1. /\ k' = k + 1 /\ rx' \in {"none", "tail"}
          /\ pc' = (IF Rejected(srcs[k + 1]) THEN "source"
                    ELSE IF mode = "sudo" THEN IF Literal(srcs[k + 1]) THEN "sudoDir" ELSE "sudoRoot"
                    ELSE IF Literal(srcs[k + 1]) THEN "srcDir" ELSE "rootExists")
      BY <1>9, <2>3 DEF NextSource
    <3>2. ASSUME NEW i \in 1..Len(srcs), i < k + 1, NEW p \in Path, Wanted(srcs[i], p)' PROVE p \in candidates
      <4>1. CASE i < k BY <1>3, <2>1, <3>2, <4>1
      <4>2. CASE i = k
        <5>1. Wanted(srcs[i], p) BY <3>2, Keeps
        <5>2. Promised(p) BY <1>1, <2>1, <4>2, <5>1 DEF Complete
        <5> QED BY <2>1, <5>2 DEF Promised
      <4> QED BY <1>1, <3>2, <4>1, <4>2
    <3>3. PICK j \in 1..Len(srcs) : j = k + 1 BY <1>1, <2>3
    <3>4. ASSUME NEW p \in Path, Wanted(srcs[j], p)' PROVE Promised(p)'
      <4>1. Wanted(srcs[j], p) BY <3>4, Keeps
      <4>2. ~Rejected(srcs[j]) BY <4>1 DEF Wanted, Reaches
      <4>3. pc' \in {"sudoDir", "sudoRoot", "srcDir", "rootExists"} BY <3>1, <3>3, <4>2
      <4> QED BY <3>1, <4>3 DEF Promised, Seeking
    <3>5. \A i \in 1..Len(srcs') : i < k' => \A p \in Path : Wanted(srcs[i], p)' => p \in candidates'
      BY <1>2, <2>1, <3>1, <3>2
    <3>6. srcs'[k'] = srcs[j]' BY <1>2, <3>1, <3>3
    <3>7. \A p \in Path : Wanted(srcs[k], p)' => Promised(p)'
      <4>1. srcs[k]' = srcs[j]' BY <3>6
      <4>2. \A p \in Path : Wanted(srcs[k], p)' => Wanted(srcs[j], p)'
        BY <4>1 DEF Wanted, Reaches, Rejected, Base, Literal
      <4> QED BY <3>4, <4>2
    <3> QED BY <3>5, <3>7 DEF Complete
  <2> QED BY <2>2, <2>3
<1> QED BY <1>6, <1>7, <1>8, <1>9 DEF Next, Step

-----------------------------------------------------------------------------
(* Nothing else is found                                                   *)

\* What a search or a walk below the SRC may find is asked for,
LEMMA ReachesBelow ==
  ASSUME Search, pc \in Seeking \ {"source"}, rx # "exact", NEW c \in Path, IsStrictPrefix(Src, c),
         rx = "tail" => Found(srcs[k].tail, RelTo(c)),
         mode # "sudo" /\ rx = "tail" /\ Len(srcs[k].tail) = 1 => Len(c) = Len(Src) + 1,
         mode = "sudo" => LinkFree(c, Len(Src))
  PROVE  Reaches(srcs[k], c)
<1>1. k > 0 /\ ~Rejected(srcs[k]) /\ RxFits /\ SearchTyped BY DEF Search, Shape, ShapeAt
<1>2. Src = Base(srcs[k]) /\ Src \in Path /\ Root = Src BY <1>1, RootTyped DEF Src
<1>3. Literal(srcs[k]) \/ Found(srcs[k].tail, SubSeq(c, Len(Src) + 1, Len(c)))
  BY <1>1, <1>2 DEF RxFits, SearchTyped, RelTo
<1>4. mode # "sudo" /\ Len(srcs[k].tail) = 1 => Len(SubSeq(c, Len(Src) + 1, Len(c))) = 1
  <2> SUFFICES ASSUME mode # "sudo", Len(srcs[k].tail) = 1 PROVE Len(SubSeq(c, Len(Src) + 1, Len(c))) = 1
    OBVIOUS
  <2>1. ~Literal(srcs[k])
    <3>1. Len(<<>>) = 0 OBVIOUS
    <3> QED BY <3>1 DEF Literal
  <2>2. rx = "tail" BY <1>1, <2>1 DEF RxFits, SearchTyped
  <2>3. PICK b : b = Len(Src) OBVIOUS
  <2>4. b \in Nat /\ Len(c) = b + 1 /\ b \in 0..Len(c) BY <1>2, <2>2, <2>3, PathLen
  <2>5. Len(Rest(c, b)) = Len(c) - b BY <2>4, RestFacts
  <2> QED BY <2>3, <2>4, <2>5 DEF Rest
<1>5. mode = "sudo" => \A i \in Len(Src) + 1..Len(c) - 1 : ~IsLink(SubSeq(c, 1, i))
  BY DEF LinkFree, IsLink, Pre
<1> QED BY <1>1, <1>2, <1>3, <1>4, <1>5 DEF Reaches

\* and so is the SRC itself, if it is literal.
LEMMA ReachesSrc ==
  ASSUME Search, pc \in Seeking \ {"source"}, rx # "tail" PROVE Reaches(srcs[k], Src)
BY DEF Search, SearchTyped, Shape, ShapeAt, RxFits, Reaches, Src

\* Whatever is in a directory by one name that is its last is the SRC.
LEMMA LastIsSrc ==
  ASSUME SearchTyped, RxFits, k > 0, rx = "exact", NEW c \in Path, IsPrefix(Root, c),
         RelTo(c) = <<Last(Src)>>
  PROVE  c = Src
<1>1. Src \in Path /\ Src # <<>> /\ Root = Front(Src) /\ Root = Pre(Src, Len(Src) - 1) BY RootTyped
<1>2. PICK b : b = Len(Root) OBVIOUS
<1>3. PICK s : s = Len(Src) OBVIOUS
<1>4. /\ s \in Nat \ {0} /\ b = s - 1 /\ Root \in Path /\ Last(Src) = Src[s]
      /\ \A i \in 1..b : Root[i] = Src[i]
  BY <1>1, <1>2, <1>3, FrontFacts
<1>5. /\ b <= Len(c) /\ \A i \in 1..b : Root[i] = c[i]
  BY <1>2, <1>4, PrefixFacts
<1>6. Len(c) \in Nat /\ b \in 0..Len(c) BY <1>4, <1>5, PathLen
<1>7. Rest(c, b) = <<Src[s]>> BY <1>2, <1>4 DEF RelTo, Rest
<1>8. Len(Rest(c, b)) = Len(c) - b /\ \A j \in 1..Len(c) - b : Rest(c, b)[j] = c[b + j]
  BY <1>6, RestFacts
<1>9. Len(<<Src[s]>>) = 1 /\ <<Src[s]>>[1] = Src[s] OBVIOUS
<1>10. Len(c) = s
  <2>1. Len(Rest(c, b)) = 1 BY <1>7, <1>9
  <2>2. Len(c) - b = 1 BY <1>8, <2>1
  <2> QED BY <1>4, <1>6, <2>2
<1>11. c[s] = Src[s] BY <1>4, <1>7, <1>8, <1>9, <1>10
<1>12. \A i \in 1..s : c[i] = Src[i]
  <2> TAKE i \in 1..s
  <2>1. CASE i = s BY <1>11, <2>1
  <2>2. CASE i # s
    <3>1. i \in 1..b BY <1>4, <2>2
    <3> QED BY <1>4, <1>5, <3>1
  <2> QED BY <2>1, <2>2
<1> QED BY <1>1, <1>3, <1>10, <1>12, PathEqual

\* No listing of the root, no search below it: a root whose names all would be looked at is
\* walked only if it cannot be listed, and then nothing is found in it.
Hopeless(p) ==
  pc \in DirLabels \cup {"walk"} /\ rx # "none" /\ Shallow /\ IsPrefix(Root, p) /\ Undisturbed(p) =>
    pc = "walk" /\ stack \in {<<>>, <<Root>>} /\ ~Listable("login", Root)

\* What is found next is asked for: the SRC,
LEMMA FindsSrc ==
  ASSUME Search, SrcDir \/ SrcNotFile \/ SrcFile, NEW c \in candidates', c \notin candidates
  PROVE  Reaches(srcs[k], c)
<1>1. CASE SrcDir \/ SrcNotFile
  BY <1>1 DEF SrcDir, SrcNotFile, Asks, Goto, StartWalk
<1>2. CASE SrcFile
  <2>1. pc = "srcFile" /\ candidates' \subseteq candidates \cup {Src}
    BY <1>2 DEF SrcFile, Asks, TakeSrc, SplitLiteral
  <2>2. rx = "none" /\ pc \in Seeking \ {"source"} BY <2>1 DEF Search, Shape, ShapeAt, Seeking
  <2> QED BY <2>1, <2>2, ReachesSrc
<1> QED BY <1>1, <1>2

\* a name in the root,
LEMMA FindsChild ==
  ASSUME Search, ChildFile \/ ChildLink, NEW c \in candidates', c \notin candidates
  PROVE  Reaches(srcs[k], c)
<1>1. pc \in ChildLabels BY DEF ChildFile, ChildLink, ChildLabels
<1>2. c = Here /\ names # <<>>
  <2>1. CASE ChildFile
    <3>1. names # <<>> /\ (\E l : Take(l)) BY <2>1 DEF ChildFile, Asks, Goto, Skip
    <3> QED BY <3>1, TakeSkip
  <2>2. CASE ChildLink
    <3>1. \E l : Take(l) BY <2>2 DEF ChildLink, Asks, Skip
    <3>2. names # <<>> BY <2>2 DEF ChildLink, Search, Shape, ShapeAt
    <3> QED BY <3>1, <3>2, TakeSkip
  <2> QED BY <2>1, <2>2
<1>3. /\ SearchTyped /\ RxFits /\ k > 0 /\ rx # "none" /\ dir = Root /\ AllMatch(names) /\ OneName(names)
      /\ mode # "sudo" /\ pc \in Seeking \ {"source"}
  BY <1>1 DEF Search, Shape, ShapeAt, Seeking, ChildLabels, SudoLabels
<1>4. /\ Src \in Path /\ Root \in Path /\ (rx # "exact" => Root = Src)
  BY <1>3, RootTyped
<1>5. /\ Head(names) = names[1] /\ Head(names) \in Path /\ Here \in Path
      /\ Len(Here) = Len(dir) + 1 /\ IsPrefix(dir, Here) /\ Len(names) \in Nat \ {0}
  BY <1>2, <1>3, HereTyped
<1>6. Matches(Head(names)) /\ Len(Head(names)) = 1
  <2>1. 1 \in 1..Len(names) BY <1>5
  <2> QED BY <1>3, <1>5, <2>1 DEF AllMatch, OneName
<1>7. RelTo(Here) = Head(names)
  <2>1. PICK a : a = Len(Root) OBVIOUS
  <2>2. a \in Nat /\ Len(Here) = a + 1 /\ a \in 0..Len(Here) BY <1>3, <1>4, <1>5, <2>1, PathLen
  <2>3. Rest(Here, a) \in Path /\ Len(Rest(Here, a)) = 1 /\ \A j \in 1..1 : Rest(Here, a)[j] = Here[a + j]
    <3>1. Len(Here) - a = 1 BY <2>2
    <3> QED BY <1>5, <2>2, <3>1, RestFacts
  <2>4. Here[a + 1] = Head(names)[1]
    <3>1. \A i \in 1..Len(Head(names)) : (dir \o Head(names))[Len(dir) + i] = Head(names)[i]
      BY <1>3, <1>4, <1>5, ConcatFacts
    <3> QED BY <1>3, <1>6, <2>1, <3>1 DEF Here
  <2>5. \A i \in 1..1 : Rest(Here, a)[i] = Head(names)[i] BY <2>3, <2>4
  <2>6. Rest(Here, a) = Head(names) BY <1>5, <1>6, <2>3, <2>5, PathEqual
  <2> QED BY <2>1, <2>6 DEF RelTo, Rest
<1>8. CASE rx = "exact"
  <2>1. RelTo(Here) = <<Last(Src)>> BY <1>6, <1>7, <1>8 DEF Matches
  <2>2. Here = Src BY <1>3, <1>5, <1>8, <2>1, LastIsSrc
  <2> QED BY <1>2, <1>3, <1>8, <2>2, ReachesSrc
<1>9. CASE rx # "exact"
  <2>1. Found(srcs[k].tail, RelTo(Here)) BY <1>6, <1>7, <1>9 DEF Matches
  <2>2. Root = Src /\ Len(Here) = Len(Src) + 1 /\ IsPrefix(Src, Here) BY <1>3, <1>4, <1>5, <1>9
  <2>3. IsStrictPrefix(Src, Here) BY <1>4, <1>5, <2>2, PrefixFacts, PathLen
  <2> QED BY <1>2, <1>3, <1>5, <1>9, <2>1, <2>2, <2>3, ReachesBelow
<1> QED BY <1>8, <1>9

\* what a walk yields,
LEMMA FindsWalk ==
  ASSUME Search, WalkList \/ WalkDir \/ WalkLink \/ WalkFile \/ WalkAgain,
         NEW c \in candidates', c \notin candidates, Undisturbed(c), \A p \in Path : Hopeless(p)
  PROVE  Reaches(srcs[k], c)
<1>1. /\ pc \in DirLabels /\ c = Here
      /\ \/ pc = "walkAgain"
         \/ rx # "none" /\ Matches(RelTo(Here))
  <2>1. CASE WalkList BY <2>1 DEF WalkList, Goto
  <2>2. CASE WalkDir BY <2>2 DEF WalkDir, Asks, Goto, Push
  <2>3. ASSUME Yield PROVE c = Here /\ rx # "none" /\ Matches(RelTo(Here))
    <3>1. \A l : ~Goto(l) /\ ~Skip(l) BY GotoLabel, TakeSkip
    <3> QED BY <2>3, <3>1, TakeSkip DEF Yield
  <2>4. CASE WalkLink
    <3>1. Yield BY <2>4, GotoLabel DEF WalkLink, Asks
    <3> QED BY <2>3, <2>4, <3>1 DEF WalkLink, DirLabels
  <2>5. CASE WalkFile
    <3>1. Yield BY <2>5, TakeSkip DEF WalkFile, Asks
    <3> QED BY <2>3, <2>5, <3>1 DEF WalkFile, DirLabels
  <2>6. CASE WalkAgain
    <3>1. Take("walkDir") BY <2>6, TakeSkip DEF WalkAgain, Asks
    <3> QED BY <2>6, <3>1, TakeSkip DEF WalkAgain, DirLabels
  <2> QED BY <2>1, <2>2, <2>4, <2>5, <2>6
<1>2. names # <<>>
  <2>1. pc # "walkDir"
    BY TakeSkip, GotoLabel DEF WalkList, WalkDir, WalkLink, WalkFile, WalkAgain, Asks, Push
  <2> QED BY <1>1, <2>1 DEF Search, Shape, ShapeAt, DirLabels
<1>3. /\ SearchTyped /\ RxFits /\ k > 0 /\ OneName(names) /\ IsPrefix(Root, dir)
      /\ mode # "sudo" /\ pc \in Seeking \ {"source"} /\ (pc = "walkAgain" => rx = "none")
  BY <1>1 DEF Search, Shape, ShapeAt, Seeking, DirLabels, SudoLabels
<1>4. /\ Src \in Path /\ Root \in Path /\ (rx # "exact" => Root = Src) /\ dir \in Path
  BY <1>3, RootTyped DEF SearchTyped
<1>5. /\ Here \in Path /\ Len(Here) = Len(dir) + 1 /\ IsPrefix(Root, Here)
  BY <1>2, <1>3, <1>4, HereTyped
<1>6. IsStrictPrefix(Root, Here)
  <2>1. Len(Root) <= Len(dir) /\ Len(Root) \in Nat /\ Len(dir) \in Nat BY <1>3, <1>4, PrefixFacts, PathLen
  <2>2. Len(Root) < Len(Here) BY <1>5, <2>1
  <2> QED BY <1>4, <1>5, <2>2, PrefixFacts
<1>7. rx # "none" => ~Shallow
  <2>1. Hopeless(Here) /\ Undisturbed(Here) BY <1>1, <1>5
  <2>2. pc # "walk" BY <1>1 DEF DirLabels
  <2> QED BY <1>1, <1>5, <2>1, <2>2 DEF Hopeless
<1>8. rx # "exact" /\ (rx = "tail" => Len(srcs[k].tail) # 1) BY <1>7 DEF Shallow
<1>9. rx = "tail" => Found(srcs[k].tail, RelTo(Here)) BY <1>1, <1>3 DEF Matches
<1> QED BY <1>1, <1>3, <1>4, <1>5, <1>6, <1>8, <1>9, ReachesBelow

\* what os.walk() finds.
LEMMA FindsSudo ==
  ASSUME Search, SudoDir \/ SudoRoot \/ SudoWalk,
         NEW c \in candidates', c \notin candidates, \A q \in hit' : ~IsPrefix(q, c)
  PROVE  Reaches(srcs[k], c)
<1>1. CASE SudoDir BY <1>1, GotoLabel DEF SudoDir, Raises
<1>2. CASE SudoRoot BY <1>2, GotoLabel DEF SudoRoot, Raises
<1>3. CASE SudoWalk
  <2>1. /\ SearchTyped /\ RxFits /\ k > 0 /\ mode = "sudo" /\ pc \in Seeking \ {"source"}
    BY <1>3 DEF SudoWalk, Search, Shape, ShapeAt, Seeking, SudoLabels
  <2>2. /\ Src \in Path /\ Root \in Path /\ (rx # "exact" => Root = Src) BY <2>1, RootTyped
  <2>3. PICK user \in User : Runs(user, Root) /\ c \in Walked(user)
    BY <1>3, GotoLabel DEF SudoWalk, Raises
  <2>4. c \in OsWalk(user, Root) /\ (rx = "none" \/ Matches(RelTo(c))) BY <2>3 DEF Walked
  <2>5. c \in Path BY <2>2, <2>4, OsWalkFacts
  <2>6. IsPrefix(Root, c)
    <3>1. PICK n \in Under(user, Root) : c = Renamed(user, Root, n) BY <2>4 DEF OsWalk
    <3>2. IsBelow(c, Root, Follow(user, Root).at, n) BY <2>2, <3>1, RenamedDown
    <3>3. IsStrictPrefix(Root, c) BY <3>2 DEF IsBelow
    <3> QED BY <2>2, <2>5, <3>3, PrefixFacts
  <2>7. user = "root"
    <3>1. ~CallFails(Root) BY <2>6 DEF CallFails
    <3> QED BY <2>3, <3>1 DEF Runs
  <2>8. IsStrictPrefix(Root, c) /\ LinkFree(c, Len(Root)) BY <2>2, <2>4, <2>7, OsWalkOnly
  <2>9. CASE rx = "exact"
    <3>1. RelTo(c) = <<Last(Src)>> BY <2>4, <2>9 DEF Matches
    <3>2. c = Src BY <2>1, <2>5, <2>6, <2>9, <3>1, LastIsSrc
    <3> QED BY <2>1, <2>9, <3>2, ReachesSrc
  <2>10. CASE rx # "exact"
    <3>1. rx = "tail" => Found(srcs[k].tail, RelTo(c)) BY <2>4, <2>10 DEF Matches
    <3> QED BY <2>1, <2>2, <2>5, <2>8, <2>10, <3>1, ReachesBelow
  <2> QED BY <2>9, <2>10
<1> QED BY <1>1, <1>2, <1>3

\* Nothing undisturbed is below the root of such a walk,
LEMMA HopelessSeek ==
  ASSUME TypeInv, \A p \in Path : Hopeless(p), NEW p \in Path, Undisturbed(p)', Undisturbed(p),
         \/ SrcDir \/ SrcNotFile \/ SrcFile \/ RootExists \/ RootDir \/ ListRoot \/ ChildFile
         \/ ChildLink \/ WalkList \/ WalkDir \/ WalkLink \/ WalkFile \/ WalkAgain
         \/ SudoDir \/ SudoRoot \/ SudoWalk
  PROVE  Hopeless(p)'
<1>1. Seeks BY SeekSteps
<1>2. UNCHANGED <<mode, srcs, k, gone>> BY <1>1, SeekKeeps
<1>3. Search /\ Hopeless(p) BY DEF TypeInv
<1>4. ASSUME pc' \notin DirLabels \cup {"walk"} PROVE Hopeless(p)' BY <1>4 DEF Hopeless
<1>5. ASSUME rx' = "none" PROVE Hopeless(p)' BY <1>5 DEF Hopeless
<1>6. rx' = rx => Root' = Root /\ (Shallow' <=> Shallow) BY <1>2, RequestStays DEF SameRequest
<1>7. ~CallFails(p) /\ \A q : IsPrefix(q, p) => ~CallFails(q)
  <2>1. \A q \in hit' : ~IsPrefix(q, p) BY DEF Undisturbed
  <2>2. IsPrefix(p, p)
    <3>1. Len(p) <= Len(p) BY PathLen
    <3> QED BY <3>1, PrefixFacts
  <2> QED BY <2>1, <2>2 DEF CallFails
<1>8. \A q : Listable("login", q)' <=> Listable("login", q)
  <2>1. \A q : Follow("login", q)' = Follow("login", q) BY <1>2 DEF Follow, Walk1, There, May
  <2> QED BY <2>1 DEF Listable, Stat, KindAt
<1>9. CASE SrcDir \/ SrcNotFile \/ SrcFile
  <2>1. pc \in {"srcDir", "srcNotFile", "srcFile"} BY <1>9 DEF SrcDir, SrcNotFile, SrcFile
  <2>2. rx = "none" BY <1>3, <2>1 DEF Search, Shape, ShapeAt
  <2>3. pc' \in {"srcNotFile", "srcFile", "source", "rootExists"} \/ rx' = rx
    BY <1>9, GotoLabel DEF SrcDir, SrcNotFile, SrcFile, Asks, TakeSrc, SplitLiteral, StartWalk
  <2> QED BY <1>4, <1>5, <2>2, <2>3 DEF DirLabels
<1>10. CASE RootExists BY <1>4, <1>10, GotoLabel DEF RootExists, Asks, DirLabels
<1>11. CASE RootDir
  <2>1. pc' \in {"list", "source"} \/ (~Shallow /\ rx' = rx)
    BY <1>11, GotoLabel DEF RootDir, Asks, StartWalk
  <2> QED BY <1>4, <1>6, <2>1 DEF Hopeless, DirLabels
<1>12. CASE ListRoot
  <2>1. \/ pc' = "childFile"
        \/ CannotList(Root) /\ stack' = <<Root>> /\ rx' = rx /\ pc' = "walk"
    BY <1>12 DEF ListRoot, StartWalk
  <2>2. CASE pc' = "childFile" BY <1>4, <2>2 DEF DirLabels
  <2>3. CASE CannotList(Root) /\ stack' = <<Root>> /\ rx' = rx /\ pc' = "walk"
    <3>1. IsPrefix(Root, p) => ~Listable("login", Root) BY <1>7, <2>3 DEF CannotList
    <3>2. Root' = Root BY <1>6, <2>3
    <3> QED BY <1>8, <2>3, <3>1, <3>2 DEF Hopeless
  <2> QED BY <2>1, <2>2, <2>3
<1>13. CASE ChildFile \/ ChildLink
  BY <1>4, <1>13, GotoLabel, TakeSkip DEF ChildFile, ChildLink, Asks, DirLabels
<1>14. CASE WalkList
  <2>1. /\ pc = "walk" /\ rx' = rx
        /\ IF stack = <<>> THEN pc' = "source"
           ELSE /\ stack' = Front(stack)
                /\ Listable("login", Last(stack)) \/ pc' = "walk"
    BY <1>14, GotoLabel DEF WalkList, CannotList
  <2>2. CASE stack = <<>> BY <1>4, <2>1, <2>2 DEF DirLabels
  <2>3. CASE stack # <<>>
    <3> SUFFICES ASSUME rx # "none", Shallow, IsPrefix(Root, p)
                 PROVE  pc' = "walk" /\ stack' = <<>> /\ ~Listable("login", Root)'
      BY <1>6, <2>1 DEF Hopeless
    <3>1. stack = <<Root>> /\ ~Listable("login", Root) BY <1>3, <2>1, <2>3 DEF Hopeless
    <3>2. Last(stack) = Root /\ Front(stack) = <<>>
      <4>1. Root \in Path BY <1>3, <2>1, RootTyped DEF Search, Shape, ShapeAt, Seeking
      <4>2. PICK list : list = <<Root>> OBVIOUS
      <4>3. list \in Seq(Path) /\ Len(list) = 1 /\ list[1] = Root /\ list # <<>> BY <4>1, <4>2
      <4>4. Last(list) = Root BY <4>3, ListEnds
      <4>5. Front(list) \in Seq(Path) /\ Len(Front(list)) = 0 BY <4>3, ListEnds
      <4>6. Front(list) = <<>> BY <4>5
      <4> QED BY <3>1, <4>2, <4>4, <4>6
    <3>3. pc' = "walk" /\ stack' = <<>> BY <2>1, <2>3, <3>1, <3>2
    <3> QED BY <1>8, <2>1, <1>6, <3>1, <3>3
  <2> QED BY <2>2, <2>3
<1>15. CASE WalkDir \/ WalkLink \/ WalkFile \/ WalkAgain
  <2>1. pc \in DirLabels /\ pc # "walk" BY <1>15 DEF WalkDir, WalkLink, WalkFile, WalkAgain, DirLabels
  <2>2. rx' = rx
    BY <1>15, GotoLabel, TakeSkip DEF WalkDir, WalkLink, WalkFile, WalkAgain, Asks, Yield, Push
  <2> QED BY <1>3, <1>6, <2>1, <2>2 DEF Hopeless
<1>16. CASE SudoDir \/ SudoRoot \/ SudoWalk
  BY <1>4, <1>16, GotoLabel DEF SudoDir, SudoRoot, SudoWalk, Raises, DirLabels
<1> QED BY <1>9, <1>10, <1>11, <1>12, <1>13, <1>14, <1>15, <1>16

\* whatever else happens.
LEMMA HopelessStep ==
  ASSUME TypeInv, \A p \in Path : Hopeless(p), [Next]_vars, NEW p \in Path PROVE Hopeless(p)'
<1>1. CASE ~Undisturbed(p)' BY <1>1 DEF Hopeless
<1>2. CASE Undisturbed(p)'
  <2>1. Undisturbed(p) /\ \A i \in 0..Len(p) : SameAt(Pre(p, i)) BY <1>2, Steady
  <2>2. CASE \/ SrcDir \/ SrcNotFile \/ SrcFile \/ RootExists \/ RootDir \/ ListRoot \/ ChildFile
             \/ ChildLink \/ WalkList \/ WalkDir \/ WalkLink \/ WalkFile \/ WalkAgain
             \/ SudoDir \/ SudoRoot \/ SudoWalk
    BY <1>2, <2>1, <2>2, HopelessSeek
  <2>3. ASSUME pc' \notin DirLabels \cup {"walk"} PROVE Hopeless(p)' BY <2>3 DEF Hopeless
  <2>4. CASE NextSource
    <3>1. pc' \in {"exists", "source", "sudoDir", "sudoRoot", "srcDir", "rootExists"} BY <2>4 DEF NextSource
    <3> QED BY <2>3, <3>1 DEF DirLabels
  <2>5. CASE FilterExists \/ FilterDir \/ FilterLink \/ FilterFile
    <3>1. pc' \in {"exists", "isDir", "isLink", "isFile", "end", "entry"}
      <4>1. CASE FilterExists BY <4>1 DEF FilterExists, Asks, FilterGoto, Drop
      <4>2. CASE FilterDir BY <4>2 DEF FilterDir, Asks, FilterGoto, Drop
      <4>3. CASE FilterLink BY <4>3 DEF FilterLink, Asks, FilterGoto, AddLink
      <4>4. CASE FilterFile BY <4>4 DEF FilterFile, Asks, AddFile, Drop
      <4> QED BY <2>5, <4>1, <4>2, <4>3, <4>4
    <3> QED BY <2>3, <3>1 DEF DirLabels
  <2>6. CASE NextEntry \/ Get
    <3>1. pc' \in {"entry", "get", "end", "raised"} BY <2>6 DEF NextEntry, Get
    <3> QED BY <2>3, <3>1 DEF DirLabels
  <2>7. CASE Change \/ LoseSession \/ UNCHANGED vars
    <3>1. UNCHANGED <<pc, mode, srcs, k, rx, stack>> BY <2>7 DEF Change, LoseSession, vars, walkVars
    <3>2. Root' = Root /\ (Shallow' <=> Shallow) BY <3>1, RequestStays DEF SameRequest
    <3> SUFFICES ASSUME pc \in DirLabels \cup {"walk"}, rx # "none", Shallow, IsPrefix(Root, p)
                 PROVE  pc = "walk" /\ stack \in {<<>>, <<Root>>} /\ ~Listable("login", Root)'
      BY <3>1, <3>2 DEF Hopeless
    <3>3. pc = "walk" /\ stack \in {<<>>, <<Root>>} /\ ~Listable("login", Root) BY <2>1 DEF Hopeless
    <3>4. Root \in Path BY <3>3, RootTyped DEF TypeInv, Search, Shape, ShapeAt, Seeking
    <3>5. SameAt(Root)
      <4>1. Len(Root) \in Nat /\ Len(p) \in Nat /\ Len(Root) <= Len(p) /\ Pre(p, Len(Root)) = Root
        BY <3>4, PrefixFacts, PathLen
      <4>2. Len(Root) \in 0..Len(p) BY <4>1
      <4> QED BY <2>1, <4>1, <4>2
    <3>6. PICK q : q = Root OBVIOUS
    <3>7. Listable("login", q)' <=> Listable("login", q) BY <3>5, <3>6, SameFacts
    <3>8. Listable("login", Root)' <=> Listable("login", q)' BY <3>2, <3>6 DEF Listable, Stat, KindAt
    <3> QED BY <3>3, <3>6, <3>7, <3>8
  <2> QED BY <2>2, <2>4, <2>5, <2>6, <2>7 DEF Next, Step
<1> QED BY <1>1, <1>2

\* All candidates that nothing has disturbed are asked for.
Asked(p) == \E i \in 1..k : Reaches(srcs[i], p)
Sound == (\A p \in candidates : Undisturbed(p) => Asked(p)) /\ \A p \in Path : Hopeless(p)

\* By a step of the search a new candidate is asked for, too.
LEMMA SoundSeek ==
  ASSUME TypeInv, Sound, NEW p \in candidates', p \notin candidates, Undisturbed(p)', Undisturbed(p),
         \/ SrcDir \/ SrcNotFile \/ SrcFile \/ RootExists \/ RootDir \/ ListRoot \/ ChildFile
         \/ ChildLink \/ WalkList \/ WalkDir \/ WalkLink \/ WalkFile \/ WalkAgain
         \/ SudoDir \/ SudoRoot \/ SudoWalk
  PROVE  Reaches(srcs[k], p)
<1>1. Search /\ \A q \in Path : Hopeless(q) BY DEF TypeInv, Sound
<1>2. \A q \in hit' : ~IsPrefix(q, p) BY DEF Undisturbed
<1>3. CASE RootExists \/ RootDir \/ ListRoot
  BY <1>3, GotoLabel DEF RootExists, RootDir, ListRoot, Asks, StartWalk
<1>4. CASE SrcDir \/ SrcNotFile \/ SrcFile BY <1>1, <1>4, FindsSrc
<1>5. CASE ChildFile \/ ChildLink BY <1>1, <1>5, FindsChild
<1>6. CASE WalkList \/ WalkDir \/ WalkLink \/ WalkFile \/ WalkAgain BY <1>1, <1>6, FindsWalk
<1>7. CASE SudoDir \/ SudoRoot \/ SudoWalk BY <1>1, <1>2, <1>7, FindsSudo
<1> QED BY <1>3, <1>4, <1>5, <1>6, <1>7

\* The list of SRC arguments is finite.
LEMMA SourcesLen == ASSUME srcs \in Requests PROVE Len(srcs) \in Nat
<1>1. PICK SRC : srcs \in Seq(SRC) BY GatherAssumption
<1> QED BY <1>1, LenProperties
\* No step finds what has not been asked for.
LEMMA SoundStep == ASSUME TypeInv, Sound, [Next]_vars PROVE Sound'
<1>1. \A p \in Path : Hopeless(p)' BY HopelessStep DEF Sound
<1>2. UNCHANGED <<mode, srcs>> BY RequestKept
<1>3. Search /\ SearchTyped BY DEF TypeInv, Search
<1>4. k \in Nat /\ k' \in Nat /\ k <= k'
  <2>1. k \in 0..Len(srcs) /\ Len(srcs) \in Nat BY <1>3, SourcesLen DEF SearchTyped
  <2>2. k' = k \/ k' = k + 1
    <3>1. CASE \/ SrcDir \/ SrcNotFile \/ SrcFile \/ RootExists \/ RootDir \/ ListRoot \/ ChildFile
               \/ ChildLink \/ WalkList \/ WalkDir \/ WalkLink \/ WalkFile \/ WalkAgain
               \/ SudoDir \/ SudoRoot \/ SudoWalk
      BY <3>1, SeekSteps DEF Seeks
    <3>2. CASE NextSource BY <3>2 DEF NextSource
    <3>3. CASE FilterExists \/ FilterDir \/ FilterLink \/ FilterFile
      BY <3>3 DEF FilterExists, FilterDir, FilterLink, FilterFile, Unfiltered
    <3>4. CASE NextEntry \/ Get BY <3>4 DEF NextEntry, Get, Unfetched
    <3>5. CASE Change \/ LoseSession \/ UNCHANGED vars BY <3>5 DEF Change, LoseSession, vars
    <3> QED BY <3>1, <3>2, <3>3, <3>4, <3>5 DEF Next, Step
  <2> QED BY <2>1, <2>2
<1>5. ASSUME NEW p \in candidates', Undisturbed(p)' PROVE Asked(p)'
  <2>0. p \in Path
    <3>1. TypeInv' BY TypedStep
    <3> QED BY <3>1 DEF TypeInv, Search, SearchTyped
  <2>1. Undisturbed(p) /\ \A i \in 0..Len(p) : SameAt(Pre(p, i)) BY <1>5, <2>0, Steady
  <2>2. PICK i \in 1..k : Reaches(srcs[i], p)
    <3>1. CASE p \in candidates BY <2>1, <3>1 DEF Sound, Asked
    <3>2. CASE p \notin candidates
      <4>1. \/ SrcDir \/ SrcNotFile \/ SrcFile \/ RootExists \/ RootDir \/ ListRoot \/ ChildFile
            \/ ChildLink \/ WalkList \/ WalkDir \/ WalkLink \/ WalkFile \/ WalkAgain
            \/ SudoDir \/ SudoRoot \/ SudoWalk
        <5>1. CASE NextSource BY <3>2, <5>1 DEF NextSource
        <5>2. CASE FilterExists \/ FilterDir \/ FilterLink \/ FilterFile
          BY <3>2, <5>2 DEF FilterExists, FilterDir, FilterLink, FilterFile, Unfiltered
        <5>3. CASE NextEntry \/ Get BY <3>2, <5>3 DEF NextEntry, Get, Unfetched
        <5>4. CASE Change \/ LoseSession \/ UNCHANGED vars BY <3>2, <5>4 DEF Change, LoseSession, vars
        <5> QED BY <5>1, <5>2, <5>3, <5>4 DEF Next, Step
      <4>2. Reaches(srcs[k], p) BY <1>5, <2>1, <3>2, <4>1, SoundSeek
      <4>3. k > 0
        <5>1. Seeks BY <4>1, SeekSteps
        <5>2. pc # "source"
          BY <4>1 DEF SrcDir, SrcNotFile, SrcFile, RootExists, RootDir, ListRoot, ChildFile, ChildLink,
               WalkList, WalkDir, WalkLink, WalkFile, WalkAgain, SudoDir, SudoRoot, SudoWalk
        <5> QED BY <1>3, <5>1, <5>2 DEF Seeks, Search, Shape, ShapeAt
      <4>4. k \in 1..k BY <1>4, <4>3
      <4> QED BY <4>2, <4>4
    <3> QED BY <3>1, <3>2
  <2>3. i \in 1..Len(srcs) BY <1>3, SourcesLen DEF SearchTyped
  <2>4. PICK s : s = srcs[i] OBVIOUS
  <2>5. Base(s) \in Path BY <1>3, <2>3, <2>4, SrcTyped DEF SearchTyped
  <2>6. Reaches(s, p)' BY <1>2, <2>0, <2>1, <2>2, <2>4, <2>5, ReachesSame
  <2>7. i \in 1..k' /\ srcs'[i] = s BY <1>2, <1>4, <2>4
  <2> QED BY <2>6, <2>7 DEF Asked, Reaches, Rejected, Base, Literal
<1> QED BY <1>1, <1>5 DEF Sound

-----------------------------------------------------------------------------
(* The candidates are sorted out                                           *)

\* Lists with nothing in common.
Apart(a, b) == ToSet(a) \cap ToSet(b) = {}

\* Such a list without its first,
LEMMA TailLists ==
  ASSUME NEW S, NEW s \in Seq(S), s # <<>>, IsInjective(s)
  PROVE  /\ IsInjective(Tail(s)) /\ Head(s) \notin ToSet(Tail(s)) /\ Head(s) \in S /\ Tail(s) \in Seq(S)
         /\ ToSet(s) = ToSet(Tail(s)) \cup {Head(s)}
<1> PICK t : t = Tail(s) OBVIOUS
<1>1. PICK m : m = Len(s) OBVIOUS
<1>2. /\ m \in Nat \ {0} /\ Head(s) = s[1] /\ Head(s) \in S /\ t \in Seq(S) /\ Len(t) = m - 1
      /\ \A i \in 1..m - 1 : t[i] = s[i + 1]
  BY <1>1, HeadRest
<1>3. DOMAIN s = 1..m /\ DOMAIN t = 1..m - 1 BY <1>1, <1>2, LenProperties
<1>4. \A i, j \in 1..m : s[i] = s[j] => i = j BY <1>3 DEF IsInjective
<1>5. ASSUME NEW i \in 1..m - 1, NEW j \in 1..m - 1, t[i] = t[j] PROVE i = j
  <2>1. i + 1 \in 1..m /\ j + 1 \in 1..m BY <1>2
  <2>2. s[i + 1] = s[j + 1] BY <1>2, <1>5
  <2>3. i + 1 = j + 1 BY <1>4, <2>1, <2>2
  <2> QED BY <1>2, <2>3
<1>6. IsInjective(t) BY <1>3, <1>5 DEF IsInjective
<1>7. s[1] \notin ToSet(t)
  <2> SUFFICES ASSUME NEW i \in 1..m - 1, s[1] = t[i] PROVE FALSE BY <1>3 DEF ToSet
  <2>1. i + 1 \in 1..m /\ 1 \in 1..m /\ 1 # i + 1 BY <1>2
  <2>2. s[1] = s[i + 1] BY <1>2
  <2> QED BY <1>4, <2>1, <2>2
<1>8. ToSet(s) = ToSet(t) \cup {s[1]}
  <2>1. ASSUME NEW i \in 1..m PROVE s[i] \in ToSet(t) \cup {s[1]}
    <3>1. CASE i = 1 BY <3>1
    <3>2. CASE i # 1
      <4>1. PICK j \in 1..m - 1 : i = j + 1
        <5>1. i - 1 \in 1..m - 1 /\ i = (i - 1) + 1 BY <1>2, <3>2
        <5> QED BY <5>1
      <4> QED BY <1>2, <1>3, <4>1 DEF ToSet
    <3> QED BY <3>1, <3>2
  <2>2. ASSUME NEW i \in 1..m - 1 PROVE t[i] \in ToSet(s)
    <3>1. i + 1 \in 1..m BY <1>2
    <3> QED BY <1>2, <1>3, <3>1 DEF ToSet
  <2>3. s[1] \in ToSet(s)
    <3>1. 1 \in 1..m BY <1>2
    <3> QED BY <1>3, <3>1 DEF ToSet
  <2> QED BY <1>3, <2>1, <2>2, <2>3 DEF ToSet
<1> QED BY <1>2, <1>6, <1>7, <1>8

\* and two lists in one.
LEMMA JoinLists ==
  ASSUME NEW S, NEW a \in Seq(S), NEW b \in Seq(S), IsInjective(a), IsInjective(b), Apart(a, b)
  PROVE  a \o b \in Seq(S) /\ IsInjective(a \o b) /\ ToSet(a \o b) = ToSet(a) \cup ToSet(b)
<1> PICK c : c = a \o b OBVIOUS
<1>1. PICK m : m = Len(a) OBVIOUS
<1>2. PICK n : n = Len(b) OBVIOUS
<1>3. /\ m \in Nat /\ n \in Nat /\ c \in Seq(S) /\ Len(c) = m + n
      /\ DOMAIN a = 1..m /\ DOMAIN b = 1..n /\ DOMAIN c = 1..m + n
  <2>1. c \in Seq(S) /\ Len(c) = m + n BY <1>1, <1>2
  <2> QED BY <1>1, <1>2, <2>1, LenProperties
<1>4. /\ \A i \in 1..m : c[i] = a[i] /\ i \in 1..m + n
      /\ \A i \in m + 1..m + n : c[i] = b[i - m] /\ i - m \in 1..n
      /\ \A i \in 1..n : c[m + i] = b[i] /\ m + i \in 1..m + n
  <2>1. \A i \in 1..m + n : c[i] = IF i <= m THEN a[i] ELSE b[i - m] BY <1>1, <1>2, <1>3
  <2>2. \A i \in 1..m : i \in 1..m + n /\ i <= m BY <1>3
  <2>3. \A i \in m + 1..m + n : i \in 1..m + n /\ ~(i <= m) /\ i - m \in 1..n BY <1>3
  <2>4. \A i \in 1..n : m + i \in 1..m + n BY <1>3
  <2>5. \A i \in 1..m : c[i] = a[i] BY <2>1, <2>2
  <2>6. \A i \in m + 1..m + n : c[i] = b[i - m] BY <2>1, <2>3
  <2>7. ASSUME NEW i \in 1..n PROVE c[m + i] = b[i]
    <3>1. PICK j : j = m + i OBVIOUS
    <3>2. j \in m + 1..m + n /\ j - m = i BY <1>3, <3>1
    <3>3. c[j] = b[j - m] BY <2>6, <3>2
    <3> QED BY <3>1, <3>2, <3>3
  <2> QED BY <2>2, <2>3, <2>4, <2>5, <2>6, <2>7
<1>5. \A i \in 1..m + n : i \in 1..m \/ i \in m + 1..m + n BY <1>3
<1>6. ToSet(c) = ToSet(a) \cup ToSet(b)
  <2>1. ASSUME NEW i \in 1..m + n PROVE c[i] \in ToSet(a) \cup ToSet(b)
    BY <1>3, <1>4, <1>5 DEF ToSet
  <2>2. ASSUME NEW i \in 1..m PROVE a[i] \in ToSet(c)
    <3>1. c[i] = a[i] /\ i \in 1..m + n BY <1>4
    <3> QED BY <1>3, <3>1 DEF ToSet
  <2>3. ASSUME NEW i \in 1..n PROVE b[i] \in ToSet(c)
    <3>1. PICK j : j = m + i OBVIOUS
    <3>2. c[j] = b[i] /\ j \in 1..m + n BY <1>4, <3>1
    <3> QED BY <1>3, <3>2 DEF ToSet
  <2>4. ToSet(c) \subseteq ToSet(a) \cup ToSet(b) BY <1>3, <2>1 DEF ToSet
  <2>5. ToSet(a) \cup ToSet(b) \subseteq ToSet(c) BY <1>3, <2>2, <2>3 DEF ToSet
  <2> QED BY <2>4, <2>5
<1>7. ASSUME NEW i \in 1..m + n, NEW j \in 1..m + n, c[i] = c[j] PROVE i = j
  <2>1. \A x \in 1..m, y \in 1..n : a[x] # b[y] BY <1>3 DEF Apart, ToSet
  <2>2. CASE i \in 1..m /\ j \in 1..m BY <1>3, <1>4, <1>7, <2>2 DEF IsInjective
  <2>3. CASE i \in m + 1..m + n /\ j \in m + 1..m + n
    <3>1. PICK x \in 1..n : x = i - m BY <1>4, <2>3
    <3>2. PICK y \in 1..n : y = j - m BY <1>4, <2>3
    <3>3. b[x] = b[y] BY <1>4, <1>7, <2>3, <3>1, <3>2
    <3>4. x = y BY <1>3, <3>3 DEF IsInjective
    <3> QED BY <1>3, <3>1, <3>2, <3>4
  <2>4. CASE i \in 1..m /\ j \in m + 1..m + n
    <3>1. PICK y \in 1..n : y = j - m BY <1>4, <2>4
    <3>2. a[i] = b[y] BY <1>4, <1>7, <2>4, <3>1
    <3> QED BY <2>1, <2>4, <3>2
  <2>5. CASE i \in m + 1..m + n /\ j \in 1..m
    <3>1. PICK y \in 1..n : y = i - m BY <1>4, <2>5
    <3>2. a[j] = b[y] BY <1>4, <1>7, <2>5, <3>1
    <3> QED BY <2>1, <2>5, <3>2
  <2> QED BY <1>5, <2>2, <2>3, <2>4, <2>5
<1>8. IsInjective(c) BY <1>3, <1>7 DEF IsInjective
<1> QED BY <1>3, <1>6, <1>8

\* One more.
LEMMA AppendLists ==
  ASSUME NEW S, NEW a \in Seq(S), NEW c \in S, IsInjective(a), c \notin ToSet(a)
  PROVE  Append(a, c) \in Seq(S) /\ IsInjective(Append(a, c)) /\ ToSet(Append(a, c)) = ToSet(a) \cup {c}
<1>0. ASSUME NEW b \in Seq(S), IsInjective(b), Apart(a, b)
      PROVE  a \o b \in Seq(S) /\ IsInjective(a \o b) /\ ToSet(a \o b) = ToSet(a) \cup ToSet(b)
  BY <1>0, JoinLists
<1> PICK b : b = <<c>> OBVIOUS
<1>1. b \in Seq(S) /\ Len(b) = 1 /\ b[1] = c /\ DOMAIN b = 1..1 OBVIOUS
<1>2. ToSet(b) = {c}
  <2>1. \A i \in 1..1 : b[i] = c BY <1>1
  <2>2. 1 \in 1..1 OBVIOUS
  <2> QED BY <1>1, <2>1, <2>2 DEF ToSet
<1>3. IsInjective(b) BY <1>1 DEF IsInjective
<1>4. PICK d : d = Append(a, c) OBVIOUS
<1>6. d = a \o b BY <1>4
<1>5. Apart(a, b) BY <1>2 DEF Apart
<1> QED 
  <2>1. b \in Seq(S) /\ IsInjective(b) BY <1>1, <1>3
  <2>2. a \o b \in Seq(S) /\ IsInjective(a \o b) /\ ToSet(a \o b) = ToSet(a) \cup ToSet(b)
    BY <1>0, <1>5, <2>1
  <2>3. d \in Seq(S) /\ IsInjective(d) /\ ToSet(d) = ToSet(a) \cup {c} BY <1>2, <1>6, <2>2
  <2> QED BY <1>4, <2>3

\* The elements of such a list are as many as it is long.
LEMMA ListSize ==
  ASSUME NEW S, NEW s \in Seq(S), IsInjective(s) PROVE Cardinality(ToSet(s)) = Len(s)
<1>1. PICK m : m = Len(s) OBVIOUS
<1>2. m \in Nat /\ DOMAIN s = 1..m /\ s = [i \in 1..m |-> s[i]] BY <1>1, LenProperties
<1>3. ToSet(s) = {s[i] : i \in 1..m} BY <1>2 DEF ToSet
<1>4. s \in Bijection(1..m, ToSet(s))
  <2>1. \A i \in 1..m : s[i] \in ToSet(s) BY <1>3
  <2>2. s \in [1..m -> ToSet(s)] BY <1>2, <2>1
  <2>3. IsInjective(s) OBVIOUS
  <2>4. \A x \in ToSet(s) : \E i \in 1..m : s[i] = x BY <1>3
  <2> QED BY <2>2, <2>3, <2>4 DEF Bijection, Injection, Surjection
<1>5. IsFiniteSet(1..m) /\ Cardinality(1..m) = m
  <2>1. 1 \in Int /\ m \in Int BY <1>2
  <2>2. Cardinality(1..m) = IF 1 > m THEN 0 ELSE m - 1 + 1 BY <2>1, FS_Interval
  <2>3. IsFiniteSet(1..m) BY <2>1, FS_Interval
  <2> QED BY <1>2, <2>2, <2>3
<1>6. ExistsBijection(1..m, ToSet(s)) BY <1>4 DEF ExistsBijection
<1>7. Cardinality(ToSet(s)) = Cardinality(1..m) BY <1>5, <1>6, FS_Bijection
<1> QED BY <1>1, <1>5, <1>7

\* What has been found out about the paths in the two lists, if nothing has been disturbed,
Regular(S) == \A p \in S : Undisturbed(p) => IsFile(p) /\ ~IsLink(p)
Links(S) == \A p \in S : Undisturbed(p) => IsLink(p) /\ Exists(p) /\ ~IsDir(p)
\* and what is left out.
Covers(S) == \A p \in candidates : Undisturbed(p) /\ Eligible(p) => p \in S

\* The candidates are sorted out: those that are to be planned are in one of three lists.
SortInv ==
  pc \in Filtering =>
    /\ todo \in Seq(candidates) /\ files \in Seq(candidates) /\ symlinks \in Seq(candidates)
    /\ IsInjective(todo) /\ IsInjective(files) /\ IsInjective(symlinks)
    /\ Apart(todo, files) /\ Apart(todo, symlinks) /\ Apart(files, symlinks)
    /\ Regular(ToSet(files)) /\ Links(ToSet(symlinks))
    /\ Covers(ToSet(todo) \cup ToSet(files) \cup ToSet(symlinks))

\* What the first has answered.
HeadInv ==
  pc \in {"isDir", "isLink", "isFile"} =>
    /\ todo # <<>>
    /\ Undisturbed(Candidate) =>
         /\ Exists(Candidate)
         /\ pc # "isDir" => ~IsDir(Candidate)
         /\ pc = "isFile" => ~IsLink(Candidate)

\* The plan is of them, each once.
PlanInv ==
  pc \in {"entry", "get", "end"} =>
    /\ plan \in Seq(candidates) /\ IsInjective(plan)
    /\ \A p \in ToSet(plan) : Undisturbed(p) => Chosen(p)
    /\ Covers(ToSet(plan))

\* Before all that the lists are empty, after the search all SRC arguments have been begun.
StartInv ==
  /\ pc \in Seeking => files = <<>> /\ symlinks = <<>>
  /\ pc \notin Seeking \cup {"raised"} => k = Len(srcs)

Sorts == StartInv /\ SortInv /\ HeadInv /\ PlanInv

\* What has been found out stays true, and nothing is wanted that has not been.
LEMMA ListsKept ==
  ASSUME TypeInv, [Next]_vars, NEW S \in SUBSET candidates, candidates' = candidates
  PROVE  /\ Regular(S) => Regular(S)'
         /\ Links(S) => Links(S)'
         /\ Covers(S) => Covers(S)'
<1>1. S \subseteq Path /\ candidates \subseteq Path BY DEF TypeInv, Search, SearchTyped
<1>2. ASSUME Regular(S), NEW p \in S, Undisturbed(p)' PROVE IsFile(p)' /\ ~IsLink(p)'
  <2>1. p \in Path BY <1>1
  <2> QED BY <1>2, <2>1, SteadyFacts DEF Regular
<1>3. ASSUME Links(S), NEW p \in S, Undisturbed(p)' PROVE IsLink(p)' /\ Exists(p)' /\ ~IsDir(p)'
  <2>1. p \in Path BY <1>1
  <2> QED BY <1>3, <2>1, SteadyFacts DEF Links
<1>4. ASSUME Covers(S), NEW p \in candidates, Undisturbed(p)', Eligible(p)' PROVE p \in S
  <2>1. p \in Path BY <1>1
  <2> QED BY <1>4, <2>1, SteadyFacts DEF Covers
<1>5. Regular(S) => Regular(S)' BY <1>2 DEF Regular
<1>6. Links(S) => Links(S)' BY <1>3 DEF Links
<1>7. Covers(S) => Covers(S)' BY <1>4 DEF Covers
<1> QED BY <1>5, <1>6, <1>7

\* The lists in a sequence of candidates are of candidates.
LEMMA ListOf == ASSUME NEW S, NEW s \in Seq(S) PROVE ToSet(s) \subseteq S
<1>1. DOMAIN s = 1..Len(s) BY LenProperties
<1>2. \A i \in 1..Len(s) : s[i] \in S BY ElementOfSeq
<1> QED BY <1>1, <1>2 DEF ToSet

\* A failed call for a path disturbs it.
LEMMA FailureDisturbs == ASSUME NEW p \in Path, CallFails(p) PROVE ~Undisturbed(p)'
<1>1. p \in hit' BY DEF CallFails
<1>2. Len(p) <= Len(p) BY PathLen
<1>3. IsPrefix(p, p) BY <1>2, PrefixFacts
<1> QED BY <1>1, <1>3 DEF Undisturbed

\* The sorting goes on to the next question,
LEMMA SortGoto ==
  ASSUME TypeInv, [Next]_vars, Sorts, pc \in Filtering, pc' \in {"isDir", "isLink", "isFile"}, todo # <<>>,
         UNCHANGED <<k, srcs, candidates, todo, files, symlinks>>,
         Undisturbed(Candidate)' =>
           Exists(Candidate) /\ (pc' # "isDir" => ~IsDir(Candidate)) /\ (pc' = "isFile" => ~IsLink(Candidate))
  PROVE  Sorts'
<1>1. pc \notin Seeking \cup {"raised"} /\ pc' \in Filtering BY DEF Filtering, Seeking
<1>2. /\ todo \in Seq(candidates) /\ files \in Seq(candidates) /\ symlinks \in Seq(candidates)
      /\ IsInjective(todo) /\ IsInjective(files) /\ IsInjective(symlinks)
      /\ Apart(todo, files) /\ Apart(todo, symlinks) /\ Apart(files, symlinks)
      /\ Regular(ToSet(files)) /\ Links(ToSet(symlinks))
      /\ Covers(ToSet(todo) \cup ToSet(files) \cup ToSet(symlinks))
  BY DEF Sorts, SortInv
<1> PICK F : F = ToSet(files) OBVIOUS
<1> PICK L : L = ToSet(symlinks) OBVIOUS
<1> PICK A : A = ToSet(todo) \cup ToSet(files) \cup ToSet(symlinks) OBVIOUS
<1>3. F \subseteq candidates /\ L \subseteq candidates /\ A \subseteq candidates BY <1>2, ListOf
<1>4. Regular(F)' /\ Links(L)' /\ Covers(A)' BY <1>2, <1>3, ListsKept
<1>5. Regular(ToSet(files))' /\ Links(ToSet(symlinks))'
      /\ Covers(ToSet(todo) \cup ToSet(files) \cup ToSet(symlinks))'
  BY <1>4 DEF Regular, Links, Covers
<1>6. SortInv' BY <1>2, <1>5 DEF SortInv, Apart
<1>7. StartInv' BY <1>1 DEF Sorts, StartInv, Filtering, Seeking
<1>8. HeadInv'
  <2>1. PICK c : c = Candidate OBVIOUS
  <2>2. Candidate' = c BY <2>1 DEF Candidate
  <2>3. c \in Path
    <3>1. c \in candidates BY <1>2, <2>1, HeadRest DEF Candidate
    <3> QED BY <3>1 DEF TypeInv, Search, SearchTyped
  <2>4. Undisturbed(c)' => Exists(c) /\ (pc' # "isDir" => ~IsDir(c)) /\ (pc' = "isFile" => ~IsLink(c))
    BY <2>1, <2>2 DEF Undisturbed
  <2>5. Undisturbed(c)' => Exists(c)' /\ (pc' # "isDir" => ~IsDir(c)') /\ (pc' = "isFile" => ~IsLink(c)')
    BY <2>3, <2>4, SteadyFacts
  <2> QED BY <2>2, <2>5 DEF HeadInv, Exists, IsDir, IsLink, Undisturbed, Along
<1>9. PlanInv' BY DEF PlanInv
<1> QED BY <1>6, <1>7, <1>8, <1>9 DEF Sorts

\* to the next candidate, this one being left out or in a list,
LEMMA SortNext ==
  ASSUME TypeInv, [Next]_vars, Sorts, pc \in Filtering, pc' = "exists", todo # <<>>,
         UNCHANGED <<k, srcs, candidates>>, todo' = Tail(todo),
         NEW c, c = Candidate,
         \/ /\ UNCHANGED <<files, symlinks>>
            /\ Undisturbed(c)' => ~Eligible(c)
         \/ /\ files' = Append(files, c) /\ symlinks' = symlinks
            /\ Undisturbed(c)' => IsFile(c) /\ ~IsLink(c)
         \/ /\ symlinks' = Append(symlinks, c) /\ files' = files
            /\ Undisturbed(c)' => IsLink(c) /\ Exists(c) /\ ~IsDir(c)
  PROVE  Sorts'
<1>1. pc \notin Seeking \cup {"raised"} BY DEF Filtering, Seeking
<1>2. /\ todo \in Seq(candidates) /\ files \in Seq(candidates) /\ symlinks \in Seq(candidates)
      /\ IsInjective(todo) /\ IsInjective(files) /\ IsInjective(symlinks)
      /\ Apart(todo, files) /\ Apart(todo, symlinks) /\ Apart(files, symlinks)
      /\ Regular(ToSet(files)) /\ Links(ToSet(symlinks))
      /\ Covers(ToSet(todo) \cup ToSet(files) \cup ToSet(symlinks))
  BY DEF Sorts, SortInv
<1>3. /\ IsInjective(todo') /\ c \notin ToSet(todo') /\ c \in candidates /\ todo' \in Seq(candidates)
      /\ ToSet(todo) = ToSet(todo') \cup {c}
  BY <1>2, TailLists DEF Candidate
<1>4. c \in Path BY <1>3 DEF TypeInv, Search, SearchTyped
<1>5. c \notin ToSet(files) /\ c \notin ToSet(symlinks) BY <1>2, <1>3 DEF Apart
<1> PICK F : F = ToSet(files) OBVIOUS
<1> PICK L : L = ToSet(symlinks) OBVIOUS
<1> PICK T : T = ToSet(todo') OBVIOUS
<1>6. F \subseteq candidates /\ L \subseteq candidates /\ T \subseteq candidates BY <1>2, <1>3, ListOf
<1>7. /\ T \cap F = {} /\ T \cap L = {} /\ F \cap L = {} /\ c \notin T \cup F \cup L
      /\ Covers(T \cup {c} \cup F \cup L)
  BY <1>2, <1>3, <1>5 DEF Apart
<1>8. Regular(F)' /\ Links(L)' /\ Covers(T \cup {c} \cup F \cup L)'
  <2>1. Regular(F)' /\ Links(L)' BY <1>2, <1>6, ListsKept
  <2>2. PICK A : A = T \cup {c} \cup F \cup L OBVIOUS
  <2>3. A \in SUBSET candidates /\ Covers(A) BY <1>3, <1>6, <1>7, <2>2
  <2>4. Covers(A)' BY <2>3, ListsKept
  <2> QED BY <2>1, <2>2, <2>4
<1>9. StartInv' BY <1>1 DEF Sorts, StartInv, Filtering, Seeking
<1>10. HeadInv' /\ PlanInv' BY DEF HeadInv, PlanInv
<1>11. SUFFICES SortInv' BY <1>9, <1>10 DEF Sorts
<1>12. CASE UNCHANGED <<files, symlinks>> /\ (Undisturbed(c)' => ~Eligible(c))
  <2>1. Undisturbed(c)' => ~Eligible(c)' BY <1>4, <1>12, SteadyFacts
  <2>2. Covers(T \cup F \cup L)' BY <1>8, <2>1 DEF Covers
  <2>3. ToSet(files') = F /\ ToSet(symlinks') = L BY <1>12
  <2>4. Regular(ToSet(files))' /\ Links(ToSet(symlinks))'
        /\ Covers(ToSet(todo) \cup ToSet(files) \cup ToSet(symlinks))'
    BY <1>8, <2>2, <2>3 DEF Regular, Links, Covers
  <2>5. Apart(todo, files)' /\ Apart(todo, symlinks)' /\ Apart(files, symlinks)'
    BY <1>7, <2>3 DEF Apart
  <2> QED BY <1>2, <1>3, <1>12, <2>4, <2>5 DEF SortInv
<1>13. CASE /\ files' = Append(files, c) /\ symlinks' = symlinks
            /\ Undisturbed(c)' => IsFile(c) /\ ~IsLink(c)
  <2>1. files' \in Seq(candidates) /\ IsInjective(files') /\ ToSet(files') = F \cup {c}
    BY <1>2, <1>3, <1>5, <1>13, AppendLists
  <2>2. Undisturbed(c)' => IsFile(c)' /\ ~IsLink(c)' BY <1>4, <1>13, SteadyFacts
  <2>3. ToSet(symlinks') = L BY <1>13
  <2>4. Regular(ToSet(files))' BY <1>8, <2>1, <2>2 DEF Regular
  <2>5. Links(ToSet(symlinks))' BY <1>8, <2>3 DEF Links
  <2>6. Covers(ToSet(todo) \cup ToSet(files) \cup ToSet(symlinks))' BY <1>8, <2>1, <2>3 DEF Covers
  <2>7. Apart(todo, files)' /\ Apart(todo, symlinks)' /\ Apart(files, symlinks)'
    BY <1>7, <2>1, <2>3 DEF Apart
  <2> QED BY <1>2, <1>3, <1>13, <2>1, <2>4, <2>5, <2>6, <2>7 DEF SortInv
<1>14. CASE /\ symlinks' = Append(symlinks, c) /\ files' = files
            /\ Undisturbed(c)' => IsLink(c) /\ Exists(c) /\ ~IsDir(c)
  <2>1. symlinks' \in Seq(candidates) /\ IsInjective(symlinks') /\ ToSet(symlinks') = L \cup {c}
    BY <1>2, <1>3, <1>5, <1>14, AppendLists
  <2>2. Undisturbed(c)' => IsLink(c)' /\ Exists(c)' /\ ~IsDir(c)' BY <1>4, <1>14, SteadyFacts
  <2>3. ToSet(files') = F BY <1>14
  <2>4. Links(ToSet(symlinks))' BY <1>8, <2>1, <2>2 DEF Links
  <2>5. Regular(ToSet(files))' BY <1>8, <2>3 DEF Regular
  <2>6. Covers(ToSet(todo) \cup ToSet(files) \cup ToSet(symlinks))' BY <1>8, <2>1, <2>3 DEF Covers
  <2>7. Apart(todo, files)' /\ Apart(todo, symlinks)' /\ Apart(files, symlinks)'
    BY <1>7, <2>1, <2>3 DEF Apart
  <2> QED BY <1>2, <1>3, <1>14, <2>1, <2>4, <2>5, <2>6, <2>7 DEF SortInv
<1> QED BY <1>12, <1>13, <1>14

\* What stat() may answer, before a step and after it.
Kinds == \A user : \A p \in Path : Stat(user, p) \in {"none", "dir", "file", "other"}
\* It answers with a kind, or that there is nothing.
LEMMA KindsLemma == Kinds
BY StatFacts DEF Kinds

\* The candidate asked for stays one along which nothing has been disturbed, or a call fails.
LEMMA KeptCandidate ==
  ASSUME TypeInv, [Next]_vars, Sorts, pc \in Filtering, todo # <<>>, UNCHANGED todo, Undisturbed(Candidate)'
  PROVE  Undisturbed(Candidate) /\ ~CallFails(Candidate)
<1>1. PICK c : c = Candidate OBVIOUS
<1>2. todo \in Seq(candidates) BY DEF Sorts, SortInv
<1>3. c \in candidates BY <1>1, <1>2, HeadRest DEF Candidate
<1>4. c \in Path BY <1>3 DEF TypeInv, Search, SearchTyped
<1>5. Candidate' = c BY <1>1 DEF Candidate
<1>6. Undisturbed(c)' BY <1>5 DEF Undisturbed, Along
<1> QED BY <1>1, <1>4, <1>6, Steady, FailureDisturbs

\* and at last to the plan.
LEMMA SortPlan ==
  ASSUME TypeInv, [Next]_vars, Sorts, pc = "exists", todo = <<>>, pc' \in {"end", "entry"},
         UNCHANGED <<mode, k, srcs, candidates>>, plan' = IF Packs THEN files \o symlinks ELSE files
  PROVE  Sorts'
<1>1. /\ files \in Seq(candidates) /\ symlinks \in Seq(candidates)
      /\ IsInjective(files) /\ IsInjective(symlinks) /\ Apart(files, symlinks)
      /\ Regular(ToSet(files)) /\ Links(ToSet(symlinks))
      /\ Covers(ToSet(todo) \cup ToSet(files) \cup ToSet(symlinks))
  BY DEF Sorts, SortInv, Filtering
<1>2. ToSet(todo) = {}
  <2>1. \A S : \A s \in Seq(S) : s = <<>> => DOMAIN s = {} BY LenProperties
  <2>2. todo \in Seq(candidates) BY DEF Sorts, SortInv, Filtering
  <2>3. DOMAIN todo = {} BY <2>1, <2>2
  <2> QED BY <2>3 DEF ToSet
<1> PICK F : F = ToSet(files) OBVIOUS
<1> PICK L : L = ToSet(symlinks) OBVIOUS
<1>3. F \subseteq candidates /\ L \subseteq candidates /\ candidates \subseteq Path
  BY <1>1, ListOf DEF TypeInv, Search, SearchTyped
<1>4. Covers(F \cup L) BY <1>1, <1>2
<1>5. Regular(F)' /\ Links(L)' /\ Covers(F \cup L)'
  <2>1. PICK A : A = F \cup L OBVIOUS
  <2>2. A \in SUBSET candidates /\ Covers(A) BY <1>3, <1>4, <2>1
  <2>3. Covers(A)' BY <2>2, ListsKept
  <2>4. Regular(F)' /\ Links(L)' BY <1>1, <1>3, ListsKept
  <2> QED BY <2>1, <2>3, <2>4
<1>6. Packs' <=> Packs BY DEF Packs
<1>7. \A p \in F : Undisturbed(p)' => Chosen(p)' BY <1>5 DEF Regular, Eligible, Chosen
<1>8. \A p \in L : Undisturbed(p)' => IsLink(p)' /\ (Stat("login", p)' = "other" \/ IsFile(p)')
  <2>2. Kinds' BY KindsLemma, PTL
  <2>3. \A p \in L : Stat("login", p)' \in {"none", "dir", "file", "other"} BY <1>3, <2>2 DEF Kinds
  <2> QED BY <1>5, <2>3 DEF Links, Exists, IsDir, IsFile
<1>9. pc \notin Seeking \cup {"raised"} /\ pc' \notin Seeking /\ pc' \notin Filtering
      /\ pc' \notin {"isDir", "isLink", "isFile"} /\ pc \in Filtering
  BY DEF Filtering, Seeking
<1>10. StartInv' /\ SortInv' /\ HeadInv' BY <1>9 DEF Sorts, StartInv, SortInv, HeadInv
<1>11. SUFFICES PlanInv' BY <1>10 DEF Sorts
<1>12. CASE Packs
  <2>1. plan' \in Seq(candidates) /\ IsInjective(plan') /\ ToSet(plan') = F \cup L
    BY <1>1, <1>12, JoinLists
  <2>2. \A p \in ToSet(plan') : Undisturbed(p)' => Chosen(p)'
    BY <1>6, <1>7, <1>8, <1>12, <2>1 DEF Eligible, Chosen
  <2>3. Covers(ToSet(plan))' BY <1>5, <2>1 DEF Covers
  <2> QED BY <2>1, <2>2, <2>3 DEF PlanInv
<1>13. CASE ~Packs
  <2>1. plan' \in Seq(candidates) /\ IsInjective(plan') /\ ToSet(plan') = F BY <1>1, <1>13
  <2>2. \A p \in ToSet(plan') : Undisturbed(p)' => Chosen(p)'
    BY <1>7, <2>1
  <2>3. \A p \in L : Undisturbed(p)' => ~Eligible(p)' BY <1>6, <1>8, <1>13 DEF Eligible
  <2>4. Covers(ToSet(plan))' BY <1>5, <2>1, <2>3 DEF Covers
  <2> QED BY <2>1, <2>2, <2>4 DEF PlanInv
<1> QED BY <1>12, <1>13

\* What is asked of the candidates sorts them out.
LEMMA SortFilter ==
  ASSUME TypeInv, [Next]_vars, Sorts, FilterExists \/ FilterDir \/ FilterLink \/ FilterFile
  PROVE  Sorts'
<1>1. /\ pc \in Filtering /\ UNCHANGED <<mode, srcs, k, candidates>>
      /\ pc # "exists" => todo # <<>>
  BY DEF Filtering, FilterExists, FilterDir, FilterLink, FilterFile, Unfiltered, Sorts, HeadInv
<1>2. ASSUME todo # <<>> PROVE Candidate \in Path
  <2>1. todo \in Seq(candidates) BY <1>1 DEF Sorts, SortInv
  <2>2. Candidate \in candidates BY <1>2, <2>1, HeadRest DEF Candidate
  <2> QED BY <2>2 DEF TypeInv, Search, SearchTyped
<1>3. ASSUME todo # <<>>, NEW l \in {"isDir", "isLink", "isFile"}, FilterGoto(l),
             Undisturbed(Candidate)' =>
               Exists(Candidate) /\ (l # "isDir" => ~IsDir(Candidate)) /\ (l = "isFile" => ~IsLink(Candidate))
      PROVE  Sorts'
  <2>1. pc' = l /\ UNCHANGED <<todo, files, symlinks>> BY <1>3 DEF FilterGoto, filterVars
  <2> QED BY <1>1, <1>3, <2>1, SortGoto
<1>4. ASSUME todo # <<>>, Drop, CallFails(Candidate) \/ ~IsFile(Candidate) PROVE Sorts'
  <2>1. PICK c : c = Candidate OBVIOUS
  <2>2. Undisturbed(c)' => ~Eligible(c) BY <1>2, <1>4, <2>1, FailureDisturbs DEF Eligible
  <2>3. pc' = "exists" /\ todo' = Tail(todo) /\ UNCHANGED <<files, symlinks>> BY <1>4 DEF Drop
  <2> QED BY <1>1, <1>4, <2>1, <2>2, <2>3, SortNext
<1>5. pc \in {"isDir", "isLink", "isFile"} /\ Undisturbed(Candidate) =>
        /\ Exists(Candidate)
        /\ pc # "isDir" => ~IsDir(Candidate)
        /\ pc = "isFile" => ~IsLink(Candidate)
  BY DEF Sorts, HeadInv
<1>6. ASSUME todo # <<>>, NEW c, c = Candidate, Undisturbed(c)' PROVE Undisturbed(Candidate)
  BY <1>2, <1>6, Steady
<1>8. CASE FilterExists
  <2>1. CASE todo = <<>>
    BY <1>1, <1>8, <2>1, SortPlan DEF FilterExists
  <2>2. CASE todo # <<>>
    <3>1. \/ Exists(Candidate) /\ FilterGoto("isDir")
          \/ (CallFails(Candidate) \/ ~Exists(Candidate)) /\ Drop
      BY <1>8, <2>2 DEF FilterExists, Asks
    <3>2. ~Exists(Candidate) => ~IsFile(Candidate) BY DEF Exists, IsFile
    <3> QED BY <1>3, <1>4, <2>2, <3>1, <3>2
  <2> QED BY <2>1, <2>2
<1>9. CASE FilterDir
  <2>1. pc = "isDir" /\ todo # <<>> BY <1>1, <1>9 DEF FilterDir
  <2>2. \/ IsDir(Candidate) /\ Drop
        \/ ~IsDir(Candidate) /\ FilterGoto("isLink")
        \/ CallFails(Candidate) /\ FilterGoto("isLink")
    BY <1>9 DEF FilterDir, Asks
  <2>3. IsDir(Candidate) => ~IsFile(Candidate) BY DEF IsDir, IsFile
  <2>4. ASSUME FilterGoto("isLink"), CallFails(Candidate) \/ ~IsDir(Candidate), Undisturbed(Candidate)'
        PROVE  Exists(Candidate) /\ ~IsDir(Candidate)
    <3>1. UNCHANGED todo BY <2>4 DEF FilterGoto, filterVars
    <3>2. Undisturbed(Candidate) /\ ~CallFails(Candidate) BY <1>1, <2>1, <2>4, <3>1, KeptCandidate
    <3> QED BY <1>5, <2>1, <2>4, <3>2
  <2> QED BY <1>3, <1>4, <2>1, <2>2, <2>3, <2>4
<1>10. CASE FilterLink
  <2>1. pc = "isLink" /\ todo # <<>> BY <1>1, <1>10 DEF FilterLink
  <2>2. \/ Works /\ IsLink(Candidate) /\ AddLink
        \/ (CallFails(Candidate) \/ ~IsLink(Candidate)) /\ FilterGoto("isFile")
    BY <1>10 DEF FilterLink, Asks
  <2>3. ASSUME FilterGoto("isFile"), CallFails(Candidate) \/ ~IsLink(Candidate), Undisturbed(Candidate)'
        PROVE  Exists(Candidate) /\ ~IsDir(Candidate) /\ ~IsLink(Candidate)
    <3>1. UNCHANGED todo BY <2>3 DEF FilterGoto, filterVars
    <3>2. Undisturbed(Candidate) /\ ~CallFails(Candidate) BY <1>1, <2>1, <2>3, <3>1, KeptCandidate
    <3> QED BY <1>5, <2>1, <2>3, <3>2
  <2>4. CASE IsLink(Candidate) /\ AddLink
    <3>1. PICK c : c = Candidate OBVIOUS
    <3>2. Undisturbed(c)' => IsLink(c) /\ Exists(c) /\ ~IsDir(c) BY <1>5, <1>6, <2>1, <2>4, <3>1
    <3>3. pc' = "exists" /\ todo' = Tail(todo) /\ symlinks' = Append(symlinks, c) /\ files' = files
      BY <2>4, <3>1 DEF AddLink
    <3> QED BY <1>1, <2>1, <3>1, <3>2, <3>3, SortNext
  <2> QED BY <1>3, <2>1, <2>2, <2>3, <2>4
<1>11. CASE FilterFile
  <2>1. pc = "isFile" /\ todo # <<>> BY <1>1, <1>11 DEF FilterFile
  <2>2. \/ IsFile(Candidate) /\ AddFile
        \/ (CallFails(Candidate) \/ ~IsFile(Candidate)) /\ Drop
    BY <1>11 DEF FilterFile, Asks
  <2>3. CASE IsFile(Candidate) /\ AddFile
    <3>1. PICK c : c = Candidate OBVIOUS
    <3>2. Undisturbed(c)' => IsFile(c) /\ ~IsLink(c) BY <1>5, <1>6, <2>1, <2>3, <3>1
    <3>3. pc' = "exists" /\ todo' = Tail(todo) /\ files' = Append(files, c) /\ symlinks' = symlinks
      BY <2>3, <3>1 DEF AddFile
    <3> QED BY <1>1, <2>1, <3>1, <3>2, <3>3, SortNext
  <2> QED BY <1>4, <2>1, <2>2, <2>3
<1> QED BY <1>8, <1>9, <1>10, <1>11

\* The rest of the program leaves that alone.
LEMMA SortsStep == ASSUME TypeInv, Sorts, [Next]_vars PROVE Sorts'
<1>0. TypeInv' BY TypedStep
<1>1. CASE \/ SrcDir \/ SrcNotFile \/ SrcFile \/ RootExists \/ RootDir \/ ListRoot \/ ChildFile
           \/ ChildLink \/ WalkList \/ WalkDir \/ WalkLink \/ WalkFile \/ WalkAgain
           \/ SudoDir \/ SudoRoot \/ SudoWalk
  <2>1. Seeks BY <1>1, SeekSteps
  <2>2. pc \in Seeking /\ pc' \in Seeking \cup {"raised"} /\ UNCHANGED <<files, symlinks>>
    BY <2>1 DEF Seeks, filterVars
  <2>3. pc' \notin Filtering /\ pc' \notin {"isDir", "isLink", "isFile"} /\ pc' \notin {"entry", "get", "end"}
    BY <2>2 DEF Seeking, Filtering
  <2> QED BY <2>2, <2>3 DEF Sorts, StartInv, SortInv, HeadInv, PlanInv
<1>2. CASE NextSource
  <2>1. pc = "source" /\ UNCHANGED <<files, symlinks, srcs, candidates>> BY <1>2 DEF NextSource
  <2>2. files = <<>> /\ symlinks = <<>> BY <2>1 DEF Sorts, StartInv, Seeking
  <2>3. CASE k = Len(srcs)
    <3>1. pc' = "exists" /\ todo' = Sorted(candidates) /\ k' = k BY <1>2, <2>3 DEF NextSource
    <3>2. candidates \subseteq Path /\ IsFiniteSet(candidates) BY DEF TypeInv, Search, SearchTyped
    <3>3. todo' \in Seq(candidates) /\ ToSet(todo') = candidates /\ IsInjective(todo')
      <4>1. PICK list : list = Sorted(candidates) OBVIOUS
      <4>2. list \in Seq(candidates) /\ ToSet(list) = candidates
            /\ \A i, j \in 1..Len(list) : list[i] = list[j] => i = j
        BY <3>2, <4>1, SortedFacts
      <4>3. DOMAIN list = 1..Len(list) BY <4>2, LenProperties
      <4> QED BY <3>1, <4>1, <4>2, <4>3 DEF IsInjective
    <3>4. files' = <<>> /\ symlinks' = <<>> BY <2>1, <2>2
    <3>5. /\ files' \in Seq(candidates) /\ symlinks' \in Seq(candidates)
          /\ IsInjective(files') /\ IsInjective(symlinks') /\ ToSet(files') = {} /\ ToSet(symlinks') = {}
      <4>1. PICK e : e = <<>> OBVIOUS
      <4>2. e \in Seq(candidates) /\ DOMAIN e = {} BY <4>1
      <4>3. IsInjective(e) /\ ToSet(e) = {} BY <4>2 DEF IsInjective, ToSet
      <4> QED BY <3>4, <4>1, <4>2, <4>3
    <3>6. SortInv' BY <2>1, <3>3, <3>5 DEF SortInv, Apart, Regular, Links, Covers
    <3>7. StartInv' /\ HeadInv' /\ PlanInv' BY <2>1, <2>3, <3>1 DEF StartInv, HeadInv, PlanInv, Seeking
    <3> QED BY <3>6, <3>7 DEF Sorts
  <2>4. CASE k # Len(srcs)
    <3>1. pc' \in {"source", "sudoDir", "sudoRoot", "srcDir", "rootExists"} BY <1>2, <2>4 DEF NextSource
    <3> QED BY <2>1, <2>2, <3>1 DEF Sorts, StartInv, SortInv, HeadInv, PlanInv, Seeking, Filtering
  <2> QED BY <2>3, <2>4
<1>3. CASE FilterExists \/ FilterDir \/ FilterLink \/ FilterFile BY <1>3, SortFilter
<1>4. ASSUME UNCHANGED <<srcs, k, candidates, plan>>, pc \in {"entry", "get", "end"} PROVE PlanInv'
  <2>1. /\ plan \in Seq(candidates) /\ IsInjective(plan) /\ Covers(ToSet(plan))
        /\ \A p \in ToSet(plan) : Undisturbed(p) => Chosen(p)
    BY <1>4 DEF Sorts, PlanInv
  <2>2. PICK S : S = ToSet(plan) OBVIOUS
  <2>3. S \in SUBSET candidates /\ S \subseteq Path BY <2>1, <2>2, ListOf DEF TypeInv, Search, SearchTyped
  <2>4. Covers(S)' BY <1>4, <2>1, <2>2, <2>3, ListsKept
  <2>5. ToSet(plan') = S BY <1>4, <2>2
  <2>6. Covers(ToSet(plan))' BY <2>4, <2>5 DEF Covers
  <2>7. \A p \in S : Undisturbed(p)' => Chosen(p)'
    BY <2>1, <2>2, <2>3, SteadyFacts, RequestKept DEF Chosen, Packs
  <2> QED BY <1>4, <2>1, <2>5, <2>6, <2>7 DEF PlanInv
<1>5. CASE NextEntry \/ Get
  <2>1. pc \in {"entry", "get"} /\ pc' \in {"entry", "get", "end", "raised"} BY <1>5 DEF NextEntry, Get
  <2>2. UNCHANGED <<srcs, k, candidates, plan>> BY <1>5 DEF NextEntry, Get, Unfetched, filterVars
  <2>3. PlanInv' BY <1>4, <2>1, <2>2
  <2>4. k = Len(srcs) BY <2>1 DEF Sorts, StartInv, Seeking
  <2> QED BY <2>1, <2>2, <2>3, <2>4 DEF Sorts, StartInv, SortInv, HeadInv, Seeking, Filtering
<1>6. CASE Change \/ LoseSession \/ UNCHANGED vars
  <2>1. UNCHANGED <<pc, srcs, k, candidates, todo, files, symlinks, plan>>
    BY <1>6 DEF Change, LoseSession, vars, filterVars
  <2>2. PlanInv'
    <3>1. CASE pc \in {"entry", "get", "end"} BY <1>4, <2>1, <3>1
    <3>2. CASE pc \notin {"entry", "get", "end"} BY <2>1, <3>2 DEF PlanInv
    <3> QED BY <3>1, <3>2
  <2>3. StartInv' BY <2>1 DEF Sorts, StartInv
  <2>4. CASE pc \in {"isDir", "isLink", "isFile"}
    <3>1. todo # <<>> /\ pc \in Filtering BY <2>4 DEF Sorts, HeadInv, Filtering
    <3>2. ASSUME Undisturbed(Candidate)'
          PROVE  Exists(Candidate) /\ (pc # "isDir" => ~IsDir(Candidate)) /\ (pc = "isFile" => ~IsLink(Candidate))
      BY <2>1, <2>4, <3>1, <3>2, KeptCandidate DEF Sorts, HeadInv
    <3> QED BY <2>1, <2>4, <3>1, <3>2, SortGoto
  <2>5. CASE pc \notin {"isDir", "isLink", "isFile"}
    <3>1. HeadInv' BY <2>1, <2>5 DEF HeadInv
    <3>2. SortInv'
      <4>1. CASE pc \notin Filtering BY <2>1, <4>1 DEF SortInv
      <4>2. CASE pc \in Filtering
        <5>1. /\ todo \in Seq(candidates) /\ files \in Seq(candidates) /\ symlinks \in Seq(candidates)
              /\ Regular(ToSet(files)) /\ Links(ToSet(symlinks))
              /\ Covers(ToSet(todo) \cup ToSet(files) \cup ToSet(symlinks))
          BY <4>2 DEF Sorts, SortInv
        <5>2. PICK F : F = ToSet(files) OBVIOUS
        <5>3. PICK L : L = ToSet(symlinks) OBVIOUS
        <5>4. PICK A : A = ToSet(todo) \cup ToSet(files) \cup ToSet(symlinks) OBVIOUS
        <5>5. F \in SUBSET candidates /\ L \in SUBSET candidates /\ A \in SUBSET candidates
          BY <5>1, <5>2, <5>3, <5>4, ListOf
        <5>6. Regular(F)' /\ Links(L)' /\ Covers(A)'
          BY <2>1, <5>1, <5>2, <5>3, <5>4, <5>5, ListsKept
        <5>7. Regular(ToSet(files))' /\ Links(ToSet(symlinks))'
              /\ Covers(ToSet(todo) \cup ToSet(files) \cup ToSet(symlinks))'
          BY <2>1, <5>2, <5>3, <5>4, <5>6 DEF Regular, Links, Covers
        <5>8. Apart(todo, files)' /\ Apart(todo, symlinks)' /\ Apart(files, symlinks)'
          BY <2>1, <4>2 DEF Sorts, SortInv, Apart
        <5> QED BY <2>1, <4>2, <5>7, <5>8 DEF Sorts, SortInv
      <4> QED BY <4>1, <4>2
    <3> QED BY <2>2, <2>3, <3>1, <3>2 DEF Sorts
  <2> QED BY <2>4, <2>5
<1> QED BY <1>1, <1>2, <1>3, <1>5, <1>6 DEF Next, Step

-----------------------------------------------------------------------------
(* The plan                                                                *)

\* All that the plan needs, along with the types.
PlanIInv == Complete /\ Sound /\ Sorts
\* It holds at first, when nothing has been found,
LEMMA PlanInit == ASSUME Init, TypeInv PROVE PlanIInv
<1>1. pc = "source" /\ k = 0 /\ candidates = {} /\ files = <<>> /\ symlinks = <<>> BY DEF Init
<1>2. Complete
  <2>1. ~(k > 0) BY <1>1
  <2>2. \A i \in 1..Len(srcs) : ~(i < k)
    <3>1. Len(srcs) \in Nat BY SourcesLen DEF TypeInv, Search, SearchTyped
    <3> QED BY <1>1, <3>1
  <2> QED BY <2>1, <2>2 DEF Complete
<1>3. Sound BY <1>1 DEF Sound, Hopeless, DirLabels
<1>4. Sorts BY <1>1 DEF Sorts, StartInv, SortInv, HeadInv, PlanInv, Seeking, Filtering
<1> QED BY <1>2, <1>3, <1>4 DEF PlanIInv
\* and from then on.
LEMMA PlanInvariance == Spec => []PlanIInv
<1>1. TypeInv /\ Init => PlanIInv BY PlanInit
<1>2. TypeInv /\ PlanIInv /\ [Next]_vars => PlanIInv' BY CompleteStep, SoundStep, SortsStep DEF PlanIInv
<1> QED BY <1>1, <1>2, TypeInvariance, PTL DEF Spec

\* What an SRC spells out is below it and goes nowhere up.
LEMMA SpelledDown ==
  ASSUME NEW s, Base(s) \in Path, NEW p \in Spelled(s)
  PROVE  p \in Path /\ Downward(p, Len(Base(s)))
<1>1. CASE p = Base(s)
  <2>1. PICK b : b = Len(p) OBVIOUS
  <2>2. b \in Nat BY <1>1, <2>1, PathLen
  <2>3. \A i \in b + 1..b : FALSE BY <2>2
  <2> QED BY <1>1, <2>1, <2>3 DEF Downward
<1>2. CASE p # Base(s)
  <2>1. PICK n \in Under("login", Base(s)) : p = Renamed("login", Base(s), n) BY <1>2 DEF Spelled
  <2> QED BY <2>1, RenamedDown, RenamedFacts
<1> QED BY <1>1, <1>2

\* The inductive invariant implies the property.
LEMMA PlanImplies == TypeInv /\ PlanIInv => PlanExact
<1> SUFFICES ASSUME TypeInv, Complete, Sound, Sorts, Planned PROVE PlanExact BY DEF PlanIInv, PlanExact
<1>1. pc \in {"entry", "get", "end"} BY DEF Planned
<1>2. pc \notin Seeking \cup {"raised"} BY <1>1 DEF Seeking
<1>3. /\ plan \in Seq(candidates) /\ IsInjective(plan) /\ Covers(ToSet(plan))
      /\ \A p \in ToSet(plan) : Undisturbed(p) => Chosen(p)
      /\ k = Len(srcs)
  BY <1>1, <1>2 DEF Sorts, PlanInv, StartInv
<1>4. Cardinality(ToSet(plan)) = Len(plan) BY <1>3, ListSize
<1>5. SearchTyped /\ candidates \subseteq Path /\ srcs \in Requests BY DEF TypeInv, Search, SearchTyped
<1>6. Len(srcs) \in Nat BY <1>5, SourcesLen
<1>7. DOMAIN srcs = 1..Len(srcs)
  <2>1. PICK SRC : srcs \in Seq(SRC) BY <1>5, GatherAssumption
  <2> QED BY <2>1, LenProperties
<1>8. ASSUME NEW p \in ToSet(plan), Undisturbed(p)
      PROVE  Chosen(p) /\ \E i \in DOMAIN srcs : Reaches(srcs[i], p)
  <2>1. p \in candidates BY <1>3, ListOf
  <2> QED BY <1>3, <1>7, <1>8, <2>1 DEF Sound, Asked
<1>9. ASSUME NEW i \in DOMAIN srcs, NEW p \in Spelled(srcs[i]), Undisturbed(p), Eligible(p), Reaches(srcs[i], p)
      PROVE  p \in ToSet(plan)
  <2>1. i \in 1..Len(srcs) /\ Base(srcs[i]) \in Path BY <1>5, <1>7, SrcTyped
  <2>2. p \in Path /\ Downward(p, Len(Base(srcs[i]))) BY <2>1, SpelledDown
  <2>3. Wanted(srcs[i], p) BY <1>9, <2>2 DEF Wanted
  <2>4. p \in candidates
    <3>1. CASE i < k BY <2>1, <2>2, <2>3, <3>1 DEF Complete
    <3>2. CASE ~(i < k)
      <4>1. i = k /\ k > 0 BY <1>3, <1>6, <2>1, <3>2
      <4>2. Promised(p) BY <1>2, <2>2, <2>3, <4>1 DEF Complete
      <4> QED BY <1>2, <4>2 DEF Promised
    <3> QED BY <3>1, <3>2
  <2> QED BY <1>3, <1>9, <2>4 DEF Covers
<1> QED BY <1>4, <1>8, <1>9 DEF PlanExact

\* Whatever fails or changes while _build_plan_for_host() looks for files
\* (enumerate_candidates_for_host), a path along which nothing does is planned, and once, if it is
\* a regular file an SRC asks for, or with --pack a link to one (with or without
\* --follow-symlinks); what is planned is one of these, or with --pack a link to a device.
THEOREM PlannedExactly == Spec => []PlanExact
BY TypeInvariance, PlanInvariance, PlanImplies, PTL
=============================================================================
