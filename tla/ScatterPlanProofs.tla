-------------------------- MODULE ScatterPlanProofs --------------------------
(***************************************************************************)
(* Theorems about ScatterPlan, for any local tree, any SRC lists and any   *)
(* number of changes. TypeOK follows from TypeInv, and Placed from what is *)
(* known of each place (PlaceInv), and of what has been sent as long as    *)
(* nothing changes (QuietInv). What is said of trees and paths first is as *)
(* in GatherFilesProofs.                                                   *)
(***************************************************************************)
EXTENDS ScatterPlan, FiniteSetTheorems, SequenceTheorems, WellFoundedInduction, TLAPS

-----------------------------------------------------------------------------
(* Natural numbers                                                         *)

\* The natural numbers are well-founded.
LEMMA LessWF == IsWellFoundedOn({r \in Nat \X Nat : r[1] < r[2]}, Nat)
BY NatLessThanWellFounded DEF OpToRel

\* Every nonempty set of natural numbers has a least element.
LEMMA LeastNat == ASSUME NEW T, T \subseteq Nat, T # {} PROVE \E x \in T : \A y \in T : x <= y
<1> DEFINE R == {r \in Nat \X Nat : r[1] < r[2]}
<1>1. IsWellFoundedOn(R, Nat) BY LessWF
<1>2. \A x, y \in Nat : x < y => <<x, y>> \in R OBVIOUS
<1> HIDE DEF R
<1>3. PICK x \in T : \A y \in T : <<y, x>> \notin R BY <1>1, WFMin
<1>4. \A y \in T : ~(y < x) BY <1>2, <1>3
<1>5. \A y \in T : x <= y BY <1>4
<1> QED BY <1>5

\* What is true of 0 and of a number's successor is true of all.
LEMMA Inductive ==
  ASSUME NEW T, 0 \in T, \A n \in Nat : n \in T => n + 1 \in T
  PROVE  Nat \subseteq T
<1> SUFFICES ASSUME Nat \ T # {} PROVE FALSE OBVIOUS
<1>1. PICK m \in Nat \ T : \A n \in Nat \ T : m <= n BY LeastNat
<1>2. m - 1 \in Nat /\ ~(m <= m - 1) BY <1>1
<1>3. m - 1 \in T BY <1>1, <1>2
<1>4. m - 1 + 1 \in T /\ m - 1 + 1 = m BY <1>2, <1>3
<1> QED BY <1>1, <1>4

-----------------------------------------------------------------------------
(* Lists and paths                                                         *)

\* The first i names.
Pre(p, i) == SubSeq(p, 1, i)

\* Its length and its names.
LEMMA PreFacts ==
  ASSUME NEW p \in Path, NEW i \in 0..Len(p)
  PROVE  /\ Pre(p, i) \in Path /\ Len(Pre(p, i)) = i
         /\ \A j \in 1..i : Pre(p, i)[j] = p[j]
<1>1. \A j \in 1..i : p[j] \in ToSet(Names) BY ElementOfSeq DEF Path
<1> QED BY <1>1, SubSeqProperties, LenProperties DEF Pre, Path

\* Paths of the same names are equal.
LEMMA PathEqual ==
  ASSUME NEW p \in Path, NEW q \in Path, Len(p) = Len(q), \A i \in 1..Len(p) : p[i] = q[i]
  PROVE  p = q
BY SeqEqual DEF Path

\* A path as a sequence.
LEMMA PathLen ==
  ASSUME NEW p \in Path
  PROVE  /\ Len(p) \in Nat /\ DOMAIN p = 1..Len(p)
         /\ \A i \in 1..Len(p) : p[i] \in ToSet(Names)
         /\ Len(p) = 0 <=> p = <<>>
<1>1. Len(p) \in Nat /\ DOMAIN p = 1..Len(p) BY LenProperties DEF Path
<1>2. \A i \in 1..Len(p) : p[i] \in ToSet(Names) BY ElementOfSeq DEF Path
<1>3. Len(p) = 0 <=> p = <<>> BY EmptySeq DEF Path
<1> QED BY <1>1, <1>2, <1>3

\* The root.
LEMMA EmptyPath == <<>> \in Path /\ Len(<<>>) = 0
BY EmptySeq DEF Path

\* All its names, and none.
LEMMA PreAll == ASSUME NEW p \in Path PROVE Pre(p, Len(p)) = p /\ Pre(p, 0) = <<>>
<1>1. Len(p) \in Nat BY PathLen
<1>2. Pre(p, Len(p)) = p BY <1>1, PreFacts, PathEqual
<1>3. Pre(p, 0) \in Path /\ Len(Pre(p, 0)) = 0 BY <1>1, PreFacts
<1> QED BY <1>2, <1>3, PathLen

\* The first of the first names.
LEMMA PrePre ==
  ASSUME NEW p \in Path, NEW i \in 0..Len(p), NEW j \in 0..i
  PROVE  Pre(Pre(p, i), j) = Pre(p, j)
<1>0. Len(p) \in Nat BY PathLen
<1>1. Pre(p, i) \in Path /\ Len(Pre(p, i)) = i /\ \A h \in 1..i : Pre(p, i)[h] = p[h] BY PreFacts
<1>2. j \in 0..Len(p) BY <1>0
<1>3. Pre(p, j) \in Path /\ Len(Pre(p, j)) = j /\ \A h \in 1..j : Pre(p, j)[h] = p[h] BY <1>2, PreFacts
<1> DEFINE q == Pre(p, i)
<1> HIDE DEF q
<1>4. Pre(q, j) \in Path /\ Len(Pre(q, j)) = j /\ \A h \in 1..j : Pre(q, j)[h] = q[h] BY <1>1, PreFacts DEF q
<1>5. \A h \in 1..j : h \in 1..i BY <1>0
<1>6. Pre(q, j) = Pre(p, j) BY <1>1, <1>3, <1>4, <1>5, PathEqual DEF q
<1> QED BY <1>6 DEF q

\* A path without its last name, and with one more.
LEMMA FrontFacts ==
  ASSUME NEW p \in Path, p # <<>>
  PROVE  /\ Front(p) = Pre(p, Len(p) - 1) /\ Front(p) \in Path /\ Len(Front(p)) = Len(p) - 1
         /\ \A i \in 1..Len(p) - 1 : Front(p)[i] = p[i]
         /\ Last(p) \in ToSet(Names) /\ Last(p) = p[Len(p)]
         /\ Append(Front(p), Last(p)) = p
         /\ Len(p) \in Nat \ {0}
<1>1. Len(p) \in Nat \ {0} BY PathLen
<1>2. Front(p) = Pre(p, Len(p) - 1) BY DEF Front, Pre
<1>3. Len(p) - 1 \in 0..Len(p) BY <1>1
<1>4. /\ Front(p) \in Path /\ Len(Front(p)) = Len(p) - 1
      /\ \A i \in 1..Len(p) - 1 : Front(p)[i] = p[i]
  BY <1>2, <1>3, PreFacts
<1>5. Last(p) \in ToSet(Names) /\ Last(p) = p[Len(p)] BY <1>1, PathLen DEF Last
<1>6. Append(Front(p), Last(p)) = p
  <2> DEFINE q == Front(p)
             n == Last(p)
  <2>0. q \in Seq(ToSet(Names)) /\ n \in ToSet(Names) BY <1>4, <1>5 DEF Path
  <2> HIDE DEF q, n
  <2>1. /\ Append(q, n) \in Path /\ Len(Append(q, n)) = Len(q) + 1
        /\ \A i \in 1..Len(q) : Append(q, n)[i] = q[i]
        /\ Append(q, n)[Len(q) + 1] = n
    BY <2>0, AppendProperties DEF Path
  <2>2. Len(q) = Len(p) - 1 /\ n = p[Len(p)] /\ \A i \in 1..Len(q) : q[i] = p[i] BY <1>4, <1>5 DEF q, n
  <2>3. \A i \in 1..Len(p) : Append(q, n)[i] = p[i]
    <3> SUFFICES ASSUME NEW i \in 1..Len(p) PROVE Append(q, n)[i] = p[i] OBVIOUS
    <3>1. CASE i = Len(p)
      <4>1. i = Len(q) + 1 BY <1>1, <2>2, <3>1
      <4> QED BY <2>1, <2>2, <3>1, <4>1
    <3>2. CASE i # Len(p)
      <4>1. i \in 1..Len(q) BY <1>1, <2>2, <3>2
      <4> QED BY <2>1, <2>2, <4>1
    <3> QED BY <3>1, <3>2
  <2>4. Append(q, n) = p
    <3> DEFINE r == Append(q, n)
    <3>1. r \in Path /\ Len(p) = Len(r) /\ \A i \in 1..Len(p) : p[i] = r[i] BY <1>1, <2>1, <2>2, <2>3
    <3> HIDE DEF r
    <3>2. p = r BY <3>1, PathEqual
    <3> QED BY <3>2 DEF r
  <2> QED BY <2>4 DEF q, n
<1> QED BY <1>1, <1>2, <1>4, <1>5, <1>6

\* A path with one more name.
LEMMA AppendFacts ==
  ASSUME NEW p \in Path, NEW n \in ToSet(Names)
  PROVE  /\ Append(p, n) \in Path /\ Append(p, n) # <<>> /\ Len(Append(p, n)) = Len(p) + 1
         /\ Front(Append(p, n)) = p /\ Last(Append(p, n)) = n
         /\ \A i \in 0..Len(p) : Pre(Append(p, n), i) = Pre(p, i)
         /\ \A i \in 1..Len(p) : Append(p, n)[i] = p[i]
         /\ Append(p, n)[Len(p) + 1] = n
<1> DEFINE q == Append(p, n)
<1>1. /\ q \in Path /\ q # <<>> /\ Len(q) = Len(p) + 1
      /\ \A i \in 1..Len(p) : q[i] = p[i]
      /\ q[Len(p) + 1] = n
  BY AppendProperties DEF Path
<1> HIDE DEF q
<1>2. Len(p) \in Nat BY PathLen
<1>3. Last(q) = n BY <1>1, FrontFacts
<1>4. ASSUME NEW i \in 0..Len(p) PROVE Pre(q, i) = Pre(p, i)
  <2>1. i \in 0..Len(q) BY <1>1, <1>2
  <2>2. Pre(q, i) \in Path /\ Len(Pre(q, i)) = i /\ \A j \in 1..i : Pre(q, i)[j] = q[j] BY <1>1, <2>1, PreFacts
  <2>3. Pre(p, i) \in Path /\ Len(Pre(p, i)) = i /\ \A j \in 1..i : Pre(p, i)[j] = p[j] BY PreFacts
  <2>4. \A j \in 1..i : j \in 1..Len(p) BY <1>2
  <2> QED BY <1>1, <2>2, <2>3, <2>4, PathEqual
<1>5. Front(q) = p
  <2>1. Front(q) = Pre(q, Len(p)) BY <1>1, <1>2, FrontFacts
  <2>2. Pre(q, Len(p)) = Pre(p, Len(p)) BY <1>2, <1>4
  <2> QED BY <2>1, <2>2, PreAll
<1> QED BY <1>1, <1>3, <1>4, <1>5 DEF q

\* What is true of the root and of a path that it is true of in front is true of all.
LEMMA PathInduction ==
  ASSUME NEW T, <<>> \in T, \A p \in Path : p # <<>> /\ Front(p) \in T => p \in T
  PROVE  Path \subseteq T
<1> DEFINE Right == {n \in Nat : \A p \in Path : Len(p) = n => p \in T}
<1>1. 0 \in Right BY PathLen
<1>2. ASSUME NEW n \in Nat, n \in Right PROVE n + 1 \in Right
  <2>1. ASSUME NEW p \in Path, Len(p) = n + 1 PROVE p \in T
    <3>1. p # <<>> BY <2>1, EmptyPath
    <3>2. Front(p) \in Path /\ Len(Front(p)) = n BY <2>1, <3>1, FrontFacts
    <3>3. Front(p) \in T BY <1>2, <3>2
    <3> QED BY <3>1, <3>3
  <2> QED BY <2>1
<1> HIDE DEF Right
<1>3. Nat \subseteq Right BY <1>1, <1>2, Inductive
<1>4. ASSUME NEW p \in Path PROVE p \in T
  <2>1. Len(p) \in Right BY <1>3, PathLen
  <2> QED BY <2>1 DEF Right
<1> QED BY <1>4

\* The prefixes of a path but the root.
LEMMA AlongFacts ==
  ASSUME NEW p \in Path
  PROVE  /\ Along(p) = {Pre(p, i) : i \in 1..Len(p)} /\ Along(p) \subseteq Path
         /\ Along(<<>>) = {}
         /\ p # <<>> => Along(p) = Along(Front(p)) \cup {p}
         /\ \A n \in ToSet(Names) : Along(Append(p, n)) = Along(p) \cup {Append(p, n)}
<1>1. ASSUME NEW q \in Path
      PROVE  Along(q) = {Pre(q, i) : i \in 1..Len(q)} /\ Along(q) \subseteq Path
  <2>1. Len(q) \in Nat BY PathLen
  <2>2. \A i \in 1..Len(q) : i \in 0..Len(q) /\ Pre(q, i) # <<>> /\ Pre(q, i) \in Path
    <3> SUFFICES ASSUME NEW i \in 1..Len(q) PROVE i \in 0..Len(q) /\ Pre(q, i) # <<>> /\ Pre(q, i) \in Path OBVIOUS
    <3>1. i \in 0..Len(q) /\ i # 0 BY <2>1
    <3>2. Pre(q, i) \in Path /\ Len(Pre(q, i)) = i BY <3>1, PreFacts
    <3> QED BY <3>1, <3>2, EmptyPath
  <2>3. Along(q) = {Pre(q, i) : i \in 0..Len(q)} \ {<<>>} BY DEF Along, Prefixes, Pre
  <2>4. Pre(q, 0) = <<>> BY PreAll
  <2>5. \A i \in 0..Len(q) : i = 0 \/ i \in 1..Len(q) BY <2>1
  <2>6. Along(q) = {Pre(q, i) : i \in 1..Len(q)} BY <2>2, <2>3, <2>4, <2>5
  <2> QED BY <2>2, <2>6
<1>2. Along(<<>>) = {} BY <1>1, EmptyPath
<1>3. ASSUME NEW q \in Path, NEW n \in ToSet(Names) PROVE Along(Append(q, n)) = Along(q) \cup {Append(q, n)}
  <2> DEFINE r == Append(q, n)
  <2>1. /\ r \in Path /\ Len(r) = Len(q) + 1 /\ Len(q) \in Nat
        /\ \A i \in 0..Len(q) : Pre(r, i) = Pre(q, i)
    BY AppendFacts, PathLen
  <2> HIDE DEF r
  <2>2. Pre(r, Len(q) + 1) = r BY <2>1, PreAll
  <2>3. \A i \in 1..Len(q) : Pre(r, i) = Pre(q, i) BY <2>1
  <2>4. \A i \in 1..Len(r) : i \in 1..Len(q) \/ i = Len(q) + 1 BY <2>1
  <2>5. 1..Len(q) \subseteq 1..Len(r) /\ Len(q) + 1 \in 1..Len(r) BY <2>1
  <2>6. Along(r) = {Pre(r, i) : i \in 1..Len(r)} /\ Along(q) = {Pre(q, i) : i \in 1..Len(q)} BY <1>1, <2>1
  <2>7. Along(r) = Along(q) \cup {r} BY <2>2, <2>3, <2>4, <2>5, <2>6
  <2> QED BY <2>7 DEF r
<1>4. ASSUME p # <<>> PROVE Along(p) = Along(Front(p)) \cup {p}
  <2>1. Front(p) \in Path /\ Last(p) \in ToSet(Names) /\ Append(Front(p), Last(p)) = p BY <1>4, FrontFacts
  <2> QED BY <1>3, <2>1
<1> QED BY <1>1, <1>2, <1>3, <1>4

\* Two paths, one after the other, and the rest of one.
LEMMA ConcatFacts ==
  ASSUME NEW p \in Path, NEW q \in Path
  PROVE  /\ p \o q \in Path /\ Len(p \o q) = Len(p) + Len(q)
         /\ \A i \in 1..Len(p) : (p \o q)[i] = p[i]
         /\ \A i \in 1..Len(q) : (p \o q)[Len(p) + i] = q[i]
<1>1. Len(p) \in Nat /\ Len(q) \in Nat BY PathLen
<1>2. /\ p \o q \in Path /\ Len(p \o q) = Len(p) + Len(q)
      /\ \A i \in 1..Len(p) + Len(q) : (p \o q)[i] = IF i <= Len(p) THEN p[i] ELSE q[i - Len(p)]
  BY ConcatProperties DEF Path
<1>3. ASSUME NEW i \in 1..Len(p) PROVE (p \o q)[i] = p[i]
  <2>1. i \in 1..Len(p) + Len(q) /\ i <= Len(p) BY <1>1
  <2> QED BY <1>2, <2>1
<1>4. ASSUME NEW i \in 1..Len(q) PROVE (p \o q)[Len(p) + i] = q[i]
  <2> PICK a \in Nat, b \in Nat : a = Len(p) /\ b = Len(q) BY <1>1
  <2> PICK j \in Nat : j = i /\ 1 <= j /\ j <= b OBVIOUS
  <2>1. a + j \in 1..a + b OBVIOUS
  <2>2. ~(a + j <= a) OBVIOUS
  <2>3. a + j - a = j OBVIOUS
  <2> QED BY <1>2, <2>1, <2>2, <2>3
<1> QED BY <1>2, <1>3, <1>4

\* All but the first i names.
Rest(p, i) == SubSeq(p, i + 1, Len(p))

\* Its length and its names.
LEMMA RestFacts ==
  ASSUME NEW p \in Path, NEW i \in 0..Len(p)
  PROVE  /\ Rest(p, i) \in Path /\ Len(Rest(p, i)) = Len(p) - i
         /\ \A j \in 1..Len(p) - i : Rest(p, i)[j] = p[i + j]
<1>1. Len(p) \in Nat /\ \A j \in 1..Len(p) : p[j] \in ToSet(Names) BY PathLen
<1>2. i + 1 \in Int /\ Len(p) \in Int BY <1>1
<1>3. \A j \in i + 1..Len(p) : p[j] \in ToSet(Names) BY <1>1
<1>4. /\ Rest(p, i) \in Path
      /\ Len(Rest(p, i)) = IF i + 1 <= Len(p) THEN Len(p) - (i + 1) + 1 ELSE 0
      /\ \A j \in 1..Len(p) - (i + 1) + 1 : Rest(p, i)[j] = p[i + 1 + j - 1]
  BY <1>2, <1>3, SubSeqProperties DEF Rest, Path
<1>5. Len(p) - (i + 1) + 1 = Len(p) - i /\ \A j \in 1..Len(p) - i : i + 1 + j - 1 = i + j BY <1>1
<1>6. Len(Rest(p, i)) = Len(p) - i BY <1>1, <1>4
<1> QED BY <1>4, <1>5, <1>6

-----------------------------------------------------------------------------
(* What is found at a path, name by name                                   *)

\* What is found before the first name.
Start == [ok |-> TRUE, at |-> <<>>, links |-> 0, via |-> {}]

\* A table of what is found after each of the first names.
Walks(user, s, name) == {Walk1(user, TRUE, r, name) : r \in s}

IsFound(found, user, p, n) ==
  found = [i \in 0..n |-> IF i = 0 THEN {Start} ELSE Walks(user, found[i - 1], p[i])]

\* From one find to one.
LEMMA WalksOne == ASSUME NEW user, NEW r, NEW name PROVE Walks(user, {r}, name) = {Walk1(user, TRUE, r, name)}
BY DEF Walks

\* There is such a table for any path.
LEMMA FoundExists == ASSUME NEW user, NEW p, NEW n \in Nat PROVE \E f : IsFound(f, user, p, n)
<1> DEFINE T == {m \in Nat : \E f : IsFound(f, user, p, m)}
<1>1. 0 \in T
  <2> DEFINE f == [i \in 0..0 |-> {Start}]
  <2>1. IsFound(f, user, p, 0)
    <3> DEFINE A(i) == IF i = 0 THEN {Start} ELSE Walks(user, f[i - 1], p[i])
    <3>1. \A i \in 0..0 : A(i) = {Start} OBVIOUS
    <3> HIDE DEF A
    <3>2. f = [i \in 0..0 |-> A(i)] BY <3>1
    <3>3. IsFound(f, user, p, 0) <=> f = [i \in 0..0 |-> A(i)]
      <4> HIDE DEF f
      <4> QED BY DEF A, IsFound
    <3> QED BY <3>2, <3>3
  <2> QED BY <2>1
<1>2. ASSUME NEW m \in Nat, m \in T PROVE m + 1 \in T
  <2>1. PICK g : IsFound(g, user, p, m) BY <1>2
  <2> DEFINE f == [i \in 0..m + 1 |-> IF i = m + 1 THEN Walks(user, g[m], p[i]) ELSE g[i]]
             A(i) == IF i = 0 THEN {Start} ELSE Walks(user, f[i - 1], p[i])
  <2>1a. \A i \in 0..m : g[i] = IF i = 0 THEN {Start} ELSE Walks(user, g[i - 1], p[i])
    <3> HIDE DEF f
    <3> QED BY <2>1 DEF IsFound
  <2>1b. \A i \in 0..m : f[i] = g[i] OBVIOUS
  <2>2. \A i \in 0..m : f[i] = g[i] /\ g[i] = IF i = 0 THEN {Start} ELSE Walks(user, g[i - 1], p[i])
    <3> HIDE DEF f
    <3> QED BY <2>1a, <2>1b
  <2>3. f[m + 1] = Walks(user, g[m], p[m + 1]) /\ DOMAIN f = 0..m + 1 OBVIOUS
  <2> HIDE DEF f
  <2>4. ASSUME NEW i \in 0..m + 1 PROVE f[i] = A(i)
    <3>1. CASE i = m + 1
      <4>1. f[i - 1] = g[m] /\ i # 0 BY <2>2, <3>1
      <4> QED BY <2>3, <3>1, <4>1
    <3>2. CASE i \in 1..m
      <4>1. i - 1 \in 0..m /\ i \in 0..m /\ i # 0 BY <3>2
      <4> QED BY <2>2, <4>1
    <3>3. CASE i = 0 BY <2>2, <3>3
    <3> QED BY <3>1, <3>2, <3>3
  <2>5. f = [i \in 0..m + 1 |-> A(i)]
    <3>1. f = [i \in 0..m + 1 |-> f[i]] BY <2>3 DEF f
    <3> HIDE DEF A
    <3> QED BY <2>4, <3>1
  <2>6. IsFound(f, user, p, m + 1) BY <2>5 DEF IsFound
  <2> QED BY <2>6
<1> HIDE DEF T
<1>3. n \in T BY <1>1, <1>2, Inductive
<1> QED BY <1>3 DEF T

\* Two tables agree on the names that the paths have in common, and hold one at each.
One(s) == \E r : s = {r}

SameNames(p, q, m) == \A i \in 1..m : p[i] = q[i]

SameFound(f, g, m) == \A i \in 0..m : f[i] = g[i] /\ One(f[i])

\* Such tables for paths that begin alike are alike there.
LEMMA FoundUnique ==
  ASSUME NEW user, NEW p, NEW q, NEW m \in Nat, NEW n \in Nat, m <= n, NEW f, NEW g,
         IsFound(f, user, p, m), IsFound(g, user, q, n), SameNames(p, q, m)
  PROVE  SameFound(f, g, m)
<1> DEFINE Same(i) == f[i] = g[i] /\ One(f[i])
           T == {i \in Nat : i <= m => Same(i)}
<1>1. \A i \in 0..m : f[i] = IF i = 0 THEN {Start} ELSE Walks(user, f[i - 1], p[i]) BY DEF IsFound
<1>2. \A i \in 0..n : g[i] = IF i = 0 THEN {Start} ELSE Walks(user, g[i - 1], q[i]) BY DEF IsFound
<1>3. 0 \in T
  <2>1. f[0] = {Start} /\ g[0] = {Start} BY <1>1, <1>2
  <2> QED BY <2>1 DEF One
<1>4. ASSUME NEW i \in Nat, i \in T PROVE i + 1 \in T
  <2> SUFFICES ASSUME i + 1 <= m PROVE Same(i + 1)
    <3> HIDE DEF Same
    <3> QED OBVIOUS
  <2>0. i <= m OBVIOUS
  <2>1. PICK r : f[i] = {r} /\ g[i] = {r}
    <3>1. Same(i)
      <4> HIDE DEF Same
      <4> QED BY <1>4, <2>0
    <3> QED BY <3>1 DEF One
  <2>2. PICK j : j = i + 1 /\ j \in 1..m /\ j \in 0..m /\ j \in 0..n /\ j # 0 /\ j - 1 = i OBVIOUS
  <2>3. f[j] = Walks(user, {r}, p[j]) /\ g[j] = Walks(user, {r}, p[j])
    BY <1>1, <1>2, <2>1, <2>2 DEF SameNames
  <2>a. Walks(user, {r}, p[j]) = {Walk1(user, TRUE, r, p[j])} BY WalksOne
  <2>4. f[j] = g[j] /\ f[j] = {Walk1(user, TRUE, r, p[j])} BY <2>3, <2>a
  <2>5. One(f[j]) BY <2>4 DEF One
  <2> QED BY <2>2, <2>4, <2>5
<1> HIDE DEF T, Same
<1>5. Nat \subseteq T BY <1>3, <1>4, Inductive
<1>6. ASSUME NEW i \in 0..m PROVE Same(i) BY <1>5 DEF T
<1> QED BY <1>6 DEF Same, SameFound

\* Follow() is the last entry of such a table.
LEMMA FollowTable ==
  ASSUME NEW user, NEW p \in Path
  PROVE  \E f : IsFound(f, user, p, Len(p)) /\ f[Len(p)] = {Follow(user, p)}
<1> DEFINE Table(f) == [i \in 0..Len(p) |->
                        IF i = 0 THEN {[ok |-> TRUE, at |-> <<>>, links |-> 0, via |-> {}]}
                        ELSE {Walk1(user, TRUE, r, p[i]) : r \in f[i - 1]}]
           found == CHOOSE f : f = Table(f)
<1>1. Follow(user, p) = CHOOSE r \in found[Len(p)] : TRUE BY DEF Follow
<1>2. \A f : IsFound(f, user, p, Len(p)) <=> f = Table(f) BY DEF IsFound, Start, Walks
<1> HIDE DEF Table
<1>0. Len(p) \in Nat BY PathLen
<1>3. PICK f : IsFound(f, user, p, Len(p)) BY <1>0, FoundExists
<1>4. f = Table(f) BY <1>2, <1>3
<1>5. found = Table(found) BY <1>4
<1>6. IsFound(found, user, p, Len(p)) BY <1>2, <1>5
<1> HIDE DEF found
<1>7. SameFound(found, found, Len(p)) BY <1>0, <1>6, FoundUnique DEF SameNames
<1>8. PICK r : found[Len(p)] = {r}
  <2>1. One(found[Len(p)]) BY <1>0, <1>7 DEF SameFound
  <2> QED BY <2>1 DEF One
<1>9. r = Follow(user, p) BY <1>1, <1>8
<1> QED BY <1>6, <1>8, <1>9

\* One name after another, from the root on.
FollowByNames ==
  \A user : \A p \in Path :
    Follow(user, p) =
      IF p = <<>> THEN Start ELSE Walk1(user, TRUE, Follow(user, Front(p)), Last(p))

\* Follow() does go by the names.
LEMMA FollowLemma == FollowByNames
<1> SUFFICES ASSUME NEW user, NEW p \in Path
             PROVE  Follow(user, p) =
                      IF p = <<>> THEN Start ELSE Walk1(user, TRUE, Follow(user, Front(p)), Last(p))
  BY DEF FollowByNames
<1>0. Len(p) \in Nat BY PathLen
<1>1. PICK f : IsFound(f, user, p, Len(p)) /\ f[Len(p)] = {Follow(user, p)} BY FollowTable
<1>2. \A i \in 0..Len(p) : f[i] = IF i = 0 THEN {Start} ELSE Walks(user, f[i - 1], p[i])
  BY <1>1 DEF IsFound
<1>3. CASE p = <<>>
  <2>1. Len(p) = 0 BY <1>3, EmptyPath
  <2>2. f[0] = {Start} BY <1>0, <1>2
  <2> QED BY <1>1, <1>3, <2>1, <2>2
<1>4. CASE p # <<>>
  <2>1. PICK q, m, n : q = Front(p) /\ m = Len(q) /\ n = Len(p) OBVIOUS
  <2>2. /\ q \in Path /\ m \in Nat /\ n \in Nat /\ m = n - 1 /\ m <= n
        /\ \A i \in 1..m : q[i] = p[i]
        /\ Last(p) = p[n]
    <3>1. /\ q \in Path /\ Len(q) = Len(p) - 1 /\ Len(p) \in Nat \ {0} /\ Last(p) = p[Len(p)]
          /\ \A i \in 1..Len(p) - 1 : q[i] = p[i]
      BY <1>4, <2>1, FrontFacts
    <3>2. m = n - 1 /\ n \in Nat \ {0} BY <2>1, <3>1
    <3> QED BY <2>1, <3>1, <3>2
  <2>3. PICK g : IsFound(g, user, q, m) /\ g[m] = {Follow(user, q)}
    <3>1. \E g : IsFound(g, user, q, Len(q)) /\ g[Len(q)] = {Follow(user, q)} BY <2>2, FollowTable
    <3> QED BY <2>1, <3>1
  <2>4. IsFound(f, user, p, n) BY <1>1, <2>1
  <2>5. SameFound(g, f, m)
    <3>1. SameNames(q, p, m) BY <2>2 DEF SameNames
    <3> QED BY <2>2, <2>3, <2>4, <3>1, FoundUnique
  <2>6. f[m] = {Follow(user, q)} BY <2>2, <2>3, <2>5 DEF SameFound
  <2>7. f[n] = Walks(user, {Follow(user, q)}, p[n])
    <3>1. n \in 0..Len(p) /\ n # 0 /\ n - 1 = m BY <2>1, <2>2
    <3> QED BY <1>2, <2>6, <3>1
  <2>8. Walks(user, {Follow(user, q)}, p[n]) = {Walk1(user, TRUE, Follow(user, q), p[n])} BY WalksOne
  <2>9. {Follow(user, p)} = {Walk1(user, TRUE, Follow(user, q), p[n])} BY <1>1, <2>1, <2>7, <2>8
  <2>10. Follow(user, p) = Walk1(user, TRUE, Follow(user, q), p[n]) BY <2>9
  <2> QED BY <1>4, <2>1, <2>2, <2>10
<1> QED BY <1>3, <1>4

-----------------------------------------------------------------------------
(* What is found is there                                                  *)

\* What may be found.
Finding == [ok : BOOLEAN, at : Path, links : Nat, via : SUBSET Path]

\* What is found is there and no link, and all that leads to it has been looked at.
Real(r) ==
  r.ok => /\ Along(r.at) \subseteq r.via /\ There(r.at)
          /\ r.at # <<>> => r.at \in Node /\ Kind[r.at] # "link"

\* A path that is there, name by name.
LEMMA ThereFacts ==
  ASSUME NEW p \in Path
  PROVE  /\ There(<<>>)
         /\ There(p) /\ p # <<>> => p \in Node /\ p \notin gone /\ There(Front(p))
         /\ \A n \in ToSet(Names) : There(Append(p, n)) <=> There(p) /\ Append(p, n) \in Node \ gone
<1>1. There(<<>>) BY AlongFacts, EmptyPath DEF There
<1>2. ASSUME There(p), p # <<>> PROVE p \in Node /\ p \notin gone /\ There(Front(p))
  <2>1. Along(p) = Along(Front(p)) \cup {p} BY <1>2, AlongFacts
  <2> QED BY <1>2, <2>1 DEF There
<1>3. ASSUME NEW n \in ToSet(Names) PROVE There(Append(p, n)) <=> There(p) /\ Append(p, n) \in Node \ gone
  <2>1. Along(Append(p, n)) = Along(p) \cup {Append(p, n)} BY AlongFacts
  <2> QED BY <2>1 DEF There
<1> QED BY <1>1, <1>2, <1>3

\* What the tree is assumed to be, at one node.
LEMMA NodeFacts ==
  ASSUME NEW p \in Node
  PROVE  /\ p \in Path /\ p # <<>> /\ Up \notin ToSet(p) /\ Last(p) # Up
         /\ Kind[p] \in {"dir", "file", "link", "other"}
         /\ Front(p) # <<>> => Front(p) \in Node /\ Kind[Front(p)] = "dir"
         /\ Kind[p] = "link" => LinkTo[p] \in Path /\ (LinkTo[p] \in Node => Kind[LinkTo[p]] # "link")
<1>1. /\ p \in Path /\ p # <<>> /\ Up \notin ToSet(p)
      /\ Kind[p] \in {"dir", "file", "link", "other"}
      /\ Len(p) > 1 => Front(p) \in Node /\ Kind[Front(p)] = "dir"
      /\ Kind[p] = "link" => LinkTo[p] \in Path /\ (LinkTo[p] \in Node => Kind[LinkTo[p]] # "link")
  BY TreeAssumption
<1>2. Last(p) \in ToSet(p) BY <1>1, FrontFacts, PathLen DEF ToSet
<1>3. Front(p) # <<>> => Len(p) > 1
  <2>1. Len(p) \in Nat \ {0} /\ Len(Front(p)) = Len(p) - 1 /\ Front(p) \in Path BY <1>1, FrontFacts
  <2>2. Front(p) # <<>> => Len(Front(p)) # 0 BY <2>1, PathLen
  <2> QED BY <2>1, <2>2
<1> QED BY <1>1, <1>2, <1>3

\* One name on.
LEMMA WalkReal ==
  ASSUME NEW user, NEW through \in BOOLEAN, NEW r \in Finding, Real(r), NEW n \in ToSet(Names)
  PROVE  /\ Walk1(user, through, r, n) \in Finding
         /\ through => Real(Walk1(user, through, r, n))
         /\ r.via \subseteq Walk1(user, through, r, n).via
<1>p. PICK child, w : child = Append(r.at, n) /\ w = Walk1(user, through, r, n) OBVIOUS
<1> SUFFICES w \in Finding /\ (through => Real(w)) /\ r.via \subseteq w.via BY <1>p
<1>0. r.ok \in BOOLEAN /\ r.at \in Path /\ r.links \in Nat /\ r.via \subseteq Path BY DEF Finding
<1>1. child \in Path /\ child # <<>> /\ Along(child) = Along(r.at) \cup {child} BY <1>0, <1>p, AppendFacts, AlongFacts
<1>2. CASE ~r.ok
  <2>1. w = r BY <1>2, <1>p DEF Walk1
  <2> QED BY <2>1
<1>3. CASE r.ok /\ n = Up
  <2>1. w = [r EXCEPT !.at = IF r.at = <<>> THEN r.at ELSE Front(r.at)] BY <1>3, <1>p DEF Walk1
  <2>2. CASE r.at = <<>>
    <3>1. w = r BY <1>0, <2>1, <2>2 DEF Finding
    <3> QED BY <3>1
  <2>3. CASE r.at # <<>>
    <3>1. w = [r EXCEPT !.at = Front(r.at)] BY <2>1, <2>3
    <3>2. Front(r.at) \in Path BY <1>0, <2>3, FrontFacts
    <3>3. w \in Finding /\ w.at = Front(r.at) /\ w.via = r.via /\ w.ok = r.ok BY <3>1, <3>2 DEF Finding
    <3>4. Along(r.at) = Along(Front(r.at)) \cup {r.at} BY <1>0, <2>3, AlongFacts
    <3>5. There(Front(r.at)) /\ r.at \in Node BY <1>0, <1>3, <2>3, ThereFacts DEF Real
    <3>6. Front(r.at) # <<>> => Front(r.at) \in Node /\ Kind[Front(r.at)] # "link" BY <3>5, NodeFacts
    <3> QED BY <1>3, <3>3, <3>4, <3>5, <3>6 DEF Real
  <2> QED BY <2>2, <2>3
<1>4. CASE r.ok /\ n # Up /\ (~There(child) \/ ~May(user, child))
  <2>1. w = [r EXCEPT !.ok = FALSE, !.via = @ \cup {child}] BY <1>4, <1>p DEF Walk1
  <2>2. w \in Finding /\ w.ok = FALSE /\ w.via = r.via \cup {child} BY <1>0, <1>1, <2>1 DEF Finding
  <2>3. Real(w) BY <2>2 DEF Real
  <2> QED BY <2>2, <2>3
<1>5. CASE r.ok /\ n # Up /\ There(child) /\ May(user, child) /\ (Kind[child] # "link" \/ ~through)
  <2>1. w = [r EXCEPT !.at = child, !.via = @ \cup {child}] BY <1>5, <1>p DEF Walk1
  <2>a. PICK via : via = r.via \cup {child} OBVIOUS
  <2>b. via \subseteq Path BY <1>0, <1>1, <2>a
  <2>2. w \in Finding /\ w.at = child /\ w.ok = r.ok /\ w.via = r.via \cup {child}
    BY <1>0, <1>1, <2>1, <2>a, <2>b DEF Finding
  <2>3. child \in Node BY <1>1, <1>5, ThereFacts
  <2>4. ASSUME through PROVE Real(w)
    <3>1. Kind[child] # "link" BY <1>5, <2>4
    <3>2. Along(child) \subseteq w.via BY <1>1, <1>5, <2>2 DEF Real
    <3> QED BY <1>5, <2>2, <2>3, <3>1, <3>2 DEF Real
  <2> QED BY <2>2, <2>4
<1>6. CASE r.ok /\ n # Up /\ There(child) /\ May(user, child) /\ Kind[child] = "link" /\ through
  <2>t. PICK to : to = LinkTo[child] OBVIOUS
  <2>1. w = [ok |-> r.links < MaxLinks /\ There(to) /\ May(user, to), at |-> to,
             links |-> r.links + 1, via |-> r.via \cup {child} \cup Along(to)]
    BY <1>6, <1>p, <2>t DEF Walk1
  <2>2. child \in Node BY <1>1, <1>6, ThereFacts
  <2>3. to \in Path /\ (to \in Node => Kind[to] # "link") BY <1>6, <2>2, <2>t, NodeFacts
  <2>4. Along(to) \subseteq Path BY <2>3, AlongFacts
  <2>5. /\ w \in Finding /\ w.at = to /\ (w.ok => There(to))
        /\ w.via = r.via \cup {child} \cup Along(to)
    <3> DEFINE ok == r.links < MaxLinks /\ There(to) /\ May(user, to)
               via == r.via \cup {child} \cup Along(to)
    <3>a. ok \in BOOLEAN /\ (ok => There(to))
      <4>1. There(to) \in BOOLEAN /\ May(user, to) \in BOOLEAN BY DEF There, May
      <4>2. ok \in BOOLEAN BY <4>1
      <4>3. ok => There(to) OBVIOUS
      <4> QED BY <4>2, <4>3
    <3>1. via \subseteq Path /\ r.links + 1 \in Nat BY <1>0, <1>1, <2>4
    <3> HIDE DEF ok, via
    <3>2. w = [ok |-> ok, at |-> to, links |-> r.links + 1, via |-> via] BY <2>1 DEF ok, via
    <3> QED BY <2>3, <3>1, <3>2, <3>a DEF Finding, via
  <2>6. w.ok /\ to # <<>> => to \in Node BY <2>3, <2>5, ThereFacts
  <2> QED BY <2>3, <2>5, <2>6 DEF Real
<1> QED BY <1>0, <1>2, <1>3, <1>4, <1>5, <1>6

\* What is found at any path.
FollowReal == \A user : \A p \in Path : Follow(user, p) \in Finding /\ Real(Follow(user, p))

\* It is always real.
LEMMA FollowRealLemma == FollowReal
<1> SUFFICES ASSUME NEW user PROVE \A p \in Path : Follow(user, p) \in Finding /\ Real(Follow(user, p))
  BY DEF FollowReal
<1> DEFINE T == {p \in Path : Follow(user, p) \in Finding /\ Real(Follow(user, p))}
<1>1. <<>> \in T
  <2>1. Follow(user, <<>>) = Start BY EmptyPath, FollowLemma DEF FollowByNames
  <2>2. Start \in Finding /\ Real(Start) BY EmptyPath, AlongFacts, ThereFacts DEF Start, Finding, Real
  <2> QED BY <2>1, <2>2, EmptyPath
<1>2. ASSUME NEW p \in Path, p # <<>>, Front(p) \in T PROVE p \in T
  <2>1. Follow(user, p) = Walk1(user, TRUE, Follow(user, Front(p)), Last(p))
    BY <1>2, FollowLemma DEF FollowByNames
  <2>2. Last(p) \in ToSet(Names) BY <1>2, FrontFacts
  <2> QED BY <1>2, <2>1, <2>2, WalkReal
<1> HIDE DEF T
<1>3. Path \subseteq T BY <1>1, <1>2, PathInduction
<1> QED BY <1>3 DEF T

-----------------------------------------------------------------------------
(* Sorted lists                                                            *)

\* p differs from q at the i-th name first, and ends there or has the lower name.
Differs(p, q, i) ==
  /\ i \in 1..Len(q) /\ i - 1 <= Len(p)
  /\ \A j \in 1..i - 1 : p[j] = q[j]
  /\ i > Len(p) \/ Rank(p[i]) < Rank(q[i])

\* Names are told apart by their place in the order.
LEMMA RankFacts ==
  ASSUME NEW m \in ToSet(Names), NEW n \in ToSet(Names)
  PROVE  Rank(m) \in Nat /\ Rank(n) \in Nat /\ (Rank(m) = Rank(n) => m = n)
<1>1. \A x \in ToSet(Names) : Rank(x) \in DOMAIN Names /\ Names[Rank(x)] = x BY DEF ToSet, Rank
<1>2. DOMAIN Names = 1..Len(Names) /\ Len(Names) \in Nat BY TreeAssumption, LenProperties
<1> QED BY <1>1, <1>2

\* When two paths begin with the same names.
LEMMA PreEqual ==
  ASSUME NEW p \in Path, NEW q \in Path, NEW i \in 0..Len(p), i <= Len(q)
  PROVE  Pre(p, i) = Pre(q, i) <=> \A j \in 1..i : p[j] = q[j]
<1>1. Len(p) \in Nat /\ Len(q) \in Nat /\ i \in 0..Len(q) BY PathLen
<1>2. Pre(p, i) \in Path /\ Len(Pre(p, i)) = i /\ \A j \in 1..i : Pre(p, i)[j] = p[j] BY PreFacts
<1>3. Pre(q, i) \in Path /\ Len(Pre(q, i)) = i /\ \A j \in 1..i : Pre(q, i)[j] = q[j] BY <1>1, PreFacts
<1> QED BY <1>2, <1>3, PathEqual

\* When one path is a prefix of another.
LEMMA PrefixFacts ==
  ASSUME NEW p \in Path, NEW q \in Path
  PROVE  /\ IsPrefix(p, q) <=> Len(p) <= Len(q) /\ Pre(q, Len(p)) = p
         /\ IsPrefix(p, q) <=> Len(p) <= Len(q) /\ \A j \in 1..Len(p) : p[j] = q[j]
         /\ IsStrictPrefix(p, q) <=> IsPrefix(p, q) /\ Len(p) < Len(q)
<1>1. Len(p) \in Nat /\ Len(q) \in Nat BY PathLen
<1>2. IsPrefix(p, q) <=> Len(p) <= Len(q) /\ Pre(p, Len(p)) = Pre(q, Len(p)) BY DEF IsPrefix, Pre
<1>3. IsPrefix(p, q) <=> Len(p) <= Len(q) /\ Pre(q, Len(p)) = p BY <1>2, PreAll
<1>4. IsPrefix(p, q) <=> Len(p) <= Len(q) /\ \A j \in 1..Len(p) : p[j] = q[j] BY <1>1, <1>2, PreEqual
<1>5. IsPrefix(p, q) /\ Len(p) = Len(q) => p = q BY <1>1, <1>4, PathEqual
<1> QED BY <1>1, <1>3, <1>4, <1>5 DEF IsStrictPrefix

\* The order of paths is that of the first name in which they differ.
LEMMA EarlierDiffers ==
  ASSUME NEW p \in Path, NEW q \in Path
  PROVE  Earlier(p, q) <=> \E i \in Nat : Differs(p, q, i)
<1>1. /\ Len(p) \in Nat /\ Len(q) \in Nat
      /\ DOMAIN p = 1..Len(p) /\ DOMAIN q = 1..Len(q)
  BY PathLen
<1>2. ASSUME IsStrictPrefix(p, q) PROVE \E i \in Nat : Differs(p, q, i)
  <2>1. Len(p) < Len(q) /\ \A j \in 1..Len(p) : p[j] = q[j] BY <1>2, PrefixFacts
  <2>2. Differs(p, q, Len(p) + 1) BY <1>1, <2>1 DEF Differs
  <2> QED BY <1>1, <2>2
<1>3. ASSUME NEW i \in DOMAIN p \cap DOMAIN q, SubSeq(p, 1, i - 1) = SubSeq(q, 1, i - 1), Rank(p[i]) < Rank(q[i])
      PROVE  \E j \in Nat : Differs(p, q, j)
  <2>1. i \in Nat /\ i \in 1..Len(q) /\ i - 1 \in 0..Len(p) /\ i - 1 <= Len(q) BY <1>1
  <2>2. Pre(p, i - 1) = Pre(q, i - 1) BY <1>3 DEF Pre
  <2>3. \A j \in 1..i - 1 : p[j] = q[j] BY <2>1, <2>2, PreEqual
  <2>4. Differs(p, q, i) BY <1>1, <1>3, <2>1, <2>3 DEF Differs
  <2> QED BY <2>1, <2>4
<1>4. ASSUME NEW i \in Nat, Differs(p, q, i) PROVE Earlier(p, q)
  <2>1. /\ i \in 1..Len(q) /\ i - 1 <= Len(p) /\ \A j \in 1..i - 1 : p[j] = q[j]
        /\ i > Len(p) \/ Rank(p[i]) < Rank(q[i])
    BY <1>4 DEF Differs
  <2>2. CASE i > Len(p)
    <3>1. i - 1 = Len(p) /\ Len(p) < Len(q) BY <1>1, <2>1, <2>2
    <3>2. \A j \in 1..Len(p) : p[j] = q[j] BY <2>1, <3>1
    <3>3. IsStrictPrefix(p, q) BY <1>1, <3>1, <3>2, PrefixFacts
    <3> QED BY <3>3 DEF Earlier
  <2>3. CASE ~(i > Len(p))
    <3>1. i \in DOMAIN p \cap DOMAIN q /\ i - 1 \in 0..Len(p) /\ i - 1 <= Len(q) BY <1>1, <2>1, <2>3
    <3>2. Pre(p, i - 1) = Pre(q, i - 1) BY <2>1, <3>1, PreEqual
    <3> QED BY <2>1, <2>3, <3>1, <3>2 DEF Earlier, Pre
  <2> QED BY <2>2, <2>3
<1> QED BY <1>2, <1>3, <1>4 DEF Earlier

\* A strict order in which any two are related, as a set of pairs.
Ordered(R, S) ==
  /\ \A x \in S : <<x, x>> \notin R
  /\ \A x, y, z \in S : <<x, y>> \in R /\ <<y, z>> \in R => <<x, z>> \in R
  /\ \A x, y \in S : x # y => <<x, y>> \in R \/ <<y, x>> \in R

\* The paths are ordered by it.
LEMMA EarlierOrders == Ordered({e \in Path \X Path : Earlier(e[1], e[2])}, Path)
<1> DEFINE R == {e \in Path \X Path : Earlier(e[1], e[2])}
<1>0. \A x, y \in Path : <<x, y>> \in R <=> \E i \in Nat : Differs(x, y, i)
  <2> SUFFICES ASSUME NEW x \in Path, NEW y \in Path PROVE <<x, y>> \in R <=> \E i \in Nat : Differs(x, y, i) OBVIOUS
  <2>1. <<x, y>> \in R <=> Earlier(x, y) OBVIOUS
  <2> QED BY <2>1, EarlierDiffers
<1>1. ASSUME NEW x \in Path, NEW i \in Nat, Differs(x, x, i) PROVE FALSE
  <2>1. Len(x) \in Nat /\ i \in 1..Len(x) /\ Rank(x[i]) < Rank(x[i]) BY <1>1, PathLen DEF Differs
  <2>2. Rank(x[i]) \in Nat BY <2>1, PathLen, RankFacts
  <2> QED BY <2>1, <2>2
<1>2. ASSUME NEW x \in Path, NEW y \in Path, NEW z \in Path, NEW i \in Nat, NEW j \in Nat,
             Differs(x, y, i), Differs(y, z, j)
      PROVE  \E h \in Nat : Differs(x, z, h)
  <2>1. /\ i \in 1..Len(y) /\ i - 1 <= Len(x) /\ \A h \in 1..i - 1 : x[h] = y[h]
        /\ i > Len(x) \/ Rank(x[i]) < Rank(y[i])
    BY <1>2 DEF Differs
  <2>2. /\ j \in 1..Len(z) /\ j - 1 <= Len(y) /\ \A h \in 1..j - 1 : y[h] = z[h]
        /\ j > Len(y) \/ Rank(y[j]) < Rank(z[j])
    BY <1>2 DEF Differs
  <2>3. Len(x) \in Nat /\ Len(y) \in Nat /\ Len(z) \in Nat BY PathLen
  <2>4. CASE i < j
    <3>1. i \in 1..j - 1 /\ i \in 1..Len(z) /\ \A h \in 1..i - 1 : h \in 1..j - 1 BY <2>2, <2>3, <2>4, <2>1
    <3>2. y[i] = z[i] /\ \A h \in 1..i - 1 : x[h] = z[h] BY <2>1, <2>2, <3>1
    <3>3. Differs(x, z, i) BY <2>1, <3>1, <3>2 DEF Differs
    <3> QED BY <3>3
  <2>5. CASE i = j
    <3>1. Rank(y[i]) < Rank(z[i]) BY <2>1, <2>2, <2>3, <2>5
    <3>2. i > Len(x) \/ Rank(x[i]) < Rank(z[i])
      <4>1. CASE i > Len(x) BY <4>1
      <4>2. CASE ~(i > Len(x))
        <5>1. i \in 1..Len(x) /\ i \in 1..Len(y) /\ i \in 1..Len(z) BY <2>1, <2>2, <2>3, <2>5, <4>2
        <5>2. Rank(x[i]) \in Nat /\ Rank(y[i]) \in Nat /\ Rank(z[i]) \in Nat BY <5>1, PathLen, RankFacts
        <5> QED BY <2>1, <3>1, <4>2, <5>2
      <4> QED BY <4>1, <4>2
    <3>3. \A h \in 1..i - 1 : x[h] = z[h] BY <2>1, <2>2, <2>5
    <3>4. Differs(x, z, i) BY <2>1, <2>2, <2>5, <3>2, <3>3 DEF Differs
    <3> QED BY <3>4
  <2>6. CASE j < i
    <3>1. j \in 1..i - 1 /\ j - 1 <= Len(x) /\ j \in 1..Len(y) /\ \A h \in 1..j - 1 : h \in 1..i - 1
      BY <2>1, <2>2, <2>3, <2>6
    <3>2. x[j] = y[j] /\ \A h \in 1..j - 1 : x[h] = z[h] BY <2>1, <2>2, <3>1
    <3>3. Rank(y[j]) < Rank(z[j]) BY <2>2, <2>3, <3>1
    <3>4. Differs(x, z, j) BY <2>2, <3>1, <3>2, <3>3 DEF Differs
    <3> QED BY <3>4
  <2> QED BY <2>4, <2>5, <2>6
<1>3. ASSUME NEW x \in Path, NEW y \in Path, x # y
      PROVE  \E i \in Nat : Differs(x, y, i) \/ Differs(y, x, i)
  <2>0. Len(x) \in Nat /\ Len(y) \in Nat BY PathLen
  <2> DEFINE T == {i \in Nat \ {0} : i > Len(x) \/ i > Len(y) \/ x[i] # y[i]}
  <2>1. Len(x) + 1 \in T BY <2>0
  <2>2. PICK i \in T : \A j \in T : i <= j BY <2>1, LeastNat
  <2>3. \A j \in 1..i - 1 : j <= Len(x) /\ j <= Len(y) /\ x[j] = y[j]
    <3> SUFFICES ASSUME NEW j \in 1..i - 1 PROVE j <= Len(x) /\ j <= Len(y) /\ x[j] = y[j] OBVIOUS
    <3>1. j \in Nat \ {0} /\ ~(i <= j) BY <2>2
    <3>2. j \notin T BY <2>2, <3>1
    <3> QED BY <2>0, <3>1, <3>2
  <2>4. i \in Nat \ {0} /\ (i > Len(x) \/ i > Len(y) \/ x[i] # y[i]) BY <2>2
  <2> HIDE DEF T
  <2>5. i - 1 <= Len(x) /\ i - 1 <= Len(y)
    <3>1. CASE i = 1 BY <2>0, <3>1
    <3>2. CASE i # 1
      <4>1. i - 1 \in 1..i - 1 BY <2>4, <3>2
      <4> QED BY <2>3, <4>1
    <3> QED BY <3>1, <3>2
  <2>6. CASE i > Len(x)
    <3>1. i <= Len(y)
      <4> SUFFICES ASSUME ~(i <= Len(y)) PROVE FALSE OBVIOUS
      <4>1. Len(x) = i - 1 /\ Len(y) = i - 1 BY <2>0, <2>4, <2>5, <2>6
      <4>2. \A j \in 1..Len(x) : x[j] = y[j] BY <2>3, <4>1
      <4>3. x = y BY <4>1, <4>2, PathEqual
      <4> QED BY <1>3, <4>3
    <3>2. i \in 1..Len(y) BY <2>0, <2>4, <3>1
    <3>3. Differs(x, y, i) BY <2>3, <2>5, <2>6, <3>2 DEF Differs
    <3> QED BY <2>4, <3>3
  <2>7. CASE i > Len(y) /\ ~(i > Len(x))
    <3>1. i \in 1..Len(x) BY <2>0, <2>4, <2>7
    <3>2. Differs(y, x, i) BY <2>3, <2>5, <2>7, <3>1 DEF Differs
    <3> QED BY <2>4, <3>2
  <2>8. CASE ~(i > Len(x)) /\ ~(i > Len(y))
    <3>1. i \in 1..Len(x) /\ i \in 1..Len(y) /\ x[i] # y[i] BY <2>0, <2>4, <2>8
    <3>2. x[i] \in ToSet(Names) /\ y[i] \in ToSet(Names) BY <3>1, PathLen
    <3>3. Rank(x[i]) < Rank(y[i]) \/ Rank(y[i]) < Rank(x[i]) BY <3>1, <3>2, RankFacts
    <3>4. Differs(x, y, i) \/ Differs(y, x, i) BY <2>3, <2>5, <3>1, <3>3 DEF Differs
    <3> QED BY <2>4, <3>4
  <2> QED BY <2>6, <2>7, <2>8
<1> HIDE DEF R
<1>4. \A x \in Path : <<x, x>> \notin R BY <1>0, <1>1
<1>5. \A x, y, z \in Path : <<x, y>> \in R /\ <<y, z>> \in R => <<x, z>> \in R BY <1>0, <1>2
<1>6. \A x, y \in Path : x # y => <<x, y>> \in R \/ <<y, x>> \in R BY <1>0, <1>3
<1>7. Ordered(R, Path) BY <1>4, <1>5, <1>6 DEF Ordered
<1> QED BY <1>7 DEF R

\* In a finite set with such an order each number of predecessors has one element.
LEMMA Counting ==
  ASSUME NEW S, IsFiniteSet(S), NEW R, Ordered(R, S), NEW f,
         f = [x \in S |-> Cardinality({y \in S : <<y, x>> \in R})]
  PROVE  /\ Cardinality(S) \in Nat
         /\ \A x, y \in S : f[x] = f[y] => x = y
         /\ \A x \in S : f[x] \in 0..Cardinality(S) - 1
         /\ \A i \in 0..Cardinality(S) - 1 : \E x \in S : f[x] = i
<1> DEFINE Below(x) == {y \in S : <<y, x>> \in R}
<1>0. Cardinality(S) \in Nat BY FS_CardinalityType
<1>1. \A x \in S : f[x] = Cardinality(Below(x)) OBVIOUS
<1>2. ASSUME NEW x \in S PROVE IsFiniteSet(Below(x)) /\ Cardinality(Below(x)) \in Nat
  <2>1. Below(x) \subseteq S OBVIOUS
  <2> QED BY <2>1, FS_Subset, FS_CardinalityType
<1>3. ASSUME NEW x \in S, NEW y \in S, <<x, y>> \in R PROVE Cardinality(Below(x)) < Cardinality(Below(y))
  <2>1. Below(x) \subseteq Below(y) BY <1>3 DEF Ordered
  <2>2. x \in Below(y) /\ x \notin Below(x) BY <1>3 DEF Ordered
  <2> HIDE DEF Below
  <2>3. /\ Cardinality(Below(x)) <= Cardinality(Below(y))
        /\ Cardinality(Below(y)) = Cardinality(Below(x)) => Below(y) = Below(x)
    BY <1>2, <2>1, FS_Subset
  <2> QED BY <1>2, <2>2, <2>3
<1>4. ASSUME NEW x \in S, NEW y \in S, f[x] = f[y] PROVE x = y
  <2>1. x # y => <<x, y>> \in R \/ <<y, x>> \in R BY DEF Ordered
  <2> HIDE DEF Below
  <2> QED BY <1>1, <1>2, <1>3, <1>4, <2>1
<1>5. ASSUME NEW x \in S PROVE f[x] \in 0..Cardinality(S) - 1
  <2>1. Below(x) \subseteq S /\ x \notin Below(x) BY DEF Ordered
  <2> HIDE DEF Below
  <2>2. Cardinality(Below(x)) <= Cardinality(S) /\ (Cardinality(S) = Cardinality(Below(x)) => S = Below(x))
    BY <2>1, FS_Subset
  <2>3. Cardinality(Below(x)) \in Nat /\ Cardinality(Below(x)) # Cardinality(S) BY <1>2, <2>1, <2>2
  <2>4. Cardinality(Below(x)) \in 0..Cardinality(S) - 1 BY <1>0, <2>2, <2>3
  <2> QED BY <1>1, <2>4
<1>6. f \in Injection(S, 0..Cardinality(S) - 1)
  <2>1. DOMAIN f = S OBVIOUS
  <2>2. f = [x \in S |-> f[x]] OBVIOUS
  <2>3. f \in [S -> 0..Cardinality(S) - 1]
    <3> HIDE DEF Below
    <3> QED BY <1>5, <2>2
  <2> QED BY <1>4, <2>3 DEF Injection, IsInjective
<1>7. IsFiniteSet(0..Cardinality(S) - 1) /\ Cardinality(0..Cardinality(S) - 1) = Cardinality(S)
  <2>0. PICK n \in Nat : n = Cardinality(S) BY <1>0
  <2>1. IsFiniteSet(0..n - 1) /\ Cardinality(0..n - 1) = IF 0 > n - 1 THEN 0 ELSE n - 1 - 0 + 1
    BY FS_Interval
  <2>2. (IF 0 > n - 1 THEN 0 ELSE n - 1 - 0 + 1) = n OBVIOUS
  <2> QED BY <2>0, <2>1, <2>2
<1>8. f \in Surjection(S, 0..Cardinality(S) - 1) BY <1>6, <1>7, FS_Injection
<1> QED BY <1>0, <1>4, <1>5, <1>8 DEF Surjection

\* A sorted list has each path of the set once.
LEMMA SortedFacts ==
  ASSUME NEW S, S \subseteq Path, IsFiniteSet(S)
  PROVE  /\ Sorted(S) \in Seq(S) /\ Len(Sorted(S)) = Cardinality(S) /\ ToSet(Sorted(S)) = S
         /\ \A i, j \in 1..Len(Sorted(S)) : Sorted(S)[i] = Sorted(S)[j] => i = j
<1> DEFINE R == {e \in Path \X Path : Earlier(e[1], e[2])}
           before == [p \in S |-> Cardinality({q \in S : Earlier(q, p)})]
           Nth(n) == CHOOSE p \in S : before[p] = n - 1
           list == [n \in 1..Cardinality(S) |-> Nth(n)]
<1>1. Sorted(S) = list
  <2>1. Sorted(S) = CHOOSE s \in {[n \in 1..Cardinality(S) |-> CHOOSE p \in S : b[p] = n - 1] : b \in {before}} : TRUE
    BY DEF Sorted
  <2> HIDE DEF before
  <2>2. {[n \in 1..Cardinality(S) |-> CHOOSE p \in S : b[p] = n - 1] : b \in {before}} = {list} OBVIOUS
  <2>3. Sorted(S) = CHOOSE s \in {list} : TRUE BY <2>1, <2>2
  <2> HIDE DEF list
  <2> QED BY <2>3
<1>2. Ordered(R, S)
  <2>1. Ordered(R, Path) BY EarlierOrders
  <2> HIDE DEF R
  <2> QED BY <2>1 DEF Ordered
<1>3. before = [p \in S |-> Cardinality({q \in S : <<q, p>> \in R})]
  <2>1. ASSUME NEW p \in S PROVE {q \in S : Earlier(q, p)} = {q \in S : <<q, p>> \in R} OBVIOUS
  <2> HIDE DEF R
  <2> QED BY <2>1
<1> HIDE DEF R, before
<1>4. /\ Cardinality(S) \in Nat
      /\ \A x, y \in S : before[x] = before[y] => x = y
      /\ \A x \in S : before[x] \in 0..Cardinality(S) - 1
      /\ \A i \in 0..Cardinality(S) - 1 : \E x \in S : before[x] = i
  BY <1>2, <1>3, Counting
<1>5. \A n \in 1..Cardinality(S) : Nth(n) \in S /\ before[Nth(n)] = n - 1
  <2> SUFFICES ASSUME NEW n \in 1..Cardinality(S) PROVE Nth(n) \in S /\ before[Nth(n)] = n - 1 OBVIOUS
  <2>1. n - 1 \in 0..Cardinality(S) - 1 BY <1>4
  <2>2. \E x \in S : before[x] = n - 1 BY <1>4, <2>1
  <2> QED BY <2>2
<1> HIDE DEF Nth
<1>6. list \in Seq(S) /\ Len(list) = Cardinality(S) BY <1>4, <1>5, IsASeq
<1>7. \A n \in 1..Cardinality(S) : list[n] = Nth(n) OBVIOUS
<1>8. DOMAIN list = 1..Cardinality(S) OBVIOUS
<1> HIDE DEF list
<1>9. \A i, j \in 1..Cardinality(S) : list[i] = list[j] => i = j BY <1>4, <1>5, <1>7
<1>10. ASSUME NEW x \in S PROVE \E n \in 1..Cardinality(S) : list[n] = x
  <2>1. before[x] + 1 \in 1..Cardinality(S) BY <1>4
  <2>2. before[Nth(before[x] + 1)] = before[x] /\ Nth(before[x] + 1) \in S
    <3>1. PICK n \in 1..Cardinality(S) : n = before[x] + 1 BY <2>1
    <3>2. n - 1 = before[x] BY <1>4, <3>1
    <3> QED BY <1>5, <3>1, <3>2
  <2>3. Nth(before[x] + 1) = x BY <1>4, <2>2
  <2> QED BY <1>7, <2>1, <2>3
<1>11. ToSet(list) = S BY <1>5, <1>7, <1>8, <1>10 DEF ToSet
<1> QED BY <1>1, <1>6, <1>9, <1>11

-----------------------------------------------------------------------------
(* What is in a directory and below it                                     *)

\* The paths of what is below a directory.
LEMMA RenamedFacts ==
  ASSUME NEW user, NEW p \in Path, NEW n \in Under(user, p)
  PROVE  /\ n \in Node /\ n \in Path /\ Follow(user, p).at \in Path
         /\ Len(Follow(user, p).at) \in 0..Len(n) - 1 /\ Len(Follow(user, p).at) \in 0..Len(n)
         /\ Renamed(user, p, n) = p \o Rest(n, Len(Follow(user, p).at))
         /\ Renamed(user, p, n) \in Path
<1>1. Follow(user, p).at \in Path BY FollowRealLemma DEF FollowReal, Finding
<1>2. n \in Node /\ n \in Path /\ IsStrictPrefix(Follow(user, p).at, n) BY NodeFacts DEF Under
<1>3. Len(Follow(user, p).at) < Len(n) BY <1>1, <1>2, PrefixFacts
<1>4. Len(Follow(user, p).at) \in Nat /\ Len(n) \in Nat BY <1>1, <1>2, PathLen
<1>5. Renamed(user, p, n) = p \o Rest(n, Len(Follow(user, p).at)) BY DEF Renamed, Rest
<1>6. Len(Follow(user, p).at) \in 0..Len(n) BY <1>3, <1>4
<1>7. Rest(n, Len(Follow(user, p).at)) \in Path BY <1>2, <1>6, RestFacts
<1>8. Renamed(user, p, n) \in Path BY <1>5, <1>7, ConcatFacts
<1> QED BY <1>1, <1>2, <1>3, <1>4, <1>5, <1>6, <1>8

\* os.walk() finds finitely many paths.
LEMMA OsWalkFacts ==
  ASSUME NEW user, NEW p \in Path
  PROVE  OsWalk(user, p) \subseteq Path /\ IsFiniteSet(OsWalk(user, p))
<1>1. IsFiniteSet(Under(user, p))
  <2>1. Under(user, p) \subseteq Node BY DEF Under
  <2> QED BY <2>1, FS_Subset, TreeAssumption
<1> DEFINE Names1 == {Renamed(user, p, n) : n \in Under(user, p)}
<1>2. IsFiniteSet(Names1)
  <2> DEFINE f == [n \in Under(user, p) |-> Renamed(user, p, n)]
  <2>1. f \in Surjection(Under(user, p), Names1) BY DEF Surjection
  <2> HIDE DEF f, Names1
  <2> QED BY <1>1, <2>1, FS_Surjection
<1>3. OsWalk(user, p) \subseteq Names1 BY DEF OsWalk
<1>4. Names1 \subseteq Path BY RenamedFacts
<1> HIDE DEF Names1
<1> QED BY <1>2, <1>3, <1>4, FS_Subset

-----------------------------------------------------------------------------
(* What is on the way to a path                                            *)

\* What a step to an existing path has found.
LEMMA WalkOk ==
  ASSUME NEW user, NEW r \in Finding, NEW n, Walk1(user, TRUE, r, n).ok
  PROVE  r.ok /\ (n # Up => There(Append(r.at, n)) /\ May(user, Append(r.at, n)))
<1>p. PICK child : child = Append(r.at, n) OBVIOUS
<1>1. r.ok
  <2>1. ~r.ok => Walk1(user, TRUE, r, n) = r BY DEF Walk1
  <2> QED BY <2>1
<1>2. ASSUME n # Up, ~There(child) \/ ~May(user, child) PROVE FALSE
  <2>1. Walk1(user, TRUE, r, n) = [r EXCEPT !.ok = FALSE, !.via = @ \cup {child}] BY <1>1, <1>2, <1>p DEF Walk1
  <2>2. Walk1(user, TRUE, r, n).ok = FALSE BY <2>1 DEF Finding
  <2> QED BY <2>2
<1> QED BY <1>1, <1>2, <1>p

\* What is found somewhere is found before.
OkBefore == \A user : \A p \in Path : Follow(user, p).ok => \A i \in 0..Len(p) : Follow(user, Pre(p, i)).ok
\* A step that finds something goes on from something found.
LEMMA OkBeforeLemma == OkBefore
<1> SUFFICES ASSUME NEW user
             PROVE  \A p \in Path : Follow(user, p).ok => \A i \in 0..Len(p) : Follow(user, Pre(p, i)).ok
  BY DEF OkBefore
<1> DEFINE Right(p) == Follow(user, p).ok => \A i \in 0..Len(p) : Follow(user, Pre(p, i)).ok
           T == {p \in Path : Right(p)}
<1>1. <<>> \in T
  <2>1. \A i \in 0..Len(<<>>) : Pre(<<>>, i) = <<>> BY EmptyPath, PreAll
  <2> QED BY <2>1, EmptyPath
<1>2. ASSUME NEW p \in Path, p # <<>>, Front(p) \in T PROVE p \in T
  <2> SUFFICES ASSUME Follow(user, p).ok, NEW i \in 0..Len(p) PROVE Follow(user, Pre(p, i)).ok OBVIOUS
  <2>1. /\ Front(p) \in Path /\ Len(p) \in Nat \ {0} /\ Len(Front(p)) = Len(p) - 1
        /\ Front(p) = Pre(p, Len(p) - 1)
    BY <1>2, FrontFacts
  <2>2. CASE i = Len(p) BY <2>2, PreAll
  <2>3. CASE i # Len(p)
    <3>1. i \in 0..Len(p) - 1 /\ Len(p) - 1 \in 0..Len(p) /\ i \in 0..Len(Front(p)) BY <2>1, <2>3
    <3>2. Pre(Front(p), i) = Pre(p, i) BY <2>1, <3>1, PrePre
    <3>3. Follow(user, Front(p)).ok
      <4>1. PICK r, w : r = Follow(user, Front(p)) /\ w = Walk1(user, TRUE, r, Last(p)) OBVIOUS
      <4>2. r \in Finding BY <2>1, <4>1, FollowRealLemma DEF FollowReal
      <4>3. Follow(user, p) = w BY <1>2, <4>1, FollowLemma DEF FollowByNames
      <4> QED BY <4>1, <4>2, <4>3, WalkOk
    <3>4. Follow(user, Pre(Front(p), i)).ok BY <1>2, <3>1, <3>3
    <3> QED BY <3>2, <3>4
  <2> QED BY <2>2, <2>3
<1> HIDE DEF T
<1>3. Path \subseteq T BY <1>1, <1>2, PathInduction
<1> QED BY <1>3 DEF T

\* What stat() may answer.
LEMMA StatFacts ==
  ASSUME NEW user, NEW p \in Path
  PROVE  /\ Stat(user, p) \in {"none", "dir", "file", "other"}
         /\ Stat(user, p) # "none" <=> Follow(user, p).ok
<1>1. PICK r : r = Follow(user, p) OBVIOUS
<1>2. r \in Finding /\ Real(r) BY <1>1, FollowRealLemma DEF FollowReal
<1>3. r.ok /\ r.at # <<>> => r.at \in Node /\ Kind[r.at] \in {"dir", "file", "link", "other"} /\ Kind[r.at] # "link"
  BY <1>2, NodeFacts DEF Real
<1>4. KindAt(r) \in {"none", "dir", "file", "other"} /\ (KindAt(r) # "none" <=> r.ok) BY <1>2, <1>3 DEF KindAt, Finding
<1> QED BY <1>1, <1>4 DEF Stat

\* A path one name further.
LEMMA PreNext ==
  ASSUME NEW p \in Path, NEW i \in 0..Len(p) - 1
  PROVE  /\ Pre(p, i) \in Path /\ Pre(p, i + 1) \in Path /\ Pre(p, i + 1) # <<>>
         /\ Len(Pre(p, i)) = i /\ Len(Pre(p, i + 1)) = i + 1
         /\ Front(Pre(p, i + 1)) = Pre(p, i) /\ Last(Pre(p, i + 1)) = p[i + 1]
         /\ Pre(p, i + 1) = Append(Pre(p, i), p[i + 1]) /\ p[i + 1] \in ToSet(Names)
<1>1. Len(p) \in Nat BY PathLen
<1>2. i \in 0..Len(p) /\ i + 1 \in 0..Len(p) /\ i + 1 \in 1..i + 1 /\ i \in 0..i + 1 /\ i + 1 \in 1..Len(p) BY <1>1
<1>3. PICK q : q = Pre(p, i + 1) OBVIOUS
<1>4. q \in Path /\ Len(q) = i + 1 /\ q[i + 1] = p[i + 1] BY <1>2, <1>3, PreFacts
<1>5. q # <<>> BY <1>2, <1>4, EmptyPath
<1>6. Front(q) = Pre(q, Len(q) - 1) /\ Last(q) = q[Len(q)] /\ Append(Front(q), Last(q)) = q BY <1>4, <1>5, FrontFacts
<1>7. Len(q) - 1 = i BY <1>2, <1>4
<1>8. Pre(q, i) = Pre(p, i) BY <1>2, <1>3, PrePre
<1>9. Pre(p, i) \in Path /\ Len(Pre(p, i)) = i BY <1>2, PreFacts
<1>10. p[i + 1] \in ToSet(Names) BY <1>2, PathLen
<1> QED BY <1>3, <1>4, <1>5, <1>6, <1>7, <1>8, <1>9, <1>10

-----------------------------------------------------------------------------
(* A path as abspath() and realpath() give it                              *)

\* The path so far, with one name more.
Taken(q, n) == IF n # Up THEN Append(q, n) ELSE IF q = <<>> THEN q ELSE Front(q)
\* The path that a set of its places stands for.
TakenOf(it, s, p) == IF s = {} THEN <<>> ELSE Taken(it[s \ {Max(s)}], p[Max(s)])
\* A table of these paths.
IsTaken(it, m, p) == it = [s \in SUBSET (1..m) |-> TakenOf(it, s, p)]

\* The last of some indices.
LEMMA MaxFacts ==
  ASSUME NEW m \in Nat, NEW s \in SUBSET (1..m), s # {}
  PROVE  Max(s) \in s /\ \A y \in s : y <= Max(s)
<1> DEFINE B == {u \in Nat : \A y \in s : y <= u}
<1>1. m \in B OBVIOUS
<1>2. PICK u \in B : \A v \in B : u <= v BY <1>1, LeastNat
<1>3. u \in s
  <2> SUFFICES ASSUME u \notin s PROVE FALSE OBVIOUS
  <2>1. PICK z : z \in s OBVIOUS
  <2>2. u - 1 \in Nat /\ \A y \in s : y <= u - 1
    <3>1. \A y \in s : y \in Nat /\ y > 0 /\ y <= u /\ y # u BY <1>2
    <3>2. u \in Nat BY <1>2
    <3> HIDE DEF B
    <3> QED BY <2>1, <3>1, <3>2
  <2>3. u - 1 \in B BY <2>2
  <2> HIDE DEF B
  <2>4. u <= u - 1 BY <1>2, <2>3
  <2>5. u \in Nat BY <1>2 DEF B
  <2> QED BY <2>4, <2>5
<1>4. \A y \in s : y <= u BY <1>2
<1>5. \E x \in s : \A y \in s : x >= y
  <2>1. \A y \in s : u >= y BY <1>2
  <2> QED BY <1>3, <2>1
<1>6. Max(s) \in s /\ \A y \in s : Max(s) >= y BY <1>5 DEF Max
<1> QED BY <1>6

\* There is a table of the places of the parts of a path.
LEMMA TakenExist == ASSUME NEW p, NEW n \in Nat PROVE \E it : IsTaken(it, n, p)
<1> DEFINE T == {m \in Nat : \E it : IsTaken(it, m, p)}
<1>1. 0 \in T
  <2> DEFINE it == [s \in SUBSET (1..0) |-> <<>>]
  <2>1. \A s \in SUBSET (1..0) : TakenOf(it, s, p) = <<>>
    <3>1. \A s \in SUBSET (1..0) : s = {} OBVIOUS
    <3> QED BY <3>1 DEF TakenOf
  <2>2. it = [s \in SUBSET (1..0) |-> TakenOf(it, s, p)]
    <3> DEFINE A(s) == TakenOf(it, s, p)
    <3>1. \A s \in SUBSET (1..0) : A(s) = <<>> BY <2>1
    <3> HIDE DEF A
    <3>2. it = [s \in SUBSET (1..0) |-> A(s)] BY <3>1
    <3> QED BY <3>2 DEF A
  <2> HIDE DEF it
  <2> QED BY <2>2 DEF IsTaken
<1>2. ASSUME NEW m \in Nat, m \in T PROVE m + 1 \in T
  <2>1. PICK g : IsTaken(g, m, p) BY <1>2
  <2> DEFINE A(s) == TakenOf(g, s, p)
             it == [s \in SUBSET (1..m + 1) |-> A(s)]
  <2>2. \A s \in SUBSET (1..m) : g[s] = TakenOf(g, s, p) BY <2>1 DEF IsTaken
  <2>3. ASSUME NEW s \in SUBSET (1..m + 1), s # {} PROVE s \ {Max(s)} \in SUBSET (1..m)
    <3>0. m + 1 \in Nat OBVIOUS
    <3>1. Max(s) \in s /\ \A y \in s : y <= Max(s) BY <2>3, <3>0, MaxFacts
    <3>2. \A y \in s \ {Max(s)} : y \in 1..m
      <4> SUFFICES ASSUME NEW y \in s, y # Max(s) PROVE y \in 1..m OBVIOUS
      <4>1. y \in 1..m + 1 /\ Max(s) \in 1..m + 1 /\ y <= Max(s) BY <3>1
      <4> QED BY <4>1
    <3> QED BY <3>2
  <2>4. \A s \in SUBSET (1..m) : it[s] = g[s]
    <3>1. \A s \in SUBSET (1..m) : s \in SUBSET (1..m + 1) OBVIOUS
    <3>2. \A s \in SUBSET (1..m) : g[s] = A(s) BY <2>2
    <3> HIDE DEF A
    <3> QED BY <3>1, <3>2
  <2>5. it = [s \in SUBSET (1..m + 1) |-> TakenOf(g, s, p)] OBVIOUS
  <2> HIDE DEF it, A
  <2>6. \A s \in SUBSET (1..m + 1) : TakenOf(g, s, p) = TakenOf(it, s, p) BY <2>3, <2>4 DEF TakenOf
  <2>7. IsTaken(it, m + 1, p) BY <2>5, <2>6 DEF IsTaken
  <2> QED BY <2>7
<1> HIDE DEF T
<1>3. n \in T BY <1>1, <1>2, Inductive
<1> QED BY <1>3 DEF T

\* abspath() makes a path of a path.
LEMMA CollapseTyped == ASSUME NEW p \in Path PROVE Collapse(p) \in Path
<1> DEFINE n == Len(p)
           Table(it) == [s \in SUBSET DOMAIN p |->
                         IF s = {} THEN <<>>
                         ELSE LET x == Max(s) IN
                              IF p[x] # Up THEN Append(it[s \ {x}], p[x])
                              ELSE IF it[s \ {x}] = <<>> THEN it[s \ {x}] ELSE Front(it[s \ {x}])]
           iter == CHOOSE it : it = Table(it)
<1>0. n \in Nat /\ DOMAIN p = 1..n /\ \A i \in 1..n : p[i] \in ToSet(Names) BY PathLen
<1>1. Collapse(p) = iter[DOMAIN p] BY DEF Collapse, FoldLeft, MapThenFoldSet
<1>2. \A it : IsTaken(it, n, p) <=> it = Table(it) BY <1>0 DEF IsTaken, TakenOf, Taken
<1> HIDE DEF Table
<1>3. PICK it : IsTaken(it, n, p) BY <1>0, TakenExist
<1>4. iter = Table(iter) BY <1>2, <1>3
<1>5. IsTaken(iter, n, p) BY <1>2, <1>4
<1> HIDE DEF iter, n
<1> DEFINE Paths1(m) == \A s \in SUBSET (1..m) : iter[s] \in Path
           T == {m \in Nat : m <= n => Paths1(m)}
<1>6. \A s \in SUBSET (1..n) : iter[s] = TakenOf(iter, s, p) BY <1>5 DEF IsTaken
<1>7. 0 \in T
  <2>1. \A s \in SUBSET (1..0) : s = {} /\ s \in SUBSET (1..n) BY <1>0
  <2>2. iter[{}] = <<>> BY <1>6, <2>1 DEF TakenOf
  <2> QED BY <2>1, <2>2, EmptyPath
<1>8. ASSUME NEW m \in Nat, m \in T PROVE m + 1 \in T
  <2> SUFFICES ASSUME m + 1 <= n PROVE Paths1(m + 1)
    <3> HIDE DEF Paths1
    <3> QED OBVIOUS
  <2> SUFFICES ASSUME NEW s \in SUBSET (1..m + 1) PROVE iter[s] \in Path OBVIOUS
  <2>1. s \in SUBSET (1..n) BY <1>0
  <2>2. CASE s = {} BY <1>6, <2>1, <2>2, EmptyPath DEF TakenOf
  <2>3. CASE s # {}
    <3>1. PICK x : x = Max(s) OBVIOUS
    <3>2. x \in s /\ \A y \in s : y <= x BY <2>3, <3>1, MaxFacts
    <3>3. s \ {x} \in SUBSET (1..m)
      <4>1. \A y \in s \ {x} : y \in 1..m
        <5> SUFFICES ASSUME NEW y \in s, y # x PROVE y \in 1..m OBVIOUS
        <5>1. y \in 1..m + 1 /\ x \in 1..m + 1 /\ y <= x BY <3>2
        <5> QED BY <5>1
      <4> QED BY <4>1
    <3>4. PICK q \in Path : q = iter[s \ {x}] BY <1>0, <1>8, <3>3
    <3>5. iter[s] = Taken(q, p[x]) BY <1>6, <2>1, <2>3, <3>1, <3>4 DEF TakenOf
    <3>6. p[x] \in ToSet(Names) BY <1>0, <2>1, <3>2
    <3>7. Append(q, p[x]) \in Path BY <3>6, AppendFacts
    <3>8. q # <<>> => Front(q) \in Path BY FrontFacts
    <3> QED BY <3>5, <3>7, <3>8 DEF Taken
  <2> QED BY <2>2, <2>3
<1> HIDE DEF T
<1>9. n \in T BY <1>0, <1>7, <1>8, Inductive
<1>10. iter[1..n] \in Path BY <1>0, <1>9 DEF T
<1> QED BY <1>0, <1>1, <1>10

\* A table that starts with a and goes on by W, up to n.
IsTable(f, a, W, n) == f = [i \in 0..n |-> IF i = 0 THEN a ELSE W[<<i, f[i - 1]>>]]

\* There is such a table for any W.
LEMMA TableExists ==
  ASSUME NEW S, NEW a \in S, NEW W \in [Nat \X S -> S], NEW n \in Nat
  PROVE  \E f \in [0..n -> S] : IsTable(f, a, W, n)
<1> DEFINE T == {m \in Nat : \E f \in [0..m -> S] : IsTable(f, a, W, m)}
<1>1. 0 \in T
  <2> DEFINE f == [i \in 0..0 |-> a]
             A(i) == IF i = 0 THEN a ELSE W[<<i, f[i - 1]>>]
  <2>1. \A i \in 0..0 : A(i) = a OBVIOUS
  <2>2. f = [i \in 0..0 |-> A(i)]
    <3> HIDE DEF A
    <3> QED BY <2>1
  <2>3. f \in [0..0 -> S] OBVIOUS
  <2> HIDE DEF f
  <2> QED BY <2>2, <2>3 DEF IsTable
<1>2. ASSUME NEW m \in Nat, m \in T PROVE m + 1 \in T
  <2>1. PICK g \in [0..m -> S] : IsTable(g, a, W, m) BY <1>2
  <2> DEFINE f == [i \in 0..m + 1 |-> IF i = m + 1 THEN W[<<i, g[m]>>] ELSE g[i]]
             A(i) == IF i = 0 THEN a ELSE W[<<i, f[i - 1]>>]
  <2>2. \A i \in 0..m : g[i] = IF i = 0 THEN a ELSE W[<<i, g[i - 1]>>]
    <3> HIDE DEF f
    <3> QED BY <2>1 DEF IsTable
  <2>3. \A i \in 0..m : f[i] = g[i] OBVIOUS
  <2>4. f[m + 1] = W[<<m + 1, g[m]>>] /\ f = [i \in 0..m + 1 |-> f[i]] OBVIOUS
  <2> HIDE DEF f
  <2>5. ASSUME NEW i \in 0..m + 1 PROVE f[i] = A(i) /\ f[i] \in S
    <3>0. i \in 0..m => f[i] \in S
      <4>1. \A h \in 0..m : g[h] \in S BY <2>1
      <4> QED BY <2>3, <4>1
    <3>1. CASE i = m + 1
      <4>1. f[i - 1] = g[m] /\ i # 0 BY <2>3, <3>1
      <4>2. A(i) = W[<<i, f[i - 1]>>] BY <4>1
      <4>3. g[m] \in S BY <2>1
      <4>4. <<m + 1, g[m]>> \in Nat \X S BY <4>3
      <4>5. W[<<m + 1, g[m]>>] \in S BY <4>4
      <4> QED BY <2>4, <3>1, <4>1, <4>2, <4>5
    <3>2. CASE i \in 1..m
      <4>1. i - 1 \in 0..m /\ i \in 0..m /\ i # 0 BY <3>2
      <4> QED BY <2>2, <2>3, <3>0, <4>1
    <3>3. CASE i = 0
      <4>1. i \in 0..m BY <3>3
      <4> QED BY <2>2, <2>3, <3>0, <3>3, <4>1
    <3> QED BY <3>1, <3>2, <3>3
  <2>6. f = [i \in 0..m + 1 |-> A(i)]
    <3> HIDE DEF A
    <3> QED BY <2>4, <2>5
  <2>7. f \in [0..m + 1 -> S]
    <3> HIDE DEF A
    <3> QED BY <2>4, <2>5
  <2>8. IsTable(f, a, W, m + 1) BY <2>6 DEF IsTable
  <2> QED BY <2>7, <2>8
<1> HIDE DEF T
<1>3. n \in T BY <1>1, <1>2, Inductive
<1> QED BY <1>3 DEF T

\* realpath() from a real path on, by one name.
RealStep(q, n) ==
  IF There(Append(q, n)) /\ Kind[Append(q, n)] = "link" THEN LinkTo[Append(q, n)]
  ELSE IF n = Up THEN IF q = <<>> THEN q ELSE Front(q)
  ELSE Append(q, n)

Reals(s, n) == {RealStep(q, n) : q \in s}

\* It is a path, and the one that is found if any is.
LEMMA RealStepFacts ==
  ASSUME NEW q \in Path, NEW n \in ToSet(Names)
  PROVE  /\ RealStep(q, n) \in Path
         /\ \A r \in Finding : Walk1("me", TRUE, r, n).ok /\ r.at = q => RealStep(q, n) = Walk1("me", TRUE, r, n).at
<1>p. PICK child : child = Append(q, n) OBVIOUS
<1>1. child \in Path /\ child # <<>> /\ Last(child) = n BY <1>p, AppendFacts
<1>2. There(child) => child \in Node /\ n # Up
  <2>1. There(child) => child \in Node BY <1>1, ThereFacts
  <2> QED BY <1>1, <2>1, NodeFacts
<1>3. RealStep(q, n) \in Path
  <2>1. There(child) /\ Kind[child] = "link" => LinkTo[child] \in Path BY <1>2, NodeFacts
  <2>2. q # <<>> => Front(q) \in Path BY FrontFacts
  <2> QED BY <1>p, <1>1, <2>1, <2>2 DEF RealStep
<1>4. ASSUME NEW r \in Finding, Walk1("me", TRUE, r, n).ok, r.at = q
      PROVE  RealStep(q, n) = Walk1("me", TRUE, r, n).at
  <2>1. r.ok /\ (n # Up => There(child) /\ May("me", child)) BY <1>4, <1>p, WalkOk
  <2>2. PICK w : w = Walk1("me", TRUE, r, n) OBVIOUS
  <2>3. CASE n = Up
    <3>1. w = [r EXCEPT !.at = IF r.at = <<>> THEN r.at ELSE Front(r.at)] BY <2>1, <2>2, <2>3 DEF Walk1
    <3>2. w.at = IF q = <<>> THEN q ELSE Front(q) BY <1>4, <3>1 DEF Finding
    <3>3. ~There(child) BY <1>2, <2>3
    <3>4. RealStep(q, n) = IF q = <<>> THEN q ELSE Front(q) BY <1>p, <2>3, <3>3 DEF RealStep
    <3> QED BY <2>2, <3>2, <3>4
  <2>4. CASE n # Up /\ Kind[child] # "link"
    <3>1. w = [r EXCEPT !.at = child, !.via = @ \cup {child}] BY <1>4, <1>p, <2>1, <2>2, <2>4 DEF Walk1
    <3>2. w.at = child BY <3>1 DEF Finding
    <3>3. RealStep(q, n) = child BY <1>p, <2>4 DEF RealStep
    <3> QED BY <2>2, <3>2, <3>3
  <2>5. CASE n # Up /\ Kind[child] = "link"
    <3>1. w.at = LinkTo[child] BY <1>4, <1>p, <2>1, <2>2, <2>5 DEF Walk1
    <3>2. RealStep(q, n) = LinkTo[child] BY <1>p, <2>1, <2>5 DEF RealStep
    <3> QED BY <2>2, <3>1, <3>2
  <2> QED BY <2>3, <2>4, <2>5
<1> QED BY <1>3, <1>4

\* realpath() is a path, and the one that stat() finds if it finds any.
LEMMA CanonFacts ==
  ASSUME NEW p \in Path
  PROVE  /\ Canon(p) \in Path
         /\ Follow("me", p).ok => Canon(p) = Follow("me", p).at
<1> DEFINE n == Len(p)
           Table(f) == [i \in 0..Len(p) |->
                        IF i = 0 THEN {<<>>}
                        ELSE {IF There(Append(q, p[i])) /\ Kind[Append(q, p[i])] = "link" THEN LinkTo[Append(q, p[i])]
                              ELSE IF p[i] = Up THEN IF q = <<>> THEN q ELSE Front(q)
                              ELSE Append(q, p[i]) : q \in f[i - 1]}]
           real == CHOOSE f : f = Table(f)
           W == [x \in Nat \X SUBSET Path |->
                 IF x[1] \in 1..Len(p) THEN Reals(x[2], p[x[1]]) ELSE {}]
<1>0. n \in Nat /\ \A i \in 1..n : p[i] \in ToSet(Names) BY PathLen
<1>1. Canon(p) = CHOOSE q \in real[n] : TRUE BY DEF Canon
<1>2. \A f : f = Table(f) <=> f = [i \in 0..n |-> IF i = 0 THEN {<<>>} ELSE Reals(f[i - 1], p[i])]
  BY DEF Reals, RealStep
<1> HIDE DEF Table
<1>3. W \in [Nat \X SUBSET Path -> SUBSET Path]
  <2>1. ASSUME NEW x \in Nat \X SUBSET Path, x[1] \in 1..Len(p)
        PROVE  Reals(x[2], p[x[1]]) \in SUBSET Path
    <3>1. \A q \in x[2] : q \in Path OBVIOUS
    <3>2. \A q \in x[2] : RealStep(q, p[x[1]]) \in Path BY <1>0, <2>1, <3>1, RealStepFacts
    <3> QED BY <3>2 DEF Reals
  <2> QED BY <2>1
<1>4. \A i \in 1..n : \A s \in SUBSET Path : W[<<i, s>>] = Reals(s, p[i])
  <2> SUFFICES ASSUME NEW i \in 1..n, NEW s \in SUBSET Path PROVE W[<<i, s>>] = Reals(s, p[i]) OBVIOUS
  <2>1. <<i, s>> \in Nat \X SUBSET Path BY <1>0
  <2> QED BY <2>1
<1> HIDE DEF W, real
<1>5. PICK f \in [0..n -> SUBSET Path] : IsTable(f, {<<>>}, W, n)
  <2>1. {<<>>} \in SUBSET Path BY EmptyPath
  <2> QED BY <1>0, <1>3, <2>1, TableExists
<1>6. f = Table(f)
  <2> DEFINE A(i) == IF i = 0 THEN {<<>>} ELSE W[<<i, f[i - 1]>>]
             B(i) == IF i = 0 THEN {<<>>} ELSE Reals(f[i - 1], p[i])
  <2>1. f = [i \in 0..n |-> A(i)] BY <1>5 DEF IsTable
  <2>2. ASSUME NEW i \in 0..n PROVE A(i) = B(i)
    <3>1. CASE i = 0 BY <3>1
    <3>2. CASE i # 0
      <4>1. i \in 1..n /\ i - 1 \in 0..n BY <1>0, <3>2
      <4>2. f[i - 1] \in SUBSET Path BY <1>5, <4>1
      <4> QED BY <1>4, <3>2, <4>1, <4>2
    <3> QED BY <3>1, <3>2
  <2> HIDE DEF A, B
  <2>3. f = [i \in 0..n |-> B(i)] BY <2>1, <2>2
  <2> QED BY <1>2, <2>3 DEF B
<1>7. real = Table(real) BY <1>6 DEF real
<1>8. \A i \in 0..n : real[i] = IF i = 0 THEN {<<>>} ELSE Reals(real[i - 1], p[i])
  <2>1. real = [i \in 0..n |-> IF i = 0 THEN {<<>>} ELSE Reals(real[i - 1], p[i])] BY <1>2, <1>7
  <2> DEFINE B(i) == IF i = 0 THEN {<<>>} ELSE Reals(real[i - 1], p[i])
  <2>2. real = [i \in 0..n |-> B(i)] BY <2>1
  <2> HIDE DEF B
  <2>3. \A i \in 0..n : real[i] = B(i) BY <2>2
  <2> QED BY <2>3 DEF B
<1> DEFINE Right(i, q) == q \in Path /\ real[i] = {q} /\ (Follow("me", Pre(p, i)).ok => q = Follow("me", Pre(p, i)).at)
           T == {i \in Nat : i <= n => \E q : Right(i, q)}
<1>9. 0 \in T
  <2>1. real[0] = {<<>>} BY <1>0, <1>8
  <2>2. Follow("me", Pre(p, 0)).at = <<>> BY PreAll, EmptyPath, FollowLemma DEF FollowByNames, Start
  <2>3. Right(0, <<>>) BY <2>1, <2>2, EmptyPath
  <2> QED BY <2>3
<1>10. ASSUME NEW i \in Nat, i \in T PROVE i + 1 \in T
  <2> SUFFICES ASSUME i + 1 <= n PROVE \E q : Right(i + 1, q)
    <3> HIDE DEF Right
    <3> QED OBVIOUS
  <2>1. i <= n /\ i \in 0..Len(p) - 1 /\ i + 1 \in 1..n /\ i + 1 \in 0..n /\ i + 1 # 0 /\ i + 1 - 1 = i BY <1>0
  <2>2. PICK q : Right(i, q)
    <3> HIDE DEF Right
    <3> QED BY <1>10, <2>1
  <2>3. PICK m, w : m = p[i + 1] /\ w = RealStep(q, m) OBVIOUS
  <2>4. m \in ToSet(Names) BY <1>0, <2>1, <2>3
  <2>5. real[i + 1] = Reals(real[i], m) BY <1>8, <2>1, <2>3
  <2>6. real[i + 1] = {w} BY <2>2, <2>3, <2>5 DEF Reals
  <2>7. w \in Path BY <2>2, <2>3, <2>4, RealStepFacts
  <2>8. ASSUME Follow("me", Pre(p, i + 1)).ok PROVE w = Follow("me", Pre(p, i + 1)).at
    <3>1. /\ Pre(p, i) \in Path /\ Pre(p, i + 1) \in Path /\ Pre(p, i + 1) # <<>>
          /\ Front(Pre(p, i + 1)) = Pre(p, i) /\ Last(Pre(p, i + 1)) = m
      BY <2>1, <2>3, PreNext
    <3>2. PICK r : r = Follow("me", Pre(p, i)) OBVIOUS
    <3>3. r \in Finding BY <3>1, <3>2, FollowRealLemma DEF FollowReal
    <3>4. Follow("me", Pre(p, i + 1)) = Walk1("me", TRUE, r, m) BY <3>1, <3>2, FollowLemma DEF FollowByNames
    <3>5. r.ok BY <2>8, <3>3, <3>4, WalkOk
    <3>6. r.at = q BY <2>2, <3>2, <3>5
    <3>7. PICK z : z = Walk1("me", TRUE, r, m) OBVIOUS
    <3>8. z.ok BY <2>8, <3>4, <3>7
    <3>9. RealStep(q, m) = z.at BY <2>2, <2>4, <3>3, <3>6, <3>7, <3>8, RealStepFacts
    <3> QED BY <2>3, <3>4, <3>7, <3>9
  <2>9. Right(i + 1, w) BY <2>6, <2>7, <2>8
  <2> HIDE DEF Right
  <2> QED BY <2>9
<1> HIDE DEF T, Right
<1>11. n \in T BY <1>0, <1>9, <1>10, Inductive
<1>12. PICK q : Right(n, q) BY <1>0, <1>11 DEF T
<1>13. q \in Path /\ real[n] = {q} /\ (Follow("me", p).ok => q = Follow("me", p).at)
  <2>1. Pre(p, n) = p BY PreAll
  <2> QED BY <1>12, <2>1 DEF Right
<1>14. Canon(p) = q BY <1>1, <1>13
<1> QED BY <1>13, <1>14

-----------------------------------------------------------------------------
(* What SRC stands for                                                     *)

\* What a SRC list has.
Source == [from : {"root", "cwd"}, path : Path, rx : BOOLEAN, tail : Seq(SUBSET ToSet(Names))]

\* What is made of finitely many things are finitely many.
LEMMA ImageFinite == ASSUME NEW S, IsFiniteSet(S), NEW f PROVE IsFiniteSet({f[x] : x \in S})
<1> DEFINE g == [x \in S |-> f[x]]
           T == {f[x] : x \in S}
<1>1. g \in Surjection(S, T) BY DEF Surjection
<1> HIDE DEF g, T
<1>2. IsFiniteSet(T) BY <1>1, FS_Surjection
<1> QED BY <1>2 DEF T

\* What follows a path's first names is a path, and none if there are not so many.
LEMMA RestTyped == ASSUME NEW p \in Path, NEW i \in Nat PROVE Rest(p, i) \in Path
<1>0. Len(p) \in Nat /\ \A j \in 1..Len(p) : p[j] \in ToSet(Names) BY PathLen
<1>1. \A j \in i + 1..Len(p) : p[j] \in ToSet(Names) BY <1>0
<1>2. i + 1 \in Int /\ Len(p) \in Int BY <1>0
<1> QED BY <1>1, <1>2, SubSeqProperties DEF Rest, Path

\* A path goes on after its prefix, and the rest is what comes then.
LEMMA ConcatRest ==
  ASSUME NEW p \in Path, NEW q \in Path
  PROVE  /\ IsPrefix(p, p \o q) /\ Rest(p \o q, Len(p)) = q
         /\ IsPrefix(p, q) => q = p \o Rest(q, Len(p)) /\ Rest(q, Len(p)) \in Path
<1>0. Len(p) \in Nat /\ Len(q) \in Nat BY PathLen
<1>1. /\ p \o q \in Path /\ Len(p \o q) = Len(p) + Len(q)
      /\ \A i \in 1..Len(p) : (p \o q)[i] = p[i]
      /\ \A i \in 1..Len(q) : (p \o q)[Len(p) + i] = q[i]
  BY ConcatFacts
<1> PICK a, b, c : a = Len(p) /\ b = Len(q) /\ c = p \o q OBVIOUS
<1>2. a \in Nat /\ b \in Nat /\ Len(c) = a + b /\ a <= a + b /\ a \in 0..a + b /\ a + b - a = b BY <1>0, <1>1
<1>3. IsPrefix(p, c) BY <1>1, <1>2, PrefixFacts
<1>4. Rest(c, a) = q
  <2>1. /\ Rest(c, a) \in Path /\ Len(Rest(c, a)) = Len(c) - a
        /\ \A j \in 1..Len(c) - a : Rest(c, a)[j] = c[a + j]
    <3>1. c \in Path /\ a \in 0..Len(c) BY <1>1, <1>2
    <3> QED BY <3>1, RestFacts
  <2>2. Len(c) - a = b BY <1>2
  <2>3. Len(q) = Len(Rest(c, a)) /\ \A j \in 1..Len(q) : q[j] = Rest(c, a)[j] BY <1>1, <2>1, <2>2
  <2>4. q = Rest(c, a) BY <2>1, <2>3, PathEqual
  <2> QED BY <2>4
<1>5. ASSUME IsPrefix(p, q) PROVE q = p \o Rest(q, a) /\ Rest(q, a) \in Path
  <2>1. a <= b /\ \A j \in 1..a : p[j] = q[j] BY <1>5, PrefixFacts
  <2>2. a \in 0..b /\ b - a \in Nat /\ a + (b - a) = b BY <1>2, <2>1
  <2>3. PICK t : t = Rest(q, a) OBVIOUS
  <2>4. t \in Path /\ Len(t) = b - a /\ \A j \in 1..b - a : t[j] = q[a + j] BY <2>2, <2>3, RestFacts
  <2>5. PICK d : d = p \o t OBVIOUS
  <2>6. /\ d \in Path /\ Len(d) = a + Len(t)
        /\ \A i \in 1..a : d[i] = p[i]
        /\ \A i \in 1..Len(t) : d[a + i] = t[i]
    BY <2>4, <2>5, ConcatFacts
  <2>7. Len(d) = b BY <2>2, <2>4, <2>6
  <2>8. ASSUME NEW i \in 1..b PROVE q[i] = d[i]
    <3>1. CASE i <= a
      <4>1. i \in 1..a BY <1>2, <3>1
      <4> QED BY <2>1, <2>6, <4>1
    <3>2. CASE ~(i <= a)
      <4>1. PICK j : j = i - a OBVIOUS
      <4>2. j \in 1..b - a /\ a + j = i BY <1>2, <3>2, <4>1
      <4> QED BY <2>4, <2>6, <4>2
    <3> QED BY <3>1, <3>2
  <2>9. q = d BY <2>6, <2>7, <2>8, PathEqual
  <2> QED BY <2>3, <2>4, <2>5, <2>9
<1> QED BY <1>3, <1>4, <1>5

\* The paths that belong to a SRC.
LEMMA SourceFacts ==
  ASSUME NEW s \in Source
  PROVE  Abs(s) \in Path /\ RelBase(s) \in Path /\ Raw(s) \in Path /\ Len(Abs(s)) \in Nat
<1>1. s.path \in Path BY DEF Source
<1>2. Cwd \in Path BY ScatterAssumption
<1>3. <<>> \o s.path \in Path /\ Cwd \o s.path \in Path BY <1>1, <1>2, EmptyPath, ConcatFacts
<1>4. (IF s.from = "root" THEN <<>> ELSE Cwd) \o s.path \in Path BY <1>3
<1>5. Abs(s) \in Path BY <1>4, CollapseTyped DEF Abs
<1>6. Collapse(s.path) \in Path BY <1>1, CollapseTyped
<1> QED BY <1>1, <1>5, <1>6, PathLen DEF RelBase, Raw

\* Where a path goes for a SRC.
LEMMA RelOfFacts ==
  ASSUME NEW s \in Source, NEW p \in Path
  PROVE  RelOf(s, p) \in Path /\ RelOf(s, p) = RelBase(s) \o Rest(p, Len(Abs(s)))
<1>1. RelOf(s, p) = RelBase(s) \o Rest(p, Len(Abs(s))) BY DEF RelOf, Rest
<1>2. Rest(p, Len(Abs(s))) \in Path BY SourceFacts, RestTyped
<1> QED BY <1>1, <1>2, SourceFacts, ConcatFacts

\* What a SRC stands for are finitely many paths that begin as it does.
LEMMA CandidatesFacts ==
  ASSUME NEW s \in Source
  PROVE  /\ Candidates(s) \subseteq Path /\ IsFiniteSet(Candidates(s))
         /\ \A p \in Candidates(s) : IsPrefix(Abs(s), p)
<1> PICK a, w : a = Abs(s) /\ w = Raw(s) OBVIOUS
<1>0. a \in Path /\ w \in Path /\ Len(w) \in Nat BY SourceFacts, PathLen
<1> DEFINE found == OsWalk("me", w)
           f == [q \in found |-> Rest(q, Len(w))]
           rels == {f[q] : q \in found}
           some == {r \in rels : Found(s.tail, r)}
           g == [r \in some |-> a \o r]
<1>1. found \subseteq Path /\ IsFiniteSet(found) BY <1>0, OsWalkFacts
<1>2. IsFiniteSet(rels)
  <2> HIDE DEF found, f
  <2> QED BY <1>1, ImageFinite
<1>3. IsFiniteSet(some)
  <2> HIDE DEF rels
  <2> QED BY <1>2, FS_Subset
<1>4. IsFiniteSet({g[r] : r \in some})
  <2> HIDE DEF some, g
  <2> QED BY <1>3, ImageFinite
<1>5. rels \subseteq Path
  <2> HIDE DEF found
  <2> QED BY <1>0, <1>1, RestTyped
<1>6. Searched(s) = {g[r] : r \in some}
  <2>1. {SubSeq(q, Len(w) + 1, Len(q)) : q \in found} = rels BY DEF Rest
  <2>2. Searched(s) = {a \o r : r \in {x \in {SubSeq(q, Len(w) + 1, Len(q)) : q \in found} : Found(s.tail, x)}}
    BY DEF Searched
  <2> HIDE DEF rels
  <2>3. Searched(s) = {a \o r : r \in some} BY <2>1, <2>2
  <2>4. {a \o r : r \in some} = {g[r] : r \in some}
    <3> HIDE DEF some
    <3> QED OBVIOUS
  <2> QED BY <2>3, <2>4
<1> HIDE DEF found, f, rels
<1>7. \A r \in some : g[r] \in Path /\ IsPrefix(a, g[r])
  <2> SUFFICES ASSUME NEW r \in some PROVE g[r] \in Path /\ IsPrefix(a, g[r]) OBVIOUS
  <2>1. r \in Path /\ g[r] = a \o r BY <1>5
  <2> HIDE DEF g, some
  <2> QED BY <1>0, <2>1, ConcatFacts, ConcatRest
<1> HIDE DEF g, some
<1>8. Searched(s) \subseteq Path /\ IsFiniteSet(Searched(s)) /\ \A p \in Searched(s) : IsPrefix(a, p)
  BY <1>4, <1>6, <1>7
<1>9. Candidates(s) \subseteq Searched(s) \cup {a}
  <2>1. Candidates(s) \in {{a}, {}, Searched(s) \cup {a}, Searched(s) \cup {}} BY DEF Candidates
  <2> QED BY <2>1
<1>10. IsFiniteSet(Searched(s) \cup {a}) BY <1>8, FS_AddElement
<1>11. IsPrefix(a, a) BY <1>0, PrefixFacts
<1>12. IsFiniteSet(Candidates(s)) BY <1>9, <1>10, FS_Subset
<1> QED BY <1>0, <1>8, <1>9, <1>11, <1>12

-----------------------------------------------------------------------------
(* Type correctness                                                        *)

\* What is gone through: the entries, or with --pack the items of the archive.
Queue == IF pack THEN items ELSE entries

\* Where the tool is.
PhaseInv ==
  /\ pc \in {"resolve", "src", "put", "pack", "add", "upload", "uploaded", "thrown", "end", "raised", "failed"}
  /\ pc \in {"resolve", "src", "pack"} => next = 1 /\ items = <<>> /\ sent = {} /\ failed = {}
  /\ pc \in {"pack", "add", "upload", "uploaded"} => pack
  /\ pc = "put" => ~pack /\ next <= Len(entries)
  /\ pc \in {"upload", "uploaded", "end"} => next = Len(Queue) + 1

\* The plan, and what is made of it.
PlanTyped ==
  /\ DOMAIN relMap \subseteq Path /\ relMap \in [DOMAIN relMap -> Path]
  /\ entries \in Seq([path : DOMAIN relMap, rel : Path])
  /\ items \in Seq(Paths)
  /\ next \in 1..Len(Queue) + 1
  /\ failed \subseteq DOMAIN entries
  /\ sent \subseteq [file : Path, place : Path] /\ twice \subseteq sent

TypeInv ==
  /\ pack \in BOOLEAN /\ follow \in BOOLEAN /\ tmp \in BOOLEAN
  /\ srcs \in Requests /\ k \in 0..Len(srcs)
  /\ PhaseInv /\ PlanTyped /\ TreeTypeOK

\* The SRC that are enumerated.
LEMMA SrcTyped ==
  ASSUME srcs \in Requests
  PROVE  /\ Len(srcs) \in Nat /\ DOMAIN srcs = 1..Len(srcs)
         /\ \A i \in DOMAIN srcs : srcs[i] \in Source
<1>1. srcs \in Seq(Source) BY ScatterAssumption DEF Source
<1> QED BY <1>1, LenProperties, ElementOfSeq

\* The entries and their paths.
LEMMA EntriesTyped ==
  ASSUME PlanTyped
  PROVE  /\ Len(entries) \in Nat /\ DOMAIN entries = 1..Len(entries)
         /\ \A i \in DOMAIN entries : /\ entries[i] = [path |-> entries[i].path, rel |-> entries[i].rel]
                                      /\ entries[i].path \in DOMAIN relMap /\ entries[i].rel \in Path
                                      /\ entries[i].path \in Paths
         /\ Paths \subseteq Path /\ Paths \subseteq DOMAIN relMap /\ IsFiniteSet(Paths)
         /\ Len(items) \in Nat /\ DOMAIN items = 1..Len(items)
         /\ \A i \in DOMAIN items : items[i] \in Paths
<1>1. entries \in Seq([path : DOMAIN relMap, rel : Path]) /\ DOMAIN relMap \subseteq Path /\ items \in Seq(Paths)
  BY DEF PlanTyped
<1>2. Len(entries) \in Nat /\ DOMAIN entries = 1..Len(entries) BY <1>1, LenProperties
<1>3. \A i \in DOMAIN entries : entries[i] \in [path : DOMAIN relMap, rel : Path] BY <1>1, <1>2, ElementOfSeq
<1>4. \A i \in DOMAIN entries : /\ entries[i] = [path |-> entries[i].path, rel |-> entries[i].rel]
                                /\ entries[i].path \in DOMAIN relMap /\ entries[i].rel \in Path
  BY <1>3
<1>5. \A i \in DOMAIN entries : entries[i].path \in Paths BY DEF Paths
<1>6. Paths \subseteq DOMAIN relMap BY <1>4 DEF Paths
<1>7. IsFiniteSet(Paths)
  <2> DEFINE f == [i \in DOMAIN entries |-> entries[i].path]
  <2>1. Paths = {f[i] : i \in DOMAIN entries} BY DEF Paths
  <2>2. IsFiniteSet(DOMAIN entries) BY <1>2, FS_Interval
  <2> HIDE DEF f
  <2> QED BY <2>1, <2>2, ImageFinite
<1>8. Len(items) \in Nat /\ DOMAIN items = 1..Len(items) BY <1>1, LenProperties
<1>9. \A i \in DOMAIN items : items[i] \in Paths BY <1>1, <1>8, ElementOfSeq
<1> QED BY <1>1, <1>2, <1>4, <1>5, <1>6, <1>7, <1>8, <1>9

\* What one SRC adds to the plan: its candidates, sorted, each with its place.
Enumerated(s, found) ==
  /\ k + 1 \in DOMAIN srcs /\ s = srcs[k + 1] /\ s \in Source
  /\ found \in Seq(Path) /\ \A i \in 1..Len(found) : IsPrefix(Abs(s), found[i])
  /\ LET keys == ToSet(found) \cup {Abs(s)} IN
     relMap' = [p \in DOMAIN relMap \cup keys |-> IF p \in keys THEN RelOf(s, p) ELSE relMap[p]]
  /\ entries' = entries \o [i \in 1..Len(found) |-> [path |-> found[i], rel |-> RelOf(s, found[i])]]

\* It does.
LEMMA EnumerateFacts == ASSUME TypeInv, Enumerate PROVE \E s, found : Enumerated(s, found)
<1> DEFINE s == srcs[k + 1]
           S == {p \in Candidates(s) : pack \/ What(p) # "dir"}
           found == Sorted(S)
<1>1. Len(srcs) \in Nat /\ DOMAIN srcs = 1..Len(srcs) /\ \A i \in DOMAIN srcs : srcs[i] \in Source
  BY SrcTyped DEF TypeInv
<1>2. k + 1 \in DOMAIN srcs /\ s \in Source BY <1>1 DEF TypeInv, Enumerate
<1>3. /\ Candidates(s) \subseteq Path /\ IsFiniteSet(Candidates(s))
      /\ \A p \in Candidates(s) : IsPrefix(Abs(s), p)
  <2> HIDE DEF s
  <2> QED BY <1>2, CandidatesFacts
<1>4. S \subseteq Candidates(s) OBVIOUS
<1>5. relMap' = [p \in DOMAIN relMap \cup ToSet(found) \cup {Abs(s)} |->
                 IF p \in ToSet(found) \cup {Abs(s)} THEN RelOf(s, p) ELSE relMap[p]]
  BY DEF Enumerate
<1>6. entries' = entries \o [i \in DOMAIN found |-> [path |-> found[i], rel |-> RelOf(s, found[i])]]
  BY DEF Enumerate
<1> HIDE DEF s, S
<1>7. S \subseteq Path /\ IsFiniteSet(S) BY <1>3, <1>4, FS_Subset
<1>8. found \in Seq(S) /\ ToSet(found) = S BY <1>7, SortedFacts
<1> HIDE DEF found
<1>9. DOMAIN found = 1..Len(found) /\ \A i \in 1..Len(found) : found[i] \in S BY <1>8, LenProperties, ElementOfSeq
<1>10. found \in Seq(Path)
  <2>1. found \in [1..Len(found) -> Path] /\ Len(found) \in Nat BY <1>7, <1>8, <1>9, LenProperties
  <2> QED BY <2>1
<1>11. Enumerated(s, found)
  <2>1. \A i \in 1..Len(found) : IsPrefix(Abs(s), found[i]) BY <1>3, <1>4, <1>9
  <2>2. s = srcs[k + 1] BY DEF s
  <2>3. entries' = entries \o [i \in 1..Len(found) |-> [path |-> found[i], rel |-> RelOf(s, found[i])]]
    BY <1>6, <1>9
  <2>4. LET keys == ToSet(found) \cup {Abs(s)} IN
        relMap' = [p \in DOMAIN relMap \cup keys |-> IF p \in keys THEN RelOf(s, p) ELSE relMap[p]]
    <3>1. DOMAIN relMap \cup (ToSet(found) \cup {Abs(s)}) = DOMAIN relMap \cup ToSet(found) \cup {Abs(s)} OBVIOUS
    <3> QED BY <1>5, <3>1
  <2> QED BY <1>2, <1>10, <2>1, <2>2, <2>3, <2>4 DEF Enumerated
<1> QED BY <1>11

\* The paths and places that come with a SRC.
LEMMA EnumeratedFacts ==
  ASSUME PlanTyped, NEW s, NEW found, Enumerated(s, found)
  PROVE  /\ DOMAIN relMap' = DOMAIN relMap \cup ToSet(found) \cup {Abs(s)}
         /\ ToSet(found) \subseteq Path /\ Abs(s) \in Path
         /\ relMap' \in [DOMAIN relMap' -> Path]
         /\ \A p \in DOMAIN relMap' : relMap'[p] = IF p \in ToSet(found) \cup {Abs(s)} THEN RelOf(s, p) ELSE relMap[p]
         /\ entries' \in Seq([path : DOMAIN relMap', rel : Path])
<1> DEFINE keys == ToSet(found) \cup {Abs(s)}
           new == [i \in 1..Len(found) |-> [path |-> found[i], rel |-> RelOf(s, found[i])]]
<1>1. /\ s \in Source /\ found \in Seq(Path)
      /\ relMap' = [p \in DOMAIN relMap \cup keys |-> IF p \in keys THEN RelOf(s, p) ELSE relMap[p]]
      /\ entries' = entries \o new
  BY DEF Enumerated
<1>2. /\ DOMAIN relMap \subseteq Path /\ relMap \in [DOMAIN relMap -> Path]
      /\ entries \in Seq([path : DOMAIN relMap, rel : Path])
  BY DEF PlanTyped
<1>3. Len(found) \in Nat /\ DOMAIN found = 1..Len(found) /\ \A i \in 1..Len(found) : found[i] \in Path
  BY <1>1, LenProperties, ElementOfSeq
<1>4. ToSet(found) \subseteq Path /\ \A i \in 1..Len(found) : found[i] \in ToSet(found) BY <1>3 DEF ToSet
<1>5. Abs(s) \in Path BY <1>1, SourceFacts
<1>6. keys \subseteq Path /\ ToSet(found) \subseteq keys BY <1>4, <1>5
<1>7. \A p \in keys : RelOf(s, p) \in Path BY <1>1, <1>6, RelOfFacts
<1> HIDE DEF keys
<1>8. DOMAIN relMap' = DOMAIN relMap \cup keys BY <1>1
<1>9. \A p \in DOMAIN relMap' : relMap'[p] = IF p \in keys THEN RelOf(s, p) ELSE relMap[p] BY <1>1
<1>10. \A p \in DOMAIN relMap : relMap[p] \in Path BY <1>2
<1>11. relMap' \in [DOMAIN relMap' -> Path]
  <2>1. \A p \in DOMAIN relMap' : relMap'[p] \in Path BY <1>7, <1>8, <1>9, <1>10
  <2>2. relMap' = [p \in DOMAIN relMap' |-> relMap'[p]] BY <1>1
  <2> QED BY <2>1, <2>2
<1>12. entries' \in Seq([path : DOMAIN relMap', rel : Path])
  <2> DEFINE E == [path : DOMAIN relMap', rel : Path]
  <2>1. \A i \in 1..Len(found) : new[i] = [path |-> found[i], rel |-> RelOf(s, found[i])] OBVIOUS
  <2>2. ASSUME NEW i \in 1..Len(found) PROVE new[i] \in E
    <3>1. found[i] \in DOMAIN relMap' /\ RelOf(s, found[i]) \in Path BY <1>4, <1>6, <1>7, <1>8
    <3> QED BY <2>1, <3>1
  <2>3. new = [i \in 1..Len(found) |-> new[i]] OBVIOUS
  <2> HIDE DEF new
  <2>4. new \in [1..Len(found) -> E]
    <3> HIDE DEF E
    <3> QED BY <2>2, <2>3
  <2>5. new \in Seq(E)
    <3> HIDE DEF E
    <3> QED BY <1>3, <2>4
  <2>6. entries \in Seq(E)
    <3>1. Len(entries) \in Nat /\ entries \in [1..Len(entries) -> [path : DOMAIN relMap, rel : Path]]
      BY <1>2, LenProperties
    <3>2. [path : DOMAIN relMap, rel : Path] \subseteq E BY <1>8
    <3> HIDE DEF E
    <3>3. entries \in [1..Len(entries) -> E] BY <3>1, <3>2
    <3> QED BY <3>1, <3>3
  <2> HIDE DEF E
  <2>7. entries \o new \in Seq(E) BY <2>5, <2>6, ConcatProperties
  <2> QED BY <1>1, <2>7 DEF E
<1> QED BY <1>4, <1>5, <1>8, <1>9, <1>11, <1>12 DEF keys

\* Every path of the plan has a first entry.
LEMMA FirstFacts ==
  ASSUME PlanTyped, NEW p \in Paths
  PROVE  FirstEntry(p) \in Nat /\ entries[FirstEntry(p)].path = p
<1> DEFINE T == {i \in DOMAIN entries : entries[i].path = p}
<1>0. Len(entries) \in Nat /\ DOMAIN entries = 1..Len(entries) BY EntriesTyped
<1>1. T \subseteq Nat /\ T # {} BY <1>0 DEF Paths
<1>2. PICK i \in T : \A j \in T : i <= j
  <2> HIDE DEF T
  <2> QED BY <1>1, LeastNat
<1>3. \A j \in 1..i - 1 : entries[j].path # p
  <2> SUFFICES ASSUME NEW j \in 1..i - 1, entries[j].path = p PROVE FALSE OBVIOUS
  <2>1. i \in 1..Len(entries) BY <1>0, <1>2
  <2>2. j \in DOMAIN entries /\ ~(i <= j) BY <1>0, <2>1
  <2> QED BY <1>2, <2>2
<1>4. \E x \in DOMAIN entries : entries[x].path = p /\ \A j \in 1..x - 1 : entries[j].path # p BY <1>2, <1>3
<1>5. FirstEntry(p) \in DOMAIN entries /\ entries[FirstEntry(p)].path = p BY <1>4 DEF FirstEntry
<1> QED BY <1>0, <1>5

\* The order of paths as a set of pairs.
EarlierPairs == {e \in Path \X Path : Earlier(e[1], e[2])}

\* What is packed has an order too: by the depth of the real path, by this and by its first entry.
BeforePairs == {e \in Paths \X Paths : Before(e[1], e[2])}

LEMMA BeforeOrders == ASSUME PlanTyped PROVE Ordered(BeforePairs, Paths)
<1> DEFINE E == EarlierPairs
           C(p) == Canon(p)
           F(p) == FirstEntry(p)
           L(p) == Len(Canon(p))
<1>1. Ordered(E, Path) BY EarlierOrders DEF EarlierPairs
<1>2. \A p \in Paths : C(p) \in Path /\ L(p) \in Nat /\ F(p) \in Nat /\ entries[F(p)].path = p
  <2> SUFFICES ASSUME NEW p \in Paths PROVE C(p) \in Path /\ L(p) \in Nat /\ F(p) \in Nat /\ entries[F(p)].path = p
    OBVIOUS
  <2>1. p \in Path BY EntriesTyped
  <2>2. Canon(p) \in Path BY <2>1, CanonFacts
  <2> QED BY <2>2, PathLen, FirstFacts
<1>3. \A p, q \in Paths : <<p, q>> \in BeforePairs <=>
        L(p) < L(q) \/ (L(p) = L(q) /\ (<<C(p), C(q)>> \in E \/ (C(p) = C(q) /\ F(p) < F(q))))
  <2> SUFFICES ASSUME NEW p \in Paths, NEW q \in Paths
               PROVE  <<p, q>> \in BeforePairs <=>
                        L(p) < L(q) \/ (L(p) = L(q) /\ (<<C(p), C(q)>> \in E \/ (C(p) = C(q) /\ F(p) < F(q))))
    OBVIOUS
  <2>1. <<p, q>> \in BeforePairs <=> Before(p, q) BY DEF BeforePairs
  <2>2. C(p) \in Path /\ C(q) \in Path BY <1>2
  <2>3. <<C(p), C(q)>> \in E <=> Earlier(C(p), C(q)) BY <2>2 DEF EarlierPairs
  <2> QED BY <2>1, <2>3 DEF Before
<1> HIDE DEF E, C, F, L
<1>4. \A p \in Paths : <<p, p>> \notin BeforePairs
  <2> SUFFICES ASSUME NEW p \in Paths, <<p, p>> \in BeforePairs PROVE FALSE OBVIOUS
  <2>1. <<C(p), C(p)>> \notin E BY <1>1, <1>2 DEF Ordered
  <2>2. ~(L(p) < L(p)) /\ ~(F(p) < F(p)) BY <1>2
  <2> QED BY <1>3, <2>1, <2>2
<1>5. ASSUME NEW p \in Paths, NEW q \in Paths, NEW r \in Paths,
             <<p, q>> \in BeforePairs, <<q, r>> \in BeforePairs
      PROVE  <<p, r>> \in BeforePairs
  <2>1. L(p) \in Nat /\ L(q) \in Nat /\ L(r) \in Nat BY <1>2
  <2>2. L(p) <= L(q) /\ L(q) <= L(r)
    <3>1. L(p) < L(q) \/ L(p) = L(q) BY <1>3, <1>5
    <3>2. L(q) < L(r) \/ L(q) = L(r) BY <1>3, <1>5
    <3> QED BY <2>1, <3>1, <3>2
  <2>3. CASE L(p) < L(r) BY <1>3, <2>3
  <2>4. CASE ~(L(p) < L(r))
    <3>1. L(p) = L(q) /\ L(q) = L(r) BY <2>1, <2>2, <2>4
    <3>2. ~(L(p) < L(q)) /\ ~(L(q) < L(r)) BY <2>1, <3>1
    <3>3. <<C(p), C(q)>> \in E \/ (C(p) = C(q) /\ F(p) < F(q)) BY <1>3, <1>5, <3>2
    <3>4. <<C(q), C(r)>> \in E \/ (C(q) = C(r) /\ F(q) < F(r)) BY <1>3, <1>5, <3>2
    <3>5. C(p) \in Path /\ C(q) \in Path /\ C(r) \in Path BY <1>2
    <3>6. <<C(p), C(q)>> \in E /\ <<C(q), C(r)>> \in E => <<C(p), C(r)>> \in E BY <1>1, <3>5 DEF Ordered
    <3>7. F(p) < F(q) /\ F(q) < F(r) => F(p) < F(r)
      <4>1. F(p) \in Nat /\ F(q) \in Nat /\ F(r) \in Nat BY <1>2
      <4> QED BY <4>1
    <3>8. <<C(p), C(r)>> \in E \/ (C(p) = C(r) /\ F(p) < F(r)) BY <3>3, <3>4, <3>6, <3>7
    <3> QED BY <1>3, <3>1, <3>8
  <2> QED BY <2>3, <2>4
<1>6. ASSUME NEW p \in Paths, NEW q \in Paths, p # q
      PROVE  <<p, q>> \in BeforePairs \/ <<q, p>> \in BeforePairs
  <2>1. L(p) \in Nat /\ L(q) \in Nat /\ F(p) \in Nat /\ F(q) \in Nat /\ C(p) \in Path /\ C(q) \in Path BY <1>2
  <2>2. F(p) # F(q) BY <1>2, <1>6
  <2>3. F(p) < F(q) \/ F(q) < F(p) BY <2>1, <2>2
  <2>4. L(p) < L(q) \/ L(q) < L(p) \/ L(p) = L(q) BY <2>1
  <2>5. C(p) # C(q) => <<C(p), C(q)>> \in E \/ <<C(q), C(p)>> \in E BY <1>1, <2>1 DEF Ordered
  <2> QED BY <1>3, <2>3, <2>4, <2>5
<1>7. \A p, q, r \in Paths : <<p, q>> \in BeforePairs /\ <<q, r>> \in BeforePairs => <<p, r>> \in BeforePairs
  BY <1>5
<1>8. \A p, q \in Paths : p # q => <<p, q>> \in BeforePairs \/ <<q, p>> \in BeforePairs BY <1>6
<1> QED BY <1>4, <1>7, <1>8 DEF Ordered

\* What is kept of the paths for the archive.
Kept == FirstNamed(Outermost(Paths))

\* What is packed is what is kept.
LEMMA PackFacts == ASSUME PlanTyped, Pack, pc' = "add" PROVE items' \in Seq(Paths) /\ ToSet(items') = Kept
<1> DEFINE before == [p \in Kept |-> Cardinality({q \in Kept : Before(q, p)})]
           Nth(n) == CHOOSE p \in Kept : before[p] = n - 1
           size == Cardinality(Kept)
<1>1. Kept \subseteq Paths BY DEF Kept, FirstNamed, Outermost
<1>2. IsFiniteSet(Kept) BY <1>1, EntriesTyped, FS_Subset
<1>3. items' = [n \in 1..size |-> Nth(n)]
  <2> DEFINE A(n) == CHOOSE p \in Kept : Cardinality({q \in Kept : Before(q, p)}) = n - 1
  <2>1. items' = [n \in 1..size |-> A(n)] BY DEF Pack, Kept
  <2>2. \A n \in 1..size : A(n) = Nth(n) OBVIOUS
  <2> HIDE DEF A, Nth
  <2> QED BY <2>1, <2>2
<1>4. Ordered(BeforePairs, Kept)
  <2>1. Ordered(BeforePairs, Paths) BY BeforeOrders
  <2> QED BY <1>1, <2>1 DEF Ordered
<1>5. before = [p \in Kept |-> Cardinality({q \in Kept : <<q, p>> \in BeforePairs})]
  <2>1. ASSUME NEW p \in Kept PROVE {q \in Kept : Before(q, p)} = {q \in Kept : <<q, p>> \in BeforePairs}
    BY <1>1 DEF BeforePairs
  <2> QED BY <2>1
<1> HIDE DEF before
<1>6. /\ size \in Nat
      /\ \A x, y \in Kept : before[x] = before[y] => x = y
      /\ \A x \in Kept : before[x] \in 0..size - 1
      /\ \A i \in 0..size - 1 : \E x \in Kept : before[x] = i
  BY <1>2, <1>4, <1>5, Counting
<1>7. \A n \in 1..size : Nth(n) \in Kept /\ before[Nth(n)] = n - 1
  <2> SUFFICES ASSUME NEW n \in 1..size PROVE Nth(n) \in Kept /\ before[Nth(n)] = n - 1 OBVIOUS
  <2>1. n - 1 \in 0..size - 1 BY <1>6
  <2>2. \E x \in Kept : before[x] = n - 1 BY <1>6, <2>1
  <2> QED BY <2>2
<1> HIDE DEF Nth, size
<1>8. DOMAIN items' = 1..size /\ \A n \in 1..size : items'[n] = Nth(n) BY <1>3
<1>9. items' \in Seq(Paths)
  <2>1. items' \in [1..size -> Paths] BY <1>1, <1>3, <1>7
  <2> QED BY <1>6, <2>1
<1>10. ASSUME NEW x \in Kept PROVE \E n \in 1..size : items'[n] = x
  <2>1. before[x] \in 0..size - 1 BY <1>6
  <2>2. PICK n \in 1..size : n - 1 = before[x]
    <3>1. PICK b : b = before[x] OBVIOUS
    <3>2. b \in 0..size - 1 BY <2>1, <3>1
    <3>3. PICK n : n = b + 1 OBVIOUS
    <3>4. n \in 1..size /\ n - 1 = b BY <1>6, <3>2, <3>3
    <3> QED BY <3>1, <3>4
  <2>3. Nth(n) = x BY <1>6, <1>7, <2>2
  <2> QED BY <1>8, <2>3
<1>11. ToSet(items') = Kept BY <1>7, <1>8, <1>10 DEF ToSet
<1> QED BY <1>9, <1>11

-----------------------------------------------------------------------------
(* What goes into the archive                                              *)

\* How far down it is looked, and what is one name further down.
Depth == (MaxLinks + 1) * Cardinality(Node)
Children(s) == UNION {{q \o name : name \in Listing("me", q)} : q \in {r \in s : Looked(r) = "dir"}}

\* A table of what is at each depth below p.
IsBelow(f, p) ==
  /\ f \in [0..Depth -> SUBSET Path] /\ f[0] = {p}
  /\ \A i \in 0..Depth - 1 : f[i + 1] = Children(f[i])

LEMMA DepthFacts == Depth \in Nat /\ Cardinality(Node) \in Nat
<1>1. Cardinality(Node) \in Nat BY TreeAssumption, FS_CardinalityType
<1>2. MaxLinks \in Nat BY TreeAssumption
<1> QED BY <1>1, <1>2 DEF Depth

\* A name more at the end of a path.
LEMMA ConcatOne == ASSUME NEW p \in Path, NEW n \in ToSet(Names) PROVE p \o <<n>> = Append(p, n)
BY AppendIsConcat DEF Path

\* What is one name further down is a name that is there.
LEMMA ChildrenFacts ==
  ASSUME NEW s \in SUBSET Path
  PROVE  \A x : x \in Children(s) <=>
           \E q \in s, n \in ToSet(Names) :
             Looked(q) = "dir" /\ There(Append(Follow("me", q).at, n)) /\ x = Append(q, n)
<1>1. ASSUME NEW q \in s, NEW x
      PROVE  x \in {q \o name : name \in Listing("me", q)} <=>
               \E n \in ToSet(Names) : There(Append(Follow("me", q).at, n)) /\ x = Append(q, n)
  <2> PICK at : at = Follow("me", q).at OBVIOUS
  <2>1. at \in Path BY FollowRealLemma DEF FollowReal, Finding
  <2>2. \A n \in ToSet(Names) : at \o <<n>> = Append(at, n) /\ q \o <<n>> = Append(q, n) BY <2>1, ConcatOne
  <2>3. Listing("me", q) = {name \in {<<n>> : n \in ToSet(Names)} : There(at \o name)} BY DEF Listing
  <2>4. ASSUME x \in {q \o name : name \in Listing("me", q)}
        PROVE  \E n \in ToSet(Names) : There(Append(at, n)) /\ x = Append(q, n)
    <3>1. PICK name \in Listing("me", q) : x = q \o name BY <2>4
    <3>2. PICK n \in ToSet(Names) : name = <<n>> /\ There(at \o name) BY <2>3, <3>1
    <3> QED BY <2>2, <3>1, <3>2
  <2>5. ASSUME NEW n \in ToSet(Names), There(Append(at, n)), x = Append(q, n)
        PROVE  x \in {q \o name : name \in Listing("me", q)}
    <3>1. <<n>> \in Listing("me", q) BY <2>2, <2>3, <2>5
    <3> QED BY <2>2, <2>5, <3>1
  <2> QED BY <2>4, <2>5
<1>2. \A x : x \in Children(s) <=> \E q \in s : Looked(q) = "dir" /\ x \in {q \o name : name \in Listing("me", q)}
  BY DEF Children
<1> QED BY <1>1, <1>2

LEMMA ChildrenTyped == ASSUME NEW s \in SUBSET Path PROVE Children(s) \in SUBSET Path
<1> SUFFICES ASSUME NEW x \in Children(s) PROVE x \in Path OBVIOUS
<1>1. PICK q \in s, n \in ToSet(Names) : x = Append(q, n) BY ChildrenFacts
<1> QED BY <1>1, AppendFacts

\* What is added to the archive is what is in such a table.
LEMMA AddedFacts ==
  ASSUME NEW p \in Path
  PROVE  \E f : IsBelow(f, p) /\ Added(p) = UNION {f[i] : i \in 0..Depth}
<1> DEFINE Table(f) == [i \in 0..(MaxLinks + 1) * Cardinality(Node) |->
                        IF i = 0 THEN {p}
                        ELSE UNION {{q \o name : name \in Listing("me", q)} :
                                    q \in {r \in f[i - 1] : Looked(r) = "dir"}}]
           below == CHOOSE f : f = Table(f)
           W == [x \in Nat \X SUBSET Path |-> Children(x[2])]
<1>0. Depth \in Nat BY DepthFacts
<1>1. Added(p) = UNION {below[i] : i \in DOMAIN below} BY DEF Added
<1>2. \A f : f = Table(f) <=> f = [i \in 0..Depth |-> IF i = 0 THEN {p} ELSE Children(f[i - 1])]
  BY DEF Depth, Children
<1> HIDE DEF Table
<1>3. W \in [Nat \X SUBSET Path -> SUBSET Path]
  <2>1. \A x \in Nat \X SUBSET Path : Children(x[2]) \in SUBSET Path BY ChildrenTyped
  <2> QED BY <2>1
<1>4. \A i \in Nat : \A s \in SUBSET Path : W[<<i, s>>] = Children(s)
  <2> SUFFICES ASSUME NEW i \in Nat, NEW s \in SUBSET Path PROVE W[<<i, s>>] = Children(s) OBVIOUS
  <2>1. <<i, s>> \in Nat \X SUBSET Path OBVIOUS
  <2> QED BY <2>1
<1> HIDE DEF W, below
<1>5. PICK f \in [0..Depth -> SUBSET Path] : IsTable(f, {p}, W, Depth)
  <2>1. {p} \in SUBSET Path OBVIOUS
  <2> QED BY <1>0, <1>3, <2>1, TableExists
<1>6. f = Table(f)
  <2> DEFINE A(i) == IF i = 0 THEN {p} ELSE W[<<i, f[i - 1]>>]
             B(i) == IF i = 0 THEN {p} ELSE Children(f[i - 1])
  <2>1. f = [i \in 0..Depth |-> A(i)] BY <1>5 DEF IsTable
  <2>2. ASSUME NEW i \in 0..Depth PROVE A(i) = B(i)
    <3>1. CASE i = 0 BY <3>1
    <3>2. CASE i # 0
      <4>1. i \in Nat /\ i - 1 \in 0..Depth BY <1>0, <3>2
      <4>2. f[i - 1] \in SUBSET Path BY <1>5, <4>1
      <4> QED BY <1>4, <3>2, <4>1, <4>2
    <3> QED BY <3>1, <3>2
  <2> HIDE DEF A, B
  <2>3. f = [i \in 0..Depth |-> B(i)] BY <2>1, <2>2
  <2> QED BY <1>2, <2>3 DEF B
<1>7. below = Table(below) BY <1>6 DEF below
<1>8. below = [i \in 0..Depth |-> IF i = 0 THEN {p} ELSE Children(below[i - 1])] BY <1>2, <1>7
<1> DEFINE B(i) == IF i = 0 THEN {p} ELSE Children(below[i - 1])
<1>9. DOMAIN below = 0..Depth /\ \A i \in 0..Depth : below[i] = B(i)
  <2>1. below = [i \in 0..Depth |-> B(i)] BY <1>8
  <2> HIDE DEF B
  <2> QED BY <2>1
<1>10. below[0] = {p} /\ \A i \in 0..Depth - 1 : below[i + 1] = Children(below[i])
  <2>1. below[0] = {p} BY <1>0, <1>9
  <2>2. ASSUME NEW i \in 0..Depth - 1 PROVE below[i + 1] = Children(below[i])
    <3>1. i + 1 \in 0..Depth /\ i + 1 # 0 /\ i + 1 - 1 = i BY <1>0
    <3> QED BY <1>9, <3>1
  <2> QED BY <2>1, <2>2
<1> HIDE DEF B
<1> DEFINE T == {i \in Nat : i <= Depth => below[i] \in SUBSET Path}
<1>11. 0 \in T BY <1>10
<1>12. ASSUME NEW i \in Nat, i \in T PROVE i + 1 \in T
  <2> SUFFICES ASSUME i + 1 <= Depth PROVE below[i + 1] \in SUBSET Path OBVIOUS
  <2>1. i \in 0..Depth - 1 /\ i <= Depth BY <1>0
  <2> QED BY <1>10, <1>12, <2>1, ChildrenTyped
<1> HIDE DEF T
<1>13. Nat \subseteq T BY <1>11, <1>12, Inductive
<1>14. \A i \in 0..Depth : below[i] \in SUBSET Path BY <1>0, <1>13 DEF T
<1>15. below \in [0..Depth -> SUBSET Path]
  <2>1. below = [i \in 0..Depth |-> below[i]] BY <1>8
  <2> QED BY <1>14, <2>1
<1>16. IsBelow(below, p) BY <1>10, <1>15 DEF IsBelow
<1> QED BY <1>1, <1>9, <1>16

\* All of it is below the path, name by name.
LEMMA AddedBelow ==
  ASSUME NEW p \in Path
  PROVE  Added(p) \subseteq Path /\ \A q \in Added(p) : IsPrefix(p, q)
<1>1. PICK f : IsBelow(f, p) /\ Added(p) = UNION {f[i] : i \in 0..Depth} BY AddedFacts
<1>2. /\ f \in [0..Depth -> SUBSET Path] /\ f[0] = {p}
      /\ \A i \in 0..Depth - 1 : f[i + 1] = Children(f[i])
  BY <1>1 DEF IsBelow
<1>0. Depth \in Nat BY DepthFacts
<1> DEFINE T == {i \in Nat : i <= Depth => \A q \in f[i] : IsPrefix(p, q)}
<1>3. 0 \in T
  <2>1. IsPrefix(p, p) BY PrefixFacts, PathLen
  <2> QED BY <1>2, <2>1
<1>4. ASSUME NEW i \in Nat, i \in T PROVE i + 1 \in T
  <2> SUFFICES ASSUME i + 1 <= Depth, NEW x \in f[i + 1] PROVE IsPrefix(p, x) OBVIOUS
  <2>1. i \in 0..Depth - 1 /\ i \in 0..Depth /\ i <= Depth BY <1>0
  <2>2. f[i] \in SUBSET Path /\ x \in Children(f[i]) BY <1>2, <2>1
  <2>3. PICK q \in f[i], n \in ToSet(Names) : x = Append(q, n) BY <2>2, ChildrenFacts
  <2>4. IsPrefix(p, q) /\ q \in Path BY <1>4, <2>1, <2>2
  <2>5. Len(p) <= Len(q) /\ \A j \in 1..Len(p) : p[j] = q[j] BY <2>4, PrefixFacts
  <2>6. x \in Path /\ Len(x) = Len(q) + 1 /\ \A j \in 1..Len(q) : x[j] = q[j] BY <2>3, <2>4, AppendFacts
  <2>7. Len(p) \in Nat /\ Len(q) \in Nat BY <2>4, PathLen
  <2>8. Len(p) <= Len(x) /\ \A j \in 1..Len(p) : j \in 1..Len(q) BY <2>5, <2>6, <2>7
  <2>9. \A j \in 1..Len(p) : p[j] = x[j] BY <2>5, <2>6, <2>8
  <2> QED BY <2>6, <2>8, <2>9, PrefixFacts
<1> HIDE DEF T
<1>5. Nat \subseteq T BY <1>3, <1>4, Inductive
<1>6. \A i \in 0..Depth : f[i] \in SUBSET Path /\ \A q \in f[i] : IsPrefix(p, q) BY <1>0, <1>2, <1>5 DEF T
<1> QED BY <1>1, <1>6

\* What one item brings into the archive, and where.
LEMMA ArchivedFacts ==
  ASSUME NEW p \in Path, NEW rel \in Path, NEW w \in Archived(p, rel)
  PROVE  /\ w = [file |-> w.file, place |-> w.place]
         /\ w.file \in Added(p) /\ w.file \in Path /\ IsPrefix(p, w.file) /\ Looked(w.file) = "file"
         /\ w.place = rel \o Rest(w.file, Len(p)) /\ w.place \in Path
<1>1. PICK q \in Added(p) : Looked(q) = "file" /\ w = [file |-> q, place |-> rel \o Rest(q, Len(p))]
  BY DEF Archived, Rest
<1>2. q \in Path /\ IsPrefix(p, q) BY AddedBelow
<1>3. Rest(q, Len(p)) \in Path BY <1>2, PathLen, RestTyped
<1>4. rel \o Rest(q, Len(p)) \in Path BY <1>3, ConcatFacts
<1> QED BY <1>1, <1>2, <1>4

-----------------------------------------------------------------------------
(* The steps keep the types                                                *)

\* The tree.
LEMMA TreeKept == ASSUME TreeTypeOK, ChangeTree PROVE TreeTypeOK'
<1>1. PICK p \in Movable :
        /\ gone' = IF p \in gone THEN gone \ {p} ELSE gone \cup {p}
        /\ touched' = touched \cup {p}
  BY DEF ChangeTree
<1>2. p \in Node BY TreeAssumption
<1>3. gone' \subseteq touched' /\ touched' \subseteq Node BY <1>1, <1>2 DEF TreeTypeOK
<1>4. changes' \in 0..MaxChanges
  <2>1. changes \in 0..MaxChanges /\ changes < MaxChanges /\ changes' = changes + 1 BY DEF TreeTypeOK, ChangeTree
  <2>2. MaxChanges \in Nat BY TreeAssumption
  <2> QED BY <2>1, <2>2
<1> QED BY <1>3, <1>4 DEF TreeTypeOK

LEMMA TypeInit == Init => TypeInv
<1> SUFFICES ASSUME Init PROVE TypeInv OBVIOUS
<1>1. pack \in BOOLEAN /\ follow \in BOOLEAN /\ tmp \in BOOLEAN BY DEF Init
<1>2. srcs \in Requests /\ k \in 0..Len(srcs)
  <2>1. Len(srcs) \in Nat BY SrcTyped DEF Init
  <2> QED BY <2>1 DEF Init
<1>3. /\ pc = "resolve" /\ next = 1 /\ items = <<>> /\ entries = <<>> /\ sent = {} /\ twice = {} /\ failed = {}
      /\ relMap = [p \in {} |-> <<>>]
  BY DEF Init
<1>4. PhaseInv BY <1>3 DEF PhaseInv
<1>5. PlanTyped
  <2>1. DOMAIN relMap = {} /\ relMap \in [DOMAIN relMap -> Path] BY <1>3
  <2>2. entries \in Seq([path : DOMAIN relMap, rel : Path]) /\ items \in Seq(Paths) BY <1>3, EmptySeq
  <2>3. Len(Queue) = 0 BY <1>3, EmptySeq DEF Queue
  <2>4. next \in 1..Len(Queue) + 1 BY <1>3, <2>3
  <2> QED BY <1>3, <2>1, <2>2, <2>4 DEF PlanTyped
<1>6. TreeTypeOK
  <2>1. gone = {} /\ touched = {} /\ changes = 0 BY DEF Init, TreeInit
  <2>2. MaxChanges \in Nat BY TreeAssumption
  <2> QED BY <2>1, <2>2 DEF TreeTypeOK
<1> QED BY <1>1, <1>2, <1>4, <1>5, <1>6 DEF TypeInv

LEMMA ResolveTyped == ASSUME TypeInv, Resolve PROVE TypeInv'
<1>1. PhaseInv' BY DEF TypeInv, PhaseInv, Resolve, sentVars
<1>2. PlanTyped' BY DEF TypeInv, PlanTyped, Resolve, Queue, Paths, sentVars
<1>3. TreeTypeOK' BY DEF TypeInv, TreeTypeOK, Resolve, treeVars
<1> QED BY <1>1, <1>2, <1>3 DEF TypeInv, Resolve

LEMMA EnumerateTyped == ASSUME TypeInv, Enumerate PROVE TypeInv'
<1>0. /\ pc = "src" /\ k < Len(srcs) /\ k' = k + 1
      /\ UNCHANGED <<pc, pack, follow, srcs, next, items, sent, twice, failed, tmp, treeVars>>
  BY DEF Enumerate, sentVars
<1>1. PICK s, found : Enumerated(s, found) BY EnumerateFacts
<1>2. /\ DOMAIN relMap' = DOMAIN relMap \cup ToSet(found) \cup {Abs(s)}
      /\ ToSet(found) \subseteq Path /\ Abs(s) \in Path
      /\ relMap' \in [DOMAIN relMap' -> Path]
      /\ entries' \in Seq([path : DOMAIN relMap', rel : Path])
  BY <1>1, EnumeratedFacts DEF TypeInv
<1>3. DOMAIN relMap' \subseteq Path BY <1>2 DEF TypeInv, PlanTyped
<1>4. next = 1 /\ items = <<>> /\ sent = {} /\ failed = {} BY <1>0 DEF TypeInv, PhaseInv
<1>5. PhaseInv'
  <2>1. pc' = "src" /\ next' = 1 /\ items' = <<>> /\ sent' = {} /\ failed' = {} BY <1>0, <1>4
  <2> QED BY <2>1 DEF PhaseInv
<1>6. PlanTyped'
  <2>1. items' = <<>> /\ next' = 1 /\ sent' = {} /\ twice' = {} /\ failed' = {}
    BY <1>0, <1>4 DEF TypeInv, PlanTyped
  <2>2. items' \in Seq(Paths') BY <2>1, EmptySeq
  <2>3. Len(items') \in Nat /\ Len(entries') \in Nat BY <1>2, <2>2, LenProperties
  <2>4. Len(Queue') \in Nat BY <2>3 DEF Queue
  <2>5. next' \in 1..Len(Queue') + 1 BY <2>1, <2>4
  <2> QED BY <1>2, <1>3, <2>1, <2>2, <2>5 DEF PlanTyped
<1>7. k' \in 0..Len(srcs)
  <2>1. Len(srcs) \in Nat BY SrcTyped DEF TypeInv
  <2> QED BY <1>0, <2>1 DEF TypeInv
<1>8. TreeTypeOK' BY <1>0 DEF TypeInv, TreeTypeOK, treeVars
<1> QED BY <1>0, <1>5, <1>6, <1>7, <1>8 DEF TypeInv

LEMMA PlannedTyped == ASSUME TypeInv, Planned PROVE TypeInv'
<1>0. /\ pc = "src" /\ pc' = IF entries = <<>> THEN "end" ELSE IF pack THEN "pack" ELSE "put"
      /\ UNCHANGED <<pack, follow, srcs, k, relMap, entries, next, items, sent, twice, failed, tmp, treeVars>>
  BY DEF Planned, sentVars
<1>1. PhaseInv'
  <2>1. next = 1 /\ items = <<>> /\ sent = {} /\ failed = {} BY <1>0 DEF TypeInv, PhaseInv
  <2>2. CASE entries = <<>>
    <3>1. Len(Queue') = 0 BY <1>0, <2>1, <2>2, EmptySeq DEF Queue
    <3>2. next' = Len(Queue') + 1 BY <1>0, <2>1, <3>1
    <3> QED BY <1>0, <2>2, <3>2 DEF PhaseInv
  <2>3. CASE entries # <<>> /\ pack
    <3>1. pc' = "pack" /\ pack' /\ next' = 1 /\ items' = <<>> /\ sent' = {} /\ failed' = {} BY <1>0, <2>1, <2>3
    <3> QED BY <3>1 DEF PhaseInv
  <2>4. CASE entries # <<>> /\ ~pack
    <3>1. Len(entries) \in Nat BY EntriesTyped DEF TypeInv
    <3>2. Len(entries) # 0
      <4>1. entries \in Seq([path : DOMAIN relMap, rel : Path]) BY DEF TypeInv, PlanTyped
      <4> QED BY <2>4, <4>1, EmptySeq
    <3>3. next' <= Len(entries') BY <1>0, <2>1, <3>1, <3>2
    <3>4. pc' = "put" /\ ~pack' BY <1>0, <2>4
    <3> QED BY <3>3, <3>4 DEF PhaseInv
  <2> QED BY <2>2, <2>3, <2>4 DEF TypeInv
<1>2. PlanTyped' BY <1>0 DEF TypeInv, PlanTyped, Queue, Paths
<1>3. TreeTypeOK' BY <1>0 DEF TypeInv, TreeTypeOK, treeVars
<1> QED BY <1>0, <1>1, <1>2, <1>3 DEF TypeInv

LEMMA PutTyped == ASSUME TypeInv, Put PROVE TypeInv'
<1>0. /\ pc = "put" /\ next' = next + 1 /\ pc' = IF next = Len(entries) THEN "end" ELSE pc
      /\ UNCHANGED <<pack, follow, srcs, k, relMap, entries, items, tmp, treeVars>>
      /\ sent' \subseteq sent \cup {[file |-> Item, place |-> relMap[Item]]}
      /\ failed' \subseteq failed \cup {next}
      /\ sent \subseteq sent' /\ twice' \subseteq twice \cup sent
  BY DEF Put, Send, sentVars
<1>1. ~pack /\ next <= Len(entries) /\ Queue = entries BY <1>0 DEF TypeInv, PhaseInv, Queue
<1>2. Len(entries) \in Nat /\ DOMAIN entries = 1..Len(entries) BY EntriesTyped DEF TypeInv
<1>3. next \in 1..Len(entries) BY <1>1, <1>2 DEF TypeInv, PlanTyped
<1>4. Item \in Path /\ relMap[Item] \in Path
  <2>1. Item \in DOMAIN relMap BY <1>2, <1>3, EntriesTyped DEF TypeInv, Item
  <2> QED BY <2>1 DEF TypeInv, PlanTyped
<1>5. PhaseInv'
  <2>1. Queue' = entries /\ ~pack' /\ entries' = entries BY <1>0, <1>1 DEF Queue
  <2>2. CASE next = Len(entries)
    <3>1. pc' = "end" /\ next' = Len(Queue') + 1 BY <1>0, <2>1, <2>2
    <3> QED BY <3>1 DEF PhaseInv
  <2>3. CASE next # Len(entries)
    <3>1. pc' = "put" /\ next' = next + 1 /\ entries' = entries BY <1>0, <2>3
    <3>2. next + 1 <= Len(entries)
      <4>1. PICK m, n : m = Len(entries) /\ n = next OBVIOUS
      <4>2. m \in Nat /\ n \in 1..m /\ n # m BY <1>2, <1>3, <2>3, <4>1
      <4>3. n + 1 <= m BY <4>2
      <4> QED BY <4>1, <4>3
    <3>3. next' <= Len(entries') BY <3>1, <3>2
    <3> QED BY <2>1, <3>1, <3>3 DEF PhaseInv
  <2> QED BY <2>2, <2>3
<1>6. PlanTyped'
  <2>1. Queue' = entries /\ Paths' = Paths BY <1>0, <1>1 DEF Queue, Paths
  <2>2. next' \in 1..Len(Queue') + 1
    <3>1. next' = next + 1 BY <1>0
    <3>2. next + 1 \in 1..Len(entries) + 1 BY <1>2, <1>3
    <3> QED BY <2>1, <3>1, <3>2
  <2>3. sent' \subseteq [file : Path, place : Path] /\ twice' \subseteq sent' BY <1>0, <1>4 DEF TypeInv, PlanTyped
  <2>4. failed' \subseteq DOMAIN entries' BY <1>0, <1>2, <1>3 DEF TypeInv, PlanTyped
  <2> QED BY <1>0, <2>1, <2>2, <2>3, <2>4 DEF TypeInv, PlanTyped
<1>7. TreeTypeOK' BY <1>0 DEF TypeInv, TreeTypeOK, treeVars
<1> QED BY <1>0, <1>5, <1>6, <1>7 DEF TypeInv

LEMMA PackTyped == ASSUME TypeInv, Pack PROVE TypeInv'
<1>0. /\ pc = "pack" /\ pc' \in {"add", "raised"} /\ tmp' \in BOOLEAN
      /\ UNCHANGED <<pack, follow, srcs, k, relMap, entries, next, sent, twice, failed, treeVars>>
  BY DEF Pack, TypeInv, sentVars
<1>1. pack /\ next = 1 BY <1>0 DEF TypeInv, PhaseInv
<1>2. items' \in Seq(Paths)
  <2>1. CASE pc' = "add" BY <2>1, PackFacts DEF TypeInv
  <2>2. CASE pc' # "add" BY <2>2 DEF Pack, TypeInv, PlanTyped
  <2> QED BY <2>1, <2>2
<1>3. Paths' = Paths BY <1>0 DEF Paths
<1>4. PhaseInv' BY <1>0, <1>1 DEF PhaseInv
<1>5. PlanTyped'
  <2>1. Queue' = items' BY <1>0, <1>1 DEF Queue
  <2>2. Len(items') \in Nat BY <1>2, LenProperties
  <2>3. next' \in 1..Len(Queue') + 1 BY <1>0, <1>1, <2>1, <2>2
  <2> QED BY <1>0, <1>2, <1>3, <2>3 DEF TypeInv, PlanTyped
<1>6. TreeTypeOK' BY <1>0 DEF TypeInv, TreeTypeOK, treeVars
<1> QED BY <1>0, <1>4, <1>5, <1>6 DEF TypeInv

LEMMA AddTyped == ASSUME TypeInv, Add PROVE TypeInv'
<1>0. /\ pc = "add" /\ next <= Len(items)
      /\ UNCHANGED <<pack, follow, srcs, k, relMap, entries, items, failed, tmp, treeVars>>
      /\ (next' = next + 1 /\ pc' = pc) \/ (next' = next /\ pc' = "raised")
      /\ sent' \subseteq sent \cup Archived(items[next], relMap[items[next]])
      /\ sent \subseteq sent' /\ twice' \subseteq twice \cup sent
  <2>1. (next' = next + 1 /\ pc' = pc) \/ (next' = next /\ pc' = "raised") BY DEF Add
  <2>2. PICK new : new = Archived(items[next], relMap[items[next]]) OBVIOUS
  <2>3. /\ sent' \subseteq sent \cup new
        /\ sent \subseteq sent' /\ twice' \subseteq twice \cup sent
    BY <2>2 DEF Add, Send, sentVars
  <2> QED BY <2>1, <2>2, <2>3 DEF Add, sentVars
<1>1. pack /\ Queue = items BY <1>0 DEF TypeInv, PhaseInv, Queue
<1>2. Len(items) \in Nat /\ DOMAIN items = 1..Len(items) BY EntriesTyped DEF TypeInv
<1>3. next \in 1..Len(items) BY <1>0, <1>1, <1>2 DEF TypeInv, PlanTyped
<1>4. items[next] \in Path /\ relMap[items[next]] \in Path
  <2>1. items[next] \in DOMAIN relMap BY <1>2, <1>3, EntriesTyped DEF TypeInv
  <2> QED BY <2>1 DEF TypeInv, PlanTyped
<1>5. Archived(items[next], relMap[items[next]]) \subseteq [file : Path, place : Path]
  <2> SUFFICES ASSUME NEW w \in Archived(items[next], relMap[items[next]]) PROVE w \in [file : Path, place : Path]
    OBVIOUS
  <2>1. w = [file |-> w.file, place |-> w.place] /\ w.file \in Path /\ w.place \in Path BY <1>4, ArchivedFacts
  <2> QED BY <2>1
<1>6. Queue' = items /\ Paths' = Paths BY <1>0, <1>1 DEF Queue, Paths
<1>7. PhaseInv' BY <1>0, <1>1 DEF PhaseInv
<1>8. PlanTyped'
  <2>1. next' \in 1..Len(Queue') + 1 BY <1>0, <1>2, <1>3, <1>6
  <2>2. sent' \subseteq [file : Path, place : Path] BY <1>0, <1>5 DEF TypeInv, PlanTyped
  <2>3. twice' \subseteq sent' BY <1>0 DEF TypeInv, PlanTyped
  <2> QED BY <1>0, <1>6, <2>1, <2>2, <2>3 DEF TypeInv, PlanTyped
<1>9. TreeTypeOK' BY <1>0 DEF TypeInv, TreeTypeOK, treeVars
<1> QED BY <1>0, <1>7, <1>8, <1>9 DEF TypeInv

LEMMA UploadTyped == ASSUME TypeInv, CloseArchive \/ Upload \/ RemoveTmp PROVE TypeInv'
<1>0. /\ pc \in {"add", "upload", "uploaded", "thrown"} /\ (pc = "add" => next > Len(items))
      /\ pc' \in {"upload", "uploaded", "thrown", "end", "raised", "failed"}
      /\ pc' \in {"upload", "uploaded", "end"} => pc \in {"add", "upload", "uploaded"}
      /\ tmp' \in BOOLEAN
      /\ UNCHANGED <<pack, follow, srcs, k, relMap, entries, next, items, sent, twice, failed, treeVars>>
  BY DEF CloseArchive, Upload, RemoveTmp, TypeInv, sentVars
<1>1. pc \in {"add", "upload", "uploaded"} => pack /\ Queue = items BY DEF TypeInv, PhaseInv, Queue
<1>2. Len(items) \in Nat BY EntriesTyped DEF TypeInv
<1>3. pc \in {"add", "upload", "uploaded"} => next = Len(items) + 1
  BY <1>0, <1>1, <1>2 DEF TypeInv, PlanTyped, PhaseInv
<1>4. PhaseInv'
  <2> SUFFICES ASSUME pc' \in {"upload", "uploaded", "end"} PROVE pack' /\ next' = Len(Queue') + 1
    BY <1>0 DEF PhaseInv
  <2>1. pack /\ Queue' = items BY <1>0, <1>1 DEF Queue
  <2> QED BY <1>0, <1>3, <2>1
<1>5. PlanTyped' BY <1>0 DEF TypeInv, PlanTyped, Queue, Paths
<1>6. TreeTypeOK' BY <1>0 DEF TypeInv, TreeTypeOK, treeVars
<1> QED BY <1>0, <1>4, <1>5, <1>6 DEF TypeInv

LEMMA TypeStep == TypeInv /\ [Next]_vars => TypeInv'
<1> SUFFICES ASSUME TypeInv, [Next]_vars PROVE TypeInv' OBVIOUS
<1>1. CASE Change
  <2>1. UNCHANGED <<pc, pack, follow, srcs, k, relMap, entries, next, items, sent, twice, failed, tmp>>
    BY <1>1 DEF Change, sentVars
  <2>2. PhaseInv' BY <2>1 DEF TypeInv, PhaseInv, Queue
  <2>3. PlanTyped' BY <2>1 DEF TypeInv, PlanTyped, Queue, Paths
  <2>4. TreeTypeOK' BY <1>1, TreeKept DEF TypeInv, Change
  <2> QED BY <2>1, <2>2, <2>3, <2>4 DEF TypeInv
<1>2. CASE UNCHANGED vars
  <2>1. PhaseInv' BY <1>2 DEF vars, sentVars, TypeInv, PhaseInv, Queue
  <2>2. PlanTyped' BY <1>2 DEF vars, sentVars, TypeInv, PlanTyped, Queue, Paths
  <2>3. TreeTypeOK' BY <1>2 DEF vars, sentVars, TypeInv, TreeTypeOK, treeVars
  <2> QED BY <1>2, <2>1, <2>2, <2>3 DEF TypeInv, vars
<1> QED
  BY <1>1, <1>2, ResolveTyped, EnumerateTyped, PlannedTyped, PutTyped, PackTyped, AddTyped, UploadTyped
  DEF Next

\* The types of the variables are as declared (ScatterPlan).
LEMMA TypeImplied == TypeInv => TypeOK
<1> SUFFICES ASSUME TypeInv PROVE TypeOK OBVIOUS
<1>1. PlanTyped BY DEF TypeInv
<1>2. {pack, follow, tmp} \subseteq BOOLEAN BY DEF TypeInv
<1>3. \A p \in DOMAIN relMap : p \in Path /\ relMap[p] \in Path BY <1>1 DEF PlanTyped
<1>4. \A i \in DOMAIN entries : entries[i].path \in DOMAIN relMap /\ entries[i].rel \in Path BY <1>1, EntriesTyped
<1>5. next \in 1..Len(IF pack THEN items ELSE entries) + 1 BY <1>1 DEF PlanTyped, Queue
<1>6. ToSet(items) \subseteq Paths
  <2>1. \A i \in DOMAIN items : items[i] \in Paths BY <1>1, EntriesTyped
  <2> QED BY <2>1 DEF ToSet
<1>7. (\A w \in sent : w.file \in Path /\ w.place \in Path) /\ twice \subseteq sent BY <1>1 DEF PlanTyped
<1>8. failed \subseteq DOMAIN entries BY <1>1 DEF PlanTyped
<1> QED BY <1>2, <1>3, <1>4, <1>5, <1>6, <1>7, <1>8 DEF TypeInv, PhaseInv, TypeOK

LEMMA TypeAlways == Spec => []TypeInv
BY TypeInit, TypeStep, PTL DEF Spec

\* Every variable of the plan and of the transfer has its type: what is enumerated is in the
\* map, what is packed is in the plan, and what is sent are paths with places
\* (_build_plan_for_host, push_one).
THEOREM PlanWellTyped == Spec => []TypeOK
BY TypeAlways, TypeImplied, PTL

-----------------------------------------------------------------------------
(* Where the files go                                                      *)

\* Every path of the plan, and every file that was sent, has the place that some SRC gives it.
PlacedBy(p, place) == \E i \in DOMAIN srcs : IsPrefix(Abs(srcs[i]), p) /\ place = RelOf(srcs[i], p)

PlaceInv ==
  /\ \A p \in DOMAIN relMap : PlacedBy(p, relMap[p])
  /\ \A w \in sent : PlacedBy(w.file, w.place)

\* Three paths after each other.
Associated(p, q, r) == (p \o q) \o r = p \o (q \o r)

LEMMA PathsAssociative == \A p, q, r \in Path : Associated(p, q, r)
BY ConcatAssociative DEF Path, Associated

\* What is below a path goes below its place.
LEMMA PlaceBelow ==
  ASSUME NEW s \in Source, NEW p \in Path, NEW q \in Path, IsPrefix(Abs(s), p), IsPrefix(p, q)
  PROVE  IsPrefix(Abs(s), q) /\ RelOf(s, q) = RelOf(s, p) \o Rest(q, Len(p))
<1>1. PICK a, b, x, y : a = Abs(s) /\ b = RelBase(s) /\ x = Rest(p, Len(a)) /\ y = Rest(q, Len(p)) OBVIOUS
<1>2. a \in Path /\ b \in Path BY <1>1, SourceFacts
<1>3. p = a \o x /\ x \in Path BY <1>1, <1>2, ConcatRest
<1>4. q = p \o y /\ y \in Path BY <1>1, ConcatRest
<1>5. x \o y \in Path BY <1>3, <1>4, ConcatFacts
<1>6. q = a \o (x \o y) /\ (b \o x) \o y = b \o (x \o y)
  <2>1. Associated(a, x, y) /\ Associated(b, x, y) BY <1>2, <1>3, <1>4, PathsAssociative
  <2>2. (a \o x) \o y = a \o (x \o y) /\ (b \o x) \o y = b \o (x \o y) BY <2>1 DEF Associated
  <2> QED BY <1>3, <1>4, <2>2
<1>7. IsPrefix(a, q) /\ Rest(q, Len(a)) = x \o y BY <1>2, <1>5, <1>6, ConcatRest
<1>8. RelOf(s, p) = b \o x /\ RelOf(s, q) = b \o (x \o y) BY <1>1, <1>7, RelOfFacts
<1> QED BY <1>1, <1>6, <1>7, <1>8

LEMMA PlaceInit == Init => PlaceInv
BY DEF Init, PlaceInv

LEMMA EnumeratePlaced == ASSUME TypeInv, PlaceInv, Enumerate PROVE PlaceInv'
<1>0. sent' = sent /\ srcs' = srcs BY DEF Enumerate, sentVars
<1>1. PICK s, found : Enumerated(s, found) BY EnumerateFacts
<1>2. /\ DOMAIN relMap' = DOMAIN relMap \cup ToSet(found) \cup {Abs(s)}
      /\ Abs(s) \in Path
      /\ \A p \in DOMAIN relMap' : relMap'[p] = IF p \in ToSet(found) \cup {Abs(s)} THEN RelOf(s, p) ELSE relMap[p]
  BY <1>1, EnumeratedFacts DEF TypeInv
<1>3. k + 1 \in DOMAIN srcs /\ s = srcs[k + 1] /\ found \in Seq(Path) /\ \A i \in 1..Len(found) : IsPrefix(Abs(s), found[i])
  BY <1>1 DEF Enumerated
<1>4. \A p \in ToSet(found) \cup {Abs(s)} : IsPrefix(Abs(s), p)
  <2>1. IsPrefix(Abs(s), Abs(s)) BY <1>2, PrefixFacts, PathLen
  <2>2. DOMAIN found = 1..Len(found) BY <1>3, LenProperties
  <2> QED BY <1>3, <2>1, <2>2 DEF ToSet
<1>5. ASSUME NEW p \in DOMAIN relMap' PROVE PlacedBy(p, relMap'[p])
  <2>1. CASE p \in ToSet(found) \cup {Abs(s)}
    <3>1. relMap'[p] = RelOf(s, p) BY <1>2, <2>1
    <3> QED BY <1>3, <1>4, <2>1, <3>1 DEF PlacedBy
  <2>2. CASE p \notin ToSet(found) \cup {Abs(s)}
    <3>1. p \in DOMAIN relMap /\ relMap'[p] = relMap[p] BY <1>2, <2>2
    <3> QED BY <3>1 DEF PlaceInv
  <2> QED BY <2>1, <2>2
<1> QED BY <1>0, <1>5 DEF PlaceInv, PlacedBy

LEMMA PutPlaced == ASSUME TypeInv, PlaceInv, Put PROVE PlaceInv'
<1>0. UNCHANGED <<srcs, relMap>> /\ sent' \subseteq sent \cup {[file |-> Item, place |-> relMap[Item]]} /\ pc = "put"
  BY DEF Put, Send, sentVars
<1>1. Item \in DOMAIN relMap
  <2>1. next \in DOMAIN entries
    <3>1. pc = "put" BY <1>0
    <3>2. next <= Len(entries) /\ next \in 1..Len(entries) + 1
      BY <3>1 DEF TypeInv, PhaseInv, PlanTyped, Queue
    <3>3. Len(entries) \in Nat /\ DOMAIN entries = 1..Len(entries) BY EntriesTyped DEF TypeInv
    <3>4. next \in 1..Len(entries) BY <3>2, <3>3
    <3> QED BY <3>3, <3>4
  <2> QED BY <2>1, EntriesTyped DEF TypeInv, Item
<1>2. PlacedBy(Item, relMap[Item]) BY <1>1 DEF PlaceInv
<1>3. \A w \in sent' : PlacedBy(w.file, w.place) BY <1>0, <1>2 DEF PlaceInv
<1> QED BY <1>0, <1>3 DEF PlaceInv, PlacedBy

LEMMA AddPlaced == ASSUME TypeInv, PlaceInv, Add PROVE PlaceInv'
<1> PICK p, rel : p = items[next] /\ rel = relMap[items[next]] OBVIOUS
<1>0. UNCHANGED <<srcs, relMap>> /\ sent' \subseteq sent \cup Archived(p, rel) /\ pc = "add" /\ next <= Len(items)
  BY DEF Add, Send, sentVars
<1>1. p \in DOMAIN relMap /\ p \in Path /\ rel \in Path
  <2>1. next \in DOMAIN items
    <3>1. next \in 1..Len(items) + 1 BY <1>0 DEF TypeInv, PhaseInv, PlanTyped, Queue
    <3>2. Len(items) \in Nat /\ DOMAIN items = 1..Len(items) BY EntriesTyped DEF TypeInv
    <3>3. next \in 1..Len(items) BY <1>0, <3>1, <3>2
    <3> QED BY <3>2, <3>3
  <2>2. p \in DOMAIN relMap BY <2>1, EntriesTyped DEF TypeInv
  <2> QED BY <2>2 DEF TypeInv, PlanTyped
<1>2. PICK i \in DOMAIN srcs : IsPrefix(Abs(srcs[i]), p) /\ rel = RelOf(srcs[i], p)
  BY <1>1 DEF PlaceInv, PlacedBy
<1>3. srcs[i] \in Source BY SrcTyped DEF TypeInv
<1>4. ASSUME NEW w \in Archived(p, rel) PROVE PlacedBy(w.file, w.place)
  <2>1. w.file \in Path /\ IsPrefix(p, w.file) /\ w.place = rel \o Rest(w.file, Len(p)) BY <1>1, ArchivedFacts
  <2>2. IsPrefix(Abs(srcs[i]), w.file) /\ RelOf(srcs[i], w.file) = RelOf(srcs[i], p) \o Rest(w.file, Len(p))
    BY <1>1, <1>2, <1>3, <2>1, PlaceBelow
  <2> QED BY <1>2, <2>1, <2>2 DEF PlacedBy
<1>5. \A w \in sent' : PlacedBy(w.file, w.place) BY <1>0, <1>4 DEF PlaceInv
<1> QED BY <1>0, <1>5 DEF PlaceInv, PlacedBy

LEMMA PlaceStep == TypeInv /\ PlaceInv /\ [Next]_vars => PlaceInv'
<1> SUFFICES ASSUME TypeInv, PlaceInv, [Next]_vars PROVE PlaceInv' OBVIOUS
<1>1. CASE UNCHANGED <<srcs, relMap, sent>> BY <1>1 DEF PlaceInv, PlacedBy
<1>2. Resolve \/ Planned \/ Pack \/ CloseArchive \/ Upload \/ RemoveTmp \/ Change \/ UNCHANGED vars =>
        UNCHANGED <<srcs, relMap, sent>>
  BY DEF Resolve, Planned, Pack, CloseArchive, Upload, RemoveTmp, Change, vars, sentVars
<1> QED BY <1>1, <1>2, EnumeratePlaced, PutPlaced, AddPlaced DEF Next

-----------------------------------------------------------------------------
(* What is below a directory by one name is there by another               *)

\* What tarfile takes for something that is no link, stat() finds too.
LEMMA LookedFound ==
  ASSUME NEW p \in Path, Looked(p) \notin {"none", "link"}
  PROVE  Follow("me", p).ok /\ What(p) = Looked(p)
<1>1. CASE follow
  <2>1. What(p) = Looked(p) BY <1>1 DEF Looked
  <2> QED BY <2>1, StatFacts DEF What
<1>2. CASE ~follow /\ p = <<>>
  <2>1. Follow("me", p) = Start BY <1>2, FollowLemma, EmptyPath DEF FollowByNames
  <2>2. Follow("me", p).ok /\ What(p) = "dir" BY <2>1 DEF What, Stat, KindAt, Start
  <2> QED BY <1>2, <2>2 DEF Looked, Lstat
<1>3. CASE ~follow /\ p # <<>>
  <2>1. Front(p) \in Path /\ Last(p) \in ToSet(Names) BY <1>3, FrontFacts
  <2>2. PICK r, n, w : r = Follow("me", Front(p)) /\ n = Last(p) /\ w = Walk1("me", FALSE, r, n) OBVIOUS
  <2>3. r \in Finding BY <2>1, <2>2, FollowRealLemma DEF FollowReal
  <2>4. Looked(p) = KindAt(w) BY <1>3, <2>2 DEF Looked, Lstat
  <2>5. w.ok /\ (w.at # <<>> => Kind[w.at] # "link") BY <2>4 DEF KindAt
  <2>6. Walk1("me", TRUE, r, n) = w
    <3>1. PICK c : c = Append(r.at, n) OBVIOUS
    <3>2. c # <<>> BY <2>1, <2>2, <2>3, <3>1, AppendFacts DEF Finding
    <3>3. CASE ~r.ok BY <2>2, <3>3 DEF Walk1
    <3>4. CASE r.ok /\ n = Up BY <2>2, <3>4 DEF Walk1
    <3>5. CASE r.ok /\ n # Up /\ (~There(c) \/ ~May("me", c)) BY <2>2, <3>1, <3>5 DEF Walk1
    <3>6. CASE r.ok /\ n # Up /\ There(c) /\ May("me", c)
      <4>1. w = [r EXCEPT !.at = c, !.via = @ \cup {c}] BY <2>2, <3>1, <3>6 DEF Walk1
      <4>2. w.at = c BY <2>3, <4>1 DEF Finding
      <4>3. Kind[c] # "link" BY <2>5, <3>2, <4>2
      <4> QED BY <3>1, <3>6, <4>1, <4>3 DEF Walk1
    <3> QED BY <3>3, <3>4, <3>5, <3>6
  <2>7. Follow("me", p) = w BY <1>3, <2>2, <2>6, FollowLemma DEF FollowByNames
  <2> QED BY <2>4, <2>5, <2>7 DEF What, Stat
<1> QED BY <1>1, <1>2, <1>3

\* A link is followed if it is not one too many.
LEMMA LinkWalk ==
  ASSUME NEW r \in Finding, NEW c, NEW w,
         w = [ok |-> r.links < MaxLinks /\ There(LinkTo[c]) /\ May("me", LinkTo[c]), at |-> LinkTo[c],
              links |-> r.links + 1, via |-> r.via \cup {c} \cup Along(LinkTo[c])]
  PROVE  w.links = r.links + 1 /\ (w.ok => r.links < MaxLinks)
<1> DEFINE ok == r.links < MaxLinks /\ There(LinkTo[c]) /\ May("me", LinkTo[c])
           via == r.via \cup {c} \cup Along(LinkTo[c])
<1>1. w = [ok |-> ok, at |-> LinkTo[c], links |-> r.links + 1, via |-> via] OBVIOUS
<1>2. ok \in BOOLEAN /\ (ok => r.links < MaxLinks)
  <2>1. There(LinkTo[c]) \in BOOLEAN /\ May("me", LinkTo[c]) \in BOOLEAN BY DEF There, May
  <2>2. ok \in BOOLEAN BY <2>1
  <2>3. ok => r.links < MaxLinks OBVIOUS
  <2> QED BY <2>2, <2>3
<1> HIDE DEF ok, via
<1>3. w.links = r.links + 1 /\ (w.ok => r.links < MaxLinks) BY <1>1, <1>2
<1> QED BY <1>3

\* What is found one name on, and by how many links.
LEMMA WalkLinks ==
  ASSUME NEW r \in Finding, NEW n \in ToSet(Names), n # Up, Walk1("me", TRUE, r, n).ok
  PROVE  LET c == Append(r.at, n)
             w == Walk1("me", TRUE, r, n)
         IN \/ Kind[c] = "link" /\ r.links < MaxLinks /\ w.links = r.links + 1
            \/ Kind[c] # "link" /\ w.links = r.links /\ w.at = c
<1> PICK c, w : c = Append(r.at, n) /\ w = Walk1("me", TRUE, r, n) OBVIOUS
<1>1. r.ok /\ There(c) /\ May("me", c) BY WalkOk
<1>2. CASE Kind[c] = "link"
  <2>1. w = [ok |-> r.links < MaxLinks /\ There(LinkTo[c]) /\ May("me", LinkTo[c]), at |-> LinkTo[c],
             links |-> r.links + 1, via |-> r.via \cup {c} \cup Along(LinkTo[c])]
    BY <1>1, <1>2 DEF Walk1
  <2>2. w.links = r.links + 1 /\ (w.ok => r.links < MaxLinks) BY <2>1, LinkWalk
  <2> QED BY <1>2, <2>2
<1>3. CASE Kind[c] # "link"
  <2>1. w = [r EXCEPT !.at = c, !.via = @ \cup {c}] BY <1>1, <1>3 DEF Walk1
  <2>2. w.at = c /\ w.links = r.links BY <2>1 DEF Finding
  <2> QED BY <1>3, <2>2
<1> QED BY <1>2, <1>3

\* No more links are followed than may be.
FewLinks == \A p \in Path : Follow("me", p).ok => Follow("me", p).links <= MaxLinks

LEMMA FewLinksLemma == FewLinks
<1> DEFINE T == {p \in Path : Follow("me", p).ok => Follow("me", p).links <= MaxLinks}
<1>0. MaxLinks \in Nat BY TreeAssumption
<1>1. <<>> \in T
  <2>1. Follow("me", <<>>) = Start BY EmptyPath, FollowLemma DEF FollowByNames
  <2>2. Follow("me", <<>>).links = 0 BY <2>1 DEF Start
  <2> QED BY <1>0, <2>2, EmptyPath
<1>2. ASSUME NEW p \in Path, p # <<>>, Front(p) \in T PROVE p \in T
  <2> SUFFICES ASSUME Follow("me", p).ok PROVE Follow("me", p).links <= MaxLinks OBVIOUS
  <2>1. PICK r, n, w : r = Follow("me", Front(p)) /\ n = Last(p) /\ w = Walk1("me", TRUE, r, n) OBVIOUS
  <2>2. Front(p) \in Path /\ n \in ToSet(Names) BY <1>2, <2>1, FrontFacts
  <2>3. r \in Finding /\ r.links \in Nat BY <2>1, <2>2, FollowRealLemma DEF FollowReal, Finding
  <2>4. Follow("me", p) = w BY <1>2, <2>1, FollowLemma DEF FollowByNames
  <2>5. w.ok /\ r.ok BY <2>1, <2>3, <2>4, WalkOk
  <2>6. r.links <= MaxLinks BY <1>2, <2>1, <2>5
  <2>7. CASE n = Up
    <3>1. w = [r EXCEPT !.at = IF r.at = <<>> THEN r.at ELSE Front(r.at)] BY <2>1, <2>5, <2>7 DEF Walk1
    <3>2. w.links = r.links BY <2>3, <3>1 DEF Finding
    <3> QED BY <2>4, <2>6, <3>2
  <2>8. CASE n # Up
    <3>1. (r.links < MaxLinks /\ w.links = r.links + 1) \/ w.links = r.links BY <2>1, <2>2, <2>3, <2>5, <2>8, WalkLinks
    <3> QED BY <1>0, <2>3, <2>4, <2>6, <3>1
  <2> QED BY <2>7, <2>8
<1> HIDE DEF T
<1>3. Path \subseteq T BY <1>1, <1>2, PathInduction
<1> QED BY <1>3 DEF T, FewLinks

\* A path that is there is no longer than there are nodes.
LEMMA ThereLen == ASSUME NEW p \in Path, There(p) PROVE Len(p) <= Cardinality(Node)
<1> DEFINE f == [i \in 1..Len(p) |-> Pre(p, i)]
<1>0. Len(p) \in Nat BY PathLen
<1>1. Along(p) = {Pre(p, i) : i \in 1..Len(p)} BY AlongFacts
<1>2. \A i \in 1..Len(p) : Len(Pre(p, i)) = i
  <2> SUFFICES ASSUME NEW i \in 1..Len(p) PROVE Len(Pre(p, i)) = i OBVIOUS
  <2>1. i \in 0..Len(p) BY <1>0
  <2> QED BY <2>1, PreFacts
<1>3. f \in Bijection(1..Len(p), Along(p))
  <2>1. f \in [1..Len(p) -> Along(p)] BY <1>1
  <2>2. \A i, j \in 1..Len(p) : f[i] = f[j] => i = j BY <1>2
  <2>3. \A q \in Along(p) : \E i \in 1..Len(p) : f[i] = q BY <1>1
  <2> HIDE DEF f
  <2>4. f \in Injection(1..Len(p), Along(p)) BY <2>1, <2>2 DEF Injection, IsInjective
  <2>5. f \in Surjection(1..Len(p), Along(p)) BY <2>1, <2>3 DEF Surjection
  <2> QED BY <2>4, <2>5 DEF Bijection
<1> HIDE DEF f
<1>4. IsFiniteSet(1..Len(p)) /\ Cardinality(1..Len(p)) = Len(p)
  <2>1. PICK n \in Nat : n = Len(p) BY <1>0
  <2>2. 1 \in Int /\ n \in Int OBVIOUS
  <2>3. IsFiniteSet(1..n) /\ Cardinality(1..n) = IF 1 > n THEN 0 ELSE n - 1 + 1 BY <2>2, FS_Interval
  <2>4. (IF 1 > n THEN 0 ELSE n - 1 + 1) = n OBVIOUS
  <2> QED BY <2>1, <2>3, <2>4
<1>5. Cardinality(Along(p)) = Len(p)
  <2>1. ExistsBijection(1..Len(p), Along(p)) BY <1>3 DEF ExistsBijection
  <2> QED BY <1>4, <2>1, FS_Bijection
<1>6. Along(p) \subseteq Node /\ IsFiniteSet(Node) BY TreeAssumption DEF There
<1> QED BY <1>5, <1>6, FS_Subset

\* What lstat() says of a name in a directory.
LEMMA LstatChild ==
  ASSUME NEW y \in Path, NEW m \in ToSet(Names), m # Up, Follow("me", y).ok
  PROVE  LET c == Append(Follow("me", y).at, m) IN
         Lstat("me", Append(y, m)) = IF There(c) /\ May("me", c) THEN Kind[c] ELSE "none"
<1> PICK r, c, w : r = Follow("me", y) /\ c = Append(r.at, m) /\ w = Walk1("me", FALSE, r, m) OBVIOUS
<1>1. r \in Finding /\ r.at \in Path BY FollowRealLemma DEF FollowReal, Finding
<1>2. c # <<>> BY <1>1, AppendFacts
<1>3. Append(y, m) # <<>> /\ Front(Append(y, m)) = y /\ Last(Append(y, m)) = m BY AppendFacts
<1>4. Lstat("me", Append(y, m)) = KindAt(w) BY <1>3 DEF Lstat
<1>5. CASE There(c) /\ May("me", c)
  <2>1. w = [r EXCEPT !.at = c, !.via = @ \cup {c}] BY <1>5 DEF Walk1
  <2>2. w.at = c /\ w.ok = r.ok BY <1>1, <2>1 DEF Finding
  <2>3. KindAt(w) = Kind[c] BY <1>2, <2>2 DEF KindAt
  <2> QED BY <1>4, <1>5, <2>3
<1>6. CASE ~(There(c) /\ May("me", c))
  <2>1. w = [r EXCEPT !.ok = FALSE, !.via = @ \cup {c}] BY <1>6 DEF Walk1
  <2>2. w.ok = FALSE BY <1>1, <2>1 DEF Finding
  <2>3. KindAt(w) = "none" BY <2>2 DEF KindAt
  <2> QED BY <1>4, <1>6, <2>3
<1> QED BY <1>5, <1>6

\* How far down a path may be after l links, of M, among N nodes.
LEMMA Rounds ==
  ASSUME NEW l \in Nat, NEW M \in Nat, l <= M, NEW N \in Nat, NEW i \in Nat, NEW x \in Nat,
         i <= l * N + x, x + 1 <= N
  PROVE  i + 1 <= (M + 1) * N /\ i + 1 <= l * N + (x + 1) /\ i + 1 <= (l + 1) * N
<1>1. PICK d \in Nat : M = l + d
  <2>1. M - l \in Nat /\ M = l + (M - l) OBVIOUS
  <2> QED BY <2>1
<1>2. PICK a \in Nat : a = l * N OBVIOUS
<1>3. PICK b \in Nat : b = d * N OBVIOUS
<1>4. (l + 1) * N = a + N BY <1>2
<1>5. (M + 1) * N = a + b + N BY <1>1, <1>2, <1>3
<1> QED BY <1>2, <1>4, <1>5

\* All that a table lists is there.
AllThere(F) == \A i \in 0..Depth : \A y \in F[i] : Looked(y) # "none"

\* The real path a is listed in a table, as y, at a depth that the links followed bound.
Reached(F, y, i, a) ==
  /\ y \in Path /\ i \in 0..Depth /\ y \in F[i]
  /\ Follow("me", y).ok /\ Follow("me", y).at = a /\ Looked(y) = What(y)
  /\ i <= Follow("me", y).links * Cardinality(Node) + Len(a)

\* From a directory that is reached so is each of its names: no table ends too early.
LEMMA ReachedNext ==
  ASSUME NEW g \in Path, NEW F, IsBelow(F, g), AllThere(F),
         NEW y, NEW i, NEW a, Reached(F, y, i, a), What(y) = "dir",
         NEW m \in ToSet(Names), There(Append(a, m)), follow \/ Kind[Append(a, m)] # "link"
  PROVE  Reached(F, Append(y, m), i + 1, RealStep(a, m))
<1> PICK c, x, N, r, w : /\ c = Append(a, m) /\ x = Append(y, m) /\ N = Cardinality(Node)
                         /\ r = Follow("me", y) /\ w = Walk1("me", TRUE, r, m)
  OBVIOUS
<1>1. y \in Path /\ i \in 0..Depth /\ y \in F[i] /\ r.ok /\ r.at = a /\ Looked(y) = "dir" /\ i <= r.links * N + Len(a)
  BY DEF Reached
<1>2. r \in Finding /\ r.links \in Nat /\ a \in Path /\ Real(r) BY <1>1, FollowRealLemma DEF FollowReal, Finding
<1>3. c \in Path /\ c # <<>> /\ Len(c) = Len(a) + 1 /\ Last(c) = m /\ Len(a) \in Nat BY <1>2, AppendFacts, PathLen
<1>4. c \in Node /\ m # Up
  <2>1. c \in Node BY <1>3, ThereFacts
  <2> QED BY <1>3, <2>1, NodeFacts
<1>5. N \in Nat /\ Depth \in Nat /\ MaxLinks \in Nat /\ Depth = (MaxLinks + 1) * N
  BY DepthFacts, TreeAssumption DEF Depth
<1>6. Len(a) + 1 <= N BY <1>3, ThereLen
<1>7. r.links <= MaxLinks BY <1>1, FewLinksLemma DEF FewLinks
<1>8. /\ i \in Nat /\ i + 1 <= (MaxLinks + 1) * N /\ i + 1 <= r.links * N + (Len(a) + 1)
      /\ i + 1 <= (r.links + 1) * N
  <2>1. i \in Nat BY <1>1, <1>5
  <2> QED BY <1>1, <1>2, <1>3, <1>5, <1>6, <1>7, <2>1, Rounds
<1>9. i \in 0..Depth - 1 /\ i + 1 \in 0..Depth
  <2>1. i + 1 <= Depth BY <1>5, <1>8
  <2> QED BY <1>5, <1>8, <2>1
<1>10. x \in Path /\ x \in F[i + 1]
  <2>1. F[i] \in SUBSET Path /\ F[i + 1] = Children(F[i]) BY <1>1, <1>9 DEF IsBelow
  <2>2. x \in Children(F[i]) BY <1>1, <2>1, ChildrenFacts
  <2> QED BY <1>1, <2>1, <2>2, AppendFacts
<1>11. Looked(x) \notin {"none", "link"}
  <2>1. Looked(x) # "none" BY <1>9, <1>10 DEF AllThere
  <2>2. CASE follow
    <3>1. Looked(x) = What(x) BY <2>2 DEF Looked
    <3> QED BY <1>10, <2>1, <3>1, StatFacts DEF What
  <2>3. CASE ~follow
    <3>1. Looked(x) = Lstat("me", x) BY <2>3 DEF Looked
    <3>2. Lstat("me", x) = IF There(c) /\ May("me", c) THEN Kind[c] ELSE "none" BY <1>1, <1>4, LstatChild
    <3> QED BY <2>1, <2>3, <3>1, <3>2
  <2> QED BY <2>2, <2>3
<1>12. Follow("me", x).ok /\ What(x) = Looked(x) BY <1>10, <1>11, LookedFound
<1>13. Follow("me", x) = w
  <2>1. x # <<>> /\ Front(x) = y /\ Last(x) = m BY <1>1, AppendFacts
  <2> QED BY <1>10, <2>1, FollowLemma DEF FollowByNames
<1>14. w.ok /\ w.at = RealStep(a, m)
  <2>1. w.ok BY <1>12, <1>13
  <2>2. r \in Finding /\ a \in Path /\ r.at = a BY <1>1, <1>2
  <2>3. \A z \in Finding : Walk1("me", TRUE, z, m).ok /\ z.at = a => RealStep(a, m) = Walk1("me", TRUE, z, m).at
    BY <2>2, RealStepFacts
  <2> QED BY <2>1, <2>2, <2>3
<1>15. w \in Finding /\ w.links \in Nat /\ w.at \in Path /\ Len(w.at) \in Nat
  <2>1. w \in Finding BY <1>10, <1>13, FollowRealLemma DEF FollowReal
  <2>2. w.links \in Nat /\ w.at \in Path BY <2>1 DEF Finding
  <2> QED BY <2>1, <2>2, PathLen
<1>16. (w.links = r.links + 1) \/ (w.links = r.links /\ w.at = c) BY <1>1, <1>2, <1>4, <1>14, WalkLinks
<1>17. i + 1 <= w.links * N + Len(w.at)
  <2>1. PICK b, l : b = Len(w.at) /\ l = w.links OBVIOUS
  <2>2. CASE l = r.links + 1
    <3>1. PICK n \in Nat : n = (r.links + 1) * N BY <1>2, <1>5
    <3>2. l * N = n BY <2>2, <3>1
    <3>3. i + 1 <= n /\ b \in Nat BY <1>8, <1>15, <2>1, <3>1
    <3>4. i + 1 <= n + b BY <1>8, <3>1, <3>3
    <3> QED BY <2>1, <3>2, <3>4
  <2>3. CASE l = r.links /\ w.at = c
    <3>1. b = Len(a) + 1 BY <1>3, <2>1, <2>3
    <3> QED BY <1>8, <2>1, <2>3, <3>1
  <2> QED BY <1>16, <2>1, <2>2, <2>3
<1> QED BY <1>9, <1>10, <1>12, <1>13, <1>14, <1>17 DEF Reached

\* What is found by two names is the same.
LEMMA SameFind ==
  ASSUME NEW p, NEW q, Follow("me", p).ok, Follow("me", q).ok, Follow("me", p).at = Follow("me", q).at
  PROVE  What(p) = What(q)
BY DEF What, Stat, KindAt

\* A way down to a real path that is there goes through directories.
LEMMA DirOnTheWay ==
  ASSUME NEW a \in Path, There(a), NEW l \in 0..Len(a) - 1
  PROVE  /\ There(Pre(a, l + 1)) /\ Pre(a, l + 1) = Append(Pre(a, l), a[l + 1])
         /\ Pre(a, l) # <<>> => Pre(a, l) \in Node /\ Kind[Pre(a, l)] = "dir"
<1>1. /\ Pre(a, l) \in Path /\ Pre(a, l + 1) \in Path /\ Pre(a, l + 1) # <<>>
      /\ Front(Pre(a, l + 1)) = Pre(a, l) /\ Pre(a, l + 1) = Append(Pre(a, l), a[l + 1])
  BY PreNext
<1>2. Len(a) \in Nat /\ l + 1 \in 0..Len(a) /\ l + 1 \in Nat
  <2>1. Len(a) \in Nat BY PathLen
  <2> QED BY <2>1
<1>3. There(Pre(a, l + 1))
  <2> DEFINE c == Pre(a, l + 1)
  <2>1. Along(c) = {Pre(c, j) : j \in 1..Len(c)} /\ Along(a) = {Pre(a, j) : j \in 1..Len(a)} BY <1>1, AlongFacts
  <2>2. Len(c) = l + 1 BY <1>2, PreFacts
  <2>3. ASSUME NEW j \in 1..l + 1 PROVE Pre(c, j) = Pre(a, j) /\ j \in 1..Len(a)
    <3>1. j \in 0..l + 1 /\ j \in 1..Len(a) BY <1>2
    <3> QED BY <1>2, <3>1, PrePre
  <2> HIDE DEF c
  <2>4. Along(c) \subseteq Along(a) BY <2>1, <2>2, <2>3
  <2>5. There(c) BY <2>4 DEF There
  <2> QED BY <2>5 DEF c
<1>4. Pre(a, l + 1) \in Node BY <1>1, <1>3, ThereFacts
<1> QED BY <1>1, <1>3, <1>4, NodeFacts

\* Below a directory is reached whatever is really below it.
LEMMA ReachedDown ==
  ASSUME NEW g \in Path, NEW F, IsBelow(F, g), AllThere(F), ~(IsLink(g) /\ ~follow),
         NEW p \in Path, Follow("me", p).ok, IsPrefix(Canon(g), Canon(p))
  PROVE  \E y, i : Reached(F, y, i, Follow("me", p).at)
<1> PICK a, b, h : a = Follow("me", p).at /\ b = Follow("me", g).at /\ h = Len(b) OBVIOUS
<1>1. Looked(g) \notin {"none", "link"}
  <2>1. g \in F[0] /\ 0 \in 0..Depth BY DepthFacts DEF IsBelow
  <2>2. Looked(g) # "none" BY <2>1 DEF AllThere
  <2>3. CASE follow
    <3>1. Looked(g) = What(g) BY <2>3 DEF Looked
    <3> QED BY <2>2, <3>1, StatFacts DEF What
  <2>4. CASE ~follow
    <3>1. Looked(g) = Lstat("me", g) BY <2>4 DEF Looked
    <3> QED BY <2>2, <2>4, <3>1 DEF IsLink
  <2> QED BY <2>3, <2>4
<1>2. Follow("me", g).ok /\ What(g) = Looked(g) BY <1>1, LookedFound
<1>3. Canon(g) = b /\ Canon(p) = a BY <1>2, CanonFacts
<1>4. /\ a \in Path /\ b \in Path /\ There(a) /\ (a # <<>> => Kind[a] # "link")
      /\ Len(a) \in Nat /\ h \in Nat
  BY FollowRealLemma, PathLen DEF FollowReal, Finding, Real
<1>5. h <= Len(a) /\ Pre(a, h) = b BY <1>3, <1>4, PrefixFacts
<1>6. Reached(F, g, 0, b)
  <2>1. g \in F[0] /\ 0 \in 0..Depth BY DepthFacts DEF IsBelow
  <2>2. 0 <= Follow("me", g).links * Cardinality(Node) + h
    <3>1. PICK l \in Nat : l = Follow("me", g).links BY FollowRealLemma DEF FollowReal, Finding
    <3>2. PICK N \in Nat : N = Cardinality(Node) BY DepthFacts
    <3>3. PICK n \in Nat : n = l * N OBVIOUS
    <3>4. 0 <= n + h BY <1>4
    <3> QED BY <3>1, <3>2, <3>3, <3>4
  <2> QED BY <1>2, <2>1, <2>2 DEF Reached
<1> DEFINE Down(l) == \E y, i : Reached(F, y, i, Pre(a, l))
           T == {n \in Nat : h + n <= Len(a) => Down(h + n)}
<1>7. 0 \in T
  <2>1. h + 0 = h BY <1>4
  <2> QED BY <1>5, <1>6, <2>1
<1>8. ASSUME NEW n \in Nat, n \in T PROVE n + 1 \in T
  <2> SUFFICES ASSUME h + (n + 1) <= Len(a) PROVE Down(h + (n + 1))
    <3> HIDE DEF Down
    <3>1. n + 1 \in Nat OBVIOUS
    <3> QED BY <3>1
  <2>1. PICK l : l = h + n OBVIOUS
  <2>2. l \in 0..Len(a) - 1 /\ l <= Len(a) /\ h + (n + 1) = l + 1 /\ l + 1 \in 1..Len(a)
    <3>1. PICK j, d : j = h /\ d = Len(a) OBVIOUS
    <3>2. j \in Nat /\ d \in Nat /\ j + (n + 1) <= d /\ l = j + n BY <1>4, <2>1, <3>1
    <3>3. l \in 0..d - 1 /\ l <= d /\ j + (n + 1) = l + 1 /\ l + 1 \in 1..d BY <3>2
    <3> QED BY <3>1, <3>3
  <2>3. PICK y, i : Reached(F, y, i, Pre(a, l))
    <3>1. Down(l)
      <4> HIDE DEF Down
      <4> QED BY <1>8, <2>1, <2>2
    <3> QED BY <3>1
  <2>4. PICK m, q, c : m = a[l + 1] /\ q = Pre(a, l) /\ c = Pre(a, l + 1) OBVIOUS
  <2>5. There(c) /\ c = Append(q, m) /\ (q # <<>> => q \in Node /\ Kind[q] = "dir")
    BY <1>4, <2>2, <2>4, DirOnTheWay
  <2>6. m \in ToSet(Names) /\ q \in Path /\ c \in Path /\ c # <<>> BY <1>4, <2>2, <2>4, PreNext
  <2>7. What(y) = "dir"
    <3>1. Follow("me", y).ok /\ Follow("me", y).at = q BY <2>3, <2>4 DEF Reached
    <3> QED BY <2>5, <3>1 DEF What, Stat, KindAt
  <2>8. Kind[c] # "link"
    <3>1. CASE l + 1 = Len(a)
      <4>1. c = a BY <1>4, <2>4, <3>1, PreAll
      <4> QED BY <1>4, <2>6, <4>1
    <3>2. CASE l + 1 # Len(a)
      <4>1. l + 1 \in 0..Len(a) - 1 BY <1>4, <2>2, <3>2
      <4> QED BY <1>4, <2>4, <2>6, <4>1, DirOnTheWay
    <3> QED BY <3>1, <3>2
  <2>9. Reached(F, Append(y, m), i + 1, RealStep(q, m))
    BY <2>3, <2>4, <2>5, <2>6, <2>7, <2>8, ReachedNext
  <2>10. RealStep(q, m) = c
    <3>1. m # Up
      <4>1. c \in Node /\ Last(c) = m BY <2>5, <2>6, ThereFacts, AppendFacts
      <4> QED BY <4>1, NodeFacts
    <3> QED BY <2>5, <2>8, <3>1 DEF RealStep
  <2> QED BY <2>2, <2>4, <2>9, <2>10
<1> HIDE DEF T, Down
<1>9. PICK n \in Nat : h + n = Len(a)
  <2>1. Len(a) - h \in Nat /\ h + (Len(a) - h) = Len(a) BY <1>4, <1>5
  <2> QED BY <2>1
<1>10. n \in T BY <1>7, <1>8, Inductive
<1>11. Down(Len(a)) BY <1>4, <1>9, <1>10 DEF T
<1>12. Pre(a, Len(a)) = a BY <1>4, PreAll
<1> QED BY <1>11, <1>12 DEF Down

\* What is added for one name of a directory is added for any other name of it, or of one above.
LEMMA AddedOnce ==
  ASSUME NEW p \in Path, NEW g \in Path, IsPrefix(Canon(g), Canon(p)),
         ~(IsLink(p) /\ ~follow), ~(IsLink(g) /\ ~follow), \A q \in Added(g) : Looked(q) # "none",
         NEW z \in Added(p), Looked(z) = "file"
  PROVE  \E y \in Added(g) : Looked(y) = "file" /\ Canon(y) = Canon(z)
<1>0. Depth \in Nat /\ 0 \in 0..Depth BY DepthFacts
<1>1. PICK F : IsBelow(F, g) /\ Added(g) = UNION {F[i] : i \in 0..Depth} BY AddedFacts
<1>2. PICK E : IsBelow(E, p) /\ Added(p) = UNION {E[i] : i \in 0..Depth} BY AddedFacts
<1>3. AllThere(F) BY <1>1 DEF AllThere
<1>4. /\ E[0] = {p} /\ \A i \in 0..Depth : E[i] \in SUBSET Path
      /\ \A i \in 0..Depth - 1 : E[i + 1] = Children(E[i])
  BY <1>2 DEF IsBelow
<1>5. PICK d \in 0..Depth : z \in E[d] BY <1>2
<1>6. Looked(p) \notin {"none", "link"}
  <2> DEFINE T == {j \in Nat : j <= Depth /\ E[j] # {} => j = 0 \/ Looked(p) = "dir"}
  <2>1. 0 \in T OBVIOUS
  <2>2. ASSUME NEW j \in Nat, j \in T PROVE j + 1 \in T
    <3> SUFFICES ASSUME j + 1 <= Depth, E[j + 1] # {} PROVE Looked(p) = "dir" OBVIOUS
    <3>1. j \in 0..Depth - 1 /\ j \in 0..Depth /\ j <= Depth BY <1>0
    <3>2. PICK x : x \in Children(E[j]) BY <1>4, <3>1
    <3>3. PICK q \in E[j] : Looked(q) = "dir" BY <1>4, <3>1, <3>2, ChildrenFacts
    <3> QED BY <1>4, <2>2, <3>1, <3>3
  <2> HIDE DEF T
  <2>3. d \in T BY <1>0, <2>1, <2>2, Inductive
  <2>4. d = 0 \/ Looked(p) = "dir" BY <1>0, <1>5, <2>3 DEF T
  <2> QED BY <1>4, <1>5, <2>4
<1>7. Follow("me", p).ok /\ What(p) = Looked(p) BY <1>6, LookedFound
<1> DEFINE At(q) == \E y, i : Reached(F, y, i, Follow("me", q).at)
           T == {j \in Nat : j <= Depth => \A q \in E[j] : Looked(q) \in {"dir", "file"} => At(q)}
<1>8. 0 \in T
  <2>1. At(p) BY <1>1, <1>3, <1>7, ReachedDown
  <2> HIDE DEF At
  <2> QED BY <1>4, <2>1
<1>9. ASSUME NEW j \in Nat, j \in T PROVE j + 1 \in T
  <2> SUFFICES ASSUME j + 1 <= Depth, NEW x \in E[j + 1], Looked(x) \in {"dir", "file"} PROVE At(x)
    <3> HIDE DEF At
    <3>1. j + 1 \in Nat OBVIOUS
    <3> QED BY <3>1
  <2>1. j \in 0..Depth - 1 /\ j \in 0..Depth /\ j <= Depth BY <1>0
  <2>2. E[j] \in SUBSET Path /\ x \in Children(E[j]) BY <1>4, <2>1
  <2>3. PICK q \in E[j], n \in ToSet(Names) :
          Looked(q) = "dir" /\ There(Append(Follow("me", q).at, n)) /\ x = Append(q, n)
    BY <2>2, ChildrenFacts
  <2>4. PICK a, r : a = Follow("me", q).at /\ r = Follow("me", q) OBVIOUS
  <2>5. q \in Path /\ x \in Path /\ x # <<>> /\ Front(x) = q /\ Last(x) = n BY <2>2, <2>3, AppendFacts
  <2>6. r.ok /\ What(q) = "dir" BY <2>3, <2>4, <2>5, LookedFound
  <2>7. r \in Finding /\ r.at = a /\ a \in Path BY <2>4, <2>5, FollowRealLemma DEF FollowReal, Finding
  <2>8. PICK y, i : Reached(F, y, i, a)
    <3>1. At(q)
      <4> HIDE DEF At
      <4> QED BY <1>9, <2>1, <2>3
    <3> QED BY <2>4, <3>1
  <2>9. What(y) = "dir"
    <3>1. Follow("me", y).ok /\ Follow("me", y).at = a BY <2>8 DEF Reached
    <3>2. What(y) = What(q) BY <2>4, <2>6, <3>1, SameFind
    <3> QED BY <2>6, <3>2
  <2>10. n # Up
    <3>1. Append(a, n) \in Path /\ Append(a, n) # <<>> /\ Last(Append(a, n)) = n BY <2>7, AppendFacts
    <3>2. Append(a, n) \in Node BY <2>3, <2>4, <3>1, ThereFacts
    <3> QED BY <3>1, <3>2, NodeFacts
  <2>11. follow \/ Kind[Append(a, n)] # "link"
    <3> SUFFICES ASSUME ~follow PROVE Kind[Append(a, n)] # "link" OBVIOUS
    <3>1. Looked(x) = Lstat("me", x) BY DEF Looked
    <3>2. PICK c : c = Append(a, n) OBVIOUS
    <3>3. Lstat("me", x) = IF There(c) /\ May("me", c) THEN Kind[c] ELSE "none"
      BY <2>3, <2>4, <2>5, <2>6, <2>10, <3>2, LstatChild
    <3> QED BY <3>1, <3>2, <3>3
  <2>12. Reached(F, Append(y, n), i + 1, RealStep(a, n))
    <3>1. There(Append(a, n)) BY <2>3, <2>4
    <3> QED BY <1>1, <1>3, <2>8, <2>9, <2>11, <3>1, ReachedNext
  <2>13. Follow("me", x).at = RealStep(a, n)
    <3>1. Follow("me", x).ok BY <2>5, LookedFound
    <3>2. PICK w : w = Walk1("me", TRUE, r, n) OBVIOUS
    <3>3. Follow("me", x) = w BY <2>4, <2>5, <3>2, FollowLemma DEF FollowByNames
    <3>4. w.ok BY <3>1, <3>3
    <3>5. \A v \in Finding : Walk1("me", TRUE, v, n).ok /\ v.at = a => RealStep(a, n) = Walk1("me", TRUE, v, n).at
      BY <2>7, RealStepFacts
    <3>6. RealStep(a, n) = w.at BY <2>7, <3>2, <3>4, <3>5
    <3> QED BY <3>3, <3>6
  <2> QED BY <2>12, <2>13
<1> HIDE DEF T, At
<1>10. d \in T BY <1>0, <1>8, <1>9, Inductive
<1>11. At(z) BY <1>0, <1>5, <1>10 DEF T
<1>12. PICK y, i : Reached(F, y, i, Follow("me", z).at) BY <1>11 DEF At
<1>13. /\ y \in Path /\ i \in 0..Depth /\ y \in F[i] /\ Follow("me", y).ok
       /\ Follow("me", y).at = Follow("me", z).at /\ Looked(y) = What(y)
  BY <1>12 DEF Reached
<1>14. z \in Path BY AddedBelow
<1>15. Follow("me", z).ok /\ What(z) = "file" BY <1>14, LookedFound
<1>16. What(y) = What(z) BY <1>13, <1>15, SameFind
<1>17. Canon(y) = Canon(z) BY <1>13, <1>14, <1>15, CanonFacts
<1>18. y \in Added(g) BY <1>1, <1>13
<1> QED BY <1>13, <1>15, <1>16, <1>17, <1>18

-----------------------------------------------------------------------------
(* While nothing changes                                                   *)

\* An entry that is to be put is put.
PutThere(p) == What(p) = "file" /\ ~IsLink(p) => [file |-> p, place |-> relMap[p]] \in sent

\* An item of the archive is left out, or all of it is in the archive.
Handled(p) ==
  \/ IsLink(p) /\ ~follow
  \/ (\A q \in Added(p) : Looked(q) # "none") /\ Archived(p, relMap[p]) \subseteq sent

\* What has been gone through.
PutSoFar == {entries[i].path : i \in 1..next - 1}
PackedSoFar == {items[i] : i \in 1..next - 1}

\* While nothing changes it is where it belongs.
QuietInv ==
  touched = {} =>
    /\ ~pack /\ failed = {} => \A p \in PutSoFar : PutThere(p)
    /\ pack /\ pc \in {"add", "upload", "uploaded", "end"} => ToSet(items) = Kept /\ \A p \in PackedSoFar : Handled(p)

\* What is found depends on what has been taken away, and on nothing else.
LEMMA FollowStays == ASSUME UNCHANGED gone, NEW p PROVE Follow("me", p)' = Follow("me", p)
BY DEF Follow, Walk1, There, May

LEMMA WalkStays ==
  ASSUME UNCHANGED gone, NEW through, NEW r, NEW n
  PROVE  Walk1("me", through, r, n)' = Walk1("me", through, r, n)
BY DEF Walk1, There, May

LEMMA LstatStays == ASSUME UNCHANGED gone, NEW p PROVE Lstat("me", p)' = Lstat("me", p)
<1>1. PICK q, n, r : q = Front(p) /\ n = Last(p) /\ r = Follow("me", q) OBVIOUS
<1>2. PICK w : w = Walk1("me", FALSE, r, n) OBVIOUS
<1>3. Follow("me", q)' = r BY <1>1, FollowStays
<1>4. Walk1("me", FALSE, r, n)' = w BY <1>2, WalkStays
<1>5. Lstat("me", p) = IF p = <<>> THEN "dir" ELSE KindAt(w) BY <1>1, <1>2 DEF Lstat
<1>6. Lstat("me", p)' = IF p = <<>> THEN "dir" ELSE KindAt(w) BY <1>1, <1>3, <1>4 DEF Lstat
<1> QED BY <1>5, <1>6

LEMMA FindsStay ==
  ASSUME UNCHANGED gone, NEW p
  PROVE  What(p)' = What(p) /\ (IsLink(p)' <=> IsLink(p))
<1>1. What(p)' = What(p) BY FollowStays DEF What, Stat, KindAt
<1>2. IsLink(p)' <=> IsLink(p) BY LstatStays DEF IsLink
<1> QED BY <1>1, <1>2

LEMMA LookedStays ==
  ASSUME UNCHANGED gone, UNCHANGED follow, NEW p
  PROVE  Looked(p)' = Looked(p)
<1>1. What(p)' = What(p) BY FindsStay
<1>2. Lstat("me", p)' = Lstat("me", p) BY LstatStays
<1> QED BY <1>1, <1>2 DEF Looked

\* What is one name further down, for any directories.
ChildrenMeant ==
  \A s, x : x \in Children(s) <=> \E q \in s : Looked(q) = "dir" /\ \E name \in Listing("me", q) : x = q \o name

LEMMA ChildrenMeantLemma == ChildrenMeant
BY DEF ChildrenMeant, Children

LEMMA ChildrenStay ==
  ASSUME UNCHANGED gone, UNCHANGED follow, NEW s
  PROVE  Children(s)' = Children(s)
<1>1. \A q : Listing("me", q)' = Listing("me", q)
  <2> SUFFICES ASSUME NEW q PROVE Listing("me", q)' = Listing("me", q) OBVIOUS
  <2>1. Follow("me", q)' = Follow("me", q) BY FollowStays
  <2>2. \A x : There(x)' <=> There(x) BY DEF There
  <2> QED BY <2>1, <2>2 DEF Listing
<1>2. \A q : Looked(q)' = Looked(q) BY LookedStays
<1>3. ChildrenMeant BY ChildrenMeantLemma
<1>4. ChildrenMeant' BY ChildrenMeantLemma, PTL
<1>5. \A x : x \in Children(s)' <=> x \in Children(s) BY <1>1, <1>2, <1>3, <1>4 DEF ChildrenMeant
<1> QED BY <1>5

\* What is added to the archive for any path.
AddedByTable == \A p \in Path : \E f : IsBelow(f, p) /\ Added(p) = UNION {f[i] : i \in 0..Depth}

LEMMA AddedByTableLemma == AddedByTable
BY AddedFacts DEF AddedByTable

LEMMA AddedStays ==
  ASSUME UNCHANGED gone, UNCHANGED follow, NEW p \in Path
  PROVE  Added(p)' = Added(p)
<1>0. Depth \in Nat /\ 0 \in 0..Depth BY DepthFacts
<1>1. PICK f : IsBelow(f, p) /\ Added(p) = UNION {f[i] : i \in 0..Depth} BY AddedFacts
<1>2. AddedByTable' BY AddedByTableLemma, PTL
<1>3. PICK g : IsBelow(g, p)' /\ Added(p)' = UNION {g[i] : i \in 0..Depth} BY <1>2 DEF AddedByTable, Depth
<1>4. f[0] = {p} /\ \A i \in 0..Depth - 1 : f[i + 1] = Children(f[i]) BY <1>1 DEF IsBelow
<1>5. g[0] = {p} /\ \A i \in 0..Depth - 1 : g[i + 1] = Children(g[i])
  <2>1. g[0] = {p} /\ \A i \in 0..Depth - 1 : g[i + 1] = Children(g[i])' BY <1>3 DEF IsBelow, Depth
  <2>2. \A s : Children(s)' = Children(s) BY ChildrenStay
  <2> QED BY <2>1, <2>2
<1> DEFINE T == {i \in Nat : i <= Depth => f[i] = g[i]}
<1>6. 0 \in T BY <1>4, <1>5
<1>7. ASSUME NEW i \in Nat, i \in T PROVE i + 1 \in T
  <2> SUFFICES ASSUME i + 1 <= Depth PROVE f[i + 1] = g[i + 1] OBVIOUS
  <2>1. i \in 0..Depth - 1 /\ i <= Depth BY <1>0
  <2> QED BY <1>4, <1>5, <1>7, <2>1
<1> HIDE DEF T
<1>8. Nat \subseteq T BY <1>6, <1>7, Inductive
<1>9. \A i \in 0..Depth : f[i] = g[i] BY <1>0, <1>8 DEF T
<1> QED BY <1>1, <1>3, <1>9

LEMMA ArchivedStays ==
  ASSUME UNCHANGED gone, UNCHANGED follow, NEW p \in Path, NEW rel
  PROVE  Archived(p, rel)' = Archived(p, rel)
<1>1. Added(p)' = Added(p) BY AddedStays
<1>2. \A q : Looked(q)' = Looked(q) BY LookedStays
<1> QED BY <1>1, <1>2 DEF Archived

LEMMA KeptStays ==
  ASSUME UNCHANGED gone, UNCHANGED entries, UNCHANGED relMap
  PROVE  Kept' = Kept
BY DEF Kept, FirstNamed, Outermost, Before, Canon, There, FirstEntry, Paths

\* What is done stays done.
LEMMA PutStays ==
  ASSUME UNCHANGED gone, UNCHANGED relMap, sent \subseteq sent', NEW p, PutThere(p)
  PROVE  PutThere(p)'
<1>1. What(p)' = What(p) /\ (IsLink(p)' <=> IsLink(p)) BY FindsStay
<1> QED BY <1>1 DEF PutThere

LEMMA HandledStays ==
  ASSUME UNCHANGED gone, UNCHANGED follow, UNCHANGED relMap, sent \subseteq sent', NEW p \in Path, Handled(p)
  PROVE  Handled(p)'
<1>1. IsLink(p)' <=> IsLink(p) BY FindsStay
<1>2. Added(p)' = Added(p) BY AddedStays
<1>3. \A q : Looked(q)' = Looked(q) BY LookedStays
<1>4. \A rel : Archived(p, rel)' = Archived(p, rel) BY ArchivedStays
<1>5. Archived(p, relMap[p])' = Archived(p, relMap[p])
  <2> PICK rel : rel = relMap[p] OBVIOUS
  <2>1. Archived(p, rel)' = Archived(p, rel) BY <1>4
  <2> QED BY <2>1
<1> QED BY <1>1, <1>2, <1>3, <1>5 DEF Handled

LEMMA QuietInit == Init => QuietInv
BY DEF Init, QuietInv, PutSoFar

\* The entries that are put.
LEMMA PutQuiet == ASSUME TypeInv, QuietInv, touched = {}, Put PROVE QuietInv'
<1>0. /\ pc = "put" /\ next' = next + 1
      /\ UNCHANGED <<pack, follow, srcs, k, relMap, entries, items, tmp, treeVars>>
      /\ \/ /\ What(Item) = "file" /\ ~IsLink(Item)
            /\ sent' = sent \cup {[file |-> Item, place |-> relMap[Item]]}
            /\ UNCHANGED failed
         \/ IsLink(Item) /\ UNCHANGED <<sent, failed>>
         \/ What(Item) # "other" /\ ~IsLink(Item) /\ failed' = failed \cup {next} /\ UNCHANGED sent
  BY DEF Put, Send, sentVars
<1>1. ~pack /\ ~pack' BY <1>0 DEF TypeInv, PhaseInv
<1>2. gone' = gone /\ relMap' = relMap /\ entries' = entries BY <1>0 DEF treeVars
<1>3. sent \subseteq sent' BY <1>0
<1>4. PutSoFar' \subseteq PutSoFar \cup {Item}
  <2>1. next \in Nat BY DEF TypeInv, PlanTyped
  <2>2. PICK n : n = next OBVIOUS
  <2>3. n \in Nat /\ next' = n + 1 BY <1>0, <2>1, <2>2
  <2>4. PutSoFar' = {entries[i].path : i \in 1..n + 1 - 1} BY <1>2, <2>3 DEF PutSoFar
  <2>5. \A i \in 1..n + 1 - 1 : i \in 1..n - 1 \/ i = n BY <2>3
  <2> QED BY <2>2, <2>4, <2>5 DEF PutSoFar, Item
<1>5. ASSUME failed' = {}, NEW p \in PutSoFar' PROVE PutThere(p)'
  <2>1. CASE p \in PutSoFar
    <3>1. failed = {} BY <1>0, <1>5
    <3>2. PutThere(p) BY <1>1, <2>1, <3>1 DEF QuietInv
    <3> QED BY <1>2, <1>3, <3>2, PutStays
  <2>2. CASE p = Item
    <3>1. CASE IsLink(p)
      <4>1. IsLink(p)' BY <1>2, <3>1, FindsStay
      <4> QED BY <4>1 DEF PutThere
    <3>2. CASE sent' = sent \cup {[file |-> p, place |-> relMap[p]]} BY <1>2, <3>2 DEF PutThere
    <3> QED BY <1>0, <1>5, <2>2, <3>1, <3>2
  <2> QED BY <1>4, <1>5, <2>1, <2>2
<1> QED BY <1>1, <1>5 DEF QuietInv

\* The items that are packed.
LEMMA AddQuiet == ASSUME TypeInv, QuietInv, touched = {}, Add PROVE QuietInv'
<1> PICK p, rel : p = items[next] /\ rel = relMap[p] OBVIOUS
<1>0. /\ pc = "add" /\ next <= Len(items)
      /\ UNCHANGED <<pack, follow, srcs, k, relMap, entries, items, failed, tmp, treeVars>>
      /\ \/ IsLink(p) /\ ~follow /\ next' = next + 1 /\ UNCHANGED <<pc, sent>>
         \/ /\ \A q \in Added(p) : Looked(q) # "none"
            /\ sent' = sent \cup Archived(p, rel) /\ next' = next + 1
         \/ pc' = "raised"
  BY DEF Add, Send, sentVars
<1>1. pack /\ pack' BY <1>0 DEF TypeInv, PhaseInv
<1>2. /\ gone' = gone /\ relMap' = relMap /\ entries' = entries /\ follow' = follow /\ items' = items
  BY <1>0 DEF treeVars
<1>3. sent \subseteq sent' BY DEF Add, Send, sentVars
<1>4. CASE pc' = "raised" BY <1>1, <1>4 DEF QuietInv
<1>5. CASE pc' # "raised"
  <2>1. next' = next + 1 /\ next \in Nat BY <1>0, <1>5 DEF TypeInv, PlanTyped
  <2>2. PackedSoFar' \subseteq PackedSoFar \cup {p}
    <3>1. PICK n : n = next OBVIOUS
    <3>2. n \in Nat /\ next' = n + 1 BY <2>1, <3>1
    <3>3. PackedSoFar' = {items[i] : i \in 1..n + 1 - 1} BY <1>2, <3>2 DEF PackedSoFar
    <3>4. \A i \in 1..n + 1 - 1 : i \in 1..n - 1 \/ i = n BY <3>2
    <3> QED BY <3>1, <3>3, <3>4 DEF PackedSoFar
  <2>3. ToSet(items') = Kept'
    <3>1. Kept' = Kept BY <1>2, KeptStays
    <3> QED BY <1>0, <1>1, <1>2, <3>1 DEF QuietInv
  <2>4. Len(items) \in Nat /\ next \in 1..Len(items) /\ DOMAIN items = 1..Len(items)
        /\ Paths \subseteq Path /\ \A i \in DOMAIN items : items[i] \in Paths
    <3>1. /\ Len(items) \in Nat /\ DOMAIN items = 1..Len(items)
          /\ Paths \subseteq Path /\ \A i \in DOMAIN items : items[i] \in Paths
      BY EntriesTyped DEF TypeInv
    <3>2. next \in 1..Len(items) + 1 BY <1>1 DEF TypeInv, PlanTyped, Queue
    <3>3. next \in 1..Len(items) BY <1>0, <3>1, <3>2
    <3> QED BY <3>1, <3>3
  <2>5. p \in Path BY <2>4
  <2>6. Handled(p)'
    <3>1. CASE IsLink(p) /\ ~follow
      <4>1. IsLink(p)' BY <1>2, <3>1, FindsStay
      <4> QED BY <1>2, <3>1, <4>1 DEF Handled
    <3>2. CASE (\A q \in Added(p) : Looked(q) # "none") /\ sent' = sent \cup Archived(p, rel)
      <4>1. Added(p)' = Added(p) BY <1>2, <2>5, AddedStays
      <4>2. \A q : Looked(q)' = Looked(q) BY <1>2, LookedStays
      <4>3. Archived(p, rel)' = Archived(p, rel) BY <1>2, <2>5, ArchivedStays
      <4>4. relMap'[p] = rel BY <1>2
      <4>5. Archived(p, relMap[p])' \subseteq sent' BY <3>2, <4>3, <4>4
      <4>6. (\A q \in Added(p) : Looked(q) # "none")' BY <3>2, <4>1, <4>2
      <4> QED BY <4>5, <4>6 DEF Handled
    <3> QED BY <1>0, <1>5, <3>1, <3>2
  <2>7. ASSUME NEW q \in PackedSoFar' PROVE Handled(q)'
    <3>1. CASE q \in PackedSoFar
      <4>1. Handled(q) BY <1>0, <1>1, <3>1 DEF QuietInv
      <4>2. q \in Path
        <5>1. PICK i \in 1..next - 1 : q = items[i] BY <3>1 DEF PackedSoFar
        <5>2. i \in 1..Len(items) BY <2>4
        <5> QED BY <2>4, <5>1, <5>2
      <4> QED BY <1>2, <1>3, <4>1, <4>2, HandledStays
    <3>2. CASE q = p BY <2>6, <3>2
    <3> QED BY <2>2, <2>7, <3>1, <3>2
  <2> QED BY <1>1, <2>3, <2>7 DEF QuietInv
<1> QED BY <1>4, <1>5

LEMMA PackQuiet == ASSUME TypeInv, QuietInv, touched = {}, Pack PROVE QuietInv'
<1>0. /\ pc = "pack" /\ UNCHANGED <<pack, follow, srcs, k, relMap, entries, next, sent, twice, failed, treeVars>>
      /\ pc' \in {"add", "raised"}
  BY DEF Pack, sentVars
<1>1. pack' /\ next' = 1 BY <1>0 DEF TypeInv, PhaseInv
<1>2. pc' = "add" => ToSet(items') = Kept BY PackFacts DEF TypeInv
<1>3. Kept' = Kept BY <1>0, KeptStays DEF treeVars
<1>4. PackedSoFar' = {} BY <1>1 DEF PackedSoFar
<1> QED BY <1>0, <1>1, <1>2, <1>3, <1>4 DEF QuietInv

\* A step that is about no entry.
LEMMA PlannedQuiet == ASSUME TypeInv, QuietInv, touched = {}, Planned PROVE QuietInv'
<1>0. /\ pc = "src" /\ pc' = IF entries = <<>> THEN "end" ELSE IF pack THEN "pack" ELSE "put"
      /\ UNCHANGED <<pack, follow, srcs, k, relMap, entries, next, items, sent, twice, failed, tmp, treeVars>>
  BY DEF Planned, sentVars
<1>1. next' = 1 /\ items' = <<>> BY <1>0 DEF TypeInv, PhaseInv
<1>2. PutSoFar' = {} /\ PackedSoFar' = {} BY <1>1 DEF PutSoFar, PackedSoFar
<1>3. pc' \in {"add", "upload", "uploaded", "end"} => ToSet(items') = Kept'
  <2> SUFFICES ASSUME pc' \in {"add", "upload", "uploaded", "end"} PROVE ToSet(items') = Kept' OBVIOUS
  <2>1. entries' = <<>> BY <1>0
  <2>2. Paths' = {} BY <2>1 DEF Paths
  <2>3. Kept' = {} BY <2>2 DEF Kept, FirstNamed, Outermost
  <2>4. ToSet(items') = {} BY <1>1 DEF ToSet
  <2> QED BY <2>3, <2>4
<1> QED BY <1>2, <1>3 DEF QuietInv

\* Nothing of what has been gone through is disturbed.
LEMMA StillQuiet ==
  ASSUME TypeInv, QuietInv, touched = {}, UNCHANGED <<pack, follow, relMap, entries, next, items, sent, failed, gone>>,
         pc' = pc \/ pc \in {"add", "upload", "uploaded"} \/ pc' = "failed"
  PROVE  QuietInv'
<1>0. /\ pack' = pack /\ follow' = follow /\ relMap' = relMap /\ entries' = entries /\ next' = next /\ items' = items
      /\ sent' = sent /\ failed' = failed /\ gone' = gone
  OBVIOUS
<1>1. Kept' = Kept BY <1>0, KeptStays
<1>2. PutSoFar' = PutSoFar /\ PackedSoFar' = PackedSoFar BY <1>0 DEF PutSoFar, PackedSoFar
<1>3. \A p : PutThere(p) => PutThere(p)' BY <1>0, PutStays
<1>4. \A p \in Path : Handled(p) => Handled(p)' BY <1>0, HandledStays
<1>5. ASSUME pack PROVE PackedSoFar \subseteq Path
  <2>1. /\ Len(items) \in Nat /\ DOMAIN items = 1..Len(items)
        /\ Paths \subseteq Path /\ \A i \in DOMAIN items : items[i] \in Paths
    BY EntriesTyped DEF TypeInv
  <2>2. next \in 1..Len(items) + 1 BY <1>5 DEF TypeInv, PlanTyped, Queue
  <2>3. \A i \in 1..next - 1 : i \in 1..Len(items) BY <2>1, <2>2
  <2> QED BY <2>1, <2>3 DEF PackedSoFar
<1>6. pc' \in {"add", "upload", "uploaded", "end"} => pc \in {"add", "upload", "uploaded", "end"} OBVIOUS
<1> QED BY <1>0, <1>1, <1>2, <1>3, <1>4, <1>5, <1>6 DEF QuietInv

\* Before anything is gone through.
LEMMA NotYetQuiet == ASSUME next' = 1, pc' \in {"raised", "src"} PROVE QuietInv'
<1>1. PutSoFar' = {} BY DEF PutSoFar
<1> QED BY <1>1 DEF QuietInv

LEMMA QuietStep == TypeInv /\ QuietInv /\ [Next]_vars => QuietInv'
<1> SUFFICES ASSUME TypeInv, QuietInv, [Next]_vars PROVE QuietInv' OBVIOUS
<1>1. CASE touched' # {} BY <1>1 DEF QuietInv
<1>2. CASE touched' = {}
  <2>1. ~Change
    <3>1. Change => \E p \in Movable : touched' = touched \cup {p} BY DEF Change, ChangeTree
    <3> QED BY <1>2, <3>1
  <2>2. UNCHANGED <<gone, touched>>
    <3>1. Resolve \/ Enumerate \/ Planned \/ Put \/ Pack \/ Add \/ CloseArchive \/ Upload \/ RemoveTmp \/ UNCHANGED vars =>
            UNCHANGED treeVars
      BY DEF Resolve, Enumerate, Planned, Put, Pack, Add, CloseArchive, Upload, RemoveTmp, vars
    <3> QED BY <2>1, <3>1 DEF Next, treeVars
  <2>3. touched = {} BY <1>2, <2>2
  <2>4. CASE Resolve
    <3>1. next' = 1 /\ pc' \in {"raised", "src"} BY <2>4 DEF Resolve, sentVars, TypeInv, PhaseInv
    <3> QED BY <3>1, NotYetQuiet
  <2>5. CASE Enumerate
    <3>1. next' = 1 /\ pc' = "src" BY <2>5 DEF Enumerate, sentVars, TypeInv, PhaseInv
    <3> QED BY <3>1, NotYetQuiet
  <2>6. CASE CloseArchive \/ Upload \/ RemoveTmp
    <3>1. /\ UNCHANGED <<pack, follow, relMap, entries, next, items, sent, failed>>
          /\ pc \in {"add", "upload", "uploaded"} \/ pc' = "failed"
      BY <2>6 DEF CloseArchive, Upload, RemoveTmp, sentVars
    <3> QED BY <2>2, <2>3, <3>1, StillQuiet
  <2>7. CASE UNCHANGED vars
    <3>1. UNCHANGED <<pack, follow, relMap, entries, next, items, sent, failed, pc>> BY <2>7 DEF vars, sentVars
    <3> QED BY <2>2, <2>3, <3>1, StillQuiet
  <2> QED BY <2>1, <2>3, <2>4, <2>5, <2>6, <2>7, PlannedQuiet, PutQuiet, PackQuiet, AddQuiet DEF Next
<1> QED BY <1>1, <1>2

-----------------------------------------------------------------------------
(* The end of a run in which nothing changes                               *)

\* Without --pack, each entry is sent.
LEMMA PutAll ==
  ASSUME TypeInv, QuietInv, pc = "end", touched = {}, failed = {}, ~pack,
         NEW e \in Entries, NEW w \in Asked(e)
  PROVE  (Overridden(e) \/ w \in sent) /\ \E v \in sent : Canon(v.file) = Canon(w.file)
<1>1. w = [file |-> e.path, place |-> e.rel] /\ What(e.path) = "file" /\ ~IsLink(e.path)
  <2>1. CASE What(e.path) = "file" /\ ~IsLink(e.path) BY <2>1 DEF Asked
  <2>2. CASE ~(What(e.path) = "file" /\ ~IsLink(e.path))
    <3>1. Asked(e) = {} BY <2>2 DEF Asked
    <3> QED BY <3>1
  <2> QED BY <2>1, <2>2
<1>2. PICK i \in DOMAIN entries : e = entries[i] BY DEF Entries
<1>3. e.path \in PutSoFar
  <2>1. next = Len(entries) + 1 BY DEF TypeInv, PhaseInv, Queue
  <2>2. Len(entries) \in Nat /\ DOMAIN entries = 1..Len(entries) BY EntriesTyped DEF TypeInv
  <2>3. i \in 1..next - 1 BY <2>1, <2>2
  <2> QED BY <1>2, <2>3 DEF PutSoFar
<1>4. PutThere(e.path) BY <1>3 DEF QuietInv
<1>5. [file |-> e.path, place |-> relMap[e.path]] \in sent BY <1>1, <1>4 DEF PutThere
<1>6. Overridden(e) \/ w \in sent BY <1>1, <1>5 DEF Overridden
<1>7. \E v \in sent : Canon(v.file) = Canon(w.file)
  <2>1. PICK v : v = [file |-> e.path, place |-> relMap[e.path]] OBVIOUS
  <2>2. v.file = e.path /\ w.file = e.path BY <1>1, <2>1
  <2> QED BY <1>5, <2>1, <2>2
<1> QED BY <1>6, <1>7

\* An entry that no other hides is kept.
LEMMA KeptFacts ==
  ASSUME TypeInv, pack, NEW e \in Entries, ~Shadowed(e),
         \A f \in Entries : ~IsStrictPrefix(Canon(f.path), Canon(e.path))
  PROVE  e.path \in Kept
<1>1. \A q \in Paths : \E f \in Entries : q = f.path BY DEF Paths, Entries
<1>2. e.path \in Paths BY DEF Paths, Entries
<1>3. e.path \in Outermost(Paths) BY <1>1, <1>2 DEF Outermost
<1>4. Outermost(Paths) \subseteq Paths BY DEF Outermost
<1>5. ~\E q \in Outermost(Paths) : Before(q, e.path) /\ relMap[q] = relMap[e.path]
  <2> SUFFICES ASSUME NEW q \in Outermost(Paths), Before(q, e.path), relMap[q] = relMap[e.path] PROVE FALSE OBVIOUS
  <2>1. q # e.path
    <3>1. Ordered(BeforePairs, Paths) BY BeforeOrders DEF TypeInv
    <3>2. <<q, e.path>> \in BeforePairs BY <1>2, <1>4 DEF BeforePairs
    <3> QED BY <1>2, <3>1, <3>2 DEF Ordered
  <2>2. PICK f \in Entries : q = f.path BY <1>1, <1>4
  <2> QED BY <2>1, <2>2 DEF Shadowed
<1> QED BY <1>3, <1>5 DEF Kept, FirstNamed

\* What is kept is in the archive.
LEMMA KeptHandled ==
  ASSUME TypeInv, QuietInv, pc = "end", touched = {}, pack, NEW p \in Kept
  PROVE  Handled(p)
<1>1. ToSet(items) = Kept /\ \A q \in PackedSoFar : Handled(q) BY DEF QuietInv
<1>2. PICK i \in DOMAIN items : p = items[i] BY <1>1 DEF ToSet
<1>3. next = Len(items) + 1 BY DEF TypeInv, PhaseInv, Queue
<1>4. Len(items) \in Nat /\ DOMAIN items = 1..Len(items) BY EntriesTyped DEF TypeInv
<1>5. i \in 1..next - 1 BY <1>3, <1>4
<1> QED BY <1>1, <1>2, <1>5 DEF PackedSoFar

\* Of the entries that contain one, there is one that no other contains.
LEMMA OutermostEntry ==
  ASSUME TypeInv, pack, NEW e \in Entries
  PROVE  \E f \in Within(e) : \A g \in Entries : ~IsStrictPrefix(Canon(g.path), Canon(f.path))
<1>1. \A f \in Entries : f.path \in Path /\ Canon(f.path) \in Path /\ Len(Canon(f.path)) \in Nat
  <2> SUFFICES ASSUME NEW f \in Entries PROVE f.path \in Path /\ Canon(f.path) \in Path /\ Len(Canon(f.path)) \in Nat
    OBVIOUS
  <2>1. f.path \in Path
    <3>1. PICK i \in DOMAIN entries : f = entries[i] BY DEF Entries
    <3> QED BY <3>1, EntriesTyped DEF TypeInv
  <2> QED BY <2>1, CanonFacts, PathLen
<1> DEFINE T == {Len(Canon(f.path)) : f \in Within(e)}
<1>2. Within(e) \subseteq Entries BY DEF Within
<1>3. e \in Within(e)
  <2>1. IsPrefix(Canon(e.path), Canon(e.path)) BY <1>1, PrefixFacts
  <2> QED BY <2>1 DEF Within
<1>4. T \subseteq Nat /\ T # {} BY <1>1, <1>2, <1>3
<1>5. PICK n \in T : \A m \in T : n <= m
  <2> HIDE DEF T
  <2> QED BY <1>4, LeastNat
<1>6. PICK f \in Within(e) : n = Len(Canon(f.path)) BY <1>5
<1>7. ASSUME NEW g \in Entries, IsStrictPrefix(Canon(g.path), Canon(f.path)) PROVE FALSE
  <2> PICK a, b, c : a = Canon(g.path) /\ b = Canon(f.path) /\ c = Canon(e.path) OBVIOUS
  <2>1. a \in Path /\ b \in Path /\ c \in Path BY <1>1, <1>2
  <2>2. IsPrefix(a, b) /\ Len(a) < Len(b) BY <1>7, <2>1, PrefixFacts
  <2>3. IsPrefix(b, c) BY <1>6 DEF Within
  <2>4. IsPrefix(a, c)
    <3>1. Len(a) <= Len(b) /\ \A j \in 1..Len(a) : a[j] = b[j] BY <2>1, <2>2, PrefixFacts
    <3>2. Len(b) <= Len(c) /\ \A j \in 1..Len(b) : b[j] = c[j] BY <2>1, <2>3, PrefixFacts
    <3>3. Len(a) \in Nat /\ Len(b) \in Nat /\ Len(c) \in Nat BY <2>1, PathLen
    <3>4. Len(a) <= Len(c) /\ \A j \in 1..Len(a) : j \in 1..Len(b) BY <3>1, <3>2, <3>3
    <3>5. \A j \in 1..Len(a) : a[j] = c[j] BY <3>1, <3>2, <3>4
    <3> QED BY <2>1, <3>4, <3>5, PrefixFacts
  <2>5. g \in Within(e) BY <2>4 DEF Within
  <2>6. Len(a) \in T BY <2>5
  <2> HIDE DEF T
  <2>7. Len(b) <= Len(a) BY <1>5, <1>6, <2>6
  <2>8. Len(a) \in Nat /\ Len(b) \in Nat BY <2>1, PathLen
  <2> QED BY <2>2, <2>7, <2>8
<1> QED BY <1>6, <1>7

\* With --pack, each entry is sent unless another stands for it, and its files are sent then.
LEMMA PackAll ==
  ASSUME TypeInv, QuietInv, pc = "end", touched = {}, pack, NEW e \in Entries, NEW w \in Asked(e)
  PROVE  /\ Overridden(e) \/ Shadowed(e) \/ Inner(e) \/ w \in sent
         /\ \/ \E v \in sent : Canon(v.file) = Canon(w.file)
            \/ \E f \in Within(e) : Shadowed(f) \/ (IsLink(f.path) /\ ~follow)
<1>0. \A f \in Entries : f.path \in Path /\ f.rel \in Path /\ relMap[f.path] \in Path /\ Canon(f.path) \in Path
  <2> SUFFICES ASSUME NEW f \in Entries PROVE f.path \in Path /\ f.rel \in Path /\ relMap[f.path] \in Path /\ Canon(f.path) \in Path
    OBVIOUS
  <2>1. PICK i \in DOMAIN entries : f = entries[i] BY DEF Entries
  <2>2. f.path \in Path /\ f.rel \in Path /\ f.path \in DOMAIN relMap BY <2>1, EntriesTyped DEF TypeInv
  <2> QED BY <2>2, CanonFacts DEF TypeInv, PlanTyped
<1>1. ~(IsLink(e.path) /\ ~follow) /\ w \in Archived(e.path, e.rel)
  <2>1. CASE IsLink(e.path) /\ ~follow
    <3>1. Asked(e) = {} BY <2>1 DEF Asked
    <3> QED BY <3>1
  <2>2. CASE ~(IsLink(e.path) /\ ~follow)
    <3>1. Asked(e) = Archived(e.path, e.rel) BY <2>2 DEF Asked
    <3> QED BY <2>2, <3>1
  <2> QED BY <2>1, <2>2
<1>2. Overridden(e) \/ Shadowed(e) \/ Inner(e) \/ w \in sent
  <2> SUFFICES ASSUME ~Overridden(e), ~Shadowed(e), ~Inner(e) PROVE w \in sent OBVIOUS
  <2>1. \A f \in Entries : ~IsStrictPrefix(Canon(f.path), Canon(e.path))
    <3> SUFFICES ASSUME NEW f \in Entries, IsStrictPrefix(Canon(f.path), Canon(e.path)) PROVE FALSE OBVIOUS
    <3>1. IsPrefix(Canon(f.path), Canon(e.path)) /\ Canon(f.path) # Canon(e.path) BY DEF IsStrictPrefix
    <3> QED BY <3>1 DEF Inner, Within
  <2>2. e.path \in Kept BY <2>1, KeptFacts
  <2>3. Handled(e.path) BY <2>2, KeptHandled
  <2>4. relMap[e.path] = e.rel BY DEF Overridden
  <2> QED BY <1>1, <2>3, <2>4 DEF Handled
<1>3. ASSUME \A f \in Within(e) : ~Shadowed(f) /\ ~(IsLink(f.path) /\ ~follow)
      PROVE  \E v \in sent : Canon(v.file) = Canon(w.file)
  <2>1. PICK f \in Within(e) : \A g \in Entries : ~IsStrictPrefix(Canon(g.path), Canon(f.path)) BY OutermostEntry
  <2>2. f \in Entries /\ IsPrefix(Canon(f.path), Canon(e.path)) BY DEF Within
  <2>3. f.path \in Kept BY <1>3, <2>1, <2>2, KeptFacts
  <2>4. (\A q \in Added(f.path) : Looked(q) # "none") /\ Archived(f.path, relMap[f.path]) \subseteq sent
    BY <1>3, <2>3, KeptHandled DEF Handled
  <2> PICK p, g, z, rel : p = e.path /\ g = f.path /\ z = w.file /\ rel = relMap[f.path] OBVIOUS
  <2>5. z \in Added(p) /\ Looked(z) = "file" BY <1>0, <1>1, ArchivedFacts
  <2>6. PICK y \in Added(g) : Looked(y) = "file" /\ Canon(y) = Canon(z)
    BY <1>0, <1>1, <1>3, <2>2, <2>4, <2>5, AddedOnce
  <2>7. PICK v : v = [file |-> y, place |-> rel \o SubSeq(y, Len(g) + 1, Len(y))] OBVIOUS
  <2>8. v \in Archived(g, rel) BY <2>6, <2>7 DEF Archived
  <2>9. v \in sent /\ v.file = y BY <2>4, <2>7, <2>8
  <2> QED BY <2>6, <2>9
<1> QED BY <1>2, <1>3

\* The end.
LEMMA PlacedImplied == TypeInv /\ PlaceInv /\ QuietInv => Placed
<1> SUFFICES ASSUME TypeInv, PlaceInv, QuietInv PROVE Placed OBVIOUS
<1>1. \A w \in sent : \E i \in DOMAIN srcs : IsPrefix(Abs(srcs[i]), w.file) /\ w.place = RelOf(srcs[i], w.file)
  BY DEF PlaceInv, PlacedBy
<1>2. ASSUME pc = "end", touched = {}, failed = {}, NEW e \in Entries, NEW w \in Asked(e)
      PROVE  /\ Overridden(e) \/ Shadowed(e) \/ Inner(e) \/ w \in sent
             /\ \/ \E v \in sent : Canon(v.file) = Canon(w.file)
                \/ \E f \in Within(e) : Shadowed(f) \/ (IsLink(f.path) /\ ~follow)
  <2>1. CASE pack BY <1>2, <2>1, PackAll
  <2>2. CASE ~pack BY <1>2, <2>2, PutAll
  <2> QED BY <2>1, <2>2
<1> QED BY <1>1, <1>2 DEF Placed, Quiet

LEMMA PlacedInit == Init => PlaceInv /\ QuietInv
BY PlaceInit, QuietInit

LEMMA PlacedStep == TypeInv /\ PlaceInv /\ QuietInv /\ [Next]_vars => PlaceInv' /\ QuietInv'
BY PlaceStep, QuietStep

\* Nothing is sent but to the place that some SRC gives it; and a run in which nothing changes or
\* fails sends every file of the plan, to its place unless a later SRC has moved it or, with --pack,
\* another entry stands for it; with --pack, unless an entry it is dropped for is a link that is
\* not followed or is itself dropped for another of its place (_build_plan_for_host, push_one,
\* local_pack_paths_to_tmp). How often a file is sent is left open.
THEOREM AllPlaced == Spec => []Placed
<1>1. Spec => [](TypeInv /\ PlaceInv /\ QuietInv)
  BY TypeInit, TypeStep, PlacedInit, PlacedStep, PTL DEF Spec
<1> QED BY <1>1, PlacedImplied, PTL
=============================================================================
