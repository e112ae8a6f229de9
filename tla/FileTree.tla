------------------------------ MODULE FileTree -------------------------------
(***************************************************************************)
(* A tree of files that other processes change while the tools look at it: *)
(* the remote host's in GatherFiles, the local one in ScatterPlan. Paths   *)
(* are sequences of names. A node is taken away, or comes back, with all   *)
(* that is below it.                                                       *)
(***************************************************************************)
EXTENDS Integers, Sequences, FiniteSets, SequencesExt

CONSTANTS
  Kind,          \* path -> "dir", "file", "link" or "other", for all but the root
  LinkTo,        \* links -> the path of what they stand for, which is no link
  Names,         \* all names, in order
  Private,       \* directories that only the superuser may use
  MaxLinks,      \* links that are followed in one path
  Movable,       \* bound: nodes that are taken away or come back,
  MaxChanges     \* bound: and how often one is

Node == DOMAIN Kind
Path == Seq(ToSet(Names))
Up == ".."

\* What is below the root is in a directory, and what a link stands for is looked up.
ASSUME TreeAssumption ==
  /\ Names \in Seq(ToSet(Names))
  /\ IsFiniteSet(Node) /\ Node \subseteq Path
  /\ \A p \in Node :
       /\ p # <<>> /\ Up \notin ToSet(p)
       /\ Kind[p] \in {"dir", "file", "link", "other"}
       /\ Len(p) > 1 => Front(p) \in Node /\ Kind[Front(p)] = "dir"
       /\ Kind[p] = "link" =>
            LinkTo[p] \in Path /\ (LinkTo[p] \in Node => Kind[LinkTo[p]] # "link")
  /\ Movable \subseteq Node
  /\ {MaxLinks, MaxChanges} \subseteq Nat

VARIABLES
  gone,          \* nodes taken away
  touched,       \* history: nodes that have changed
  changes

treeVars == <<gone, touched, changes>>

TreeInit == gone = {} /\ touched = {} /\ changes = 0

ChangeTree ==
  /\ changes < MaxChanges
  /\ \E p \in Movable :
       /\ gone' = IF p \in gone THEN gone \ {p} ELSE gone \cup {p}
       /\ touched' = touched \cup {p}
  /\ changes' = changes + 1

TreeTypeOK ==
  /\ gone \subseteq touched /\ touched \subseteq Node
  /\ changes \in 0..MaxChanges

-----------------------------------------------------------------------------
(* What a user finds                                                       *)

Along(p) == Prefixes(p) \ {<<>>}
There(p) == Along(p) \subseteq Node \ gone
May(user, p) == user = "root" \/ ~\E q \in Private : IsStrictPrefix(q, p)

\* From the real directory r.at one name on: "via" is what has been looked at, too many
\* links are none that can be followed.
Walk1(user, follow, r, name) ==
  LET child == Append(r.at, name)
      to == LinkTo[child]
  IN IF ~r.ok THEN r
     ELSE IF name = Up THEN [r EXCEPT !.at = IF r.at = <<>> THEN r.at ELSE Front(r.at)]
     ELSE IF ~There(child) \/ ~May(user, child) THEN [r EXCEPT !.ok = FALSE, !.via = @ \cup {child}]
     ELSE IF Kind[child] # "link" \/ ~follow THEN [r EXCEPT !.at = child, !.via = @ \cup {child}]
     ELSE [ok |-> r.links < MaxLinks /\ There(to) /\ May(user, to), at |-> to,
           links |-> r.links + 1, via |-> r.via \cup {child} \cup Along(to)]

\* One state after each name: the sets hold one each, which TLC then evaluates once.
Follow(user, p) ==
  LET found[i \in 0..Len(p)] ==
        IF i = 0 THEN {[ok |-> TRUE, at |-> <<>>, links |-> 0, via |-> {}]}
        ELSE {Walk1(user, TRUE, r, p[i]) : r \in found[i - 1]}
  IN CHOOSE r \in found[Len(p)] : TRUE

\* stat() and lstat(); nothing is below what is not a directory.
KindAt(r) == IF ~r.ok THEN "none" ELSE IF r.at = <<>> THEN "dir" ELSE Kind[r.at]
Stat(user, p) == KindAt(Follow(user, p))
Lstat(user, p) ==
  IF p = <<>> THEN "dir" ELSE KindAt(Walk1(user, FALSE, Follow(user, Front(p)), Last(p)))

Listable(user, p) ==
  Stat(user, p) = "dir" /\ (user = "root" \/ Follow(user, p).at \notin Private)
\* listdir(): each name is a path of its own.
Listing(user, p) ==
  LET at == Follow(user, p).at IN {name \in {<<n>> : n \in ToSet(Names)} : There(at \o name)}

\* The nodes below a directory, and the paths of those at or below it, no link being followed.
Under(user, p) ==
  {q \in Node : IsStrictPrefix(Follow(user, p).at, q) /\ There(q) /\ May(user, q)}
Renamed(user, p, q) == p \o SubSeq(q, Len(Follow(user, p).at) + 1, Len(q))

\* os.walk(followlinks=False): all that is no directory, in directories that are no links.
OsWalk(user, p) ==
  IF Stat(user, p) # "dir" THEN {}
  ELSE {q \in {Renamed(user, p, n) : n \in Under(user, p)} : Stat(user, q) # "dir"}

\* sorted(): the order of their first different names.
Rank(n) == CHOOSE i \in DOMAIN Names : Names[i] = n
Earlier(p, q) ==
  \/ IsStrictPrefix(p, q)
  \/ \E i \in DOMAIN p \cap DOMAIN q :
       SubSeq(p, 1, i - 1) = SubSeq(q, 1, i - 1) /\ Rank(p[i]) < Rank(q[i])
\* How many come before each, and by that the n-th; again one of each in a set.
Sorted(paths) ==
  CHOOSE list \in
    {[n \in 1..Cardinality(paths) |-> CHOOSE p \in paths : before[p] = n - 1] :
       before \in {[p \in paths |-> Cardinality({q \in paths : Earlier(q, p)})]}} : TRUE

\* re.search() finds its names anywhere in the path below the root.
Found(tail, rel) ==
  \E i \in 0..(Len(rel) - Len(tail)) : \A j \in DOMAIN tail : rel[i + j] \in tail[j]
=============================================================================
