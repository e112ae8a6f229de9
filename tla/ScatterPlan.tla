----------------------------- MODULE ScatterPlan -----------------------------
(***************************************************************************)
(* What gm-scatter sends to one host, and where to: _build_plan_for_host() *)
(* finds the files of every SRC and the relative path below DEST for each; *)
(* then the entries are put one by one (SftpPut), or, with --pack, the     *)
(* first call of push_one packs all of them into a local archive           *)
(* (local_pack_paths_to_tmp) that PackUpload takes from there.             *)
(*                                                                         *)
(* The local tree may change between two steps; what one SRC stands for,   *)
(* and what goes into the archive for one entry, is looked up in one step. *)
(* SRC is given parsed, "~/" expanded; Windows paths are left out.         *)
(***************************************************************************)
EXTENDS FileTree

CONSTANTS
  Cwd,           \* the current directory, a real one
  Requests       \* lists of SRC: from "root" or "cwd", the path, whether it is a regular
                 \* expression and what that looks for below the path

ASSUME ScatterAssumption ==
  /\ Cwd \in Path
  /\ Requests \subseteq
       Seq([from : {"root", "cwd"}, path : Path, rx : BOOLEAN, tail : Seq(SUBSET ToSet(Names))])

VARIABLES
  pc,            \* what happens next
  pack, follow,  \* --pack, --follow-symlinks
  srcs, k,       \* the SRC list and how many have been enumerated
  relMap,        \* remote_rel_map: local path -> path below DEST
  entries,       \* the plan: local path, path below DEST, is it a directory?
  next,          \* the entry, or the item of the archive, that comes next
  items,         \* what goes into the archive, in order
  sent,          \* local files with where they go below DEST
  twice,         \* history: those sent there more than once
  failed,        \* entries that could not be put
  tmp            \* is there a temporary directory?

sentVars == <<sent, twice>>
vars == <<pc, pack, follow, srcs, k, relMap, entries, next, items, sentVars, failed, tmp, treeVars>>

Init ==
  /\ pc = "resolve"
  /\ pack \in BOOLEAN /\ follow \in BOOLEAN
  /\ srcs \in Requests /\ k = 0
  /\ relMap = [p \in {} |-> <<>>]
  /\ entries = <<>> /\ next = 1 /\ items = <<>>
  /\ sent = {} /\ twice = {} /\ failed = {}
  /\ tmp = FALSE
  /\ TreeInit

What(p) == Stat("me", p)
IsLink(p) == Lstat("me", p) = "link"

-----------------------------------------------------------------------------
(* SRC: resolve_token_for_scatter(), enumerate_candidates_local()          *)

\* abspath(): ".." takes a name away, links or not; realpath(), which follows links.
Collapse(p) ==
  FoldLeft(LAMBDA q, n : IF n # Up THEN Append(q, n) ELSE IF q = <<>> THEN q ELSE Front(q), <<>>, p)
Canon(p) ==
  LET real[i \in 0..Len(p)] ==
        IF i = 0 THEN {<<>>}
        ELSE {IF There(Append(q, p[i])) /\ Kind[Append(q, p[i])] = "link" THEN LinkTo[Append(q, p[i])]
              ELSE IF p[i] = Up THEN IF q = <<>> THEN q ELSE Front(q)
              ELSE Append(q, p[i]) : q \in real[i - 1]}
  IN CHOOSE q \in real[Len(p)] : TRUE

Abs(s) == Collapse((IF s.from = "root" THEN <<>> ELSE Cwd) \o s.path)

\* A relative SRC that leads out of the current directory, by ".." or by a link, ends the tool.
Climbs(p) == \E i \in DOMAIN p : 2 * Cardinality({j \in 1..i : p[j] = Up}) > i
Rejected(s) == s.from = "cwd" /\ (Climbs(s.path) \/ ~IsPrefix(Cwd, Canon(Cwd \o s.path)))

\* Where it goes: an absolute path as it is, a relative one as it was given; what a regular
\* expression finds always as an absolute one.
RelBase(s) == IF s.from = "root" \/ s.rx THEN Abs(s) ELSE Collapse(s.path)
RelOf(s, p) == RelBase(s) \o SubSeq(p, Len(Abs(s)) + 1, Len(p))

\* A literal is what is there, a directory too; a regular expression finds files and links,
\* and also the directory it begins at if it matches the empty path.
Raw(s) == IF s.from = "root" THEN s.path ELSE Abs(s)
Searched(s) ==
  LET rels == {SubSeq(q, Len(Raw(s)) + 1, Len(q)) : q \in OsWalk("me", Raw(s))} IN
  {Abs(s) \o rel : rel \in {r \in rels : Found(s.tail, r)}}
Candidates(s) ==
  IF ~s.rx THEN IF What(Raw(s)) # "none" THEN {Abs(s)} ELSE {}
  ELSE IF What(Raw(s)) # "dir" THEN {}
  ELSE Searched(s) \cup IF s.tail = <<>> THEN {Abs(s)} ELSE {}

-----------------------------------------------------------------------------
(* _build_plan_for_host()                                                  *)

Resolve ==
  /\ pc = "resolve"
  /\ pc' = IF \E i \in DOMAIN srcs : Rejected(srcs[i]) THEN "raised" ELSE "src"
  /\ UNCHANGED <<pack, follow, srcs, k, relMap, entries, next, items, sentVars, failed, tmp, treeVars>>

\* A path that several SRC stand for keeps what the last of them says. The files of one SRC
\* come in the order of os.walk(), which nothing depends on; here they are sorted.
EnumerateReal ==                            \* mutant: looked up by the real path
  /\ pc = "src" /\ k < Len(srcs)
  /\ LET s == srcs[k + 1]
         found == Sorted({p \in Candidates(s) : pack \/ What(p) # "dir"})
         keys == {Canon(p) : p \in ToSet(found)} \cup {Abs(s)}
     IN /\ relMap' = [p \in DOMAIN relMap \cup keys |-> IF p \in keys THEN RelOf(s, p) ELSE relMap[p]]
        /\ entries' = entries \o [i \in DOMAIN found |-> [path |-> found[i], rel |-> RelOf(s, found[i])]]
  /\ k' = k + 1
  /\ UNCHANGED <<pc, pack, follow, srcs, next, items, sentVars, failed, tmp, treeVars>>
Enumerate ==
  /\ pc = "src"
  /\ k < Len(srcs)
  /\ LET s == srcs[k + 1]
         found == Sorted({p \in Candidates(s) : pack \/ What(p) # "dir"})
         keys == ToSet(found) \cup {Abs(s)}
     IN /\ relMap' = [p \in DOMAIN relMap \cup keys |-> IF p \in keys THEN RelOf(s, p) ELSE relMap[p]]
        /\ entries' = entries \o [i \in DOMAIN found |-> [path |-> found[i], rel |-> RelOf(s, found[i])]]
  /\ k' = k + 1
  /\ UNCHANGED <<pc, pack, follow, srcs, next, items, sentVars, failed, tmp, treeVars>>

Planned ==
  /\ pc = "src"
  /\ k = Len(srcs)
  /\ pc' = IF entries = <<>> THEN "end" ELSE IF pack THEN "pack" ELSE "put"
  /\ UNCHANGED <<pack, follow, srcs, k, relMap, entries, next, items, sentVars, failed, tmp, treeVars>>

-----------------------------------------------------------------------------
(* push_one without --pack                                                 *)

Send(files) == sent' = sent \cup files /\ twice' = twice \cup (sent \cap files)

\* sftp_put_one() ignores links; opening what is no file blocks.
Item == entries[next].path
Put ==
  /\ pc = "put"
  /\ next' = next + 1
  /\ \/ What(Item) = "file" /\ ~IsLink(Item)
        /\ Send({[file |-> Item, place |-> relMap[Item]]})
        /\ UNCHANGED failed
     \/ IsLink(Item) /\ UNCHANGED <<sentVars, failed>>
     \/ What(Item) # "other" /\ ~IsLink(Item) /\ failed' = failed \cup {next} /\ UNCHANGED sentVars
  /\ pc' = IF next = Len(entries) THEN "end" ELSE pc
  /\ UNCHANGED <<pack, follow, srcs, k, relMap, entries, items, tmp, treeVars>>

-----------------------------------------------------------------------------
(* push_one with --pack                                                    *)

\* Entries are told apart by their local paths, parents by real ones: sorted by depth (the
\* code also by length, names being equally long here), a parent comes before its children,
\* which are left out; of those with one name in the archive, so are all but the first.
Paths == {entries[i].path : i \in DOMAIN entries}
FirstEntry(p) == CHOOSE i \in DOMAIN entries : entries[i].path = p /\ \A j \in 1..i - 1 : entries[j].path # p
Before(p, q) ==
  LET cp == Canon(p)
      cq == Canon(q)
  IN \/ Len(cp) < Len(cq)
     \/ Len(cp) = Len(cq) /\ (Earlier(cp, cq) \/ (cp = cq /\ FirstEntry(p) < FirstEntry(q)))
OutermostReal(paths) ==                     \* mutant: two names of one file or directory
  {p \in paths : ~\E q \in paths : IsPrefix(Canon(q), Canon(p)) /\ Before(q, p)}
Outermost(paths) == {p \in paths : ~\E q \in paths : IsStrictPrefix(Canon(q), Canon(p))}
FirstNamed(paths) == {p \in paths : ~\E q \in paths : Before(q, p) /\ relMap[q] = relMap[p]}

Pack ==
  /\ pc = "pack"
  /\ \/ /\ pc' = "add" /\ tmp' = TRUE
        /\ LET kept == FirstNamed(Outermost(Paths)) IN
           items' = [i \in 1..Cardinality(kept) |->
                      CHOOSE p \in kept : Cardinality({q \in kept : Before(q, p)}) = i - 1]
     \/ pc' = "raised" /\ UNCHANGED <<tmp, items>>       \* mkdtemp() raises
  /\ UNCHANGED <<pack, follow, srcs, k, relMap, entries, next, sentVars, failed, treeVars>>

\* tarfile.add(): what is at or below p, through links if they are followed.
Looked(p) == IF follow THEN What(p) ELSE Lstat("me", p)
Added(p) ==
  LET below[i \in 0..(MaxLinks + 1) * Cardinality(Node)] ==
        IF i = 0 THEN {p}
        ELSE UNION {{q \o name : name \in Listing("me", q)} :
                    q \in {r \in below[i - 1] : Looked(r) = "dir"}}
  IN UNION {below[i] : i \in DOMAIN below}
Archived(p, rel) ==
  {[file |-> q, place |-> rel \o SubSeq(q, Len(p) + 1, Len(q))] : q \in {r \in Added(p) : Looked(r) = "file"}}

\* A link that is not followed is left out, one that leads nowhere or round ends the packing,
\* and so does whatever else goes wrong: the directory stays.
Add ==
  /\ pc = "add"
  /\ next <= Len(items)
  /\ \/ IsLink(items[next]) /\ ~follow /\ next' = next + 1 /\ UNCHANGED <<pc, sentVars>>
     \/ /\ ~IsLink(items[next]) \/ follow
        /\ \A q \in Added(items[next]) : Looked(q) # "none"
        /\ Send(Archived(items[next], relMap[items[next]]))
        /\ next' = next + 1
        /\ UNCHANGED pc
     \/ ~(IsLink(items[next]) /\ ~follow) /\ pc' = "raised" /\ UNCHANGED <<sentVars, next>>
  /\ UNCHANGED <<pack, follow, srcs, k, relMap, entries, items, failed, tmp, treeVars>>

\* The archive is closed, or that fails: the directory stays.
CloseArchive ==
  /\ pc = "add" /\ next > Len(items)
  /\ pc' \in {"upload", "raised"}
  /\ UNCHANGED <<pack, follow, srcs, k, relMap, entries, next, items, sentVars, failed, tmp, treeVars>>

\* upload_pack_and_extract() returns or raises; the finally clause removes the directory, or
\* fails to without a word.
Upload ==
  /\ pc = "upload"
  /\ pc' \in {"uploaded", "thrown"}
  /\ UNCHANGED <<pack, follow, srcs, k, relMap, entries, next, items, sentVars, failed, tmp, treeVars>>
RemoveTmp ==
  /\ pc \in {"uploaded", "thrown"}
  /\ pc' = IF pc = "uploaded" THEN "end" ELSE "failed"
  /\ tmp' \in {FALSE, tmp}
  /\ UNCHANGED <<pack, follow, srcs, k, relMap, entries, next, items, sentVars, failed, treeVars>>

-----------------------------------------------------------------------------
(* The local host, and the whole                                           *)

Change ==
  /\ pc \notin {"end", "raised", "failed"}
  /\ ChangeTree
  /\ UNCHANGED <<pc, pack, follow, srcs, k, relMap, entries, next, items, sentVars, failed, tmp>>

Next == Resolve \/ Enumerate \/ Planned \/ Put \/ Pack \/ Add \/ CloseArchive \/ Upload \/ RemoveTmp
        \/ Change

Spec == Init /\ [][Next]_vars

-----------------------------------------------------------------------------
(* Properties                                                              *)

\* The type of every variable; next stays within what it counts, relMap has all entries.
TypeOK ==
  /\ pc \in {"resolve", "src", "put", "pack", "add", "upload", "uploaded", "thrown", "end", "raised", "failed"}
  /\ {pack, follow, tmp} \subseteq BOOLEAN
  /\ srcs \in Requests /\ k \in 0..Len(srcs)
  /\ \A p \in DOMAIN relMap : p \in Path /\ relMap[p] \in Path
  /\ \A i \in DOMAIN entries : entries[i].path \in DOMAIN relMap /\ entries[i].rel \in Path
  /\ next \in 1..Len(IF pack THEN items ELSE entries) + 1
  /\ ToSet(items) \subseteq Paths
  /\ \A w \in sent : w.file \in Path /\ w.place \in Path
  /\ twice \subseteq sent
  /\ failed \subseteq DOMAIN entries
  /\ TreeTypeOK

\* What an entry asks for: its file, or all below its directory, at the place of its own SRC.
Asked(e) ==
  IF pack THEN IF IsLink(e.path) /\ ~follow THEN {} ELSE Archived(e.path, e.rel)
  ELSE IF What(e.path) = "file" /\ ~IsLink(e.path) THEN {[file |-> e.path, place |-> e.rel]} ELSE {}

Entries == {entries[i] : i \in DOMAIN entries}
\* A later SRC gives its path another place; its place is another entry's as well; it is below
\* another entry.
Overridden(e) == relMap[e.path] # e.rel
Shadowed(e) == pack /\ \E f \in Entries : f.path # e.path /\ relMap[f.path] = relMap[e.path]
Within(e) == {f \in Entries : pack /\ IsPrefix(Canon(f.path), Canon(e.path))}
Inner(e) == \E f \in Within(e) : Canon(f.path) # Canon(e.path)

\* The layout below DEST (_build_plan_for_host, push_one, local_pack_paths_to_tmp): nothing is
\* sent but to the place of an SRC that stands for it. A run in which nothing changes or fails
\* sends every file of the plan to the place of its SRC, except where a later SRC has moved it
\* (LayoutKept) or, with --pack, it is below another entry or shares its place with one; and even
\* then it sends it, by one of its names, unless an entry it is dropped for is a link that is not
\* followed, or has itself been dropped for one of the same place (AllPacked). Whether it is sent
\* more than once is not said here (SentOnce).
Quiet == pc = "end" /\ touched = {} /\ failed = {}
Placed ==
  /\ \A w \in sent : \E i \in DOMAIN srcs :
       IsPrefix(Abs(srcs[i]), w.file) /\ w.place = RelOf(srcs[i], w.file)
  /\ Quiet =>
       \A e \in Entries : \A w \in Asked(e) :
         /\ Overridden(e) \/ Shadowed(e) \/ Inner(e) \/ w \in sent
         /\ \/ \E v \in sent : Canon(v.file) = Canon(w.file)
            \/ \E f \in Within(e) : Shadowed(f) \/ (IsLink(f.path) /\ ~follow)

\* "What is given repeatedly is handled once" (gm-scatter's specification): no file is sent to
\* one place twice. _build_plan_for_host() looks for the files of each SRC alone.
SentOnce == twice = {}

\* "A relative path keeps its structure as given" (gm-scatter's specification): without --pack
\* every entry's file goes to the place of its own SRC. remote_rel_map has one place for a path.
LayoutKept == Quiet /\ ~pack => \A e \in Entries : Asked(e) \subseteq sent

\* "All that is to be sent is packed together" (gm-scatter's specification): with --pack every
\* file an entry asks for goes into the archive under one of its names. local_pack_paths_to_tmp()
\* drops it for an entry that it leaves out, too.
AllPacked == Quiet /\ pack => \A e \in Entries : \A w \in Asked(e) : \E v \in sent : Canon(v.file) = Canon(w.file)

\* "Directories are walked, and the files in them sent one by one" (gm-scatter's specification):
\* without --pack the files in a directory given as SRC are sent. _build_plan_for_host() drops it.
DirsSent ==
  Quiet /\ ~pack =>
    \A i \in DOMAIN srcs : ~srcs[i].rx /\ Lstat("me", Raw(srcs[i])) = "dir" =>
      \A p \in OsWalk("me", Raw(srcs[i])) : Lstat("me", p) = "file" => \E w \in sent : Canon(w.file) = Canon(p)

\* "At the end the local temporary files are removed" (gm-scatter's specification): when the call
\* is over the archive's directory is gone. The clean-up covers the upload only.
TmpGone == pc \in {"end", "failed", "raised"} => ~tmp
=============================================================================
