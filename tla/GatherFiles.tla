----------------------------- MODULE GatherFiles -----------------------------
(***************************************************************************)
(* One host's part of gm-gather: _build_plan_for_host() turns the SRC      *)
(* arguments into a plan, by asking the remote host one thing after        *)
(* another, and without --pack run_host_gather() then gets the plan's      *)
(* files one by one (PackDownload is what happens with --pack).            *)
(*                                                                         *)
(* The remote tree may change between two calls. Calls may fail, and so do *)
(* all once the session is lost. SRC is given parsed: a path and, for a    *)
(* regular expression, what it looks for; the folding of "./", "//" and    *)
(* "\" and Windows paths are left out.                                     *)
(***************************************************************************)
EXTENDS FileTree

CONSTANTS
  Safe,          \* name -> what _sanitize_remote_abs_for_local() makes of it
  Home,          \* the home directory of the remote user
  Requests,      \* lists of SRC: from where, which path, and what to look for below it
  FollowSymlinks, \* --follow-symlinks: handed on, but looked at by nothing
  MaxFaults      \* bound: calls that fail while the session is up

ASSUME GatherAssumption ==
  /\ Home \in Path /\ FollowSymlinks \in BOOLEAN /\ MaxFaults \in Nat
  /\ ToSet(Names) \subseteq DOMAIN Safe
  /\ Requests \subseteq
       Seq([from : {"root", "relative", "tilde"}, path : Path, tail : Seq(SUBSET ToSet(Names))])

VARIABLES
  pc,            \* what happens next
  mode,          \* "sftp", or --pack with ("sudo") or without ("pack") use_sudo
  srcs, k,       \* the SRC list and how many have been begun
  rx,            \* "none": all below SRC; "exact": its last name; "tail": a search
  stack, dir, names,     \* directories to walk, the one listed, its names not looked at
  candidates,    \* what has been found
  todo, files, symlinks, \* the candidates not yet filtered, and those that stay
  plan,          \* the entries' remote paths
  trial, processed, errors,     \* the counters of run_host_gather()
  local, partial,        \* place -> the path whose content it has; places written in part
  session, faults,
  hit            \* history: the paths for which a call has failed

walkVars == <<rx, stack, dir, names>>
filterVars == <<todo, files, symlinks, plan>>
getVars == <<trial, processed, errors, local, partial>>
faultVars == <<session, faults, hit>>
vars == <<pc, mode, srcs, k, walkVars, candidates, filterVars, getVars, treeVars, faultVars>>

Init ==
  /\ pc = "source"
  /\ mode \in {"sftp", "pack", "sudo"}
  /\ srcs \in Requests /\ k = 0
  /\ rx = "none" /\ stack = <<>> /\ dir = <<>> /\ names = <<>>
  /\ candidates = {}
  /\ todo = <<>> /\ files = <<>> /\ symlinks = <<>> /\ plan = <<>>
  /\ trial = 0 /\ processed = 0 /\ errors = 0
  /\ local = [p \in {} |-> <<>>] /\ partial = {}
  /\ TreeInit
  /\ session = TRUE /\ faults = 0 /\ hit = {}

-----------------------------------------------------------------------------
(* Calls                                                                   *)

Works == session /\ UNCHANGED faultVars
CallFails(p) ==
  /\ hit' = hit \cup {p}
  /\ IF session THEN faults < MaxFaults /\ faults' = faults + 1 ELSE UNCHANGED faults
  /\ UNCHANGED session

\* sftp_exists() and the like: a call that fails is a no.
Asks(p, holds, Yes, No) ==
  \/ Works /\ IF holds THEN Yes ELSE No
  \/ CallFails(p) /\ No

Exists(p) == Stat("login", p) # "none"
IsDir(p) == Stat("login", p) = "dir"
IsFile(p) == Stat("login", p) = "file"
IsLink(p) == Lstat("login", p) = "link"

Goto(l) == pc' = l /\ UNCHANGED <<walkVars, candidates>>
Skip(l) == pc' = l /\ names' = Tail(names) /\ UNCHANGED <<rx, stack, dir, candidates>>
Take(l) ==
  /\ pc' = l /\ names' = Tail(names)
  /\ candidates' = candidates \cup {dir \o Head(names)}
  /\ UNCHANGED <<rx, stack, dir>>

Unplanned == UNCHANGED <<mode, srcs, k, filterVars, getVars, treeVars>>

-----------------------------------------------------------------------------
(* SRC: normalize_src_abs(), split_src_to_root_and_tail_regex()            *)

\* A relative SRC may not go up; one that begins with "~/" or "/" may.
Rejected(s) == s.from = "relative" /\ Up \in ToSet(s.path)
Base(s) == (IF s.from = "root" THEN <<>> ELSE Home) \o s.path
Literal(s) == s.tail = <<>>

Src == Base(srcs[k])
Root == IF rx = "exact" THEN Front(Src) ELSE Src

\* A literal's last name is anchored, a search is not.
Matches(rel) == IF rx = "exact" THEN rel = <<Last(Src)>> ELSE Found(srcs[k].tail, rel)
RelTo(p) == SubSeq(p, Len(Root) + 1, Len(p))
Shallow == rx = "exact" \/ Len(srcs[k].tail) = 1

NextSource ==
  /\ pc = "source"
  /\ IF k = Len(srcs)
     THEN /\ pc' = "exists" /\ todo' = Sorted(candidates)
          /\ UNCHANGED <<k, rx>>
     ELSE /\ k' = k + 1
          /\ rx' = IF Literal(srcs[k + 1]) THEN "none" ELSE "tail"
          /\ pc' = IF Rejected(srcs[k + 1]) THEN "source"
                   ELSE IF mode = "sudo" THEN IF Literal(srcs[k + 1]) THEN "sudoDir" ELSE "sudoRoot"
                   ELSE IF Literal(srcs[k + 1]) THEN "srcDir" ELSE "rootExists"
          /\ UNCHANGED todo
  /\ UNCHANGED <<mode, srcs, stack, dir, names, candidates, files, symlinks, plan, getVars, treeVars,
                 faultVars>>

-----------------------------------------------------------------------------
(* _enumerate_via_sftp_walk()                                              *)

StartWalk == pc' = "walk" /\ stack' = <<Root>> /\ UNCHANGED <<rx, dir, names, candidates>>

\* A directory is walked whatever its links, a file is taken, anything else is looked for in
\* its directory; "/" has none.
SrcDir == pc = "srcDir" /\ Asks(Src, IsDir(Src), Goto("srcNotFile"), Goto("srcFile")) /\ Unplanned
SrcNotFile == pc = "srcNotFile" /\ Asks(Src, IsFile(Src), Goto("srcFile"), StartWalk) /\ Unplanned

TakeSrc ==
  pc' = "source" /\ candidates' = candidates \cup {Src} /\ UNCHANGED walkVars
SplitLiteral ==
  /\ IF Src = <<>> THEN pc' = "source" /\ UNCHANGED rx ELSE pc' = "rootExists" /\ rx' = "exact"
  /\ UNCHANGED <<stack, dir, names, candidates>>
SrcFile == pc = "srcFile" /\ Asks(Src, IsFile(Src), TakeSrc, SplitLiteral) /\ Unplanned

RootExists ==
  pc = "rootExists" /\ Asks(Root, Exists(Root), Goto("rootDir"), Goto("source")) /\ Unplanned
RootDir ==
  /\ pc = "rootDir"
  /\ Asks(Root, IsDir(Root), IF Shallow THEN Goto("list") ELSE StartWalk, Goto("source"))
  /\ Unplanned

CannotList(p) == (Works /\ ~Listable("login", p)) \/ CallFails(p)

\* What has no "/" is only looked for in the root itself, unless that cannot be listed.
ListRoot ==
  /\ pc = "list"
  /\ \/ /\ Works /\ Listable("login", Root)
        /\ dir' = Root
        /\ names' = Sorted({name \in Listing("login", Root) : Matches(name)})
        /\ pc' = "childFile"
        /\ UNCHANGED <<rx, stack, candidates>>
     \/ CannotList(Root) /\ StartWalk
  /\ Unplanned

Packs == mode # "sftp"
Here == dir \o Head(names)

ChildFile ==
  /\ pc = "childFile"
  /\ IF names = <<>> THEN Goto("source") /\ UNCHANGED faultVars
     ELSE Asks(Here, IsFile(Here), Take(pc), IF Packs THEN Goto("childLink") ELSE Skip(pc))
  /\ Unplanned
ChildLink ==
  pc = "childLink" /\ Asks(Here, IsLink(Here), Take("childFile"), Skip("childFile")) /\ Unplanned

WalkListGivesUp ==                          \* mutant: a failure ends the walk
  /\ pc = "walk"
  /\ IF stack = <<>> THEN Goto("source") /\ UNCHANGED faultVars
     ELSE LET d == Last(stack) IN
          /\ dir' = d
          /\ \/ Works /\ Listable("login", d) /\ stack' = Front(stack) /\ names' = Sorted(Listing("login", d)) /\ pc' = "walkDir"
             \/ CannotList(d) /\ stack' = <<>> /\ UNCHANGED <<pc, names>>
          /\ UNCHANGED <<rx, candidates>>
  /\ Unplanned

WalkListRetries ==                          \* mutant: what cannot be listed is tried again
  /\ pc = "walk"
  /\ IF stack = <<>> THEN Goto("source") /\ UNCHANGED faultVars
     ELSE LET d == Last(stack) IN
          /\ dir' = d
          /\ \/ Works /\ Listable("login", d) /\ stack' = Front(stack) /\ names' = Sorted(Listing("login", d)) /\ pc' = "walkDir"
             \/ CannotList(d) /\ UNCHANGED <<pc, stack, names>>
          /\ UNCHANGED <<rx, candidates>>
  /\ Unplanned

\* remote_walk_files(): the last directory found is listed first; one that cannot be is left.
WalkList ==
  /\ pc = "walk"
  /\ IF stack = <<>> THEN Goto("source") /\ UNCHANGED faultVars
     ELSE LET d == Last(stack) IN
          /\ stack' = Front(stack)
          /\ dir' = d
          /\ \/ Works /\ Listable("login", d) /\ names' = Sorted(Listing("login", d)) /\ pc' = "walkDir"
             \/ CannotList(d) /\ UNCHANGED <<pc, names>>
          /\ UNCHANGED <<rx, candidates>>
  /\ Unplanned

Push ==
  /\ pc' = "walkDir" /\ stack' = Append(stack, Here) /\ names' = Tail(names)
  /\ UNCHANGED <<rx, dir, candidates>>
WalkDir ==
  /\ pc = "walkDir"
  /\ IF names = <<>> THEN Goto("walk") /\ UNCHANGED faultVars
     ELSE Asks(Here, IsDir(Here), Push, Goto(IF Packs /\ rx # "none" THEN "walkLink" ELSE "walkFile"))
  /\ Unplanned

\* What the walk yields is asked for again below a literal SRC, and searched otherwise.
Yield ==
  IF rx = "none" THEN Goto("walkAgain")
  ELSE IF Matches(RelTo(Here)) THEN Take("walkDir") ELSE Skip("walkDir")
WalkLink == pc = "walkLink" /\ Asks(Here, IsLink(Here), Yield, Goto("walkFile")) /\ Unplanned
WalkFile == pc = "walkFile" /\ Asks(Here, IsFile(Here), Yield, Skip("walkDir")) /\ Unplanned
WalkAgain ==
  pc = "walkAgain" /\ Asks(Here, IsFile(Here), Take("walkDir"), Skip("walkDir")) /\ Unplanned

-----------------------------------------------------------------------------
(* _enumerate_via_remote_walk_with_sudo(): one remote command each         *)

\* A command that raises ends the tool; one that sudo does not run is run without.
Raises(p) == CallFails(p) /\ Goto("raised")
Runs(user, p) == IF user = "root" THEN Works ELSE session /\ CallFails(p)
User == {"root", "login"}

SudoDir ==
  /\ pc = "sudoDir"
  /\ \/ \E user \in User :
          /\ Runs(user, Src)
          /\ IF Stat(user, Src) = "dir" THEN Goto("sudoWalk")
             ELSE IF Src = <<>> THEN Goto("source")
             ELSE pc' = "sudoRoot" /\ rx' = "exact" /\ UNCHANGED <<stack, dir, names, candidates>>
     \/ Raises(Src)
  /\ Unplanned
SudoRoot ==
  /\ pc = "sudoRoot"
  /\ \/ \E user \in User :
          Runs(user, Root) /\ Goto(IF Stat(user, Root) = "dir" THEN "sudoWalk" ELSE "source")
     \/ Raises(Root)
  /\ Unplanned

Walked(user) == {p \in OsWalk(user, Root) : rx = "none" \/ Matches(RelTo(p))}
SudoWalk ==
  /\ pc = "sudoWalk"
  /\ \/ /\ \/ \E user \in User : Runs(user, Root) /\ candidates' = candidates \cup Walked(user)
           \/ session /\ CallFails(Root) /\ UNCHANGED candidates
        /\ pc' = "source" /\ UNCHANGED walkVars
     \/ Raises(Root)
  /\ Unplanned

-----------------------------------------------------------------------------
(* _build_plan_for_host(): the candidates are asked for once more          *)

Candidate == Head(todo)
FilterGoto(l) == pc' = l /\ UNCHANGED filterVars
Drop == pc' = "exists" /\ todo' = Tail(todo) /\ UNCHANGED <<files, symlinks, plan>>
AddLink ==
  pc' = "exists" /\ todo' = Tail(todo) /\ symlinks' = Append(symlinks, Candidate) /\ UNCHANGED <<files, plan>>
AddFile ==
  pc' = "exists" /\ todo' = Tail(todo) /\ files' = Append(files, Candidate) /\ UNCHANGED <<symlinks, plan>>
Unfiltered == UNCHANGED <<mode, srcs, k, walkVars, candidates, getVars, treeVars>>

FilterExists ==
  /\ pc = "exists"
  /\ IF todo = <<>>
     THEN /\ plan' = IF Packs THEN files \o symlinks ELSE files
          /\ pc' = IF Packs THEN "end" ELSE "entry"
          /\ UNCHANGED <<todo, files, symlinks, faultVars>>
     ELSE Asks(Candidate, Exists(Candidate), FilterGoto("isDir"), Drop)
  /\ Unfiltered
FilterDir == pc = "isDir" /\ Asks(Candidate, IsDir(Candidate), Drop, FilterGoto("isLink")) /\ Unfiltered
FilterLink == pc = "isLink" /\ Asks(Candidate, IsLink(Candidate), AddLink, FilterGoto("isFile")) /\ Unfiltered
FilterFile == pc = "isFile" /\ Asks(Candidate, IsFile(Candidate), AddFile, Drop) /\ Unfiltered

-----------------------------------------------------------------------------
(* run_host_gather() without --pack                                        *)

\* _sanitize_remote_abs_for_local(): names are made safe, ".." takes one away unless it is "_".
Place(p) ==
  FoldLeft(LAMBDA parts, n : IF n # Up THEN Append(parts, Safe[n])
                             ELSE IF parts = <<>> \/ Last(parts) = "_" THEN parts ELSE Front(parts), <<>>, p)

Entry == plan[trial]
Unfetched == UNCHANGED <<mode, srcs, k, walkVars, candidates, filterVars, treeVars>>

\* The directory is made before the try: what stands in its way ends the host.
BlockedBy(place) == {q \in DOMAIN local \cup partial : IsStrictPrefix(q, place)}
NextEntry ==
  /\ pc = "entry"
  /\ IF trial = Len(plan) THEN pc' = "end" /\ UNCHANGED trial
     ELSE /\ trial' = trial + 1
          /\ pc' = IF BlockedBy(Place(plan[trial + 1])) = {} THEN "get" ELSE "raised"
  /\ UNCHANGED <<processed, errors, local, partial, faultVars>> /\ Unfetched

\* sftp.get() opens the local file for writing first, which a directory there forbids.
Write(places, place, p) == [q \in places |-> IF q = place THEN p ELSE local[q]]
IsLocalDir(place) == \E q \in DOMAIN local \cup partial : IsStrictPrefix(place, q)
GetKeeps ==                                 \* mutant: a place once failed stays so
  /\ pc = "get"
  /\ LET place == Place(Entry) IN
     \/ /\ Works /\ ~IsLocalDir(place) /\ IsFile(Entry)
        /\ local' = Write(DOMAIN local \cup {place}, place, Entry)
        /\ UNCHANGED partial
        /\ processed' = processed + 1 /\ UNCHANGED errors
     \/ /\ (Works /\ (IsLocalDir(place) \/ ~IsFile(Entry))) \/ CallFails(Entry)
        /\ IF IsLocalDir(place) THEN UNCHANGED <<local, partial>>
           ELSE /\ local' = Write(DOMAIN local \ {place}, place, Entry)
                /\ partial' = partial \cup {place}
        /\ errors' = errors + 1 /\ UNCHANGED processed
  /\ pc' = "entry"
  /\ UNCHANGED trial /\ Unfetched
GetQuiet ==                                 \* mutant: errors are counted as processed
  /\ pc = "get"
  /\ LET place == Place(Entry) IN
     \/ /\ Works /\ ~IsLocalDir(place) /\ IsFile(Entry)
        /\ local' = Write(DOMAIN local \cup {place}, place, Entry)
        /\ partial' = partial \ {place}
        /\ processed' = processed + 1 /\ UNCHANGED errors
     \/ /\ (Works /\ (IsLocalDir(place) \/ ~IsFile(Entry))) \/ CallFails(Entry)
        /\ IF IsLocalDir(place) THEN UNCHANGED <<local, partial>>
           ELSE /\ local' = Write(DOMAIN local \ {place}, place, Entry)
                /\ partial' = partial \cup {place}
        /\ processed' = processed + 1 /\ UNCHANGED errors
  /\ pc' = "entry"
  /\ UNCHANGED trial /\ Unfetched
Get ==
  /\ pc = "get"
  /\ LET place == Place(Entry) IN
     \/ /\ Works /\ ~IsLocalDir(place) /\ IsFile(Entry)
        /\ local' = Write(DOMAIN local \cup {place}, place, Entry)
        /\ partial' = partial \ {place}
        /\ processed' = processed + 1 /\ UNCHANGED errors
     \/ /\ (Works /\ (IsLocalDir(place) \/ ~IsFile(Entry))) \/ CallFails(Entry)
        /\ IF IsLocalDir(place) THEN UNCHANGED <<local, partial>>
           ELSE /\ local' = Write(DOMAIN local \ {place}, place, Entry)
                /\ partial' = partial \cup {place}
        /\ errors' = errors + 1 /\ UNCHANGED processed
  /\ pc' = "entry"
  /\ UNCHANGED trial /\ Unfetched

-----------------------------------------------------------------------------
(* The remote host, and the whole                                          *)

\* Another process there takes a node away or brings it back.
Change ==
  /\ pc \notin {"end", "raised"}
  /\ ChangeTree
  /\ UNCHANGED <<pc, mode, srcs, k, walkVars, candidates, filterVars, getVars, faultVars>>

\* close_all(), or the network.
LoseSession ==
  /\ session
  /\ pc \notin {"end", "raised"}
  /\ session' = FALSE
  /\ UNCHANGED <<pc, mode, srcs, k, walkVars, candidates, filterVars, getVars, treeVars, faults, hit>>

Step ==
  \/ NextSource \/ SrcDir \/ SrcNotFile \/ SrcFile \/ RootExists \/ RootDir \/ ListRoot
  \/ ChildFile \/ ChildLink \/ WalkList \/ WalkDir \/ WalkLink \/ WalkFile \/ WalkAgain
  \/ SudoDir \/ SudoRoot \/ SudoWalk
  \/ FilterExists \/ FilterDir \/ FilterLink \/ FilterFile \/ NextEntry \/ Get
Next == Step \/ Change \/ LoseSession

Spec == Init /\ [][Next]_vars
\* The main thread and the worker go on: a call is answered, or the transport's loss ends it.
FairSpec == Spec /\ WF_vars(Step)

-----------------------------------------------------------------------------
(* Properties                                                              *)

Labels == { "source", "srcDir", "srcNotFile", "srcFile", "rootExists", "rootDir", "list",
  "childFile", "childLink", "walk", "walkDir", "walkLink", "walkFile", "walkAgain", "sudoDir",
  "sudoRoot", "sudoWalk", "exists", "isDir", "isLink", "isFile", "entry", "get", "end", "raised" }

\* The type of every variable; the counters stay within the lists they count.
TypeOK ==
  /\ pc \in Labels
  /\ mode \in {"sftp", "pack", "sudo"} /\ srcs \in Requests /\ k \in 0..Len(srcs)
  /\ rx \in {"none", "exact", "tail"}
  /\ stack \in Seq(Path) /\ dir \in Path /\ names \in Seq(Path)
  /\ candidates \subseteq Path
  /\ {todo, files, symlinks, plan} \subseteq Seq(Path)
  /\ trial \in 0..Len(plan) /\ processed \in 0..trial /\ errors \in 0..trial
  /\ DOMAIN local \subseteq Seq({Safe[n] : n \in DOMAIN Safe})
  /\ \A q \in DOMAIN local : local[q] \in Path
  /\ partial \subseteq Seq({Safe[n] : n \in DOMAIN Safe}) \ DOMAIN local
  /\ TreeTypeOK
  /\ session \in BOOLEAN /\ faults \in 0..MaxFaults /\ hit \subseteq Path

\* What is asked for: files below a directory, a file, or what a search finds: on the SFTP
\* route, what has no "/" in the directory only; on the sudo route, in no linked directory.
Reaches(s, p) ==
  LET base == Base(s)
      rel == SubSeq(p, Len(base) + 1, Len(p))
  IN /\ ~Rejected(s)
     /\ \/ Literal(s) /\ p = base
        \/ /\ IsStrictPrefix(base, p)
           /\ Literal(s) \/ Found(s.tail, rel)
           /\ mode # "sudo" /\ Len(s.tail) = 1 => Len(rel) = 1
           /\ mode = "sudo" => \A i \in Len(base) + 1..Len(p) - 1 : ~IsLink(SubSeq(p, 1, i))
Eligible(p) == IsFile(p) /\ (Packs \/ ~IsLink(p))

\* Nothing along the path has changed, no call for it or for what is above it has failed.
Undisturbed(p) ==
  /\ \A q \in hit : ~IsPrefix(q, p)
  /\ (Follow("login", p).via \cup Along(p)) \cap touched = {}

\* The paths an SRC spells out without following links below it.
Spelled(s) == {Base(s)} \cup {Renamed("login", Base(s), n) : n \in Under("login", Base(s))}

\* What may be planned: regular files, and with --pack links to anything but a directory, so
\* that a device is planned behind a link only.
Chosen(p) == Eligible(p) \/ (Packs /\ IsLink(p) /\ Stat("login", p) = "other")

\* The plan (_build_plan_for_host, enumerate_candidates_for_host): whatever fails or changes
\* elsewhere, a path along which nothing does is planned, and once, if it is a regular file an
\* SRC asks for, or with --pack a link to one; and what is planned is either, or a link to a
\* device. No directory is planned. Links count as asked for whatever --follow-symlinks says:
\* LinksAskedFor is about that.
Planned == pc \in {"entry", "get"} \/ (pc = "end" /\ (Packs \/ trial = Len(plan)))
PlanExact ==
  Planned =>
    /\ Cardinality(ToSet(plan)) = Len(plan)
    /\ \A p \in ToSet(plan) :
         Undisturbed(p) => Chosen(p) /\ \E i \in DOMAIN srcs : Reaches(srcs[i], p)
    /\ \A i \in DOMAIN srcs : \A p \in Spelled(srcs[i]) :
         Undisturbed(p) /\ Eligible(p) /\ Reaches(srcs[i], p) => p \in ToSet(plan)

\* "Links are put into pack_list only with pack+follow" (comment in _build_plan_for_host(),
\* gm-gather's specification): without --follow-symlinks no link is planned. The code looks at
\* --pack only.
LinksAskedFor == Planned /\ ~FollowSymlinks => \A p \in ToSet(plan) : Undisturbed(p) => ~IsLink(p)

\* What has been fetched (run_host_gather): every entry is counted once; without an error all
\* the places hold the files whole that were planned for them last, and an error has a cause.
Clash == \E p, q \in ToSet(plan) : IsStrictPrefix(Place(p), Place(q))
Fetched ==
  pc = "end" /\ ~Packs =>
    /\ processed + errors = trial /\ trial = Len(plan)
    /\ errors = 0 =>
         /\ partial = {}
         /\ \A i \in DOMAIN plan :
              (\A j \in i + 1..Len(plan) : Place(plan[j]) # Place(plan[i])) =>
                Place(plan[i]) \in DOMAIN local /\ local[Place(plan[i])] = plan[i]
    /\ errors > 0 => hit # {} \/ touched # {} \/ Clash

\* The walk ends although it follows links to directories, whatever happens to the tree.
GatherEnds == <>(pc \in {"end", "raised"})
=============================================================================
