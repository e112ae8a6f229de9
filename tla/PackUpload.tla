----------------------------- MODULE PackUpload -----------------------------
(***************************************************************************)
(* upload_pack_and_extract() of core_scatter.py: one host's part of        *)
(* gm-scatter --pack. The archive is put on the remote host, new files are *)
(* extracted in place, existing files are extracted to a temporary         *)
(* directory and moved over, and ownership, ACL and SELinux labels are put *)
(* right afterwards. Every remote command may fail, and the session may be *)
(* lost, or closed by close_all(), between any two commands.               *)
(*                                                                         *)
(* A file's state on the remote host is its content (body), its owner and  *)
(* mode (owner) and its ACL and extended attributes (acl). The command run *)
(* for a file that is processed next is chosen freely among those left:    *)
(* the order of the archive plays no part here.                            *)
(***************************************************************************)
EXTENDS Naturals

CONSTANTS
  File,          \* the archive's regular files
  EmptyDir,      \* its empty directories
  ParentDir,     \* the directories, under the destination, that hold its files
  ParentOf,      \* each file's directory, or "root" for the destination itself
  MaxFaults      \* bound: how many commands fail while the session is up

ASSUME UploadAssumption ==
  /\ "root" \notin EmptyDir \cup ParentDir
  /\ ParentOf \in [File -> ParentDir \cup {"root"}]
  /\ EmptyDir \cap ParentDir = {}
  /\ MaxFaults \in Nat

Dir == EmptyDir \cup ParentDir

VARIABLES
  pc,            \* what the upload does next
  todo,          \* the files its current loop has left
  now,           \* the file whose commands are under way, or "none"
  opt,           \* [sudo, selinux]: the options of the run
  cap,           \* [selinux, dumps, gid]: what the host turned out to support
  tmp,           \* [work, exist, meta]: where mktemp -d made its directories
  exist, new,    \* the files found present and the others
  made,          \* the empty directories that were not there before
  meta,          \* what was recorded of each existing file before it is replaced
  failed,        \* has a failure been added to the report?
  done,          \* the files reported done
  finished,      \* has the whole archive been reported done?
  end,           \* how the call ends: "returned" or "raised"
  file,          \* the files on the remote host: [body, owner, acl]
  dirs,          \* its directories: "absent", "theirs", "ours" or "chowned"
  relabelled,    \* the files restorecon has been run on
  remote,        \* the temporaries on the remote host, and its directory /tmp
  gmtmp,         \* files with a <file>.gm-tmp.$$ next to them
  session,       \* is the SSH session up?
  faults,        \* commands that failed while it was up
  hit,           \* history: the files that one of those commands was about
  leaked         \* history: did mktemp's answer or a removal get lost?

optVars == <<opt, cap>>
ownVars == <<tmp, exist, new, made, meta>>
reportVars == <<failed, done, finished>>
hostVars == <<file, dirs, relabelled, gmtmp>>
faultVars == <<session, faults, hit, leaked>>
vars == <<pc, todo, now, optVars, ownVars, reportVars, end, hostVars, remote, faultVars>>

Absent == [body |-> "none", owner |-> "none", acl |-> "none"]
Theirs == [body |-> "old", owner |-> "orig", acl |-> "orig"]
Directory == [body |-> "dir", owner |-> "orig", acl |-> "orig"]
Unknown == [owner |-> "none", acl |-> "none"]

\* The remote host before the upload, whatever the options.
Init ==
  /\ pc = "detect"
  /\ todo = {} /\ now = "none"
  /\ opt \in [sudo : BOOLEAN, selinux : {"auto", "policy", "ignore"}]
  /\ cap = [selinux |-> FALSE, dumps |-> FALSE, gid |-> FALSE]
  /\ tmp = [work |-> "none", exist |-> "none", meta |-> "none"]
  /\ exist = {} /\ new = {} /\ made = {}
  /\ meta = [f \in File |-> Unknown]
  /\ failed = FALSE /\ done = {} /\ finished = FALSE
  /\ end = "none"
  /\ file \in [File -> {Absent, Theirs, Directory}]
  /\ dirs \in [Dir -> {"absent", "theirs"}]
  /\ \A f \in File : file[f] # Absent /\ ParentOf[f] # "root" => dirs[ParentOf[f]] = "theirs"
  /\ relabelled = {}
  /\ remote = {"/tmp"} /\ gmtmp = {}
  /\ session = TRUE /\ faults = 0 /\ hit = {} /\ leaked = FALSE

-----------------------------------------------------------------------------
(* Commands and the ways they end                                          *)

Works == session /\ UNCHANGED faultVars

\* A command exits with an error, or, on either side of its effect, raises an exception: a
\* time-out, or any use of a lost session.
ExitsBadly(fs) ==
  /\ session
  /\ faults < MaxFaults
  /\ faults' = faults + 1
  /\ hit' = hit \cup fs
  /\ UNCHANGED <<session, leaked>>
Raises(fs) == ExitsBadly(fs) \/ (~session /\ hit' = hit \cup fs /\ UNCHANGED <<session, faults, leaked>>)
LosesAnswer ==
  /\ session
  /\ faults < MaxFaults
  /\ faults' = faults + 1
  /\ leaked' = TRUE
  /\ UNCHANGED <<session, hit>>

\* The three ways out of the body; the finally clause follows.
ReportAndLeave ==                                         \* mutant: returns outside the try
  failed' = TRUE /\ end' = "returned" /\ pc' = "end" /\ UNCHANGED <<done, finished>>
ReportAndReturn == failed' = TRUE /\ end' = "returned" /\ pc' = "clean" /\ UNCHANGED <<done, finished>>
Propagate == end' = "raised" /\ pc' = "clean" /\ UNCHANGED reportVars
Proceed(l) == pc' = l /\ UNCHANGED <<end, reportVars>>

Finish == finished' = TRUE /\ end' = "returned" /\ pc' = "clean" /\ UNCHANGED <<failed, done>>

\* The files of S are new; a parent directory is created on the way.
WithParents(S) ==
  [d \in Dir |-> IF dirs[d] = "absent" /\ \E f \in S : ParentOf[f] = d THEN "ours" ELSE dirs[d]]
Extracted(owner) == [body |-> "new", owner |-> owner, acl |-> "none"]
Partial == [body |-> "part", owner |-> "runner", acl |-> "none"]

-----------------------------------------------------------------------------
(* Before the try block: nothing is cleaned up when one of these raises     *)

Abandon == end' = "raised" /\ pc' = "end" /\ UNCHANGED reportVars

Detect ==
  /\ pc = "detect"
  /\ \/ /\ Works
        /\ cap' \in [selinux : BOOLEAN, dumps : BOOLEAN, gid : IF opt.sudo THEN BOOLEAN ELSE {FALSE}]
        /\ Proceed("work")
     \/ Raises({}) /\ Abandon /\ UNCHANGED cap
  /\ UNCHANGED <<todo, now, opt, ownVars, hostVars, remote>>

\* mktemp -d: when it fails the upload goes on in /tmp itself.
MakeWork ==
  /\ pc = "work"
  /\ \/ Works /\ tmp' = [tmp EXCEPT !.work = "work"] /\ remote' = remote \cup {"work"} /\ Proceed("put")
     \/ ExitsBadly({}) /\ tmp' = [tmp EXCEPT !.work = "/tmp"] /\ UNCHANGED remote /\ Proceed("put")
     \/ Raises({}) /\ Abandon /\ UNCHANGED <<tmp, remote>>
     \/ LosesAnswer /\ Abandon /\ remote' = remote \cup {"work"} /\ UNCHANGED tmp
  /\ UNCHANGED <<todo, now, optVars, exist, new, made, meta, hostVars>>

-----------------------------------------------------------------------------
(* The archive, the destination and the files already there                *)

Put ==
  /\ pc = "put"
  /\ \/ Works /\ remote' = remote \cup {"payload"} /\ Proceed("dest")
     \/ /\ Raises({})
        /\ remote' \in {remote, IF session THEN remote \cup {"payload"} ELSE remote}
        /\ ReportAndReturn
  /\ UNCHANGED <<todo, now, optVars, ownVars, hostVars>>

\* mkdir -p of the destination, the kind of tar, and the list of the archive's members.
PrepareDest ==
  /\ pc = "dest"
  /\ \/ Works /\ Proceed("split")
     \/ Raises({}) /\ ReportAndReturn
  /\ UNCHANGED <<todo, now, optVars, ownVars, hostVars, remote>>

\* test -e of each file; one that fails for whatever reason makes the file new, and what was
\* there is then replaced like a new file, in place.
Present == {f \in File : file[f].body # "none"}
SplitExistNew ==
  /\ pc = "split"
  /\ \/ Works /\ exist' = Present /\ new' = File \ exist' /\ Proceed("dirs")
     \/ \E f \in Present : /\ ExitsBadly({})
                           /\ exist' = Present \ {f} /\ new' = File \ exist' /\ Proceed("dirs")
     \/ Raises({}) /\ ReportAndReturn /\ UNCHANGED <<exist, new>>
  /\ UNCHANGED <<todo, now, optVars, tmp, made, meta, hostVars, remote>>

AfterNewSkips == "relabel"                                \* mutant: "elif exist_list"
AfterNew == IF exist = {} THEN "relabel" ELSE "existDir"
AfterDirs == IF new = {} THEN AfterNew ELSE "newList"
Chowns == opt.sudo /\ cap.gid

MissingAll == EmptyDir                                    \* mutant: "preexists" is ignored
Missing == {d \in EmptyDir : dirs[d] = "absent"}

\* test -d tells which of the empty directories this upload creates; mkdir -p makes them.
MakeEmptyDirs ==
  /\ pc = "dirs"
  /\ LET Made(S) == [d \in Dir |-> IF d \in S THEN "ours" ELSE dirs[d]]
     IN \/ Works /\ made' = Missing /\ dirs' = Made(Missing) /\ Proceed("chownDirs")
        \/ /\ \E d \in EmptyDir : ExitsBadly({d}) /\ made' = Missing \cup {d}
           /\ dirs' = Made(Missing)
           /\ Proceed("chownDirs")
        \/ /\ EmptyDir # {} /\ Raises({})
           /\ \E S \in SUBSET Missing : (session \/ S = {}) /\ dirs' = Made(S)
           /\ ReportAndReturn \/ Propagate
           /\ UNCHANGED made
        \/ EmptyDir = {} /\ ~session /\ Proceed("chownDirs") /\ UNCHANGED <<made, dirs, faultVars>>
  /\ UNCHANGED <<todo, now, optVars, tmp, exist, new, meta, file, relabelled, gmtmp, remote>>

\* A chown that fails is reported and the next one tried; chown_chmod() itself hides the exit
\* status, so only an exception is noticed.
Tolerate(l) ==
  /\ failed' \in IF session THEN {failed, TRUE} ELSE {TRUE}
  /\ pc' = l
  /\ UNCHANGED <<end, done, finished>>

\* What a loop whose failures are tolerated leaves out.
Missed(S) == IF session THEN SUBSET S \ {{}} ELSE {S} \ {{}}

\* Only directories made here change hands.
ChownEmptyDirs ==
  /\ pc = "chownDirs"
  /\ LET chowned(S) == [d \in Dir |-> IF d \in S THEN "chowned" ELSE dirs[d]] IN
     \/ (made = {} \/ ~Chowns) /\ UNCHANGED <<dirs, faultVars>> /\ Proceed(AfterDirs)
     \/ made # {} /\ Chowns /\ Works /\ dirs' = chowned(made) /\ Proceed(AfterDirs)
     \/ \E S \in Missed(made) : /\ Chowns /\ Raises(S)
                               /\ dirs' = chowned(made \ S)
                               /\ Tolerate(AfterDirs)
  /\ UNCHANGED <<todo, now, optVars, ownVars, file, relabelled, gmtmp, remote>>

-----------------------------------------------------------------------------
(* New files: extracted in place                                           *)

WriteList(l, next) ==
  /\ \/ Works /\ remote' = remote \cup {l} /\ Proceed(next)
     \/ /\ Raises({})
        /\ remote' \in {remote, IF session THEN remote \cup {l} ELSE remote}
        /\ ReportAndReturn
  /\ UNCHANGED <<todo, now, optVars, ownVars, hostVars>>

WriteNewList == pc = "newList" /\ WriteList("newList", "extractNew")

\* tar replaces a file it meets, but not a directory: then it reports an error. After an
\* error any of the files may have been extracted and one of them in part.
ExtractNew ==
  /\ pc = "extractNew"
  /\ LET blocked == {f \in new : file[f].body = "dir"} IN
     \/ /\ Works
        /\ file' = [f \in File |-> IF f \in new \ blocked THEN Extracted("runner") ELSE file[f]]
        /\ dirs' = WithParents(new)
        /\ IF blocked = {} THEN Proceed("chownNew") ELSE ReportAndReturn
     \/ \E S \in SUBSET (new \ blocked) : \E p \in S :
          /\ ExitsBadly(new)
          /\ file' = [f \in File |-> IF f = p THEN Partial
                                     ELSE IF f \in S THEN Extracted("runner") ELSE file[f]]
          /\ dirs' = WithParents(S)
          /\ ReportAndReturn \/ Propagate
     \/ Raises(new) /\ Propagate /\ UNCHANGED <<file, dirs>>
  /\ UNCHANGED <<todo, now, optVars, ownVars, relabelled, gmtmp, remote>>

\* The new files and the directories they are in, made here or not, get the target user.
ChownNew ==
  /\ pc = "chownNew"
  /\ LET Chowned(S) == [f \in File |-> IF f \in S THEN [file[f] EXCEPT !.owner = "target"] ELSE file[f]]
         parents == {ParentOf[f] : f \in new}
         ChownedDirs(S) == [d \in Dir |-> IF d \in S THEN "chowned" ELSE dirs[d]]
     IN \/ ~Chowns /\ UNCHANGED <<file, dirs, faultVars>> /\ Proceed(AfterNew)
        \/ /\ Chowns /\ Works
           /\ file' = Chowned(new) /\ dirs' = ChownedDirs(parents)
           /\ Proceed(AfterNew)
        \/ /\ Chowns
           /\ \E S \in Missed(new) : Raises(S) /\ file' = Chowned(new \ S)
           /\ dirs' = ChownedDirs(IF session THEN parents ELSE {})
           /\ Tolerate(AfterNew)
  /\ UNCHANGED <<todo, now, optVars, ownVars, relabelled, gmtmp, remote>>

-----------------------------------------------------------------------------
(* Existing files: extracted aside, then moved over one by one             *)

MakeDir(field, path, fallback, next) ==
  /\ \/ Works /\ tmp' = [tmp EXCEPT ![field] = path] /\ remote' = remote \cup {path} /\ Proceed(next)
     \/ ExitsBadly({}) /\ tmp' = [tmp EXCEPT ![field] = fallback] /\ UNCHANGED remote /\ Proceed(next)
     \/ Raises({}) /\ Propagate /\ UNCHANGED <<tmp, remote>>
     \/ LosesAnswer /\ Propagate /\ remote' = remote \cup {path} /\ UNCHANGED tmp
  /\ UNCHANGED <<now, optVars, exist, new, made, meta, hostVars>>

MakeExistDir == pc = "existDir" /\ MakeDir("exist", "exist", "/tmp", "existList") /\ UNCHANGED todo

WriteExistList == pc = "existList" /\ WriteList("existList", "extractExist")

ExtractExist ==
  /\ pc = "extractExist"
  /\ \/ Works /\ remote' = remote \cup {"copies"} /\ Proceed("metaDir")
     \/ /\ Raises({})
        /\ remote' \in {remote, IF session THEN remote \cup {"copies"} ELSE remote}
        /\ (session /\ ReportAndReturn) \/ Propagate
  /\ UNCHANGED <<todo, now, optVars, ownVars, hostVars>>

\* Without this directory ACLs and extended attributes are not recorded.
MakeMetaDir == pc = "metaDir" /\ MakeDir("meta", "meta", "none", "capture") /\ todo' = exist

\* test -f of the copy, stat, getfacl and getfattr of the file: a failing stat or dump only
\* leaves its part of the record empty.
Dumps == cap.dumps /\ tmp.meta # "none"
Capture ==
  /\ pc = "capture"
  /\ \E f \in todo :
       LET read == [owner |-> file[f].owner, acl |-> IF Dumps THEN file[f].acl ELSE "none"] IN
       /\ \/ Works /\ meta' = [meta EXCEPT ![f] = read]
          \/ ExitsBadly({f}) /\ \E l \in {"owner", "acl"} :
                                  meta' = [meta EXCEPT ![f] = [read EXCEPT ![l] = "none"]]
       /\ todo' = IF todo = {f} THEN exist ELSE todo \ {f}
       /\ Proceed(IF todo = {f} THEN "cat" ELSE "capture")
  /\ UNCHANGED <<now, optVars, tmp, exist, new, made, hostVars, remote>>

CaptureFails ==
  /\ pc = "capture"
  /\ \E f \in todo : Raises({f})
  /\ (session /\ ReportAndReturn) \/ Propagate
  /\ UNCHANGED <<todo, now, optVars, ownVars, hostVars, remote>>

NextFileStays(f) ==                                       \* mutant: the loop does not end
  todo' = todo \ {f} /\ now' = "none" /\ pc' = "cat"
NextFile(f) ==
  /\ todo' = todo \ {f}
  /\ now' = "none"
  /\ pc' = IF todo = {f} THEN "relabel" ELSE "cat"

OverwriteInPlace ==                                       \* mutant: cat > the file itself
  /\ pc = "cat"
  /\ \E f \in todo : Works /\ file' = [file EXCEPT ![f] = Partial] /\ now' = f
  /\ Proceed("move")
  /\ UNCHANGED <<todo, optVars, ownVars, gmtmp, dirs, relabelled, remote>>

\* The shell command that replaces a file writes the copy next to it...
OverwriteCat ==
  /\ pc = "cat"
  /\ \E f \in todo : Works /\ gmtmp' = gmtmp \cup {f} /\ now' = f
  /\ Proceed("move")
  /\ UNCHANGED <<todo, optVars, ownVars, file, dirs, relabelled, remote>>

\* ...and moves it over the file. Where a directory has the file's name, mv -f puts the copy
\* into it, where it stays: the directory is then "holding" a .gm-tmp, and mv succeeds.
MovedOver(f) ==
  [file EXCEPT ![f] = IF @.body = "dir" THEN [@ EXCEPT !.body = "holding"] ELSE Extracted("runner")]
OverwriteMove ==
  /\ pc = "move"
  /\ Works
  /\ gmtmp' = gmtmp \ {now}
  /\ file' = MovedOver(now)
  /\ IF opt.sudo
       THEN Proceed("restore") /\ UNCHANGED <<todo, now>>
       ELSE /\ done' = done \cup {now} /\ UNCHANGED <<failed, finished, end>>
            /\ NextFile(now)
  /\ UNCHANGED <<optVars, ownVars, dirs, relabelled, remote>>

\* Either half may fail: the failure is reported and the next file is tried. An exception
\* ends the upload; the move may already have happened by then.
OverwriteFails ==
  /\ \/ pc = "cat" /\ \E f \in todo : ExitsBadly({f}) /\ gmtmp' \in {gmtmp, gmtmp \cup {f}} /\ NextFile(f)
     \/ pc = "move" /\ ExitsBadly({now}) /\ NextFile(now) /\ UNCHANGED gmtmp
  /\ failed' = TRUE
  /\ UNCHANGED <<end, done, finished, optVars, ownVars, file, dirs, relabelled, remote>>

OverwriteRaises ==
  /\ pc \in {"cat", "move"}
  /\ Raises(IF pc = "cat" THEN todo ELSE {now})
  /\ \/ UNCHANGED <<gmtmp, file>>
     \/ /\ pc = "move" /\ session
        /\ gmtmp' = gmtmp \ {now}
        /\ file' = MovedOver(now)
  /\ Propagate
  /\ UNCHANGED <<todo, now, optVars, ownVars, dirs, relabelled, remote>>

RestoredNoAcl(f, fields) ==                               \* mutant: the ACL is not restored
  [file[f] EXCEPT !.owner = IF meta[f].owner = "none" THEN @ ELSE meta[f].owner]

\* chown, chmod, setfacl and setfattr from the record; the file is then done, even if some of
\* these failed. An empty record restores nothing.
Restored(f, fields) ==
  [body |-> file[f].body,
   owner |-> IF meta[f].owner = "none" \/ "owner" \notin fields THEN file[f].owner ELSE meta[f].owner,
   acl |-> IF meta[f].acl = "none" \/ "acl" \notin fields THEN file[f].acl ELSE meta[f].acl]
Restore ==
  /\ pc = "restore"
  /\ done' = done \cup {now}
  /\ \/ Works /\ file' = [file EXCEPT ![now] = Restored(now, {"owner", "acl"})] /\ UNCHANGED failed
     \/ /\ Raises({now})
        /\ \E l \in SUBSET {"owner", "acl"} :
             (session \/ l = {}) /\ file' = [file EXCEPT ![now] = Restored(now, l)]
        /\ failed' \in IF session THEN {failed, TRUE} ELSE {TRUE}
  /\ NextFile(now)
  /\ UNCHANGED <<end, finished, optVars, ownVars, dirs, relabelled, gmtmp, remote>>

-----------------------------------------------------------------------------
(* Labels, the final report and the clean-up                               *)

\* Only new files, their directories and the empty directories are given to restorecon -RF: a
\* replaced file gets its label only if a new one is in the same directory, and that directory
\* is not the destination itself.
Beside(S) == S \cup {f \in File : ParentOf[f] \in {ParentOf[g] : g \in S} \ {"root"}}
Relabel ==
  /\ pc = "relabel"
  /\ IF cap.selinux /\ opt.selinux # "ignore" /\ new \cup EmptyDir # {}
       THEN \/ Works /\ relabelled' = Beside(new) /\ Finish
            \/ Raises(new) /\ ReportAndReturn /\ UNCHANGED relabelled
       ELSE UNCHANGED <<relabelled, faultVars>> /\ Finish
  /\ UNCHANGED <<todo, now, optVars, ownVars, file, dirs, gmtmp, remote>>

OwnDirAny(d) == d # "none"                                \* mutant: "created" flags ignored
OwnDir(d) == d \notin {"none", "/tmp"}

\* What _cleanup_all() removes, one command each; directories only if mktemp made them.
Removals ==
  {"payload"}
    \cup (IF new # {} THEN {"newList"} ELSE {})
    \cup (IF exist # {} THEN {"existList"} ELSE {})
    \cup {d \in {tmp.exist, tmp.meta, tmp.work} : OwnDir(d)}

\* What rm -rf takes away with a path.
Below(d) ==
  CASE d = "work" -> {"work", "payload", "newList", "existList"}
    [] d = "exist" -> {"exist", "copies"}
    [] d = "/tmp" -> remote
    [] OTHER -> {d}

\* An exception ends the clean-up; a removal that fails does not.
CleanUp ==
  /\ pc = "clean"
  /\ \/ /\ Works
        /\ remote' = remote \ UNION {Below(d) : d \in Removals}
     \/ /\ LosesAnswer
        /\ \E S \in SUBSET Removals : remote' = remote \ UNION {Below(d) : d \in S}
     \/ ~session /\ UNCHANGED <<remote, faultVars>>
  /\ pc' = "end"
  /\ UNCHANGED <<todo, now, optVars, ownVars, end, reportVars, hostVars>>

\* close_all(), or the network.
LoseSession ==
  /\ session
  /\ pc # "end"
  /\ session' = FALSE
  /\ UNCHANGED <<pc, todo, now, optVars, ownVars, end, reportVars, hostVars, remote, faults, hit, leaked>>

Next ==
  \/ Detect \/ MakeWork \/ Put \/ PrepareDest \/ SplitExistNew \/ MakeEmptyDirs \/ ChownEmptyDirs
  \/ WriteNewList \/ ExtractNew \/ ChownNew
  \/ MakeExistDir \/ WriteExistList \/ ExtractExist \/ MakeMetaDir \/ Capture \/ CaptureFails
  \/ OverwriteCat \/ OverwriteMove \/ OverwriteFails \/ OverwriteRaises \/ Restore
  \/ Relabel \/ CleanUp \/ LoseSession

Spec == Init /\ [][Next]_vars

-----------------------------------------------------------------------------
(* Properties                                                              *)

Labels == { "detect", "work", "put", "dest", "split", "dirs", "chownDirs", "newList", "extractNew",
  "chownNew", "existDir", "existList", "extractExist", "metaDir", "capture", "cat", "move",
  "restore", "relabel", "clean", "end" }
FileState == [ body : {"none", "old", "dir", "holding", "part", "new"},
               owner : {"none", "orig", "runner", "target"}, acl : {"none", "orig"} ]

\* The type of every variable; the loops' bookkeeping fits the label.
TypeOK ==
  /\ pc \in Labels
  /\ todo \subseteq exist
  /\ pc \in {"capture", "cat"} => todo # {}
  /\ now \in File \cup {"none"}
  /\ pc \in {"move", "restore"} => now \in todo
  /\ opt \in [sudo : BOOLEAN, selinux : {"auto", "policy", "ignore"}]
  /\ cap \in [selinux : BOOLEAN, dumps : BOOLEAN, gid : BOOLEAN]
  /\ tmp.work \in {"none", "work", "/tmp"}
  /\ tmp.exist \in {"none", "exist", "/tmp"}
  /\ tmp.meta \in {"none", "meta"}
  /\ exist \subseteq File /\ new \subseteq File /\ exist \cap new = {}
  /\ made \subseteq EmptyDir
  /\ meta \in [File -> [owner : {"none", "orig"}, acl : {"none", "orig"}]]
  /\ failed \in BOOLEAN /\ done \subseteq exist /\ finished \in BOOLEAN
  /\ end \in {"none", "returned", "raised"}
  /\ file \in [File -> FileState]
  /\ dirs \in [Dir -> {"absent", "theirs", "ours", "chowned"}]
  /\ relabelled \subseteq File
  /\ remote \subseteq {"/tmp", "work", "payload", "newList", "existList", "exist", "copies", "meta"}
  /\ gmtmp \subseteq exist
  /\ session \in BOOLEAN /\ faults \in 0..MaxFaults
  /\ hit \subseteq File \cup Dir /\ leaked \in BOOLEAN

\* What the code makes of a file. One taken for an existing one keeps what was recorded of it
\* when sudo can give it back; its label is no part of this, see LabelsRestored. Where it is a
\* directory the new content has gone into it under another name, see NothingStays. One taken
\* for a new one belongs to the target user and is labelled, also if it was there and only the
\* test for it had failed, see OldNeverPart.
Relabels == cap.selinux /\ opt.selinux # "ignore"
Placed(f) ==
  /\ file[f].body = "new" \/ (f \in exist /\ file[f].body = "holding")
  /\ f \in exist /\ opt.sudo => file[f].owner = "orig" /\ (Dumps => file[f].acl = "orig")
  /\ f \in new => (Chowns => file[f].owner = "target") /\ (Relabels => f \in relabelled)

\* Whatever fails, on this file's neighbours or around it: a file reported done, and every
\* file once the archive is reported done, is placed, unless a command that writes or records
\* it failed. A test -e that fails is no excuse.
Placement == \A f \in (IF finished THEN File ELSE done) \ hit : Placed(f)

\* An upload none of whose commands fails reports no failure, has placed every file and every
\* empty directory, and leaves no temporary behind but the copies moved into directories.
Complete ==
  pc = "end" /\ session /\ faults = 0 =>
    /\ end = "returned" /\ finished /\ ~failed
    /\ \A f \in File : Placed(f)
    /\ \A d \in EmptyDir : dirs[d] # "absent" /\ (dirs[d] = "ours" => ~Chowns)
    /\ remote = {"/tmp"} /\ gmtmp = {}

\* A file found on the host is never seen half-written or missing, whatever fails and
\* whenever the session is lost: it goes from its old content to the new one at once. One
\* whose test failed is not found, see OldNeverPart.
OldOrNew == \A f \in exist : file[f].body \in {"old", "new", "dir", "holding"}

\* The clean-up never removes a directory the upload did not make: /tmp itself stays when
\* mktemp has failed and /tmp is used in place of a directory of its own.
SharedTmpKept == "/tmp" \in remote

\* With the session up until the end, whatever failed on the way, no temporary stays behind:
\* neither the archive and the lists nor, unless mktemp failed, the extracted copies. Next to
\* a file a .gm-tmp stays only if its own replacement failed. The one that mv puts into a
\* directory is not next to it and always stays, see NothingStays.
CleanedUp ==
  pc = "end" /\ session /\ ~leaked =>
    /\ remote \ (IF tmp.exist = "/tmp" THEN {"copies"} ELSE {}) = {"/tmp"}
    /\ gmtmp \subseteq hit

\* An empty directory of the archive that was there before keeps its owner, unless the test
\* for it failed.
DirsKept == [][\A d \in EmptyDir \ hit : dirs[d] = "theirs" => dirs'[d] = "theirs"]_vars

\* docs/gm-scatter-specJP.md:206 - an error during the transfer counts as an error of the
\* host. push_one's caller counts one only if upload_pack_and_extract() raises.
ErrorCounted ==
  pc = "end" /\ end = "returned" => \A f \in File : file[f].body \in {"new", "dir", "holding"}

\* docs/gm-scatter-specJP.md:132 - after the extraction the temporary files are deleted. With
\* no command failing, the copy for a file whose name a directory has stays in that directory.
NothingStays ==
  pc = "end" /\ session /\ faults = 0 =>
    remote = {"/tmp"} /\ gmtmp = {} /\ \A f \in File : file[f].body # "holding"

\* docs/gm-scatter-specJP.md:172 - restorecon's targets include the existing files that were
\* overwritten. The code gives it the new ones only.
LabelsRestored ==
  pc = "end" /\ session /\ faults = 0 /\ Relabels => {f \in exist : file[f].body = "new"} \subseteq relabelled

\* docs/gm-scatter-specJP.md:129 - existing files are extracted aside and moved over, which
\* prevents a partial overwrite. A file whose test failed is extracted in place.
OldNeverPart == [][\A f \in File : file[f].body = "old" => file'[f].body \in {"old", "new"}]_vars
=============================================================================
