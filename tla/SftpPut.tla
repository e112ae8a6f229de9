------------------------------- MODULE SftpPut -------------------------------
(***************************************************************************)
(* One host's part of gm-scatter without --pack: run_host_scatter() calls  *)
(* push_one for every entry of the host's plan, which hands it to          *)
(* sftp_put_one() of core_scatter.py. That makes the parent directory,     *)
(* puts the file with SFTP and, when sudo is used and the file was there   *)
(* before, gives back what was recorded of it.                             *)
(*                                                                         *)
(* In this mode the plan's entries are files and links to files, never     *)
(* directories, and two entries may have one remote path. Opening a remote *)
(* file for writing empties it and keeps its owner and its ACL. Every      *)
(* remote command may fail, and the session may be lost between any two.   *)
(***************************************************************************)
EXTENDS Naturals

CONSTANTS
  NumEntries,    \* the length of the host's plan
  File,          \* remote paths
  PathOf,        \* the remote path of each entry
  Link,          \* the entries that are symbolic links
  MaxFaults      \* bound: commands that fail while the session is up

Entry == 1..NumEntries

ASSUME PutAssumption ==
  /\ NumEntries \in Nat
  /\ PathOf \in [Entry -> File]
  /\ {"none", "login"} \cap File = {}
  /\ Link \subseteq Entry
  /\ MaxFaults \in Nat

VARIABLES
  pc,            \* what happens next; "entry" is the loop of run_host_scatter()
  trial,         \* its counter: the entry it is at
  outcome,       \* each entry: "none", "returned" (processed) or "raised" (an error)
  sudo,          \* do the login and the target user differ?
  dumps,         \* has the host the tools for ACL or extended attributes?
  meta,          \* rtmp_meta: does this call know of a directory of its own?
  existed,       \* exist_before
  recorded,      \* the owner recorded, or "none"
  dumped,        \* is there a dump to restore?
  file,          \* the remote files: [body, owner]; a file found there is its own's
  metas,         \* the entries whose temporary directory is on the remote host
  unsent,        \* history: entries whose directory was not to be had or whose put failed
  session,       \* is the SSH session up?
  faults,        \* failures while it was up
  hit,           \* history: entries one of whose commands failed
  lost           \* history: entries for which mktemp's answer was lost, or rm failed

callVars == <<dumps, meta, existed, recorded, dumped>>
faultVars == <<session, faults, hit, lost>>
vars == <<pc, trial, outcome, sudo, callVars, file, metas, unsent, faultVars>>

Absent == [body |-> "none", owner |-> "none"]

Init ==
  /\ pc = "entry" /\ trial = 0
  /\ outcome = [e \in Entry |-> "none"]
  /\ sudo \in BOOLEAN
  /\ dumps = FALSE /\ meta = FALSE /\ existed = FALSE /\ recorded = "none" /\ dumped = FALSE
  /\ \E there \in SUBSET File :
       file = [f \in File |-> IF f \in there THEN [body |-> "old", owner |-> f] ELSE Absent]
  /\ metas = {} /\ unsent = {}
  /\ session = TRUE /\ faults = 0 /\ hit = {} /\ lost = {}

-----------------------------------------------------------------------------
(* Commands, and how a call ends                                           *)

Target == PathOf[trial]

Works == session /\ UNCHANGED faultVars
ExitsBadly ==
  /\ session
  /\ faults < MaxFaults
  /\ faults' = faults + 1
  /\ hit' = hit \cup {trial}
  /\ UNCHANGED <<session, lost>>
\* An exception: a time-out, or any use of a lost session.
Raises == ExitsBadly \/ (~session /\ hit' = hit \cup {trial} /\ UNCHANGED <<session, faults, lost>>)
\* The same, of a command that makes or removes a directory: it is there unseen.
Loses ==
  /\ session
  /\ faults < MaxFaults
  /\ faults' = faults + 1
  /\ hit' = hit \cup {trial} /\ lost' = lost \cup {trial}
  /\ UNCHANGED session

\* A failure that sftp_put_one() reports is no exception, and the report the command line
\* passes discards what it is given: the entry counts as processed, and nobody is told.
Report == unsent' = unsent \cup {trial}
Proceed(l) == pc' = l /\ UNCHANGED outcome
PushReturns == pc' = "entry" /\ outcome' = [outcome EXCEPT ![trial] = "returned"]
PushRaises == pc' = "entry" /\ outcome' = [outcome EXCEPT ![trial] = "raised"] /\ UNCHANGED unsent

-----------------------------------------------------------------------------
(* sftp_put_one()                                                          *)

\* The variables of a call start afresh.
NextEntryOff ==                             \* mutant: one call too many
  /\ pc = "entry"
  /\ IF trial > NumEntries
       THEN Proceed("end") /\ UNCHANGED <<trial, callVars>>
       ELSE /\ trial' = trial + 1
            /\ Proceed("tools")
            /\ dumps' = FALSE /\ meta' = FALSE /\ existed' = FALSE
            /\ recorded' = "none" /\ dumped' = FALSE
  /\ UNCHANGED <<sudo, file, metas, unsent, faultVars>>
NextEntry ==
  /\ pc = "entry"
  /\ IF trial = NumEntries
       THEN Proceed("end") /\ UNCHANGED <<trial, callVars>>
       ELSE /\ trial' = trial + 1
            /\ Proceed("tools")
            /\ dumps' = FALSE /\ meta' = FALSE /\ existed' = FALSE
            /\ recorded' = "none" /\ dumped' = FALSE
  /\ UNCHANGED <<sudo, file, metas, unsent, faultVars>>

CheckTools ==
  /\ pc = "tools"
  /\ \/ /\ Works
        /\ dumps' \in BOOLEAN
        /\ IF trial \in Link THEN PushReturns ELSE Proceed("mkdir")
        /\ UNCHANGED unsent
     \/ Raises /\ PushRaises /\ UNCHANGED dumps
  /\ UNCHANGED <<trial, sudo, meta, existed, recorded, dumped, file, metas>>

MakeParentStops ==                          \* mutant: the failure leaves the loop over the plan
  /\ pc = "mkdir"
  /\ \/ Works /\ Proceed(IF sudo THEN "writable" ELSE "exists") /\ UNCHANGED unsent
     \/ Raises /\ Report /\ pc' = "end" /\ outcome' = [outcome EXCEPT ![trial] = "returned"]
  /\ UNCHANGED <<trial, sudo, callVars, file, metas>>
MakeParent ==
  /\ pc = "mkdir"
  /\ \/ Works /\ Proceed(IF sudo THEN "writable" ELSE "exists") /\ UNCHANGED unsent
     \/ Raises /\ Report /\ PushReturns
  /\ UNCHANGED <<trial, sudo, callVars, file, metas>>

\* SFTP has no sudo: the directory must be writable as it is.
CheckWritable ==
  /\ pc = "writable"
  /\ \/ Works /\ Proceed(IF dumps THEN "meta" ELSE "exists") /\ UNCHANGED unsent
     \/ ExitsBadly /\ Report /\ PushReturns
     \/ Raises /\ PushRaises
  /\ UNCHANGED <<trial, sudo, callVars, file, metas>>

MakeMeta ==
  /\ pc = "meta"
  /\ \/ Works /\ meta' = TRUE /\ metas' = metas \cup {trial} /\ Proceed("exists") /\ UNCHANGED unsent
     \/ ExitsBadly /\ Proceed("exists") /\ UNCHANGED <<meta, metas, unsent>>
     \/ Raises /\ PushRaises /\ UNCHANGED <<meta, metas>>
     \/ Loses /\ PushRaises /\ metas' = metas \cup {trial} /\ UNCHANGED meta
  /\ UNCHANGED <<trial, sudo, dumps, existed, recorded, dumped, file>>

\* test -e: a test that fails says the file is absent.
TestSkips ==                                \* mutant: without sudo an existing file is left alone
  /\ pc = "exists"
  /\ \/ /\ Works /\ existed' = (file[Target].body # "none")
        /\ IF existed' /\ ~sudo THEN PushReturns ELSE Proceed(IF existed' THEN "record" ELSE "put")
        /\ UNCHANGED unsent
     \/ Raises /\ PushRaises /\ UNCHANGED existed
  /\ UNCHANGED <<trial, sudo, dumps, meta, recorded, dumped, file, metas>>
TestExists ==
  /\ pc = "exists"
  /\ \/ /\ \/ Works /\ existed' = (file[Target].body # "none")
           \/ ExitsBadly /\ existed' = FALSE
        /\ Proceed(IF existed' /\ sudo THEN "record" ELSE "put")
        /\ UNCHANGED unsent
     \/ Raises /\ PushRaises /\ UNCHANGED existed
  /\ UNCHANGED <<trial, sudo, dumps, meta, recorded, dumped, file, metas>>

\* stat, getfacl and getfattr: one that exits badly leaves its part out.
RecordNone ==                               \* mutant: a stat that fails is taken for the login user
  /\ pc = "record"
  /\ \/ /\ \/ Works /\ recorded' = file[Target].owner /\ dumped' = meta
           \/ ExitsBadly /\ recorded' = "login" /\ dumped' = FALSE
        /\ Proceed("put") /\ UNCHANGED unsent
     \/ Raises /\ PushRaises /\ UNCHANGED <<recorded, dumped>>
  /\ UNCHANGED <<trial, sudo, dumps, meta, existed, file, metas>>
Record ==
  /\ pc = "record"
  /\ \/ /\ \/ Works /\ recorded' = file[Target].owner /\ dumped' = meta
           \/ ExitsBadly /\ recorded' = "none" /\ dumped' = FALSE
           \/ ExitsBadly /\ recorded' = file[Target].owner /\ dumped' = FALSE
        /\ Proceed("put") /\ UNCHANGED unsent
     \/ Raises /\ PushRaises /\ UNCHANGED <<recorded, dumped>>
  /\ UNCHANGED <<trial, sudo, dumps, meta, existed, file, metas>>

Written(body) ==
  [body |-> body, owner |-> IF file[Target].body = "none" THEN "login" ELSE file[Target].owner]
AfterPut == IF existed /\ sudo THEN "chown" ELSE "removeMeta"

\* put() may fail before, in the middle of or after writing.
PutReturns ==                               \* mutant: a put that fails ends the call at once
  /\ pc = "put"
  /\ \/ Works /\ file' = [file EXCEPT ![Target] = Written("new")] /\ Proceed(AfterPut) /\ UNCHANGED unsent
     \/ Raises /\ UNCHANGED file /\ Report /\ PushReturns
  /\ UNCHANGED <<trial, sudo, callVars, metas>>
Put ==
  /\ pc = "put"
  /\ \/ Works /\ file' = [file EXCEPT ![Target] = Written("new")] /\ Proceed(AfterPut) /\ UNCHANGED unsent
     \/ /\ Raises
        /\ \/ UNCHANGED file
           \/ session /\ \E b \in {"part", "new"} : file' = [file EXCEPT ![Target] = Written(b)]
        /\ Report /\ Proceed("removeMeta")
  /\ UNCHANGED <<trial, sudo, callVars, metas>>

\* chown's exit code is not looked at, and neither is setfacl's; an exception goes to the
\* report that is discarded.
Chown ==
  /\ pc = "chown"
  /\ \/ /\ Works
        /\ file' = IF recorded = "none" THEN file ELSE [file EXCEPT ![Target].owner = recorded]
     \/ Raises /\ UNCHANGED file
  /\ Proceed(IF dumped THEN "restore" ELSE "removeMeta")
  /\ UNCHANGED <<trial, sudo, callVars, metas, unsent>>

RestoreDumps ==
  /\ pc = "restore"
  /\ Works \/ Raises
  /\ Proceed("removeMeta")
  /\ UNCHANGED <<trial, sudo, callVars, file, metas, unsent>>

\* _cleanup_meta() swallows what goes wrong; sftp_put_one() reaches it unless one of its
\* commands raises outside a try.
RemoveMeta ==
  /\ pc = "removeMeta"
  /\ \/ ~meta /\ UNCHANGED <<metas, faultVars>>
     \/ meta /\ Works /\ metas' = metas \ {trial}
     \/ meta /\ (Loses \/ (~session /\ UNCHANGED faultVars)) /\ UNCHANGED metas
  /\ PushReturns
  /\ UNCHANGED <<trial, sudo, callVars, file, unsent>>

\* The network, or close_all() while a transfer is under way.
LoseSession ==
  /\ session
  /\ pc # "end"
  /\ session' = FALSE
  /\ UNCHANGED <<pc, trial, outcome, sudo, callVars, file, metas, unsent, faults, hit, lost>>

Next ==
  \/ NextEntry \/ CheckTools \/ MakeParent \/ CheckWritable \/ MakeMeta \/ TestExists \/ Record
  \/ Put \/ Chown \/ RestoreDumps \/ RemoveMeta \/ LoseSession

Spec == Init /\ [][Next]_vars

-----------------------------------------------------------------------------
(* Properties                                                              *)

Labels == { "entry", "tools", "mkdir", "writable", "meta", "exists", "record", "put", "chown",
  "restore", "removeMeta", "end" }

\* The type of every variable; a call under way has an entry, the later ones have not begun.
LoopType ==
  /\ pc \in Labels
  /\ trial \in 0..NumEntries
  /\ pc \notin {"entry", "end"} => trial \in Entry /\ outcome[trial] = "none"
  /\ outcome \in [Entry -> {"none", "returned", "raised"}]
  /\ \A e \in Entry : e > trial => outcome[e] = "none"
CallType ==
  /\ sudo \in BOOLEAN /\ dumps \in BOOLEAN /\ meta \in BOOLEAN
  /\ existed \in BOOLEAN /\ dumped \in BOOLEAN
  /\ recorded \in File \cup {"none", "login"}
FileType ==
  file \in [File -> [body : {"none", "old", "part", "new"}, owner : File \cup {"none", "login"}]]
SetType ==
  /\ metas \subseteq Entry /\ unsent \subseteq Entry
  /\ session \in BOOLEAN /\ faults \in 0..MaxFaults
  /\ hit \subseteq Entry /\ lost \subseteq Entry
TypeOK == LoopType /\ CallType /\ FileType /\ SetType

\* A failure concerns its own path only: a file none of whose entries met one is whole, new
\* once all are done, and an unfinished one is an entry's whose put failed.
Spared(f) == \A e \in Entry : PathOf[e] = f => e \notin hit
Contained ==
  \A f \in File :
    /\ Spared(f) => file[f].body # "part"
    /\ pc = "end" /\ Spared(f) /\ (\E e \in Entry \ Link : PathOf[e] = f) => file[f].body = "new"

\* Nothing is left out: by the time the host ends, an entry whose file is not the new one,
\* whole, counts as an error of the host or is one whose directory was not to be had or whose
\* put failed, or a later entry for the same path is. No step before the put, and no file that
\* is there already, ends a call early in another way. The second kind of failure counts as
\* processed, see ErrorCounted.
Accounted ==
  pc = "end" =>
    \A e \in Entry \ Link :
      \/ file[PathOf[e]].body = "new"
      \/ \E u \in e..NumEntries : PathOf[u] = PathOf[e] /\ (outcome[u] = "raised" \/ u \in unsent)

\* docs/gm-scatter-specJP.md:206 - an error during the transfer counts as at least one error of
\* the host. sftp_put_one() gives its failures to a report, and the command line passes one
\* that discards them.
ErrorCounted ==
  pc = "end" /\ unsent # {} => \E e \in Entry : outcome[e] = "raised"

\* Nobody loses a file: an owner, once there, stays, through recording, put and giving back,
\* whichever of these fails, and for a file that two entries put.
OwnersKept == [][\A f \in File : file[f].owner # "none" => file'[f].owner = file[f].owner]_vars

\* With the session up, the directory of a call that returns is removed: only a call that
\* raises may leave one, or one whose mktemp or rm went wrong.
MetaRemoved ==
  session /\ pc \in {"entry", "end"} => metas \subseteq lost \cup {e \in Entry : outcome[e] = "raised"}
=============================================================================
