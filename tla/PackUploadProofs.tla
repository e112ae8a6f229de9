-------------------------- MODULE PackUploadProofs --------------------------
(***************************************************************************)
(* Theorems about PackUpload, for every archive, every remote host and any *)
(* number of failing commands.                                             *)
(***************************************************************************)
EXTENDS PackUpload, TLAPS

Early == {"detect", "work", "put", "dest", "split"}
Extracting == {"newList", "extractNew", "chownNew"}
Staging == {"existDir", "existList", "extractExist", "metaDir"}
Replacing == {"capture", "cat", "move", "restore"}
Over == {"clean", "end"}
Before == Early \cup {"dirs", "chownDirs"} \cup Extracting \cup Staging

TmpRecord == [work : {"none", "work", "/tmp"}, exist : {"none", "exist", "/tmp"}, meta : {"none", "meta"}]
MetaRecord == [owner : {"none", "orig"}, acl : {"none", "orig"}]
Paths == {"/tmp", "work", "payload", "newList", "existList", "exist", "copies", "meta"}

\* The types that TypeOK states, the temporaries' as a record.
OptType == /\ opt \in [sudo : BOOLEAN, selinux : {"auto", "policy", "ignore"}]
           /\ cap \in [selinux : BOOLEAN, dumps : BOOLEAN, gid : BOOLEAN]
OwnType == /\ tmp \in TmpRecord
           /\ exist \subseteq File /\ new \subseteq File /\ exist \cap new = {}
           /\ made \subseteq EmptyDir
           /\ meta \in [File -> MetaRecord]
ReportType == /\ failed \in BOOLEAN /\ done \subseteq exist /\ finished \in BOOLEAN
              /\ end \in {"none", "returned", "raised"}
HostType == /\ file \in [File -> FileState]
            /\ dirs \in [Dir -> {"absent", "theirs", "ours", "chowned"}]
            /\ relabelled \subseteq File
            /\ gmtmp \subseteq exist
            /\ remote \subseteq Paths
FaultType == session \in BOOLEAN /\ faults \in 0..MaxFaults /\ hit \subseteq File \cup Dir /\ leaked \in BOOLEAN
LoopType == /\ pc \in Labels
            /\ todo \subseteq exist
            /\ now \in File \cup {"none"}
            /\ pc \in {"capture", "cat"} => todo # {}
            /\ pc \in {"move", "restore"} => now \in todo
Typed == OptType /\ OwnType /\ ReportType /\ HostType /\ FaultType /\ LoopType

\* What is still empty before the split and before the loops, and what is known after them.
PhaseInv ==
  /\ pc \in Early => exist = {} /\ new = {} /\ made = {}
  /\ pc \in Before => todo = {}
  /\ pc \in Before \cup {"capture"} => done = {} /\ gmtmp = {}
  /\ pc \notin Over => ~finished /\ relabelled = {}
  /\ pc \notin Early \cup Over \/ finished => exist \cup new = File
  /\ pc \in Extracting => new # {}
  /\ pc \in Staging \cup Replacing => exist # {}
  /\ pc = "restore" => opt.sudo
  /\ todo \cap done = {}

\* Where each temporary came from, and that the clean-up knows of it.
RemoteInv ==
  /\ "/tmp" \in remote
  /\ pc \in {"detect", "work"} => remote = {"/tmp"} /\ tmp.work = "none"
  /\ "work" \in remote => tmp.work = "work" \/ leaked
  /\ "exist" \in remote => tmp.exist = "exist" \/ leaked
  /\ "meta" \in remote => tmp.meta = "meta" \/ leaked
  /\ pc \in Before \ {"existList", "extractExist", "metaDir"} => "exist" \notin remote
  /\ pc \in Before => "meta" \notin remote
  /\ "newList" \in remote => new # {}
  /\ "existList" \in remote => exist # {}
  /\ "copies" \in remote \/ pc \in {"existList", "extractExist"} => tmp.exist # "none"
  /\ gmtmp \subseteq hit \cup (IF pc = "move" THEN {now} ELSE {})
  /\ pc = "end" /\ session /\ ~leaked =>
       remote \ (IF tmp.exist = "/tmp" THEN {"copies"} ELSE {}) = {"/tmp"}

\* The empty directories: which were made here, and who owns them.
DirInv ==
  /\ \A d \in made \ hit : dirs[d] # "theirs"
  /\ pc \notin Early \cup {"dirs"} \cup Over \/ finished => \A d \in EmptyDir : dirs[d] # "absent"

\* As long as no command failed.
NoFault == session /\ faults = 0
FaultInv ==
  NoFault =>
    /\ hit = {} /\ ~leaked /\ ~failed /\ tmp.exist # "/tmp"
    /\ pc \in Over => finished /\ end = "returned"
    /\ \A d \in EmptyDir : dirs[d] = "ours" => IF pc = "chownDirs" THEN d \in made ELSE ~Chowns
    /\ pc \in Early \cup {"dirs"} => \A d \in EmptyDir : dirs[d] # "ours"

\* A file found on the host is untouched until it is moved over; it is then restored, and done.
Moved(f) == pc = "restore" /\ now = f
Untouched(r) == r.body \in {"old", "dir"} /\ r.owner = "orig" /\ r.acl = "orig"
Recorded(m) == m.owner = "orig" /\ m.acl = IF Dumps THEN "orig" ELSE "none"
Replaced(r) == r.body \in {"new", "holding"} /\ (opt.sudo => r.owner = "orig" /\ (Dumps => r.acl = "orig"))
ExistInv ==
  /\ pc \in Early => \A f \in File : file[f] \in {Absent, Theirs, Directory}
  /\ OldOrNew
  /\ pc \in Before \cup {"capture"} => \A f \in exist : Untouched(file[f])
  /\ \A f \in exist \ hit :
       /\ f \notin done /\ ~Moved(f) => Untouched(file[f])
       /\ Moved(f) => file[f].body \in {"new", "holding"}
       /\ f \in done => Replaced(file[f])
       /\ pc \in {"cat", "move", "restore"} \/ (pc = "capture" /\ f \notin todo) => Recorded(meta[f])
  /\ pc \in {"cat", "move", "restore"} => exist \ todo \subseteq done \cup hit
  /\ pc = "relabel" \/ finished => exist \subseteq done \cup hit

\* A new file is absent until it is extracted, unless the test for it failed; it then changes
\* hands and is labelled.
NewInv ==
  \A f \in new \ hit :
    /\ NoFault /\ pc \in {"dirs", "chownDirs", "newList", "extractNew"} => file[f].body = "none"
    /\ pc \in {"chownNew", "relabel"} \cup Staging \cup Replacing \/ finished => file[f].body = "new"
    /\ pc \in {"relabel"} \cup Staging \cup Replacing \/ finished =>
         (Chowns => file[f].owner = "target")
    /\ finished => (Relabels => f \in relabelled)

IInv == Typed /\ PhaseInv /\ RemoteInv /\ DirInv /\ FaultInv /\ ExistInv /\ NewInv

-----------------------------------------------------------------------------
(* Commands and the ways they end                                          *)

\* Whatever a command does, a failure is remembered, and a lost session stays lost.
Ending(fs) == Works \/ Raises(fs) \/ ExitsBadly(fs) \/ LosesAnswer
Noticed ==
  /\ FaultType'
  /\ hit \subseteq hit' /\ (leaked => leaked') /\ (session' => session)
  /\ NoFault' => NoFault /\ UNCHANGED faultVars

LEMMA EndingNoticed ==
  ASSUME FaultType, NEW fs \in SUBSET (File \cup Dir), Ending(fs)
  PROVE  /\ Noticed
         /\ Raises(fs) \/ ExitsBadly(fs) \/ LosesAnswer => ~NoFault'
<1> USE DEF Noticed, FaultType, NoFault, faultVars, Works
<1>0. UNCHANGED <<faults, session>> /\ session => ~(Raises(fs) \/ ExitsBadly(fs) \/ LosesAnswer)
  BY UploadAssumption DEF Raises, ExitsBadly, LosesAnswer
<1>1. CASE Works BY <1>0, <1>1
<1>2. CASE ExitsBadly(fs)
  <2>1. faults' = faults + 1 /\ faults' \in 0..MaxFaults /\ faults' # 0
    BY <1>2, UploadAssumption DEF ExitsBadly
  <2> QED BY <1>2, <2>1 DEF ExitsBadly
<1>3. CASE LosesAnswer
  <2>1. faults' = faults + 1 /\ faults' \in 0..MaxFaults /\ faults' # 0
    BY <1>3, UploadAssumption DEF LosesAnswer
  <2> QED BY <1>3, <2>1 DEF LosesAnswer
<1>4. CASE ~session /\ hit' = hit \cup fs /\ UNCHANGED <<session, faults, leaked>>
  BY <1>4
<1> QED BY <1>1, <1>2, <1>3, <1>4 DEF Ending, Raises

LEMMA SameNoticed == ASSUME FaultType, UNCHANGED faultVars PROVE Noticed
BY DEF FaultType, Noticed, faultVars, NoFault

\* The two ways out of the body that lead to the clean-up.
Leaves ==
  /\ pc' = "clean" /\ end' \in {"returned", "raised"} /\ failed' \in BOOLEAN
  /\ UNCHANGED <<done, finished>>

LEMMA LeavesBody ==
  ASSUME failed \in BOOLEAN, ReportAndReturn \/ Propagate
  PROVE  Leaves
BY DEF Leaves, ReportAndReturn, Propagate, reportVars

\* A step that leaves the files found on the host alone keeps what is known of them...
LEMMA ExistQuiet ==
  ASSUME ExistInv, hit \subseteq hit', UNCHANGED <<exist, done, finished, opt, cap>>,
         \A f \in exist : file'[f] = file[f],
         done = {} \/ UNCHANGED tmp, pc # "restore", pc' \notin {"cat", "move", "restore"},
         pc' \in Early => pc \in Early /\ UNCHANGED file,
         pc' \in Before \cup {"capture"} => pc \in Before, pc' = "capture" => todo' = exist,
         pc' = "relabel" => exist = {}
  PROVE  ExistInv'
<1>1. OldOrNew' BY DEF ExistInv, OldOrNew
<1>2. ASSUME NEW f \in exist' \ hit'
      PROVE  /\ f \notin done' => Untouched(file[f])'
             /\ f \in done' => Replaced(file[f])'
  <2>1. f \in exist \ hit /\ ~Moved(f) /\ file'[f] = file[f] BY <1>2 DEF Moved
  <2>2. f \notin done => Untouched(file[f]) BY <2>1 DEF ExistInv
  <2>3. f \in done => Replaced(file[f]) BY <2>1 DEF ExistInv
  <2>4. f \in done => Dumps' = Dumps BY DEF Dumps
  <2> QED BY <2>1, <2>2, <2>3, <2>4 DEF Untouched, Replaced
<1>3. pc' \in Before \cup {"capture"} => \A f \in exist' : Untouched(file[f])'
  BY DEF ExistInv, Untouched
<1> QED BY <1>1, <1>2, <1>3 DEF ExistInv, Moved, Early

\* ...and one that leaves the new files alone what is known of them, unless it goes on past
\* their extraction.
Waiting == {"dirs", "chownDirs", "newList", "extractNew"}
Settled == {"relabel"} \cup Staging \cup Replacing
LEMMA NewQuiet ==
  ASSUME NewInv, hit \subseteq hit', NoFault' => NoFault, UNCHANGED <<new, opt, cap, relabelled, finished>>,
         \A f \in new : file'[f] = file[f],
         pc' \in Waiting => pc \in Waiting, pc' # "chownNew",
         pc' \in Settled => pc \in Settled \/ new = {}
  PROVE  NewInv'
BY DEF NewInv, Waiting, Settled, Staging, Replacing, Chowns, Relabels

\* As long as no command failed, nothing is missing.
LEMMA FaultQuiet ==
  ASSUME FaultInv, NoFault' => NoFault /\ UNCHANGED faultVars,
         UNCHANGED <<opt, cap, dirs, made>>, NoFault' => failed' = failed /\ pc' \notin Over,
         NoFault' => tmp'.exist = tmp.exist \/ tmp'.exist # "/tmp",
         pc' \in Early \cup {"dirs"} => pc \in Early \cup {"dirs"},
         pc # "chownDirs", pc' # "chownDirs"
  PROVE  FaultInv'
BY DEF FaultInv, faultVars, Chowns

-----------------------------------------------------------------------------
(* The steps before the files are touched                                  *)

LEMMA DetectStep == ASSUME IInv, Detect PROVE IInv'
<1> USE DEF Labels, Early, Extracting, Staging, Replacing, Over, Before,
            optVars, ownVars, hostVars, reportVars
<1>0. /\ Typed /\ PhaseInv /\ RemoteInv /\ DirInv /\ FaultInv /\ ExistInv /\ NewInv
      /\ pc = "detect"
  BY DEF IInv, Detect
<1>1. /\ Noticed
      /\ Raises({}) \/ ExitsBadly({}) \/ LosesAnswer => ~NoFault'
  BY <1>0, EndingNoticed DEF Detect, Ending, Typed, LoopType, OwnType, Dir
<1>2. /\ UNCHANGED <<todo, now, opt, ownVars, hostVars, remote, reportVars>>
      /\ cap' \in [selinux : BOOLEAN, dumps : BOOLEAN, gid : BOOLEAN]
      /\ \/ Works /\ pc' = "work" /\ UNCHANGED end
         \/ pc' = "end" /\ end' = "raised" /\ ~NoFault'
  BY <1>0, <1>1 DEF Detect, Proceed, Abandon, Typed, OptType
<1>3. OptType' BY <1>0, <1>2 DEF Typed, OptType
<1>4. OwnType' BY <1>0, <1>2 DEF Typed, OwnType
<1>5. ReportType' BY <1>0, <1>2 DEF Typed, ReportType, Leaves
<1>6. HostType' BY <1>0, <1>2 DEF Typed, HostType, Paths
<1>7. LoopType' BY <1>0, <1>2 DEF Typed, LoopType, Leaves
<1>8. PhaseInv' BY <1>0, <1>2 DEF PhaseInv, Leaves
<1>9. RemoteInv' BY <1>0, <1>1, <1>2 DEF Noticed, PhaseInv, RemoteInv, Leaves
<1>10. DirInv' BY <1>0, <1>1, <1>2 DEF Noticed, DirInv, Leaves
<1>11. FaultInv' BY <1>0, <1>1, <1>2 DEF Noticed, FaultInv, faultVars
<1>12. ExistInv' BY <1>0, <1>1, <1>2 DEF Noticed, PhaseInv, ExistInv, OldOrNew
<1>13. NewInv' BY <1>0, <1>1, <1>2 DEF Noticed, PhaseInv, NewInv
<1> QED
  BY <1>1, <1>3, <1>4, <1>5, <1>6, <1>7, <1>8, <1>9, <1>10, <1>11, <1>12, <1>13
  DEF IInv, Typed, Noticed

LEMMA MakeWorkStep == ASSUME IInv, MakeWork PROVE IInv'
<1> USE DEF Labels, Early, Extracting, Staging, Replacing, Over, Before,
            optVars, ownVars, hostVars, reportVars
<1>0. /\ Typed /\ PhaseInv /\ RemoteInv /\ DirInv /\ FaultInv /\ ExistInv /\ NewInv
      /\ pc = "work"
  BY DEF IInv, MakeWork
<1>1. /\ Noticed
      /\ Raises({}) \/ ExitsBadly({}) \/ LosesAnswer => ~NoFault'
  BY <1>0, EndingNoticed DEF MakeWork, Ending, Typed, LoopType, OwnType, Dir
<1>2. /\ UNCHANGED <<todo, now, optVars, exist, new, made, meta, hostVars, reportVars>>
      /\ \/ Works /\ pc' = "put" /\ remote' = {"/tmp", "work"} /\ UNCHANGED end
            /\ tmp' = [tmp EXCEPT !.work = "work"]
         \/ ~NoFault' /\ pc' = "put" /\ UNCHANGED <<remote, end>>
            /\ tmp' = [tmp EXCEPT !.work = "/tmp"]
         \/ ~NoFault' /\ pc' = "end" /\ end' = "raised" /\ UNCHANGED <<tmp, remote>>
         \/ ~NoFault' /\ pc' = "end" /\ end' = "raised" /\ UNCHANGED tmp
            /\ leaked' /\ remote' = {"/tmp", "work"}
  BY <1>0, <1>1 DEF MakeWork, Proceed, Abandon, RemoteInv, LosesAnswer
<1>21. tmp' \in TmpRecord /\ tmp'.exist = tmp.exist /\ tmp'.meta = tmp.meta
       /\ ("work" \in remote' => tmp'.work = "work" \/ leaked')
  BY <1>0, <1>2 DEF Typed, OwnType, TmpRecord, RemoteInv
<1>3. OptType' BY <1>0, <1>2 DEF Typed, OptType
<1>4. OwnType' BY <1>0, <1>2, <1>21 DEF Typed, OwnType
<1>5. ReportType' BY <1>0, <1>2 DEF Typed, ReportType, Leaves
<1>6. HostType' BY <1>0, <1>2 DEF Typed, HostType, Paths
<1>7. LoopType' BY <1>0, <1>2 DEF Typed, LoopType, Leaves
<1>8. PhaseInv' BY <1>0, <1>2 DEF PhaseInv, Leaves
<1>9. RemoteInv' BY <1>0, <1>1, <1>2, <1>21 DEF Noticed, PhaseInv, RemoteInv
<1>10. DirInv' BY <1>0, <1>1, <1>2 DEF Noticed, DirInv, Leaves
<1>11. FaultInv' BY <1>0, <1>1, <1>2, <1>21, FaultQuiet DEF Noticed, FaultInv
<1>12. ExistInv' BY <1>0, <1>1, <1>2, ExistQuiet DEF Noticed, PhaseInv, Leaves
<1>13. NewInv' BY <1>0, <1>1, <1>2, NewQuiet DEF Noticed, PhaseInv, Leaves, Waiting, Settled
<1> QED
  BY <1>1, <1>3, <1>4, <1>5, <1>6, <1>7, <1>8, <1>9, <1>10, <1>11, <1>12, <1>13
  DEF IInv, Typed, Noticed

LEMMA PutStep == ASSUME IInv, Put PROVE IInv'
<1> USE DEF Labels, Early, Extracting, Staging, Replacing, Over, Before,
            optVars, ownVars, hostVars, reportVars
<1>0. /\ Typed /\ PhaseInv /\ RemoteInv /\ DirInv /\ FaultInv /\ ExistInv /\ NewInv
      /\ pc = "put"
  BY DEF IInv, Put
<1>1. /\ Noticed
      /\ Raises({}) \/ ExitsBadly({}) \/ LosesAnswer => ~NoFault'
  BY <1>0, EndingNoticed DEF Put, Ending, Typed, LoopType, OwnType, Dir
<1>2. /\ UNCHANGED <<todo, now, optVars, ownVars, hostVars>>
      /\ remote \subseteq remote' /\ remote' \subseteq remote \cup {"payload"}
      /\ \/ Works /\ pc' = "dest" /\ UNCHANGED <<reportVars, end>>
         \/ Leaves /\ ~NoFault'
  BY <1>0, <1>1, LeavesBody DEF Put, Proceed, Typed, ReportType
<1>3. OptType' BY <1>0, <1>2 DEF Typed, OptType
<1>4. OwnType' BY <1>0, <1>2 DEF Typed, OwnType
<1>5. ReportType' BY <1>0, <1>2 DEF Typed, ReportType, Leaves
<1>6. HostType' BY <1>0, <1>2 DEF Typed, HostType, Paths
<1>7. LoopType' BY <1>0, <1>2 DEF Typed, LoopType, Leaves
<1>8. PhaseInv' BY <1>0, <1>2 DEF PhaseInv, Leaves
<1>9. RemoteInv' BY <1>0, <1>1, <1>2 DEF Noticed, PhaseInv, RemoteInv, Leaves
<1>10. DirInv' BY <1>0, <1>1, <1>2 DEF Noticed, DirInv, Leaves
<1>11. FaultInv' BY <1>0, <1>1, <1>2, FaultQuiet DEF Noticed, FaultInv, Leaves
<1>12. ExistInv' BY <1>0, <1>1, <1>2, ExistQuiet DEF Noticed, PhaseInv, Leaves
<1>13. NewInv' BY <1>0, <1>1, <1>2, NewQuiet DEF Noticed, PhaseInv, Leaves, Waiting, Settled
<1> QED
  BY <1>1, <1>3, <1>4, <1>5, <1>6, <1>7, <1>8, <1>9, <1>10, <1>11, <1>12, <1>13
  DEF IInv, Typed, Noticed

LEMMA PrepareDestStep == ASSUME IInv, PrepareDest PROVE IInv'
<1> USE DEF Labels, Early, Extracting, Staging, Replacing, Over, Before,
            optVars, ownVars, hostVars, reportVars
<1>0. /\ Typed /\ PhaseInv /\ RemoteInv /\ DirInv /\ FaultInv /\ ExistInv /\ NewInv
      /\ pc = "dest"
  BY DEF IInv, PrepareDest
<1>1. /\ Noticed
      /\ Raises({}) \/ ExitsBadly({}) \/ LosesAnswer => ~NoFault'
  BY <1>0, EndingNoticed DEF PrepareDest, Ending, Typed, LoopType, OwnType, Dir
<1>2. /\ UNCHANGED <<todo, now, optVars, ownVars, hostVars, remote>>
      /\ \/ Works /\ pc' = "split" /\ UNCHANGED <<reportVars, end>>
         \/ Leaves /\ ~NoFault'
  BY <1>0, <1>1, LeavesBody DEF PrepareDest, Proceed, Typed, ReportType
<1>3. OptType' BY <1>0, <1>2 DEF Typed, OptType
<1>4. OwnType' BY <1>0, <1>2 DEF Typed, OwnType
<1>5. ReportType' BY <1>0, <1>2 DEF Typed, ReportType, Leaves
<1>6. HostType' BY <1>0, <1>2 DEF Typed, HostType, Paths
<1>7. LoopType' BY <1>0, <1>2 DEF Typed, LoopType, Leaves
<1>8. PhaseInv' BY <1>0, <1>2 DEF PhaseInv, Leaves
<1>9. RemoteInv' BY <1>0, <1>1, <1>2 DEF Noticed, PhaseInv, RemoteInv, Leaves
<1>10. DirInv' BY <1>0, <1>1, <1>2 DEF Noticed, DirInv, Leaves
<1>11. FaultInv' BY <1>0, <1>1, <1>2, FaultQuiet DEF Noticed, FaultInv, Leaves
<1>12. ExistInv' BY <1>0, <1>1, <1>2, ExistQuiet DEF Noticed, PhaseInv, Leaves
<1>13. NewInv' BY <1>0, <1>1, <1>2, NewQuiet DEF Noticed, PhaseInv, Leaves, Waiting, Settled
<1> QED
  BY <1>1, <1>3, <1>4, <1>5, <1>6, <1>7, <1>8, <1>9, <1>10, <1>11, <1>12, <1>13
  DEF IInv, Typed, Noticed

LEMMA SplitExistNewStep == ASSUME IInv, SplitExistNew PROVE IInv'
<1> USE DEF Labels, Early, Extracting, Staging, Replacing, Over, Before,
            optVars, ownVars, hostVars, reportVars
<1>0. /\ Typed /\ PhaseInv /\ RemoteInv /\ DirInv /\ FaultInv /\ ExistInv /\ NewInv
      /\ pc = "split"
  BY DEF IInv, SplitExistNew
<1>1. /\ Noticed
      /\ Raises({}) \/ ExitsBadly({}) => ~NoFault'
  <2>1. FaultType /\ {} \in SUBSET (File \cup Dir) BY <1>0 DEF Typed
  <2>2. Ending({}) BY DEF SplitExistNew, Ending
  <2> QED BY <2>1, <2>2, EndingNoticed
<1>2. /\ UNCHANGED <<todo, now, optVars, tmp, made, meta, hostVars, remote>>
      /\ \/ /\ pc' = "dirs" /\ UNCHANGED <<reportVars, end>>
            /\ exist' \subseteq Present /\ (NoFault' => Present \subseteq exist') /\ new' = File \ exist'
         \/ Leaves /\ ~NoFault' /\ UNCHANGED <<exist, new>>
  BY <1>0, <1>1, LeavesBody DEF SplitExistNew, Proceed, Typed, ReportType, ExitsBadly
<1>21. Present \subseteq File /\ \A f \in File : file[f] \in {Absent, Theirs, Directory}
  BY <1>0 DEF Present, ExistInv
<1>22. \A f \in Present : Untouched(file[f])
  <2>1. \A f \in Present : file[f] = Theirs \/ file[f] = Directory
    <3>1. Absent.body = "none" BY DEF Absent
    <3> QED BY <1>21, <3>1 DEF Present
  <2> QED BY <2>1 DEF Untouched, Theirs, Directory
<1>23. \A f \in File \ Present : file[f].body = "none" BY DEF Present
<1>24. done = {} /\ todo = {} /\ gmtmp = {} /\ relabelled = {} /\ exist = {} /\ new = {} /\ made = {}
       /\ ~finished
  BY <1>0 DEF PhaseInv
<1>3. OptType' BY <1>0, <1>2 DEF Typed, OptType
<1>4. OwnType' BY <1>0, <1>2, <1>21 DEF Typed, OwnType
<1>5. ReportType' BY <1>0, <1>2, <1>24 DEF Typed, ReportType, Leaves
<1>6. HostType' BY <1>0, <1>2, <1>24 DEF Typed, HostType, Paths
<1>7. LoopType' BY <1>0, <1>2, <1>24 DEF Typed, LoopType, Leaves
<1>8. PhaseInv' BY <1>0, <1>2, <1>21, <1>24 DEF PhaseInv, Leaves
<1>9. RemoteInv' BY <1>0, <1>1, <1>2, <1>24 DEF Noticed, RemoteInv, Leaves
<1>10. DirInv' BY <1>0, <1>1, <1>2 DEF Noticed, DirInv, Leaves
<1>11. FaultInv' BY <1>0, <1>1, <1>2, FaultQuiet DEF Noticed, FaultInv, Leaves
<1>12. ExistInv'
  <2>1. ASSUME NEW f \in exist' PROVE Untouched(file[f])'
    BY <1>2, <1>22, <1>24, <2>1 DEF Untouched
  <2>2. OldOrNew' BY <2>1 DEF OldOrNew, Untouched
  <2> QED BY <1>2, <1>24, <2>1, <2>2 DEF ExistInv, Moved, Leaves
<1>13. NewInv'
  <2>1. ASSUME NEW f \in new' \ hit', pc' = "dirs", NoFault' PROVE file'[f].body = "none"
    BY <1>2, <1>23, <2>1 DEF Leaves
  <2> QED BY <1>2, <1>24, <2>1 DEF NewInv, Leaves
<1> QED
  BY <1>1, <1>3, <1>4, <1>5, <1>6, <1>7, <1>8, <1>9, <1>10, <1>11, <1>12, <1>13
  DEF IInv, Typed, Noticed

\* Directories that are made, and nothing else.
DirType(d) == d \in [Dir -> {"absent", "theirs", "ours", "chowned"}]
MadeOf(S) == [d \in Dir |-> IF d \in S THEN "ours" ELSE dirs[d]]
LEMMA MadeDirs ==
  ASSUME DirType(dirs), NEW S \in SUBSET Missing, dirs' = MadeOf(S)
  PROVE  /\ DirType(dirs)' /\ \A d \in Dir : dirs'[d] = dirs[d] \/ (dirs[d] = "absent" /\ dirs'[d] = "ours")
         /\ \A d \in S : dirs'[d] = "ours"
BY DEF DirType, MadeOf, Missing, Dir

LEMMA MakeEmptyDirsStep == ASSUME IInv, MakeEmptyDirs PROVE IInv'
<1> USE DEF Labels, Early, Extracting, Staging, Replacing, Over, Before,
            optVars, ownVars, hostVars, reportVars
<1>0. /\ Typed /\ PhaseInv /\ RemoteInv /\ DirInv /\ FaultInv /\ ExistInv /\ NewInv
      /\ pc = "dirs"
  BY DEF IInv, MakeEmptyDirs
<1>1. /\ Noticed
      /\ Raises({}) => ~NoFault'
  <2>1. FaultType BY <1>0 DEF Typed
  <2>2. \A d \in EmptyDir : ExitsBadly({d}) => Noticed
    <3>1. \A d \in EmptyDir : {d} \in SUBSET (File \cup Dir) BY DEF Dir
    <3> QED BY <2>1, <3>1, EndingNoticed DEF Ending
  <2>3. {} \in SUBSET (File \cup Dir) OBVIOUS
  <2>4. (Works \/ Raises({}) => Noticed) /\ (Raises({}) => ~NoFault')
    BY <2>1, <2>3, EndingNoticed DEF Ending
  <2>5. UNCHANGED faultVars => Noticed BY <2>1, SameNoticed
  <2> QED BY <2>2, <2>4, <2>5 DEF MakeEmptyDirs
<1>2. /\ UNCHANGED <<todo, now, optVars, tmp, exist, new, meta, file, relabelled, gmtmp, remote>>
      /\ DirType(dirs)' /\ made' \subseteq EmptyDir
      /\ \A d \in Dir : dirs'[d] = dirs[d] \/ (dirs[d] = "absent" /\ dirs'[d] = "ours")
      /\ \/ /\ pc' = "chownDirs" /\ UNCHANGED <<reportVars, end>>
            /\ Missing \subseteq made' /\ made' \ Missing \subseteq hit'
            /\ \A d \in Missing : dirs'[d] = "ours"
         \/ Leaves /\ ~NoFault' /\ UNCHANGED made
  <2>0. DirType(dirs) /\ made \subseteq EmptyDir /\ Missing \subseteq EmptyDir
        /\ UNCHANGED <<todo, now, optVars, tmp, exist, new, meta, file, relabelled, gmtmp, remote>>
    BY <1>0 DEF Typed, HostType, OwnType, DirType, MakeEmptyDirs, Missing
  <2>1. CASE Works /\ made' = Missing /\ dirs' = MadeOf(Missing) /\ Proceed("chownDirs")
    BY <2>0, <2>1, MadeDirs DEF Proceed
  <2>2. CASE /\ \E d \in EmptyDir : ExitsBadly({d}) /\ made' = Missing \cup {d}
             /\ dirs' = MadeOf(Missing) /\ Proceed("chownDirs")
    BY <2>0, <2>2, MadeDirs DEF Proceed, ExitsBadly
  <2>3. CASE /\ Raises({}) /\ UNCHANGED made /\ (ReportAndReturn \/ Propagate)
             /\ \E S \in SUBSET Missing : dirs' = MadeOf(S)
    <3>1. Leaves BY <1>0, <2>3, LeavesBody DEF Typed, ReportType
    <3> QED BY <1>1, <2>0, <2>3, <3>1, MadeDirs
  <2>4. CASE EmptyDir = {} /\ Proceed("chownDirs") /\ UNCHANGED <<made, dirs, faultVars>>
    BY <2>0, <2>4 DEF Proceed, DirType, Missing
  <2> QED BY <2>1, <2>2, <2>3, <2>4 DEF MakeEmptyDirs, MadeOf
<1>3. OptType' BY <1>0, <1>2 DEF Typed, OptType
<1>4. OwnType' BY <1>0, <1>2 DEF Typed, OwnType
<1>5. ReportType' BY <1>0, <1>2 DEF Typed, ReportType, Leaves
<1>6. HostType' BY <1>0, <1>2 DEF Typed, HostType, DirType
<1>7. LoopType' BY <1>0, <1>2 DEF Typed, LoopType, Leaves
<1>8. PhaseInv' BY <1>0, <1>2 DEF PhaseInv, Leaves
<1>9. RemoteInv' BY <1>0, <1>1, <1>2 DEF Noticed, PhaseInv, RemoteInv, Leaves
<1>10. DirInv'
  <2>1. \A d \in EmptyDir : d \in Dir BY DEF Dir
  <2>2. ASSUME NEW d \in made' \ hit' PROVE dirs'[d] # "theirs"
    BY <1>0, <1>1, <1>2, <2>1, <2>2 DEF Noticed, DirInv, Typed, OwnType
  <2>3. ASSUME NEW d \in EmptyDir, pc' = "chownDirs" PROVE dirs'[d] # "absent"
    BY <1>2, <2>1, <2>3 DEF Missing, Leaves
  <2> QED BY <1>0, <1>2, <2>2, <2>3 DEF DirInv, Leaves, PhaseInv
<1>11. FaultInv'
  <2>1. SUFFICES ASSUME NoFault' PROVE FaultInv' BY DEF FaultInv
  <2>2. NoFault /\ UNCHANGED faultVars /\ pc' = "chownDirs" /\ UNCHANGED <<reportVars, end>>
    BY <1>1, <1>2, <2>1 DEF Noticed
  <2>3. \A d \in EmptyDir : dirs'[d] = "ours" => d \in made'
    BY <1>0, <1>2, <2>2 DEF FaultInv, Dir, Missing, Leaves
  <2> QED BY <1>0, <1>2, <2>2, <2>3 DEF FaultInv, faultVars
<1>12. ExistInv' BY <1>0, <1>1, <1>2, ExistQuiet DEF Noticed, PhaseInv, Leaves
<1>13. NewInv' BY <1>0, <1>1, <1>2, NewQuiet DEF Noticed, PhaseInv, Leaves, Waiting, Settled
<1> QED
  BY <1>1, <1>3, <1>4, <1>5, <1>6, <1>7, <1>8, <1>9, <1>10, <1>11, <1>12, <1>13
  DEF IInv, Typed, Noticed

\* Directories that change hands.
ChownedOf(S) == [d \in Dir |-> IF d \in S THEN "chowned" ELSE dirs[d]]
LEMMA ChownedDirsOf ==
  ASSUME DirType(dirs), NEW S, dirs' = ChownedOf(S)
  PROVE  /\ DirType(dirs)'
         /\ \A d \in Dir : dirs'[d] = dirs[d] \/ (d \in S /\ dirs'[d] = "chowned")
         /\ \A d \in Dir \cap S : dirs'[d] = "chowned"
BY DEF DirType, ChownedOf

\* Where the upload goes on after the directories, and after the new files.
LEMMA NextPart ==
  /\ AfterNew \in {"relabel", "existDir"} /\ (AfterNew = "relabel" <=> exist = {})
  /\ AfterDirs \in {"newList", "relabel", "existDir"} /\ (AfterDirs = "newList" <=> new # {})
  /\ AfterDirs = "relabel" => exist = {}
  /\ AfterDirs = "existDir" => exist # {}
BY DEF AfterNew, AfterDirs

LEMMA ChownEmptyDirsStep == ASSUME IInv, ChownEmptyDirs PROVE IInv'
<1> USE DEF Labels, Early, Extracting, Staging, Replacing, Over, Before,
            optVars, ownVars, hostVars, reportVars
<1>0. /\ Typed /\ PhaseInv /\ RemoteInv /\ DirInv /\ FaultInv /\ ExistInv /\ NewInv
      /\ pc = "chownDirs"
  BY DEF IInv, ChownEmptyDirs
<1>1. Noticed /\ \A S \in Missed(made) : Raises(S) => ~NoFault'
  <2>1. FaultType /\ made \in SUBSET (File \cup Dir) BY <1>0 DEF Typed, OwnType, Dir
  <2>2. \A S \in Missed(made) : S \in SUBSET (File \cup Dir) BY <2>1 DEF Missed
  <2>3. \A S \in Missed(made) : Raises(S) => Noticed /\ ~NoFault'
    BY <2>1, <2>2, EndingNoticed DEF Ending
  <2>4. {} \in SUBSET (File \cup Dir) OBVIOUS
  <2>5. (Works => Noticed) /\ (UNCHANGED faultVars => Noticed)
    BY <2>1, <2>4, EndingNoticed, SameNoticed DEF Ending
  <2> QED BY <2>3, <2>5 DEF ChownEmptyDirs
<1>2. /\ UNCHANGED <<todo, now, optVars, ownVars, file, relabelled, gmtmp, remote, done, finished, end>>
      /\ DirType(dirs)' /\ pc' = AfterDirs /\ failed' \in BOOLEAN
      /\ \A d \in Dir : dirs'[d] = dirs[d] \/ (d \in made /\ dirs'[d] = "chowned")
      /\ NoFault' => failed' = failed /\ (~Chowns \/ \A d \in made : dirs'[d] = "chowned")
  <2>0. DirType(dirs) /\ failed \in BOOLEAN /\ made \subseteq Dir
        /\ UNCHANGED <<todo, now, optVars, ownVars, file, relabelled, gmtmp, remote>>
    BY <1>0 DEF Typed, HostType, OwnType, ReportType, DirType, ChownEmptyDirs, Dir
  <2>1. CASE (made = {} \/ ~Chowns) /\ UNCHANGED <<dirs, faultVars>> /\ Proceed(AfterDirs)
    BY <2>0, <2>1 DEF Proceed, DirType
  <2>2. CASE dirs' = ChownedOf(made) /\ Proceed(AfterDirs)
    BY <2>0, <2>2, ChownedDirsOf DEF Proceed
  <2>3. CASE \E S \in Missed(made) : Raises(S) /\ dirs' = ChownedOf(made \ S) /\ Tolerate(AfterDirs)
    <3>1. PICK S \in Missed(made) : Raises(S) /\ dirs' = ChownedOf(made \ S) /\ Tolerate(AfterDirs)
      BY <2>3
    <3>2. ~NoFault' BY <1>1, <3>1
    <3>3. pc' = AfterDirs /\ failed' \in BOOLEAN /\ UNCHANGED <<end, done, finished>>
      BY <2>0, <3>1 DEF Tolerate
    <3> QED BY <2>0, <3>1, <3>2, <3>3, ChownedDirsOf
  <2> QED BY <2>1, <2>2, <2>3 DEF ChownEmptyDirs, ChownedOf
<1>3. OptType' BY <1>0, <1>2 DEF Typed, OptType
<1>4. OwnType' BY <1>0, <1>2 DEF Typed, OwnType
<1>5. ReportType' BY <1>0, <1>2 DEF Typed, ReportType
<1>6. HostType' BY <1>0, <1>2 DEF Typed, HostType, DirType
<1>7. LoopType' BY <1>0, <1>2, NextPart DEF Typed, LoopType
<1>8. PhaseInv' BY <1>0, <1>2, NextPart DEF PhaseInv
<1>9. RemoteInv' BY <1>0, <1>1, <1>2, NextPart DEF Noticed, PhaseInv, RemoteInv
<1>10. DirInv'
  <2>1. made \subseteq EmptyDir /\ EmptyDir \subseteq Dir BY <1>0 DEF Dir, Typed, OwnType
  <2>2. \A d \in EmptyDir : dirs'[d] # "absent" BY <1>0, <1>2, <2>1 DEF DirInv
  <2> QED BY <1>0, <1>1, <1>2, <2>1, <2>2 DEF DirInv, Noticed
<1>11. FaultInv'
  <2>1. SUFFICES ASSUME NoFault' PROVE FaultInv' BY DEF FaultInv
  <2>2. NoFault /\ UNCHANGED faultVars /\ UNCHANGED failed
    BY <1>1, <1>2, <2>1 DEF Noticed
  <2>3. \A d \in EmptyDir : dirs'[d] = "ours" => ~Chowns
    BY <1>0, <1>2, <2>1, <2>2 DEF FaultInv, Dir
  <2> QED BY <1>0, <1>2, <2>2, <2>3, NextPart DEF FaultInv, faultVars, Chowns
<1>12. ExistInv' BY <1>0, <1>1, <1>2, NextPart, ExistQuiet DEF Noticed, PhaseInv
<1>13. NewInv' BY <1>0, <1>1, <1>2, NextPart, NewQuiet DEF Noticed, PhaseInv, Waiting, Settled
<1> QED
  BY <1>1, <1>3, <1>4, <1>5, <1>6, <1>7, <1>8, <1>9, <1>10, <1>11, <1>12, <1>13
  DEF IInv, Typed, Noticed

-----------------------------------------------------------------------------
(* The new files                                                           *)

LEMMA WriteNewListStep == ASSUME IInv, WriteNewList PROVE IInv'
<1> USE DEF Labels, Early, Extracting, Staging, Replacing, Over, Before,
            optVars, ownVars, hostVars, reportVars
<1>0. /\ Typed /\ PhaseInv /\ RemoteInv /\ DirInv /\ FaultInv /\ ExistInv /\ NewInv
      /\ pc = "newList"
  BY DEF IInv, WriteNewList
<1>1. Noticed /\ (Raises({}) => ~NoFault')
  BY <1>0, EndingNoticed DEF WriteNewList, WriteList, Ending, Typed
<1>2. /\ UNCHANGED <<todo, now, optVars, ownVars, hostVars>>
      /\ remote \subseteq remote' /\ remote' \subseteq remote \cup {"newList"}
      /\ \/ Works /\ pc' = "extractNew" /\ UNCHANGED <<reportVars, end>>
         \/ Leaves /\ ~NoFault'
  BY <1>0, <1>1, LeavesBody DEF WriteNewList, WriteList, Proceed, Typed, ReportType
<1>3. OptType' BY <1>0, <1>2 DEF Typed, OptType
<1>4. OwnType' BY <1>0, <1>2 DEF Typed, OwnType
<1>5. ReportType' BY <1>0, <1>2 DEF Typed, ReportType, Leaves
<1>6. HostType' BY <1>0, <1>2 DEF Typed, HostType, Paths
<1>7. LoopType' BY <1>0, <1>2 DEF Typed, LoopType, Leaves
<1>8. PhaseInv' BY <1>0, <1>2 DEF PhaseInv, Leaves
<1>9. RemoteInv' BY <1>0, <1>1, <1>2 DEF Noticed, PhaseInv, RemoteInv, Leaves
<1>10. DirInv' BY <1>0, <1>1, <1>2 DEF Noticed, DirInv, Leaves
<1>11. FaultInv' BY <1>0, <1>1, <1>2, FaultQuiet DEF Noticed, FaultInv, Leaves
<1>12. ExistInv' BY <1>0, <1>1, <1>2, ExistQuiet DEF Noticed, PhaseInv, Leaves
<1>13. NewInv' BY <1>0, <1>1, <1>2, NewQuiet DEF Noticed, PhaseInv, Leaves, Waiting, Settled
<1> QED
  BY <1>1, <1>3, <1>4, <1>5, <1>6, <1>7, <1>8, <1>9, <1>10, <1>11, <1>12, <1>13
  DEF IInv, Typed, Noticed

\* The states a new file goes through.
LEMMA FileStates ==
  /\ Extracted("runner") \in FileState /\ Extracted("runner").body = "new"
  /\ Partial \in FileState
  /\ \A r \in FileState : /\ [r EXCEPT !.owner = "target"] \in FileState
                          /\ [r EXCEPT !.owner = "target"].owner = "target"
                          /\ [r EXCEPT !.owner = "target"].body = r.body
BY DEF Extracted, Partial, FileState

LEMMA ParentsMade ==
  ASSUME DirType(dirs), NEW S \in SUBSET File, dirs' = WithParents(S)
  PROVE  /\ DirType(dirs)'
         /\ \A d \in Dir : dirs'[d] = dirs[d] \/ (dirs[d] = "absent" /\ dirs'[d] = "ours")
BY DEF DirType, WithParents

LEMMA ExtractNewStep == ASSUME IInv, ExtractNew PROVE IInv'
<1> USE DEF Labels, Early, Extracting, Staging, Replacing, Over, Before,
            optVars, ownVars, hostVars, reportVars
<1>0. /\ Typed /\ PhaseInv /\ RemoteInv /\ DirInv /\ FaultInv /\ ExistInv /\ NewInv
      /\ pc = "extractNew"
  BY DEF IInv, ExtractNew
<1>1. Noticed /\ (Raises(new) \/ ExitsBadly(new) => ~NoFault')
  <2>1. FaultType /\ new \in SUBSET (File \cup Dir) BY <1>0 DEF Typed, OwnType
  <2>2. Ending(new) BY DEF ExtractNew, Ending
  <2> QED BY <2>1, <2>2, EndingNoticed
<1>2. /\ UNCHANGED <<todo, now, optVars, ownVars, relabelled, gmtmp, remote>>
      /\ DirType(dirs)' /\ file' \in [File -> FileState]
      /\ \A d \in Dir : dirs'[d] = dirs[d] \/ (dirs[d] = "absent" /\ dirs'[d] = "ours")
      /\ \A f \in File \ new : file'[f] = file[f]
      /\ \/ pc' = "chownNew" /\ UNCHANGED <<reportVars, end>> /\ \A f \in new : file'[f].body = "new"
         \/ Leaves /\ ~NoFault'
  <2>0. DirType(dirs) /\ file \in [File -> FileState] /\ new \subseteq File /\ failed \in BOOLEAN
        /\ UNCHANGED <<todo, now, optVars, ownVars, relabelled, gmtmp, remote>>
    BY <1>0 DEF Typed, HostType, OwnType, ReportType, DirType, ExtractNew
  <2> DEFINE blocked == {f \in new : file[f].body = "dir"}
             FileAfter(S, p) == [f \in File |-> IF f = p THEN Partial
                                     ELSE IF f \in S THEN Extracted("runner") ELSE file[f]]
  <2>1. CASE /\ Works
             /\ file' = [f \in File |-> IF f \in new \ blocked THEN Extracted("runner") ELSE file[f]]
             /\ dirs' = WithParents(new)
             /\ IF blocked = {} THEN Proceed("chownNew") ELSE ReportAndReturn
    <3>1. file' \in [File -> FileState] /\ \A f \in File \ new : file'[f] = file[f]
      BY <2>0, <2>1, FileStates
    <3>2. CASE blocked = {}
      <4>1. \A f \in new : file'[f] = Extracted("runner") BY <2>0, <2>1, <3>2
      <4> HIDE DEF blocked
      <4> QED BY <2>0, <2>1, <3>1, <3>2, <4>1, ParentsMade, FileStates DEF Proceed
    <3>3. CASE blocked # {}
      <4>1. Leaves BY <2>0, <2>1, <3>3, LeavesBody
      <4>2. NoFault => \A f \in new : file[f].body = "none" BY <1>0 DEF FaultInv, NewInv
      <4>3. ~NoFault BY <3>3, <4>2
      <4>4. ~NoFault' BY <1>1, <4>3 DEF Noticed
      <4> HIDE DEF blocked
      <4> QED BY <2>0, <2>1, <3>1, <4>1, <4>4, ParentsMade
    <3> QED BY <3>2, <3>3
  <2>2. CASE \E S \in SUBSET (new \ blocked) : \E p \in S :
               /\ ExitsBadly(new) /\ file' = FileAfter(S, p) /\ dirs' = WithParents(S)
               /\ (ReportAndReturn \/ Propagate)
    <3>0. PICK S \in SUBSET (new \ blocked) : \E p \in S :
            /\ ExitsBadly(new) /\ file' = FileAfter(S, p) /\ dirs' = WithParents(S)
            /\ (ReportAndReturn \/ Propagate)
      BY <2>2
    <3>1. PICK p \in S : /\ ExitsBadly(new) /\ file' = FileAfter(S, p) /\ dirs' = WithParents(S)
                         /\ (ReportAndReturn \/ Propagate)
      BY <3>0
    <3>2. file' \in [File -> FileState] /\ \A f \in File \ new : file'[f] = file[f]
      BY <2>0, <3>1, FileStates
    <3>3. Leaves /\ ~NoFault' BY <1>1, <2>0, <3>1, LeavesBody
    <3>4. S \in SUBSET File /\ dirs' = WithParents(S) BY <2>0, <3>1
    <3> HIDE DEF FileAfter, blocked
    <3> QED BY <2>0, <3>2, <3>3, <3>4, ParentsMade
  <2>3. CASE Raises(new) /\ Propagate /\ UNCHANGED <<file, dirs>>
    <3>1. Leaves /\ ~NoFault' BY <1>1, <2>0, <2>3, LeavesBody
    <3> QED BY <2>0, <2>3, <3>1 DEF DirType
  <2> QED BY <1>0, <2>1, <2>2, <2>3 DEF ExtractNew
<1>3. OptType' BY <1>0, <1>2 DEF Typed, OptType
<1>4. OwnType' BY <1>0, <1>2 DEF Typed, OwnType
<1>5. ReportType' BY <1>0, <1>2 DEF Typed, ReportType, Leaves
<1>6. HostType' BY <1>0, <1>2 DEF Typed, HostType, DirType
<1>7. LoopType' BY <1>0, <1>2 DEF Typed, LoopType, Leaves
<1>8. PhaseInv' BY <1>0, <1>2 DEF PhaseInv, Leaves
<1>9. RemoteInv' BY <1>0, <1>1, <1>2 DEF Noticed, PhaseInv, RemoteInv, Leaves
<1>10. DirInv'
  <2>1. made \subseteq EmptyDir /\ EmptyDir \subseteq Dir BY <1>0 DEF Dir, Typed, OwnType
  <2>2. \A d \in EmptyDir : dirs'[d] # "absent" BY <1>0, <1>2, <2>1 DEF DirInv
  <2> QED BY <1>0, <1>1, <1>2, <2>1, <2>2 DEF DirInv, Noticed, Leaves
<1>11. FaultInv'
  <2>1. SUFFICES ASSUME NoFault' PROVE FaultInv' BY DEF FaultInv
  <2>2. NoFault /\ UNCHANGED faultVars /\ UNCHANGED <<reportVars, end>> /\ pc' = "chownNew"
    BY <1>1, <1>2, <2>1 DEF Noticed
  <2>3. \A d \in EmptyDir : d \in Dir /\ dirs[d] # "absent" BY <1>0 DEF DirInv, Dir
  <2>4. \A d \in EmptyDir : dirs'[d] = dirs[d] BY <1>2, <2>3
  <2> QED BY <1>0, <1>2, <2>2, <2>4 DEF FaultInv, faultVars, Chowns
<1>12. ExistInv'
  <2>1. \A f \in exist : file'[f] = file[f] BY <1>0, <1>2 DEF Typed, OwnType
  <2> QED BY <1>0, <1>1, <1>2, <2>1, ExistQuiet DEF Noticed, PhaseInv, Leaves
<1>13. NewInv'
  <2>1. finished' = finished /\ ~finished BY <1>0, <1>2 DEF PhaseInv, Leaves
  <2> QED BY <1>0, <1>1, <1>2, <2>1 DEF NewInv, Leaves
<1> QED
  BY <1>1, <1>3, <1>4, <1>5, <1>6, <1>7, <1>8, <1>9, <1>10, <1>11, <1>12, <1>13
  DEF IInv, Typed, Noticed

LEMMA ChownNewStep == ASSUME IInv, ChownNew PROVE IInv'
<1> USE DEF Labels, Early, Extracting, Staging, Replacing, Over, Before,
            optVars, ownVars, hostVars, reportVars
<1>0. /\ Typed /\ PhaseInv /\ RemoteInv /\ DirInv /\ FaultInv /\ ExistInv /\ NewInv
      /\ pc = "chownNew"
  BY DEF IInv, ChownNew
<1>1. Noticed /\ \A S \in Missed(new) : Raises(S) => ~NoFault' /\ S \subseteq hit'
  <2>1. FaultType /\ new \in SUBSET (File \cup Dir) BY <1>0 DEF Typed, OwnType, Dir
  <2>2. \A S \in Missed(new) : S \in SUBSET (File \cup Dir) BY <2>1 DEF Missed
  <2>3. \A S \in Missed(new) : Raises(S) => Noticed /\ ~NoFault'
    BY <2>1, <2>2, EndingNoticed DEF Ending
  <2>4. {} \in SUBSET (File \cup Dir) OBVIOUS
  <2>5. (Works => Noticed) /\ (UNCHANGED faultVars => Noticed)
    BY <2>1, <2>4, EndingNoticed, SameNoticed DEF Ending
  <2>6. \A S : Raises(S) => S \subseteq hit' BY DEF Raises, ExitsBadly
  <2> QED BY <2>3, <2>5, <2>6 DEF ChownNew
<1>2. /\ UNCHANGED <<todo, now, optVars, ownVars, relabelled, gmtmp, remote, done, finished, end>>
      /\ pc' = AfterNew /\ failed' \in BOOLEAN /\ DirType(dirs)' /\ file' \in [File -> FileState]
      /\ \A d \in Dir : dirs'[d] = dirs[d] \/ dirs'[d] = "chowned"
      /\ \A f \in File \ new : file'[f] = file[f]
      /\ \A f \in new : file'[f].body = file[f].body
      /\ \A f \in new \ hit' : Chowns => file'[f].owner = "target"
      /\ NoFault' => failed' = failed
  <2>0. /\ DirType(dirs) /\ file \in [File -> FileState] /\ new \subseteq File /\ failed \in BOOLEAN
        /\ UNCHANGED <<todo, now, optVars, ownVars, relabelled, gmtmp, remote>>
    BY <1>0 DEF Typed, HostType, OwnType, ReportType, DirType, ChownNew
  <2> DEFINE FileAfter(S) ==
               [f \in File |-> IF f \in S THEN [file[f] EXCEPT !.owner = "target"] ELSE file[f]]
  <2>1. ASSUME NEW S \in SUBSET new, file' = FileAfter(S)
        PROVE  /\ file' \in [File -> FileState]
               /\ \A f \in File \ S : file'[f] = file[f]
               /\ \A f \in new : file'[f].body = file[f].body
               /\ \A f \in S : file'[f].owner = "target"
    <3>1. \A f \in File \ S : file'[f] = file[f] BY <2>1
    <3>2. \A f \in S : /\ file'[f] \in FileState /\ file'[f].owner = "target"
                       /\ file'[f].body = file[f].body
      <4> TAKE f \in S
      <4>1. f \in File /\ file[f] \in FileState BY <2>0
      <4>2. file'[f] = [file[f] EXCEPT !.owner = "target"] BY <2>1, <4>1
      <4> QED BY <4>1, <4>2, FileStates
    <3>3. \A f \in File : file'[f] \in FileState BY <2>0, <3>1, <3>2
    <3>4. file' = [f \in File |-> file'[f]] BY <2>1
    <3> HIDE DEF FileAfter
    <3>5. file' \in [File -> FileState] BY <3>3, <3>4
    <3> QED BY <2>0, <3>1, <3>2, <3>5
  <2>2. CASE ~Chowns /\ UNCHANGED <<file, dirs, faultVars>> /\ Proceed(AfterNew)
    BY <2>0, <2>2 DEF Proceed, DirType
  <2>3. CASE /\ file' = FileAfter(new) /\ dirs' = ChownedOf({ParentOf[f] : f \in new})
             /\ Proceed(AfterNew)
    <3> HIDE DEF FileAfter
    <3> QED BY <2>0, <2>1, <2>3, ChownedDirsOf DEF Proceed
  <2>4. CASE /\ \E S \in Missed(new) : Raises(S) /\ file' = FileAfter(new \ S)
             /\ dirs' = ChownedOf(IF session THEN {ParentOf[f] : f \in new} ELSE {})
             /\ Tolerate(AfterNew)
    <3>1. PICK S \in Missed(new) : Raises(S) /\ file' = FileAfter(new \ S) BY <2>4
    <3>2. ~NoFault' /\ S \subseteq hit' BY <1>1, <3>1
    <3>3. pc' = AfterNew /\ failed' \in BOOLEAN /\ UNCHANGED <<end, done, finished>>
      BY <2>0, <2>4 DEF Tolerate
    <3>4. new \ S \in SUBSET new /\ new \ (new \ S) \subseteq S OBVIOUS
    <3> HIDE DEF FileAfter
    <3>5. /\ file' \in [File -> FileState]
          /\ \A f \in File \ (new \ S) : file'[f] = file[f]
          /\ \A f \in new : file'[f].body = file[f].body
          /\ \A f \in new \ S : file'[f].owner = "target"
      BY <2>1, <3>1, <3>4
    <3>6. DirType(dirs)' /\ \A d \in Dir : dirs'[d] = dirs[d] \/ dirs'[d] = "chowned"
      BY <2>0, <2>4, ChownedDirsOf
    <3>7. \A f \in File \ new : file'[f] = file[f] BY <3>5
    <3>8. \A f \in new \ hit' : file'[f].owner = "target" BY <3>2, <3>5
    <3> QED BY <2>0, <3>2, <3>3, <3>5, <3>6, <3>7, <3>8
  <2> QED BY <2>2, <2>3, <2>4 DEF ChownNew, ChownedOf
<1>3. OptType' BY <1>0, <1>2 DEF Typed, OptType
<1>4. OwnType' BY <1>0, <1>2 DEF Typed, OwnType
<1>5. ReportType' BY <1>0, <1>2 DEF Typed, ReportType
<1>6. HostType' BY <1>0, <1>2 DEF Typed, HostType, DirType
<1>7. LoopType' BY <1>0, <1>2, NextPart DEF Typed, LoopType
<1>8. PhaseInv' BY <1>0, <1>2, NextPart DEF PhaseInv
<1>9. RemoteInv' BY <1>0, <1>1, <1>2, NextPart DEF Noticed, PhaseInv, RemoteInv
<1>10. DirInv'
  <2>1. made \subseteq EmptyDir /\ EmptyDir \subseteq Dir BY <1>0 DEF Dir, Typed, OwnType
  <2>2. \A d \in EmptyDir : dirs'[d] # "absent" BY <1>0, <1>2, <2>1 DEF DirInv
  <2> QED BY <1>0, <1>1, <1>2, <2>1, <2>2 DEF DirInv, Noticed
<1>11. FaultInv'
  <2>1. SUFFICES ASSUME NoFault' PROVE FaultInv' BY DEF FaultInv
  <2>2. NoFault /\ UNCHANGED faultVars /\ UNCHANGED failed
    BY <1>1, <1>2, <2>1 DEF Noticed
  <2>3. \A d \in EmptyDir : dirs'[d] = "ours" => ~Chowns
    BY <1>0, <1>2, <2>1, <2>2 DEF FaultInv, Dir
  <2> QED BY <1>0, <1>2, <2>2, <2>3, NextPart DEF FaultInv, faultVars, Chowns
<1>12. ExistInv'
  <2>1. \A f \in exist : file'[f] = file[f] BY <1>0, <1>2 DEF Typed, OwnType
  <2> QED BY <1>0, <1>1, <1>2, <2>1, NextPart, ExistQuiet DEF Noticed, PhaseInv
<1>13. NewInv'
  <2>1. \A f \in new \ hit' : file'[f].body = "new" BY <1>0, <1>1, <1>2 DEF NewInv, Noticed
  <2>2. finished' = finished /\ ~finished BY <1>0, <1>2 DEF PhaseInv
  <2> QED BY <1>0, <1>2, <2>1, <2>2, NextPart DEF NewInv, Chowns
<1> QED
  BY <1>1, <1>3, <1>4, <1>5, <1>6, <1>7, <1>8, <1>9, <1>10, <1>11, <1>12, <1>13
  DEF IInv, Typed, Noticed

-----------------------------------------------------------------------------
(* The existing files                                                      *)

LEMMA MakeExistDirStep == ASSUME IInv, MakeExistDir PROVE IInv'
<1> USE DEF Labels, Early, Extracting, Staging, Replacing, Over, Before,
            optVars, ownVars, hostVars, reportVars
<1>0. /\ Typed /\ PhaseInv /\ RemoteInv /\ DirInv /\ FaultInv /\ ExistInv /\ NewInv
      /\ pc = "existDir"
  BY DEF IInv, MakeExistDir
<1>1. Noticed /\ (Raises({}) \/ ExitsBadly({}) \/ LosesAnswer => ~NoFault')
  BY <1>0, EndingNoticed DEF MakeExistDir, MakeDir, Ending, Typed
<1>2. /\ UNCHANGED <<now, optVars, exist, new, made, meta, hostVars>> /\ UNCHANGED todo
      /\ \/ /\ Works /\ tmp' = [tmp EXCEPT !.exist = "exist"] /\ remote' = remote \cup {"exist"}
            /\ pc' = "existList" /\ UNCHANGED <<end, reportVars>>
         \/ /\ ~NoFault' /\ tmp' = [tmp EXCEPT !.exist = "/tmp"] /\ UNCHANGED remote
            /\ pc' = "existList" /\ UNCHANGED <<end, reportVars>>
         \/ ~NoFault' /\ Leaves /\ UNCHANGED <<tmp, remote>>
         \/ /\ ~NoFault' /\ Leaves /\ leaked' /\ remote' = remote \cup {"exist"}
            /\ UNCHANGED tmp
  BY <1>0, <1>1, LeavesBody DEF MakeExistDir, MakeDir, Proceed, LosesAnswer, Typed, ReportType
<1>20. tmp \in TmpRecord BY <1>0 DEF Typed, OwnType
<1>23. /\ tmp' \in TmpRecord
       /\ tmp'.work = tmp.work /\ tmp'.meta = tmp.meta
       /\ tmp'.exist \in {tmp.exist, "exist", "/tmp"}
       /\ (pc' = "existList" => tmp'.exist \in {"exist", "/tmp"})
       /\ (NoFault' => tmp'.exist = "exist")
  <2>1. CASE UNCHANGED tmp /\ Leaves /\ ~NoFault' BY <1>20, <2>1 DEF Leaves
  <2>2. CASE tmp' = [tmp EXCEPT !.exist = "exist"] /\ pc' = "existList" BY <1>20, <2>2 DEF TmpRecord
  <2>3. CASE tmp' = [tmp EXCEPT !.exist = "/tmp"] /\ pc' = "existList" /\ ~NoFault'
    BY <1>20, <2>3 DEF TmpRecord
  <2> QED BY <1>2, <2>1, <2>2, <2>3
<1>24. "exist" \in remote' => tmp'.exist = "exist" \/ leaked'
  <2>1. CASE Works /\ tmp' = [tmp EXCEPT !.exist = "exist"] BY <1>20, <2>1 DEF TmpRecord
  <2>2. CASE leaked' BY <2>2
  <2>3. CASE UNCHANGED remote BY <1>0, <2>3 DEF RemoteInv
  <2> QED BY <1>2, <2>1, <2>2, <2>3
<1>3. OptType' BY <1>0, <1>2 DEF Typed, OptType
<1>4. OwnType' BY <1>0, <1>2, <1>23 DEF Typed, OwnType
<1>5. ReportType' BY <1>0, <1>2 DEF Typed, ReportType, Leaves
<1>6. HostType' BY <1>0, <1>2 DEF Typed, HostType, Paths
<1>7. LoopType' BY <1>0, <1>2 DEF Typed, LoopType, Leaves
<1>8. PhaseInv' BY <1>0, <1>2 DEF PhaseInv, Leaves
<1>9. RemoteInv' BY <1>0, <1>1, <1>2, <1>23, <1>24 DEF Noticed, PhaseInv, RemoteInv, Leaves
<1>10. DirInv' BY <1>0, <1>1, <1>2 DEF Noticed, DirInv, Leaves
<1>11. FaultInv' BY <1>0, <1>1, <1>2, <1>23, FaultQuiet DEF Noticed, FaultInv, Leaves
<1>12. ExistInv' BY <1>0, <1>1, <1>2, ExistQuiet DEF Noticed, PhaseInv, Leaves
<1>13. NewInv' BY <1>0, <1>1, <1>2, NewQuiet DEF Noticed, PhaseInv, Leaves, Waiting, Settled
<1> QED
  BY <1>1, <1>3, <1>4, <1>5, <1>6, <1>7, <1>8, <1>9, <1>10, <1>11, <1>12, <1>13
  DEF IInv, Typed, Noticed

LEMMA WriteExistListStep == ASSUME IInv, WriteExistList PROVE IInv'
<1> USE DEF Labels, Early, Extracting, Staging, Replacing, Over, Before,
            optVars, ownVars, hostVars, reportVars
<1>0. /\ Typed /\ PhaseInv /\ RemoteInv /\ DirInv /\ FaultInv /\ ExistInv /\ NewInv
      /\ pc = "existList"
  BY DEF IInv, WriteExistList
<1>1. Noticed /\ (Raises({}) => ~NoFault')
  BY <1>0, EndingNoticed DEF WriteExistList, WriteList, Ending, Typed
<1>2. /\ UNCHANGED <<todo, now, optVars, ownVars, hostVars>>
      /\ remote \subseteq remote' /\ remote' \subseteq remote \cup {"existList"}
      /\ \/ Works /\ pc' = "extractExist" /\ UNCHANGED <<reportVars, end>>
         \/ Leaves /\ ~NoFault'
  BY <1>0, <1>1, LeavesBody DEF WriteExistList, WriteList, Proceed, Typed, ReportType
<1>3. OptType' BY <1>0, <1>2 DEF Typed, OptType
<1>4. OwnType' BY <1>0, <1>2 DEF Typed, OwnType
<1>5. ReportType' BY <1>0, <1>2 DEF Typed, ReportType, Leaves
<1>6. HostType' BY <1>0, <1>2 DEF Typed, HostType, Paths
<1>7. LoopType' BY <1>0, <1>2 DEF Typed, LoopType, Leaves
<1>8. PhaseInv' BY <1>0, <1>2 DEF PhaseInv, Leaves
<1>9. RemoteInv' BY <1>0, <1>1, <1>2 DEF Noticed, PhaseInv, RemoteInv, Leaves
<1>10. DirInv' BY <1>0, <1>1, <1>2 DEF Noticed, DirInv, Leaves
<1>11. FaultInv' BY <1>0, <1>1, <1>2, FaultQuiet DEF Noticed, FaultInv, Leaves
<1>12. ExistInv' BY <1>0, <1>1, <1>2, ExistQuiet DEF Noticed, PhaseInv, Leaves
<1>13. NewInv' BY <1>0, <1>1, <1>2, NewQuiet DEF Noticed, PhaseInv, Leaves, Waiting, Settled
<1> QED
  BY <1>1, <1>3, <1>4, <1>5, <1>6, <1>7, <1>8, <1>9, <1>10, <1>11, <1>12, <1>13
  DEF IInv, Typed, Noticed

LEMMA ExtractExistStep == ASSUME IInv, ExtractExist PROVE IInv'
<1> USE DEF Labels, Early, Extracting, Staging, Replacing, Over, Before,
            optVars, ownVars, hostVars, reportVars
<1>0. /\ Typed /\ PhaseInv /\ RemoteInv /\ DirInv /\ FaultInv /\ ExistInv /\ NewInv
      /\ pc = "extractExist"
  BY DEF IInv, ExtractExist
<1>1. /\ Noticed
      /\ Raises({}) \/ ExitsBadly({}) \/ LosesAnswer => ~NoFault'
  BY <1>0, EndingNoticed DEF ExtractExist, Ending, Typed, LoopType, OwnType, Dir
<1>2. /\ UNCHANGED <<todo, now, optVars, ownVars, hostVars>>
      /\ remote \subseteq remote' /\ remote' \subseteq remote \cup {"copies"}
      /\ \/ Works /\ pc' = "metaDir" /\ UNCHANGED <<reportVars, end>>
         \/ Leaves /\ ~NoFault'
  BY <1>0, <1>1, LeavesBody DEF ExtractExist, Proceed, Typed, ReportType
<1>3. OptType' BY <1>0, <1>2 DEF Typed, OptType
<1>4. OwnType' BY <1>0, <1>2 DEF Typed, OwnType
<1>5. ReportType' BY <1>0, <1>2 DEF Typed, ReportType, Leaves
<1>6. HostType' BY <1>0, <1>2 DEF Typed, HostType, Paths
<1>7. LoopType' BY <1>0, <1>2 DEF Typed, LoopType, Leaves
<1>8. PhaseInv' BY <1>0, <1>2 DEF PhaseInv, Leaves
<1>9. RemoteInv' BY <1>0, <1>1, <1>2 DEF Noticed, PhaseInv, RemoteInv, Leaves
<1>10. DirInv' BY <1>0, <1>1, <1>2 DEF Noticed, DirInv, Leaves
<1>11. FaultInv' BY <1>0, <1>1, <1>2, FaultQuiet DEF Noticed, FaultInv, Leaves
<1>12. ExistInv' BY <1>0, <1>1, <1>2, ExistQuiet DEF Noticed, PhaseInv, Leaves
<1>13. NewInv' BY <1>0, <1>1, <1>2, NewQuiet DEF Noticed, PhaseInv, Leaves, Waiting, Settled
<1> QED
  BY <1>1, <1>3, <1>4, <1>5, <1>6, <1>7, <1>8, <1>9, <1>10, <1>11, <1>12, <1>13
  DEF IInv, Typed, Noticed

LEMMA MakeMetaDirStep == ASSUME IInv, MakeMetaDir PROVE IInv'
<1> USE DEF Labels, Early, Extracting, Staging, Replacing, Over, Before,
            optVars, ownVars, hostVars, reportVars
<1>0. /\ Typed /\ PhaseInv /\ RemoteInv /\ DirInv /\ FaultInv /\ ExistInv /\ NewInv
      /\ pc = "metaDir"
  BY DEF IInv, MakeMetaDir
<1>1. Noticed /\ (Raises({}) \/ ExitsBadly({}) \/ LosesAnswer => ~NoFault')
  BY <1>0, EndingNoticed DEF MakeMetaDir, MakeDir, Ending, Typed
<1>2. /\ UNCHANGED <<now, optVars, exist, new, made, meta, hostVars>> /\ todo' = exist
      /\ \/ /\ Works /\ tmp' = [tmp EXCEPT !.meta = "meta"] /\ remote' = remote \cup {"meta"}
            /\ pc' = "capture" /\ UNCHANGED <<end, reportVars>>
         \/ /\ ~NoFault' /\ tmp' = [tmp EXCEPT !.meta = "none"] /\ UNCHANGED remote
            /\ pc' = "capture" /\ UNCHANGED <<end, reportVars>>
         \/ ~NoFault' /\ Leaves /\ UNCHANGED <<tmp, remote>>
         \/ /\ ~NoFault' /\ Leaves /\ leaked' /\ remote' = remote \cup {"meta"}
            /\ UNCHANGED tmp
  BY <1>0, <1>1, LeavesBody DEF MakeMetaDir, MakeDir, Proceed, LosesAnswer, Typed, ReportType
<1>20. tmp \in TmpRecord BY <1>0 DEF Typed, OwnType
<1>23. /\ tmp' \in TmpRecord
       /\ tmp'.work = tmp.work /\ tmp'.exist = tmp.exist
       /\ tmp'.meta \in {tmp.meta, "meta", "none"}
       /\ (pc' = "capture" => tmp'.meta \in {"meta", "none"})
       /\ (NoFault' => tmp'.meta = "meta")
  <2>1. CASE UNCHANGED tmp /\ Leaves /\ ~NoFault' BY <1>20, <2>1 DEF Leaves
  <2>2. CASE tmp' = [tmp EXCEPT !.meta = "meta"] /\ pc' = "capture" BY <1>20, <2>2 DEF TmpRecord
  <2>3. CASE tmp' = [tmp EXCEPT !.meta = "none"] /\ pc' = "capture" /\ ~NoFault'
    BY <1>20, <2>3 DEF TmpRecord
  <2> QED BY <1>2, <2>1, <2>2, <2>3
<1>24. "meta" \in remote' => tmp'.meta = "meta" \/ leaked'
  <2>1. CASE Works /\ tmp' = [tmp EXCEPT !.meta = "meta"] BY <1>20, <2>1 DEF TmpRecord
  <2>2. CASE leaked' BY <2>2
  <2>3. CASE UNCHANGED remote BY <1>0, <2>3 DEF RemoteInv
  <2> QED BY <1>2, <2>1, <2>2, <2>3
<1>3. OptType' BY <1>0, <1>2 DEF Typed, OptType
<1>4. OwnType' BY <1>0, <1>2, <1>23 DEF Typed, OwnType
<1>5. ReportType' BY <1>0, <1>2 DEF Typed, ReportType, Leaves
<1>6. HostType' BY <1>0, <1>2 DEF Typed, HostType, Paths
<1>7. LoopType' BY <1>0, <1>2 DEF Typed, LoopType, OwnType, PhaseInv, Leaves
<1>8. PhaseInv' BY <1>0, <1>2 DEF PhaseInv, Leaves
<1>9. RemoteInv' BY <1>0, <1>1, <1>2, <1>23, <1>24 DEF Noticed, PhaseInv, RemoteInv, Leaves
<1>10. DirInv' BY <1>0, <1>1, <1>2 DEF Noticed, DirInv, Leaves
<1>11. FaultInv' BY <1>0, <1>1, <1>2, <1>23, FaultQuiet DEF Noticed, FaultInv, Leaves
<1>12. ExistInv' BY <1>0, <1>1, <1>2, ExistQuiet DEF Noticed, PhaseInv, Leaves
<1>13. NewInv' BY <1>0, <1>1, <1>2, NewQuiet DEF Noticed, PhaseInv, Leaves, Waiting, Settled
<1> QED
  BY <1>1, <1>3, <1>4, <1>5, <1>6, <1>7, <1>8, <1>9, <1>10, <1>11, <1>12, <1>13
  DEF IInv, Typed, Noticed

\* What Capture records of an untouched file, whole or in part.
LEMMA Captured ==
  ASSUME NEW r, Untouched(r),
         NEW m, m = [owner |-> r.owner, acl |-> IF Dumps THEN r.acl ELSE "none"]
  PROVE  /\ m \in MetaRecord /\ Recorded(m)
         /\ \A l \in {"owner", "acl"} : [m EXCEPT ![l] = "none"] \in MetaRecord
<1>1. m \in MetaRecord /\ Recorded(m) BY DEF Untouched, MetaRecord, Recorded
<1>2. [m EXCEPT !["owner"] = "none"] \in MetaRecord BY <1>1 DEF MetaRecord
<1>3. [m EXCEPT !["acl"] = "none"] \in MetaRecord BY <1>1 DEF MetaRecord
<1> QED BY <1>1, <1>2, <1>3

LEMMA CaptureStep == ASSUME IInv, Capture PROVE IInv'
<1> USE DEF Labels, Early, Extracting, Staging, Replacing, Over, Before,
            optVars, ownVars, hostVars, reportVars
<1>0. /\ Typed /\ PhaseInv /\ RemoteInv /\ DirInv /\ FaultInv /\ ExistInv /\ NewInv
      /\ pc = "capture"
  BY DEF IInv, Capture
<1>01. PICK f \in todo : \E m \in MetaRecord :
         /\ meta' = [meta EXCEPT ![f] = m] /\ (f \notin hit' => Recorded(m))
         /\ Works \/ ExitsBadly({f})
         /\ todo' = IF todo = {f} THEN exist ELSE todo \ {f}
         /\ Proceed(IF todo = {f} THEN "cat" ELSE "capture")
  <2> DEFINE read(f) == [owner |-> file[f].owner, acl |-> IF Dumps THEN file[f].acl ELSE "none"]
  <2>1. PICK f \in todo :
          /\ \/ Works /\ meta' = [meta EXCEPT ![f] = read(f)]
             \/ ExitsBadly({f}) /\ \E l \in {"owner", "acl"} :
                                     meta' = [meta EXCEPT ![f] = [read(f) EXCEPT ![l] = "none"]]
          /\ todo' = IF todo = {f} THEN exist ELSE todo \ {f}
          /\ Proceed(IF todo = {f} THEN "cat" ELSE "capture")
    BY DEF Capture
  <2>2. Untouched(file[f]) BY <1>0 DEF ExistInv, Typed, LoopType
  <2>3. /\ read(f) \in MetaRecord /\ Recorded(read(f))
        /\ \A l \in {"owner", "acl"} : [read(f) EXCEPT ![l] = "none"] \in MetaRecord
    BY <2>2, Captured
  <2>4. ExitsBadly({f}) => f \in hit' BY DEF ExitsBadly
  <2> HIDE DEF read
  <2>5. CASE Works /\ meta' = [meta EXCEPT ![f] = read(f)] BY <2>1, <2>3, <2>5
  <2>6. CASE ExitsBadly({f}) /\ \E l \in {"owner", "acl"} :
                                  meta' = [meta EXCEPT ![f] = [read(f) EXCEPT ![l] = "none"]]
    BY <2>1, <2>3, <2>4, <2>6
  <2> QED BY <2>1, <2>5, <2>6
<1>02. PICK m \in MetaRecord :
         /\ meta' = [meta EXCEPT ![f] = m] /\ (f \notin hit' => Recorded(m))
         /\ Works \/ ExitsBadly({f})
         /\ todo' = IF todo = {f} THEN exist ELSE todo \ {f}
         /\ Proceed(IF todo = {f} THEN "cat" ELSE "capture")
  BY <1>01
<1>1. Noticed
  <2>1. FaultType /\ {f} \in SUBSET (File \cup Dir) BY <1>0 DEF Typed, LoopType, OwnType
  <2> QED BY <1>02, <2>1, EndingNoticed DEF Ending
<1>2. /\ UNCHANGED <<now, optVars, tmp, exist, new, made, hostVars, remote, end, reportVars>>
      /\ \A g \in File \ {f} : meta'[g] = meta[g]
      /\ meta' \in [File -> MetaRecord] /\ (f \notin hit' => Recorded(meta'[f]))
      /\ todo' \subseteq exist /\ todo' # {}
      /\ \/ pc' = "cat" /\ todo = {f} /\ todo' = exist
         \/ pc' = "capture" /\ todo' = todo \ {f}
  <2>1. meta \in [File -> MetaRecord] /\ f \in exist /\ f \in File /\ todo \subseteq exist
    BY <1>0 DEF Typed, OwnType, LoopType
  <2>2. DOMAIN meta' = File /\ meta'[f] = m /\ \A g \in File \ {f} : meta'[g] = meta[g]
    BY <1>02, <2>1
  <2>3. meta' \in [File -> MetaRecord] BY <1>02, <2>1
  <2> QED BY <1>02, <2>1, <2>2, <2>3 DEF Capture, Proceed
<1>3. OptType' BY <1>0, <1>2 DEF Typed, OptType
<1>4. OwnType' BY <1>0, <1>2 DEF Typed, OwnType
<1>5. ReportType' BY <1>0, <1>2 DEF Typed, ReportType, Leaves
<1>6. HostType' BY <1>0, <1>2 DEF Typed, HostType, Paths
<1>7. LoopType' BY <1>0, <1>2 DEF Typed, LoopType, Leaves
<1>8. PhaseInv' BY <1>0, <1>2 DEF PhaseInv, Leaves
<1>9. RemoteInv' BY <1>0, <1>1, <1>2 DEF Noticed, PhaseInv, RemoteInv, Leaves
<1>10. DirInv' BY <1>0, <1>1, <1>2 DEF Noticed, DirInv, Leaves
<1>11. FaultInv' BY <1>0, <1>1, <1>2, FaultQuiet DEF Noticed, FaultInv, Leaves
<1>12. ExistInv'
  <2>1. done = {} /\ done' = {} /\ ~finished' BY <1>0, <1>2 DEF PhaseInv
  <2>2. \A g \in exist : Untouched(file[g]) BY <1>0 DEF ExistInv
  <2>3. ASSUME NEW g \in exist \ hit', pc' = "cat" \/ g \notin todo' PROVE Recorded(meta[g])'
    <3>1. g \in exist \ hit /\ exist \subseteq File BY <1>0, <1>1, <2>3 DEF Noticed, Typed, OwnType
    <3>2. CASE g = f BY <1>2, <2>3, <3>2 DEF Recorded, Dumps
    <3>3. CASE g # f
      <4>1. g \notin todo BY <1>2, <2>3, <3>1, <3>3
      <4>2. Recorded(meta[g]) /\ meta'[g] = meta[g] BY <1>0, <1>2, <3>1, <3>3, <4>1 DEF ExistInv
      <4> QED BY <1>2, <4>2 DEF Recorded, Dumps
    <3> QED BY <3>2, <3>3
  <2>4. OldOrNew' BY <1>0, <1>2 DEF ExistInv, OldOrNew
  <2>5. \A g \in exist' : Untouched(file[g])' BY <1>2, <2>2 DEF Untouched
  <2> QED BY <1>2, <2>1, <2>3, <2>4, <2>5 DEF ExistInv, Moved
<1>13. NewInv' BY <1>0, <1>1, <1>2, NewQuiet DEF Noticed, PhaseInv, Leaves, Waiting, Settled
<1> QED
  BY <1>1, <1>3, <1>4, <1>5, <1>6, <1>7, <1>8, <1>9, <1>10, <1>11, <1>12, <1>13
  DEF IInv, Typed, Noticed

LEMMA CaptureFailsStep == ASSUME IInv, CaptureFails PROVE IInv'
<1> USE DEF Labels, Early, Extracting, Staging, Replacing, Over, Before,
            optVars, ownVars, hostVars, reportVars
<1>0. /\ Typed /\ PhaseInv /\ RemoteInv /\ DirInv /\ FaultInv /\ ExistInv /\ NewInv
      /\ pc = "capture"
  BY DEF IInv, CaptureFails
<1>1. /\ Noticed
      /\ \A S \in SUBSET todo : Raises(S) \/ ExitsBadly(S) => ~NoFault' /\ S \subseteq hit'
  <2>1. FaultType /\ todo \in SUBSET (File \cup Dir) /\ (pc = "move" \/ pc = "restore" => {now} \in SUBSET todo)
    BY <1>0 DEF Typed, LoopType, OwnType
  <2>2. \A S \in SUBSET todo : Works \/ Raises(S) \/ ExitsBadly(S) => Noticed
    BY <2>1, EndingNoticed DEF Ending
  <2>3. \A S \in SUBSET todo : Raises(S) \/ ExitsBadly(S) => ~NoFault'
    BY <2>1, EndingNoticed DEF Ending
  <2>4. \A S : Raises(S) \/ ExitsBadly(S) => S \subseteq hit' BY DEF Raises, ExitsBadly
  <2>5. \A f \in todo : {f} \in SUBSET todo OBVIOUS
  <2>6. {} \in SUBSET todo /\ todo \in SUBSET todo OBVIOUS
  <2>7. \E S \in SUBSET todo : Works \/ Raises(S) \/ ExitsBadly(S)
    BY <1>0, <2>1, <2>5, <2>6 DEF CaptureFails
  <2> QED BY <2>2, <2>3, <2>4, <2>7
<1>2. /\ UNCHANGED <<todo, now, optVars, ownVars, hostVars, remote>>
      /\ Leaves /\ ~NoFault'
  <2>1. \A f \in todo : {f} \in SUBSET todo OBVIOUS
  <2> QED BY <1>0, <1>1, <2>1, LeavesBody DEF CaptureFails, Typed, ReportType
<1>3. OptType' BY <1>0, <1>2 DEF Typed, OptType
<1>4. OwnType' BY <1>0, <1>2 DEF Typed, OwnType
<1>5. ReportType' BY <1>0, <1>2 DEF Typed, ReportType, Leaves
<1>6. HostType' BY <1>0, <1>2 DEF Typed, HostType, Paths
<1>7. LoopType' BY <1>0, <1>2 DEF Typed, LoopType, Leaves
<1>8. PhaseInv' BY <1>0, <1>2 DEF PhaseInv, Leaves
<1>9. RemoteInv' BY <1>0, <1>1, <1>2 DEF Noticed, PhaseInv, RemoteInv, Leaves
<1>10. DirInv' BY <1>0, <1>1, <1>2 DEF Noticed, DirInv, Leaves
<1>11. FaultInv' BY <1>0, <1>1, <1>2, FaultQuiet DEF Noticed, FaultInv, Leaves
<1>12. ExistInv' BY <1>0, <1>1, <1>2, ExistQuiet DEF Noticed, PhaseInv, Leaves
<1>13. NewInv' BY <1>0, <1>1, <1>2, NewQuiet DEF Noticed, PhaseInv, Leaves, Waiting, Settled
<1> QED
  BY <1>1, <1>3, <1>4, <1>5, <1>6, <1>7, <1>8, <1>9, <1>10, <1>11, <1>12, <1>13
  DEF IInv, Typed, Noticed

LEMMA OverwriteCatStep == ASSUME IInv, OverwriteCat PROVE IInv'
<1> USE DEF Labels, Early, Extracting, Staging, Replacing, Over, Before,
            optVars, ownVars, hostVars, reportVars
<1>0. /\ Typed /\ PhaseInv /\ RemoteInv /\ DirInv /\ FaultInv /\ ExistInv /\ NewInv
      /\ pc = "cat"
  BY DEF IInv, OverwriteCat
<1>1. Noticed /\ UNCHANGED faultVars
  <2>1. Works BY DEF OverwriteCat
  <2> QED BY <1>0, <2>1, SameNoticed DEF Typed, Works
<1>2. /\ UNCHANGED <<todo, optVars, ownVars, file, dirs, relabelled, remote, end, reportVars>>
      /\ pc' = "move" /\ now' \in todo /\ gmtmp' = gmtmp \cup {now'}
  BY DEF OverwriteCat, Proceed
<1>3. OptType' BY <1>0, <1>2 DEF Typed, OptType
<1>4. OwnType' BY <1>0, <1>2 DEF Typed, OwnType
<1>5. ReportType' BY <1>0, <1>2 DEF Typed, ReportType, Leaves
<1>6. HostType' BY <1>0, <1>2 DEF Typed, HostType, LoopType, Paths
<1>7. LoopType' BY <1>0, <1>2 DEF Typed, LoopType, OwnType
<1>8. PhaseInv' BY <1>0, <1>2 DEF PhaseInv, Leaves
<1>9. RemoteInv' BY <1>0, <1>1, <1>2 DEF Noticed, PhaseInv, RemoteInv, Leaves
<1>10. DirInv' BY <1>0, <1>1, <1>2 DEF Noticed, DirInv, Leaves
<1>11. FaultInv' BY <1>0, <1>1, <1>2, FaultQuiet DEF Noticed, FaultInv, Leaves
<1>12. ExistInv'
  <2>1. OldOrNew' BY <1>0, <1>2 DEF ExistInv, OldOrNew
  <2>2. ASSUME NEW f \in exist' \ hit'
        PROVE  /\ f \notin done' => Untouched(file[f])'
               /\ f \in done' => Replaced(file[f])'
               /\ Recorded(meta[f])'
    <3>1. f \in exist \ hit /\ ~Moved(f) /\ (Dumps' = Dumps) BY <1>0, <1>1, <1>2 DEF Noticed, Moved, Dumps
    <3> QED BY <1>0, <1>2, <3>1 DEF ExistInv, Untouched, Replaced, Recorded
  <2> QED BY <1>0, <1>1, <1>2, <2>1, <2>2 DEF ExistInv, Moved, Noticed, PhaseInv
<1>13. NewInv' BY <1>0, <1>1, <1>2, NewQuiet DEF Noticed, PhaseInv, Leaves, Waiting, Settled
<1> QED
  BY <1>1, <1>3, <1>4, <1>5, <1>6, <1>7, <1>8, <1>9, <1>10, <1>11, <1>12, <1>13
  DEF IInv, Typed, Noticed

\* The file the replacement has reached, and the rest.
NextTodo(f) == /\ todo' = todo \ {f}
               /\ \/ pc' = "relabel" /\ todo = {f}
                  \/ pc' = "cat" /\ todo' # {}

LEMMA NextFileLeft == ASSUME NEW f \in todo, NextFile(f) PROVE NextTodo(f) /\ now' = "none"
BY DEF NextFile, NextTodo

LEMMA FileMoved ==
  ASSUME file \in [File -> FileState], NEW g \in File, file' = MovedOver(g)
  PROVE  /\ file' \in [File -> FileState] /\ file'[g].body \in {"new", "holding"}
         /\ \A f \in File \ {g} : file'[f] = file[f]
<1>1. CASE file[g].body = "dir"
  <2>1. file' = [file EXCEPT ![g] = [file[g] EXCEPT !.body = "holding"]] BY <1>1 DEF MovedOver
  <2>2. [file[g] EXCEPT !.body = "holding"] \in FileState BY DEF FileState
  <2> QED BY <2>1, <2>2 DEF FileState
<1>2. CASE file[g].body # "dir"
  <2>1. file' = [file EXCEPT ![g] = Extracted("runner")] BY <1>2 DEF MovedOver
  <2>2. file'[g] = Extracted("runner") /\ \A f \in File \ {g} : file'[f] = file[f] BY <2>1
  <2>3. file' \in [File -> FileState] BY <2>1, FileStates
  <2> QED BY <2>2, <2>3, FileStates
<1> QED BY <1>1, <1>2

\* The files found on the host, when the one called g has been dealt with.
LEMMA ExistNext ==
  ASSUME ExistInv, LoopType, OwnType, pc \in {"cat", "move", "restore"}, NEW g \in todo,
         hit \subseteq hit', UNCHANGED <<exist, opt, cap, tmp, meta, finished>>, ~finished,
         Moved(g) \/ pc # "restore", \A f \in exist \ {g} : file'[f] = file[f],
         OldOrNew', NextTodo(g) \/ (pc' = "restore" /\ UNCHANGED <<todo, now>> /\ now = g),
         done' \in {done, done \cup {g}}, g \in done' => g \notin done,
         g \in done' /\ g \notin hit' => Replaced(file[g])',
         pc' # "restore" => g \in done' \cup hit', pc' = "restore" => done' = done,
         pc' = "restore" => file'[g].body \in {"new", "holding"}
  PROVE  ExistInv'
<1>1. Dumps' = Dumps BY DEF Dumps
<1>2. ASSUME NEW f \in exist' \ hit'
      PROVE  /\ f \notin done' /\ ~Moved(f)' => Untouched(file[f])'
             /\ Moved(f)' => file'[f].body \in {"new", "holding"}
             /\ f \in done' => Replaced(file[f])'
             /\ Recorded(meta[f])'
  <2>1. f \in exist \ hit OBVIOUS
  <2>2. Recorded(meta[f])' BY <1>1, <2>1 DEF ExistInv, Recorded
  <2>3. CASE f = g
    <3>1. pc' = "restore" => Moved(f)' /\ ~(f \in done') BY <2>3 DEF Moved, NextTodo
    <3> QED BY <1>2, <2>2, <2>3, <3>1 DEF Moved, NextTodo
  <2>4. CASE f # g
    <3>1. file'[f] = file[f] /\ (f \in done' <=> f \in done) BY <2>1, <2>4
    <3>2. ~Moved(f) /\ ~Moved(f)' BY <2>4 DEF Moved, NextTodo
    <3>3. f \notin done => Untouched(file[f]) BY <2>1, <3>2 DEF ExistInv
    <3>4. f \in done => Replaced(file[f]) BY <2>1 DEF ExistInv
    <3> QED BY <1>1, <2>2, <3>1, <3>2, <3>3, <3>4 DEF Untouched, Replaced
  <2> QED BY <2>3, <2>4
<1>3. pc' # "restore" => exist' \ todo' \subseteq done' \cup hit'
  BY DEF ExistInv, NextTodo
<1>4. pc' = "restore" => exist' \ todo' \subseteq done' \cup hit'
  BY DEF ExistInv, NextTodo
<1>5. pc' = "relabel" => exist' \subseteq done' \cup hit'
  BY <1>3, <1>4 DEF NextTodo
<1>6. pc' \in {"relabel", "cat", "restore"} BY DEF NextTodo
<1> QED BY <1>2, <1>3, <1>4, <1>5, <1>6 DEF ExistInv, Early, Before, Extracting, Staging

LEMMA OverwriteMoveStep == ASSUME IInv, OverwriteMove PROVE IInv'
<1> USE DEF Labels, Early, Extracting, Staging, Replacing, Over, Before,
            optVars, ownVars, hostVars, reportVars
<1>0. /\ Typed /\ PhaseInv /\ RemoteInv /\ DirInv /\ FaultInv /\ ExistInv /\ NewInv
      /\ pc = "move"
  BY DEF IInv, OverwriteMove
<1>1. Noticed /\ UNCHANGED faultVars
  <2>1. Works BY DEF OverwriteMove
  <2> QED BY <1>0, <2>1, SameNoticed DEF Typed, Works
<1>2. /\ UNCHANGED <<optVars, ownVars, dirs, relabelled, remote, end, failed, finished>>
      /\ now \in todo /\ now \in File /\ gmtmp' = gmtmp \ {now}
      /\ file' \in [File -> FileState] /\ file'[now].body \in {"new", "holding"}
      /\ \A f \in File \ {now} : file'[f] = file[f]
      /\ \/ pc' = "restore" /\ opt.sudo /\ UNCHANGED <<todo, now, done>>
         \/ ~opt.sudo /\ done' = done \cup {now} /\ NextTodo(now) /\ now' = "none"
  <2>1. file \in [File -> FileState] /\ now \in todo /\ now \in File BY <1>0 DEF Typed, HostType, LoopType, OwnType
  <2>2. file' = MovedOver(now) BY DEF OverwriteMove
  <2>3. /\ file' \in [File -> FileState] /\ file'[now].body \in {"new", "holding"}
        /\ \A f \in File \ {now} : file'[f] = file[f]
    BY <2>1, <2>2, FileMoved
  <2>4. \/ pc' = "restore" /\ opt.sudo /\ UNCHANGED <<todo, now, done, end, failed, finished>>
        \/ /\ ~opt.sudo /\ done' = done \cup {now} /\ NextTodo(now) /\ now' = "none"
           /\ UNCHANGED <<failed, finished, end>>
    BY <2>1, NextFileLeft DEF OverwriteMove, Proceed
  <2> QED BY <2>1, <2>3, <2>4 DEF OverwriteMove
<1>3. OptType' BY <1>0, <1>2 DEF Typed, OptType
<1>4. OwnType' BY <1>0, <1>2 DEF Typed, OwnType
<1>5. ReportType' BY <1>0, <1>2 DEF Typed, ReportType, LoopType
<1>6. HostType' BY <1>0, <1>2 DEF Typed, HostType, Paths
<1>7. LoopType' BY <1>0, <1>2 DEF Typed, LoopType, NextTodo
<1>8. PhaseInv' BY <1>0, <1>2 DEF PhaseInv, NextTodo
<1>9. RemoteInv' BY <1>0, <1>1, <1>2 DEF Noticed, PhaseInv, RemoteInv, NextTodo
<1>10. DirInv' BY <1>0, <1>1, <1>2 DEF Noticed, DirInv, NextTodo
<1>11. FaultInv' BY <1>0, <1>1, <1>2, FaultQuiet DEF Noticed, FaultInv, NextTodo
<1>12. ExistInv'
  <2>0. PICK g \in todo : g = now BY <1>2
  <2>1. g \notin done /\ ~finished /\ exist \subseteq File
    BY <1>0, <2>0 DEF PhaseInv, Typed, OwnType
  <2>2. OldOrNew' BY <1>0, <1>2, <2>1 DEF ExistInv, OldOrNew
  <2>3. /\ done' \in {done, done \cup {g}} /\ (pc' # "restore" => g \in done')
        /\ (pc' = "restore" => done' = done) /\ (g \in done' => ~opt'.sudo)
        /\ NextTodo(g) \/ (pc' = "restore" /\ UNCHANGED <<todo, now>>)
    BY <1>2, <2>0, <2>1 DEF NextTodo
  <2>4. g \in done' => Replaced(file[g])' BY <1>2, <2>0, <2>3 DEF Replaced
  <2>5. \A f \in exist \ {g} : file'[f] = file[f] BY <1>2, <2>0, <2>1
  <2>6. UNCHANGED <<exist, opt, cap, tmp, meta, finished>> /\ file'[g].body \in {"new", "holding"}
    BY <1>2, <2>0
  <2> QED BY <1>0, <1>1, <2>0, <2>1, <2>2, <2>3, <2>4, <2>5, <2>6, ExistNext DEF Noticed, Typed
<1>13. NewInv'
  <2>1. \A f \in new : file'[f] = file[f] BY <1>0, <1>2 DEF Typed, OwnType, LoopType
  <2> QED BY <1>0, <1>1, <1>2, <2>1, NewQuiet DEF Noticed, PhaseInv, Leaves, Waiting, Settled, NextTodo
<1> QED
  BY <1>1, <1>3, <1>4, <1>5, <1>6, <1>7, <1>8, <1>9, <1>10, <1>11, <1>12, <1>13
  DEF IInv, Typed, Noticed

LEMMA OverwriteFailsStep == ASSUME IInv, OverwriteFails PROVE IInv'
<1> USE DEF Labels, Early, Extracting, Staging, Replacing, Over, Before,
            optVars, ownVars, hostVars, reportVars
<1>0. /\ Typed /\ PhaseInv /\ RemoteInv /\ DirInv /\ FaultInv /\ ExistInv /\ NewInv
      /\ pc \in {"cat", "move"}
  BY DEF IInv, OverwriteFails
<1>01. PICK g \in todo : /\ ExitsBadly({g}) /\ gmtmp' \subseteq gmtmp \cup {g} /\ NextFile(g)
                        /\ (pc = "move" => g = now)
  BY <1>0 DEF OverwriteFails, Typed, LoopType
<1>1. /\ Noticed
      /\ \A S \in SUBSET todo : Raises(S) \/ ExitsBadly(S) => ~NoFault' /\ S \subseteq hit'
  <2>1. FaultType /\ todo \in SUBSET (File \cup Dir) /\ (pc = "move" \/ pc = "restore" => {now} \in SUBSET todo)
    BY <1>0 DEF Typed, LoopType, OwnType
  <2>2. \A S \in SUBSET todo : Works \/ Raises(S) \/ ExitsBadly(S) => Noticed
    BY <2>1, EndingNoticed DEF Ending
  <2>3. \A S \in SUBSET todo : Raises(S) \/ ExitsBadly(S) => ~NoFault'
    BY <2>1, EndingNoticed DEF Ending
  <2>4. \A S : Raises(S) \/ ExitsBadly(S) => S \subseteq hit' BY DEF Raises, ExitsBadly
  <2>5. \A f \in todo : {f} \in SUBSET todo OBVIOUS
  <2>6. {} \in SUBSET todo /\ todo \in SUBSET todo OBVIOUS
  <2>7. \E S \in SUBSET todo : Works \/ Raises(S) \/ ExitsBadly(S)
    BY <1>0, <2>1, <2>5, <2>6 DEF OverwriteFails
  <2> QED BY <2>2, <2>3, <2>4, <2>7
<1>2. /\ UNCHANGED <<end, done, finished, optVars, ownVars, file, dirs, relabelled, remote>>
      /\ failed' = TRUE /\ ~NoFault' /\ g \in hit' /\ g \in todo /\ (pc = "move" => g = now)
      /\ NextTodo(g) /\ now' = "none" /\ gmtmp' \subseteq gmtmp \cup {g}
  <2>1. NextTodo(g) /\ now' = "none" BY <1>01, NextFileLeft
  <2>2. {g} \in SUBSET todo OBVIOUS
  <2>3. UNCHANGED <<end, done, finished, optVars, ownVars, file, dirs, relabelled, remote>> /\ failed' = TRUE
    BY DEF OverwriteFails
  <2> QED BY <1>01, <1>1, <2>1, <2>2, <2>3
<1>3. OptType' BY <1>0, <1>2 DEF Typed, OptType
<1>4. OwnType' BY <1>0, <1>2 DEF Typed, OwnType
<1>5. ReportType' BY <1>0, <1>2 DEF Typed, ReportType
<1>6. HostType' BY <1>0, <1>2 DEF Typed, HostType, LoopType, Paths
<1>7. LoopType' BY <1>0, <1>2 DEF Typed, LoopType, NextTodo
<1>8. PhaseInv' BY <1>0, <1>2 DEF PhaseInv, NextTodo
<1>9. RemoteInv' BY <1>0, <1>1, <1>2 DEF Noticed, PhaseInv, RemoteInv, NextTodo
<1>10. DirInv' BY <1>0, <1>1, <1>2 DEF Noticed, DirInv, NextTodo
<1>11. FaultInv' BY <1>2 DEF FaultInv
<1>12. ExistInv'
  <2>1. g \notin done /\ ~finished BY <1>0, <1>2 DEF PhaseInv
  <2>2. OldOrNew' BY <1>0, <1>2 DEF ExistInv, OldOrNew
  <2> QED BY <1>0, <1>1, <1>2, <2>1, <2>2, ExistNext DEF Noticed, Typed, NextTodo
<1>13. NewInv'
  <2>1. \A f \in new : file'[f] = file[f] BY <1>0, <1>2 DEF Typed, OwnType, LoopType
  <2> QED BY <1>0, <1>1, <1>2, <2>1, NewQuiet DEF Noticed, PhaseInv, Leaves, Waiting, Settled, NextTodo
<1> QED
  BY <1>1, <1>3, <1>4, <1>5, <1>6, <1>7, <1>8, <1>9, <1>10, <1>11, <1>12, <1>13
  DEF IInv, Typed, Noticed

LEMMA OverwriteRaisesStep == ASSUME IInv, OverwriteRaises PROVE IInv'
<1> USE DEF Labels, Early, Extracting, Staging, Replacing, Over, Before,
            optVars, ownVars, hostVars, reportVars
<1>0. /\ Typed /\ PhaseInv /\ RemoteInv /\ DirInv /\ FaultInv /\ ExistInv /\ NewInv
      /\ pc \in {"cat", "move"}
  BY DEF IInv, OverwriteRaises
<1>1. /\ Noticed
      /\ \A S \in SUBSET todo : Raises(S) \/ ExitsBadly(S) => ~NoFault' /\ S \subseteq hit'
  <2>1. FaultType /\ todo \in SUBSET (File \cup Dir) /\ (pc = "move" \/ pc = "restore" => {now} \in SUBSET todo)
    BY <1>0 DEF Typed, LoopType, OwnType
  <2>2. \A S \in SUBSET todo : Works \/ Raises(S) \/ ExitsBadly(S) => Noticed
    BY <2>1, EndingNoticed DEF Ending
  <2>3. \A S \in SUBSET todo : Raises(S) \/ ExitsBadly(S) => ~NoFault'
    BY <2>1, EndingNoticed DEF Ending
  <2>4. \A S : Raises(S) \/ ExitsBadly(S) => S \subseteq hit' BY DEF Raises, ExitsBadly
  <2>5. \A f \in todo : {f} \in SUBSET todo OBVIOUS
  <2>6. {} \in SUBSET todo /\ todo \in SUBSET todo OBVIOUS
  <2>7. \E S \in SUBSET todo : Works \/ Raises(S) \/ ExitsBadly(S)
    BY <1>0, <2>1, <2>5, <2>6 DEF OverwriteRaises
  <2> QED BY <2>2, <2>3, <2>4, <2>7
<1>2. /\ UNCHANGED <<todo, now, optVars, ownVars, dirs, relabelled, remote>>
      /\ Leaves /\ ~NoFault' /\ file' \in [File -> FileState] /\ gmtmp' \subseteq gmtmp
      /\ (pc = "move" => now \in hit')
      /\ \A f \in File \ hit' : file'[f] = file[f]
      /\ \A f \in exist : file'[f] = file[f] \/ file'[f].body \in {"new", "holding"}
      /\ \A f \in File \ exist : file'[f] = file[f]
  <2>1. file \in [File -> FileState] /\ todo \subseteq File /\ exist \subseteq File /\ todo \subseteq exist
        /\ (pc = "move" => now \in todo)
    BY <1>0 DEF Typed, HostType, LoopType, OwnType
  <2>2. Leaves BY <1>0, LeavesBody DEF OverwriteRaises, Typed, ReportType
  <2>3. ~NoFault' /\ (pc = "move" => now \in hit')
    <3>1. CASE pc = "cat" BY <1>0, <1>1, <3>1 DEF OverwriteRaises
    <3>2. CASE pc = "move"
      <4>1. {now} \in SUBSET todo BY <2>1, <3>2
      <4> QED BY <1>0, <1>1, <3>2, <4>1 DEF OverwriteRaises
    <3> QED BY <1>0, <3>1, <3>2
  <2>4. CASE UNCHANGED <<gmtmp, file>> BY <2>1, <2>2, <2>3, <2>4 DEF OverwriteRaises
  <2>5. CASE pc = "move" /\ file' = MovedOver(now) /\ gmtmp' = gmtmp \ {now}
    <3>1. now \in File /\ now \in exist /\ now \in hit' BY <2>1, <2>3, <2>5
    <3>2. /\ file' \in [File -> FileState] /\ file'[now].body \in {"new", "holding"}
          /\ \A f \in File \ {now} : file'[f] = file[f]
      BY <2>1, <2>5, <3>1, FileMoved
    <3> QED BY <2>1, <2>2, <2>3, <2>5, <3>1, <3>2 DEF OverwriteRaises
  <2> QED BY <2>4, <2>5 DEF OverwriteRaises
<1>3. OptType' BY <1>0, <1>2 DEF Typed, OptType
<1>4. OwnType' BY <1>0, <1>2 DEF Typed, OwnType
<1>5. ReportType' BY <1>0, <1>2 DEF Typed, ReportType, Leaves
<1>6. HostType' BY <1>0, <1>2 DEF Typed, HostType, LoopType, Paths
<1>7. LoopType' BY <1>0, <1>2 DEF Typed, LoopType, Leaves
<1>8. PhaseInv' BY <1>0, <1>2 DEF PhaseInv, Leaves
<1>9. RemoteInv' BY <1>0, <1>1, <1>2 DEF Noticed, PhaseInv, RemoteInv, Leaves
<1>10. DirInv' BY <1>0, <1>1, <1>2 DEF Noticed, DirInv, Leaves
<1>11. FaultInv' BY <1>2 DEF FaultInv
<1>12. ExistInv'
  <2>1. done' = done /\ ~finished' BY <1>0, <1>2 DEF PhaseInv, Leaves
  <2>2. exist \subseteq File BY <1>0 DEF Typed, OwnType
  <2>3. OldOrNew' BY <1>0, <1>2, <2>2 DEF ExistInv, OldOrNew
  <2>4. ASSUME NEW f \in exist' \ hit'
        PROVE  /\ f \notin done' => Untouched(file[f])'
               /\ f \in done' => Replaced(file[f])'
    <3>1. f \in exist \ hit /\ ~Moved(f) /\ file'[f] = file[f] /\ (Dumps' = Dumps)
      BY <1>0, <1>1, <1>2, <2>2 DEF Noticed, Moved, Dumps
    <3> QED BY <1>0, <1>2, <2>1, <3>1 DEF ExistInv, Untouched, Replaced
  <2> QED BY <1>2, <2>1, <2>3, <2>4 DEF ExistInv, Moved, Leaves
<1>13. NewInv'
  <2>1. \A f \in new : file'[f] = file[f] BY <1>0, <1>2 DEF Typed, OwnType
  <2> QED BY <1>0, <1>1, <1>2, <2>1, NewQuiet DEF Noticed, PhaseInv, Leaves, Waiting, Settled
<1> QED
  BY <1>1, <1>3, <1>4, <1>5, <1>6, <1>7, <1>8, <1>9, <1>10, <1>11, <1>12, <1>13
  DEF IInv, Typed, Noticed

\* Restoring a file leaves its content, and brings back what a whole record holds.
LEMMA RestoredState ==
  ASSUME NEW f \in File, file[f] \in FileState, meta[f] \in MetaRecord, NEW l \in SUBSET {"owner", "acl"}
  PROVE  /\ Restored(f, l) \in FileState /\ Restored(f, l).body = file[f].body
         /\ l = {"owner", "acl"} /\ Recorded(meta[f]) =>
              Restored(f, l).owner = "orig" /\ (Dumps => Restored(f, l).acl = "orig")
BY DEF Restored, FileState, MetaRecord, Recorded

LEMMA RestoreStep == ASSUME IInv, Restore PROVE IInv'
<1> USE DEF Labels, Early, Extracting, Staging, Replacing, Over, Before,
            optVars, ownVars, hostVars, reportVars
<1>0. /\ Typed /\ PhaseInv /\ RemoteInv /\ DirInv /\ FaultInv /\ ExistInv /\ NewInv
      /\ pc = "restore"
  BY DEF IInv, Restore
<1>01. PICK g \in todo : g = now BY <1>0 DEF Typed, LoopType
<1>1. /\ Noticed
      /\ \A S \in SUBSET todo : Raises(S) \/ ExitsBadly(S) => ~NoFault' /\ S \subseteq hit'
  <2>1. FaultType /\ todo \in SUBSET (File \cup Dir) /\ (pc = "move" \/ pc = "restore" => {now} \in SUBSET todo)
    BY <1>0 DEF Typed, LoopType, OwnType
  <2>2. \A S \in SUBSET todo : Works \/ Raises(S) \/ ExitsBadly(S) => Noticed
    BY <2>1, EndingNoticed DEF Ending
  <2>3. \A S \in SUBSET todo : Raises(S) \/ ExitsBadly(S) => ~NoFault'
    BY <2>1, EndingNoticed DEF Ending
  <2>4. \A S : Raises(S) \/ ExitsBadly(S) => S \subseteq hit' BY DEF Raises, ExitsBadly
  <2>5. \A f \in todo : {f} \in SUBSET todo OBVIOUS
  <2>6. {} \in SUBSET todo /\ todo \in SUBSET todo OBVIOUS
  <2>7. \E S \in SUBSET todo : Works \/ Raises(S) \/ ExitsBadly(S)
    BY <1>0, <2>1, <2>5, <2>6 DEF Restore
  <2> QED BY <2>2, <2>3, <2>4, <2>7
<1>2. /\ UNCHANGED <<end, finished, optVars, ownVars, dirs, relabelled, gmtmp, remote>>
      /\ g \in exist /\ done' = done \cup {g} /\ NextTodo(g) /\ now' = "none"
      /\ failed' \in BOOLEAN /\ (NoFault' => failed' = failed)
      /\ file' \in [File -> FileState] /\ file'[g].body = file[g].body
      /\ (g \notin hit' /\ Recorded(meta[g]) =>
            file'[g].owner = "orig" /\ (Dumps => file'[g].acl = "orig"))
      /\ \A f \in File \ {g} : file'[f] = file[f]
  <2>1. /\ file \in [File -> FileState] /\ file[g] \in FileState /\ meta[g] \in MetaRecord
        /\ g \in File /\ g \in exist /\ failed \in BOOLEAN
    BY <1>0 DEF Typed, HostType, OwnType, LoopType, ReportType
  <2>2. NextTodo(g) /\ now' = "none" BY <1>01, NextFileLeft DEF Restore
  <2>3. ASSUME NEW l \in SUBSET {"owner", "acl"}, file' = [file EXCEPT ![g] = Restored(g, l)]
        PROVE  /\ file' \in [File -> FileState] /\ file'[g].body = file[g].body
               /\ (l = {"owner", "acl"} /\ Recorded(meta[g]) =>
                     file'[g].owner = "orig" /\ (Dumps => file'[g].acl = "orig"))
               /\ \A f \in File \ {g} : file'[f] = file[f]
    <3>1. file'[g] = Restored(g, l) /\ \A f \in File \ {g} : file'[f] = file[f] BY <2>1, <2>3
    <3>2. Restored(g, l) \in FileState BY <2>1, RestoredState
    <3>3. file' \in [File -> FileState] BY <2>1, <2>3, <3>2
    <3> QED BY <2>1, <3>1, <3>3, RestoredState
  <2>4. CASE Works /\ file' = [file EXCEPT ![g] = Restored(g, {"owner", "acl"})] /\ UNCHANGED failed
    BY <1>01, <2>1, <2>2, <2>3, <2>4 DEF Restore
  <2>5. CASE /\ Raises({g}) /\ failed' \in IF session THEN {failed, TRUE} ELSE {TRUE}
             /\ \E l \in SUBSET {"owner", "acl"} : file' = [file EXCEPT ![g] = Restored(g, l)]
    <3>1. PICK l \in SUBSET {"owner", "acl"} : file' = [file EXCEPT ![g] = Restored(g, l)] BY <2>5
    <3>2. {g} \in SUBSET todo OBVIOUS
    <3>3. g \in hit' /\ ~NoFault' BY <1>1, <2>5, <3>2
    <3>4. failed' \in BOOLEAN BY <2>1, <2>5
    <3> QED BY <1>01, <2>1, <2>2, <2>3, <3>1, <3>3, <3>4 DEF Restore
  <2> QED BY <1>01, <2>4, <2>5 DEF Restore
<1>3. OptType' BY <1>0, <1>2 DEF Typed, OptType
<1>4. OwnType' BY <1>0, <1>2 DEF Typed, OwnType
<1>5. ReportType' BY <1>0, <1>2 DEF Typed, ReportType
<1>6. HostType' BY <1>0, <1>2 DEF Typed, HostType, Paths
<1>7. LoopType' BY <1>0, <1>2 DEF Typed, LoopType, NextTodo
<1>8. PhaseInv' BY <1>0, <1>2 DEF PhaseInv, NextTodo
<1>9. RemoteInv' BY <1>0, <1>1, <1>2 DEF Noticed, PhaseInv, RemoteInv, NextTodo
<1>10. DirInv' BY <1>0, <1>1, <1>2 DEF Noticed, DirInv, NextTodo
<1>11. FaultInv' BY <1>0, <1>1, <1>2, FaultQuiet DEF Noticed, FaultInv, NextTodo
<1>12. ExistInv'
  <2>1. g \notin done /\ ~finished /\ exist \subseteq File BY <1>0 DEF PhaseInv, Typed, OwnType
  <2>2. OldOrNew' BY <1>0, <1>2, <2>1 DEF ExistInv, OldOrNew
  <2>3. Moved(g) BY <1>0, <1>01 DEF Moved
  <2>4. g \notin hit' => Replaced(file[g])'
    <3>1. SUFFICES ASSUME g \notin hit' PROVE Replaced(file[g])' OBVIOUS
    <3>2. g \in exist \ hit BY <1>1, <1>2, <3>1 DEF Noticed
    <3>3. Recorded(meta[g]) /\ file[g].body \in {"new", "holding"} BY <1>0, <2>3, <3>2 DEF ExistInv
    <3>4. Dumps' = Dumps BY <1>2 DEF Dumps
    <3> QED BY <1>2, <3>1, <3>3, <3>4 DEF Replaced
  <2>5. \A f \in exist \ {g} : file'[f] = file[f] BY <1>2, <2>1
  <2>6. UNCHANGED <<exist, opt, cap, tmp, meta, finished>> BY <1>2
  <2> QED BY <1>0, <1>1, <1>2, <2>1, <2>2, <2>3, <2>4, <2>5, <2>6, ExistNext DEF Noticed, Typed, NextTodo
<1>13. NewInv'
  <2>1. \A f \in new : file'[f] = file[f] BY <1>0, <1>2 DEF Typed, OwnType, LoopType
  <2> QED BY <1>0, <1>1, <1>2, <2>1, NewQuiet DEF Noticed, PhaseInv, Leaves, Waiting, Settled, NextTodo
<1> QED
  BY <1>1, <1>3, <1>4, <1>5, <1>6, <1>7, <1>8, <1>9, <1>10, <1>11, <1>12, <1>13
  DEF IInv, Typed, Noticed

-----------------------------------------------------------------------------
(* Labels, the clean-up and the loss of the session                        *)

LEMMA RelabelStep == ASSUME IInv, Relabel PROVE IInv'
<1> USE DEF Labels, Early, Extracting, Staging, Replacing, Over, Before,
            optVars, ownVars, hostVars, reportVars
<1>0. /\ Typed /\ PhaseInv /\ RemoteInv /\ DirInv /\ FaultInv /\ ExistInv /\ NewInv
      /\ pc = "relabel"
  BY DEF IInv, Relabel
<1>1. Noticed /\ (Raises(new) => ~NoFault')
  <2>1. FaultType /\ new \in SUBSET (File \cup Dir) BY <1>0 DEF Typed, OwnType
  <2>2. Ending(new) \/ UNCHANGED faultVars BY DEF Relabel, Ending
  <2>3. Ending(new) => Noticed /\ (Raises(new) => ~NoFault') BY <2>1, EndingNoticed
  <2> QED BY <2>1, <2>2, <2>3, SameNoticed DEF Ending
<1>2. /\ UNCHANGED <<todo, now, optVars, ownVars, file, dirs, gmtmp, remote>>
      /\ pc' = "clean" /\ end' \in {"returned", "raised"} /\ failed' \in BOOLEAN
      /\ UNCHANGED done /\ finished' \in BOOLEAN
      /\ relabelled' \subseteq File
      /\ \/ /\ finished' /\ UNCHANGED failed /\ end' = "returned"
            /\ Relabels => new \subseteq relabelled'
         \/ ~finished' /\ ~NoFault' /\ UNCHANGED relabelled
  <2>1. failed \in BOOLEAN /\ ~finished /\ relabelled \subseteq File /\ new \subseteq File
    BY <1>0 DEF Typed, ReportType, PhaseInv, HostType, OwnType
  <2>2. CASE Works /\ relabelled' = Beside(new) /\ Finish
    <3>1. Beside(new) \subseteq File /\ new \subseteq Beside(new) BY <2>1 DEF Beside
    <3> QED BY <1>0, <2>1, <2>2, <3>1 DEF Relabel, Finish
  <2>3. CASE Raises(new) /\ ReportAndReturn /\ UNCHANGED relabelled
    <3>1. ~finished' /\ UNCHANGED done /\ pc' = "clean" /\ end' = "returned" BY <2>1, <2>3 DEF ReportAndReturn
    <3>2. failed' \in BOOLEAN /\ finished' \in BOOLEAN
      BY <1>0, <2>1, <2>3, LeavesBody DEF Leaves, Typed, ReportType
    <3>3. UNCHANGED <<todo, now, optVars, ownVars, file, dirs, gmtmp, remote>> BY DEF Relabel
    <3> QED BY <1>1, <2>1, <2>3, <3>1, <3>2, <3>3
  <2>4. CASE /\ UNCHANGED <<relabelled, faultVars>> /\ Finish
             /\ ~(cap.selinux /\ opt.selinux # "ignore" /\ new \cup EmptyDir # {})
    <3>1. Relabels => new = {} BY <2>4 DEF Relabels
    <3>2. relabelled' = relabelled /\ UNCHANGED <<failed, done>> /\ pc' = "clean" /\ finished' /\ end' = "returned"
      BY <2>4 DEF Finish
    <3>3. UNCHANGED <<todo, now, optVars, ownVars, file, dirs, gmtmp, remote>> BY DEF Relabel
    <3> QED BY <2>1, <3>1, <3>2, <3>3
  <2> QED BY <2>2, <2>3, <2>4 DEF Relabel
<1>3. OptType' BY <1>0, <1>2 DEF Typed, OptType
<1>4. OwnType' BY <1>0, <1>2 DEF Typed, OwnType
<1>5. ReportType' BY <1>0, <1>2 DEF Typed, ReportType
<1>6. HostType' BY <1>0, <1>2 DEF Typed, HostType
<1>7. LoopType' BY <1>0, <1>2 DEF Typed, LoopType
<1>8. PhaseInv' BY <1>0, <1>2 DEF PhaseInv
<1>9. RemoteInv' BY <1>0, <1>1, <1>2 DEF Noticed, PhaseInv, RemoteInv
<1>10. DirInv' BY <1>0, <1>1, <1>2 DEF Noticed, DirInv
<1>11. FaultInv' BY <1>0, <1>1, <1>2 DEF Noticed, FaultInv, faultVars, Chowns
<1>12. ExistInv'
  <2>1. OldOrNew' BY <1>0, <1>2 DEF ExistInv, OldOrNew
  <2>2. ASSUME NEW f \in exist' \ hit'
        PROVE  /\ f \notin done' => Untouched(file[f])'
               /\ f \in done' => Replaced(file[f])'
    <3>1. f \in exist \ hit /\ ~Moved(f) /\ (Dumps' = Dumps) BY <1>0, <1>1, <1>2 DEF Noticed, Moved, Dumps
    <3> QED BY <1>0, <1>2, <3>1 DEF ExistInv, Untouched, Replaced
  <2> QED BY <1>0, <1>1, <1>2, <2>1, <2>2 DEF ExistInv, Moved, Noticed
<1>13. NewInv' BY <1>0, <1>1, <1>2 DEF Noticed, NewInv, Chowns, Relabels
<1> QED
  BY <1>1, <1>3, <1>4, <1>5, <1>6, <1>7, <1>8, <1>9, <1>10, <1>11, <1>12, <1>13
  DEF IInv, Typed, Noticed

\* What the clean-up removes is what the upload made.
LEMMA OwnRemovals ==
  ASSUME tmp \in TmpRecord
  PROVE  /\ Removals \subseteq {"payload", "newList", "existList", "work", "exist", "meta"}
         /\ \A d \in Removals : d \in Below(d) /\ "/tmp" \notin Below(d)
         /\ "exist" \in Removals => "copies" \in UNION {Below(d) : d \in Removals}
<1>1. Removals \subseteq {"payload", "newList", "existList", "work", "exist", "meta"}
  BY DEF Removals, OwnDir, TmpRecord
<1>2. \A d \in {"payload", "newList", "existList", "work", "exist", "meta"} :
        d \in Below(d) /\ "/tmp" \notin Below(d)
  BY DEF Below
<1>3. "copies" \in Below("exist") BY DEF Below
<1> QED BY <1>1, <1>2, <1>3

LEMMA CleanUpStep == ASSUME IInv, CleanUp PROVE IInv'
<1> USE DEF Labels, Early, Extracting, Staging, Replacing, Over, Before,
            optVars, ownVars, hostVars, reportVars
<1>0. /\ Typed /\ PhaseInv /\ RemoteInv /\ DirInv /\ FaultInv /\ ExistInv /\ NewInv
      /\ pc = "clean"
  BY DEF IInv, CleanUp
<1>1. Noticed
  <2>1. FaultType /\ {} \in SUBSET (File \cup Dir) BY <1>0 DEF Typed
  <2>2. Ending({}) \/ UNCHANGED faultVars BY DEF CleanUp, Ending
  <2> QED BY <2>1, <2>2, SameNoticed, EndingNoticed
<1>2. /\ UNCHANGED <<todo, now, optVars, ownVars, end, reportVars, hostVars>>
      /\ pc' = "end" /\ remote' \subseteq remote /\ "/tmp" \in remote'
      /\ session' /\ ~leaked' => remote' \cap UNION {Below(d) : d \in Removals} = {}
  <2>1. tmp \in TmpRecord /\ "/tmp" \in remote BY <1>0 DEF Typed, OwnType, RemoteInv
  <2>2. ASSUME NEW S \in SUBSET Removals
        PROVE  "/tmp" \notin UNION {Below(d) : d \in S}
    BY <2>1, <2>2, OwnRemovals
  <2>3. CASE Works /\ remote' = remote \ UNION {Below(d) : d \in Removals}
    <3>1. Removals \in SUBSET Removals OBVIOUS
    <3> QED BY <2>1, <2>2, <2>3, <3>1 DEF CleanUp
  <2>4. CASE /\ LosesAnswer
             /\ \E S \in SUBSET Removals : remote' = remote \ UNION {Below(d) : d \in S}
    <3>1. leaked' BY <2>4 DEF LosesAnswer
    <3>2. PICK S \in SUBSET Removals : remote' = remote \ UNION {Below(d) : d \in S} BY <2>4
    <3> QED BY <2>1, <2>2, <3>1, <3>2 DEF CleanUp
  <2>5. CASE ~session /\ UNCHANGED <<remote, faultVars>>
    BY <2>1, <2>5 DEF CleanUp, faultVars
  <2> QED BY <2>3, <2>4, <2>5 DEF CleanUp
<1>3. OptType' BY <1>0, <1>2 DEF Typed, OptType
<1>4. OwnType' BY <1>0, <1>2 DEF Typed, OwnType
<1>5. ReportType' BY <1>0, <1>2 DEF Typed, ReportType
<1>6. HostType' BY <1>0, <1>2 DEF Typed, HostType, Paths
<1>7. LoopType' BY <1>0, <1>2 DEF Typed, LoopType
<1>8. PhaseInv' BY <1>0, <1>2 DEF PhaseInv
<1>9. RemoteInv'
  <2>1. SUFFICES pc' = "end" /\ session' /\ ~leaked' =>
                   remote' \ (IF tmp.exist = "/tmp" THEN {"copies"} ELSE {}) = {"/tmp"}
    BY <1>0, <1>1, <1>2 DEF Noticed, RemoteInv
  <2>2. SUFFICES ASSUME session', ~leaked'
                 PROVE  remote' \ (IF tmp.exist = "/tmp" THEN {"copies"} ELSE {}) = {"/tmp"}
    OBVIOUS
  <2>3. ~leaked /\ tmp \in TmpRecord BY <1>0, <1>1, <2>2 DEF Noticed, Typed, OwnType
  <2>4. remote' \cap UNION {Below(d) : d \in Removals} = {} BY <1>2, <2>2
  <2>5. \A d \in Removals : d \notin remote' BY <2>3, <2>4, OwnRemovals
  <2>6. "payload" \notin remote' BY <2>5 DEF Removals
  <2>7. "newList" \notin remote' /\ "existList" \notin remote'
    BY <1>0, <1>2, <2>5 DEF Removals, RemoteInv
  <2>8. "work" \notin remote' /\ "exist" \notin remote' /\ "meta" \notin remote'
    BY <1>0, <1>2, <2>3, <2>5 DEF Removals, OwnDir, RemoteInv
  <2>9. "copies" \in remote' => tmp.exist = "/tmp"
    <3>1. SUFFICES ASSUME "copies" \in remote', tmp.exist = "exist" PROVE FALSE
      BY <1>0, <1>2, <2>3 DEF RemoteInv, TmpRecord
    <3>2. "exist" \in Removals BY <3>1 DEF Removals, OwnDir
    <3> QED BY <2>3, <2>4, <3>1, <3>2, OwnRemovals
  <2>10. remote' \subseteq Paths /\ "/tmp" \in remote' BY <1>0, <1>2 DEF Typed, HostType
  <2> QED BY <2>6, <2>7, <2>8, <2>9, <2>10 DEF Paths
<1>10. DirInv' BY <1>0, <1>1, <1>2 DEF Noticed, DirInv, Leaves
<1>11. FaultInv' BY <1>0, <1>1, <1>2 DEF Noticed, FaultInv, faultVars, Chowns
<1>12. ExistInv'
  <2>1. OldOrNew' BY <1>0, <1>2 DEF ExistInv, OldOrNew
  <2>2. ASSUME NEW f \in exist' \ hit'
        PROVE  /\ f \notin done' => Untouched(file[f])'
               /\ f \in done' => Replaced(file[f])'
    <3>1. f \in exist \ hit /\ ~Moved(f) /\ (Dumps' = Dumps) BY <1>0, <1>1, <1>2 DEF Noticed, Moved, Dumps
    <3> QED BY <1>0, <1>2, <3>1 DEF ExistInv, Untouched, Replaced
  <2> QED BY <1>0, <1>1, <1>2, <2>1, <2>2 DEF ExistInv, Moved, Noticed
<1>13. NewInv' BY <1>0, <1>1, <1>2, NewQuiet DEF Noticed, PhaseInv, Leaves, Waiting, Settled
<1> QED
  BY <1>1, <1>3, <1>4, <1>5, <1>6, <1>7, <1>8, <1>9, <1>10, <1>11, <1>12, <1>13
  DEF IInv, Typed, Noticed

LEMMA LoseSessionStep == ASSUME IInv, LoseSession PROVE IInv'
<1>0. Typed /\ PhaseInv /\ RemoteInv /\ DirInv /\ FaultInv /\ ExistInv /\ NewInv BY DEF IInv
<1>1. /\ UNCHANGED <<pc, todo, now, optVars, ownVars, end, reportVars, hostVars, remote, faults, hit, leaked>>
      /\ session' = FALSE
  BY DEF LoseSession
<1> USE DEF optVars, ownVars, reportVars, hostVars
<1>2. Typed'
  <2>1. session' \in BOOLEAN BY <1>1
  <2>2. FaultType' BY <1>0, <1>1, <2>1 DEF Typed, FaultType
  <2>3. OptType' /\ OwnType' /\ ReportType' /\ LoopType'
    BY <1>0, <1>1 DEF Typed, OptType, OwnType, ReportType, LoopType
  <2>4. HostType' BY <1>0, <1>1 DEF Typed, HostType
  <2> QED BY <2>2, <2>3, <2>4 DEF Typed
<1>3. PhaseInv' /\ DirInv' BY <1>0, <1>1 DEF PhaseInv, DirInv
<1>4. RemoteInv' BY <1>0, <1>1 DEF RemoteInv
<1>5. FaultInv' BY <1>1 DEF FaultInv, NoFault
<1>6. NewInv' BY <1>0, <1>1 DEF NewInv, NoFault, Chowns, Relabels
<1>7. ExistInv'
  BY <1>0, <1>1 DEF ExistInv, OldOrNew, Untouched, Moved, Replaced, Recorded, Dumps
<1> QED BY <1>2, <1>3, <1>4, <1>5, <1>6, <1>7 DEF IInv

-----------------------------------------------------------------------------
(* The invariant, and what it says of every upload                         *)

LEMMA InitInv == Init => IInv
<1> SUFFICES ASSUME Init PROVE IInv OBVIOUS
<1> USE DEF Init, Early, Extracting, Staging, Replacing, Over, Before
<1>1. OptType /\ LoopType BY DEF OptType, LoopType, Labels
<1>2. OwnType BY DEF OwnType, TmpRecord, MetaRecord, Unknown
<1>3. ReportType /\ FaultType
  <2>1. failed \in BOOLEAN /\ finished \in BOOLEAN /\ session \in BOOLEAN /\ leaked \in BOOLEAN
    OBVIOUS
  <2>2. faults \in 0..MaxFaults BY UploadAssumption
  <2>3. done \subseteq exist /\ hit \subseteq File \cup Dir OBVIOUS
  <2> QED BY <2>1, <2>2, <2>3 DEF ReportType, FaultType
<1>4. HostType
  <2>1. Absent \in FileState /\ Theirs \in FileState /\ Directory \in FileState
    BY DEF Absent, Theirs, Directory, FileState
  <2> QED BY <2>1 DEF HostType, Paths
<1>5. PhaseInv /\ RemoteInv BY DEF PhaseInv, RemoteInv
<1>6. DirInv BY DEF DirInv
<1>7. FaultInv BY DEF FaultInv, NoFault, Dir
<1>8. ExistInv /\ NewInv BY DEF ExistInv, OldOrNew, NewInv
<1> QED BY <1>1, <1>2, <1>3, <1>4, <1>5, <1>6, <1>7, <1>8 DEF IInv, Typed

LEMMA NextInv == IInv /\ [Next]_vars => IInv'
<1> SUFFICES ASSUME IInv, [Next]_vars PROVE IInv' OBVIOUS
<1>1. CASE UNCHANGED vars
  <2>1. UNCHANGED <<pc, todo, now, opt, cap, tmp, exist, new, made, meta, failed, done, finished, end>>
    BY <1>1 DEF vars, optVars, ownVars, reportVars
  <2>2. UNCHANGED <<file, dirs, relabelled, gmtmp, remote, session, faults, hit, leaked>>
    BY <1>1 DEF vars, hostVars, faultVars
  <2>3. Typed' BY <2>1, <2>2 DEF IInv, Typed, OptType, OwnType, ReportType, HostType, FaultType, LoopType
  <2>4. PhaseInv' /\ RemoteInv' /\ DirInv' BY <2>1, <2>2 DEF IInv, PhaseInv, RemoteInv, DirInv
  <2>5. FaultInv' /\ NewInv' BY <2>1, <2>2 DEF IInv, FaultInv, NoFault, NewInv, Chowns, Relabels
  <2>6. ExistInv'
    BY <2>1, <2>2 DEF IInv, ExistInv, OldOrNew, Untouched, Moved, Replaced, Recorded, Dumps
  <2> QED BY <2>3, <2>4, <2>5, <2>6 DEF IInv
<1>2. CASE Detect BY <1>2, DetectStep
<1>3. CASE MakeWork BY <1>3, MakeWorkStep
<1>4. CASE Put BY <1>4, PutStep
<1>5. CASE PrepareDest BY <1>5, PrepareDestStep
<1>6. CASE SplitExistNew BY <1>6, SplitExistNewStep
<1>7. CASE MakeEmptyDirs BY <1>7, MakeEmptyDirsStep
<1>8. CASE ChownEmptyDirs BY <1>8, ChownEmptyDirsStep
<1>9. CASE WriteNewList BY <1>9, WriteNewListStep
<1>10. CASE ExtractNew BY <1>10, ExtractNewStep
<1>11. CASE ChownNew BY <1>11, ChownNewStep
<1>12. CASE MakeExistDir BY <1>12, MakeExistDirStep
<1>13. CASE WriteExistList BY <1>13, WriteExistListStep
<1>14. CASE ExtractExist BY <1>14, ExtractExistStep
<1>15. CASE MakeMetaDir BY <1>15, MakeMetaDirStep
<1>16. CASE Capture BY <1>16, CaptureStep
<1>17. CASE CaptureFails BY <1>17, CaptureFailsStep
<1>18. CASE OverwriteCat BY <1>18, OverwriteCatStep
<1>19. CASE OverwriteMove BY <1>19, OverwriteMoveStep
<1>20. CASE OverwriteFails BY <1>20, OverwriteFailsStep
<1>21. CASE OverwriteRaises BY <1>21, OverwriteRaisesStep
<1>22. CASE Restore BY <1>22, RestoreStep
<1>23. CASE Relabel BY <1>23, RelabelStep
<1>24. CASE CleanUp BY <1>24, CleanUpStep
<1>25. CASE LoseSession BY <1>25, LoseSessionStep
<1> QED
  BY <1>1, <1>2, <1>3, <1>4, <1>5, <1>6, <1>7, <1>8, <1>9, <1>10, <1>11, <1>12, <1>13, <1>14,
     <1>15, <1>16, <1>17, <1>18, <1>19, <1>20, <1>21, <1>22, <1>23, <1>24, <1>25
  DEF Next

LEMMA Invariance == Spec => []IInv
<1>1. Init => IInv BY InitInv
<1>2. IInv /\ [Next]_vars => IInv' BY NextInv
<1> QED BY <1>1, <1>2, PTL DEF Spec

\* Every variable keeps its type, and the loops' bookkeeping fits the label:
\* upload_pack_and_extract() never processes a file its loop does not have left.
THEOREM TypeCorrect == Spec => []TypeOK
<1>1. IInv => TypeOK
  BY DEF IInv, Typed, OptType, OwnType, ReportType, HostType, FaultType, LoopType, TmpRecord,
         MetaRecord, Paths, TypeOK
<1> QED BY <1>1, Invariance, PTL

\* The invariant places every file that is done, or in an archive that is.
LEMMA FilePlaced ==
  ASSUME IInv, NEW f \in (IF finished THEN File ELSE done) \ hit
  PROVE  Placed(f)
<1>0. /\ Typed /\ PhaseInv /\ ExistInv /\ NewInv BY DEF IInv
<1>1. done \subseteq exist /\ (finished => File \subseteq exist \cup new)
  BY <1>0 DEF PhaseInv, Typed, ReportType
<1>2. CASE f \in exist
  <2>1. f \in done BY <1>0, <1>2 DEF ExistInv
  <2>2. f \notin new /\ Replaced(file[f]) BY <1>0, <1>2, <2>1 DEF ExistInv, Typed, OwnType
  <2> QED BY <1>2, <2>2 DEF Placed, Replaced
<1>3. CASE f \notin exist
  <2>1. finished /\ f \in new \ hit BY <1>1, <1>3
  <2> QED BY <1>0, <1>3, <2>1 DEF Placed, NewInv
<1> QED BY <1>2, <1>3

\* Whatever fails around it, a file reported done, and every file of an archive reported done,
\* is placed as a new or an existing file, whichever it was taken for, unless a command that
\* writes or records it failed. Placed says what that is, and what becomes of a directory that
\* has a file's name.
THEOREM PlacedWhenReported == Spec => []Placement
<1>1. IInv => Placement BY FilePlaced DEF Placement
<1> QED BY <1>1, Invariance, PTL

\* An upload none of whose commands fails reports no failure, has placed every file and every
\* empty directory, and leaves no temporary behind but the copies mv put into directories.
THEOREM CompleteWithoutFault == Spec => []Complete
<1>1. ASSUME IInv PROVE Complete
  <2>1. SUFFICES ASSUME pc = "end", session, faults = 0
                 PROVE  /\ end = "returned" /\ finished /\ ~failed
                        /\ \A f \in File : Placed(f)
                        /\ \A d \in EmptyDir : dirs[d] # "absent" /\ (dirs[d] = "ours" => ~Chowns)
                        /\ remote = {"/tmp"} /\ gmtmp = {}
    BY DEF Complete
  <2>2. FaultInv /\ RemoteInv /\ DirInv BY <1>1 DEF IInv
  <2>3. /\ hit = {} /\ ~leaked /\ ~failed /\ tmp.exist # "/tmp" /\ finished /\ end = "returned"
        /\ \A d \in EmptyDir : dirs[d] = "ours" => ~Chowns
    BY <2>1, <2>2 DEF FaultInv, NoFault, Over
  <2>4. \A f \in File : Placed(f) BY <1>1, <2>3, FilePlaced
  <2>5. \A d \in EmptyDir : dirs[d] # "absent" BY <2>2, <2>3 DEF DirInv
  <2>6. remote = {"/tmp"} /\ gmtmp = {} BY <2>1, <2>2, <2>3 DEF RemoteInv
  <2> QED BY <2>3, <2>4, <2>5, <2>6
<1> QED BY <1>1, Invariance, PTL

\* A file that test -e found is never seen half-written or missing: overwriting goes through
\* a copy next to the file and one mv, whatever fails and whenever the session is lost.
THEOREM NeverHalfWritten == Spec => []OldOrNew
<1>1. IInv => OldOrNew BY DEF IInv, ExistInv
<1> QED BY <1>1, Invariance, PTL

\* _cleanup_all() removes no directory that the upload did not make: /tmp itself, which stands
\* in for a directory mktemp failed to make, stays.
THEOREM TmpStays == Spec => []SharedTmpKept
<1>1. IInv => SharedTmpKept BY DEF IInv, RemoteInv, SharedTmpKept
<1> QED BY <1>1, Invariance, PTL

\* With the session up until the end, whatever failed on the way, no temporary of the upload
\* stays: /tmp is clean but for copies in a shared /tmp, and a .gm-tmp is next to a file only if
\* its replacement failed. What mv puts into a directory is not covered.
THEOREM NothingLeft == Spec => []CleanedUp
<1>1. IInv => CleanedUp BY DEF IInv, RemoteInv, CleanedUp
<1> QED BY <1>1, Invariance, PTL

\* An empty directory that was there before the upload keeps its owner, unless the test for
\* it failed.
THEOREM OwnersKept == Spec => DirsKept
<1> DEFINE Kept == \A d \in EmptyDir \ hit : dirs[d] = "theirs" => dirs'[d] = "theirs"
<1>1. ASSUME IInv, [Next]_vars PROVE Kept
  <2>0. EmptyDir \subseteq Dir BY DEF Dir
  <2>1. CASE MakeEmptyDirs
    <3>1. \A S : ([d \in Dir |-> IF d \in S THEN "ours" ELSE dirs[d]] = dirs') /\ S \subseteq Missing => Kept
      BY <2>0 DEF Missing
    <3> QED BY <2>1, <3>1 DEF MakeEmptyDirs
  <2>2. CASE ChownEmptyDirs
    <3>1. \A d \in made \ hit : dirs[d] # "theirs" BY <1>1 DEF IInv, DirInv
    <3>2. \A S : ([d \in Dir |-> IF d \in S THEN "chowned" ELSE dirs[d]] = dirs') /\ S \subseteq made => Kept
      BY <2>0, <3>1
    <3> QED BY <2>2, <3>2 DEF ChownEmptyDirs
  <2>3. CASE ExtractNew
    <3>1. \A S : WithParents(S) = dirs' => Kept BY <2>0 DEF WithParents
    <3> QED BY <2>3, <3>1 DEF ExtractNew
  <2>4. CASE ChownNew
    <3>1. new \subseteq File BY <1>1 DEF IInv, Typed, OwnType
    <3>2. {ParentOf[f] : f \in new} \cap EmptyDir = {} BY <3>1, UploadAssumption
    <3>3. \A S : /\ [d \in Dir |-> IF d \in S THEN "chowned" ELSE dirs[d]] = dirs'
                 /\ S \cap EmptyDir = {}
                 => Kept
      BY <2>0
    <3>4. {} \cap EmptyDir = {} OBVIOUS
    <3> HIDE DEF Kept
    <3>5. CASE UNCHANGED dirs BY <3>5 DEF Kept
    <3>6. CASE dirs' = [d \in Dir |-> IF d \in {ParentOf[f] : f \in new} THEN "chowned" ELSE dirs[d]]
      BY <3>2, <3>3, <3>6
    <3>7. CASE dirs' = [d \in Dir |-> IF d \in (IF session THEN {ParentOf[f] : f \in new} ELSE {})
                                      THEN "chowned" ELSE dirs[d]]
      BY <3>2, <3>3, <3>4, <3>7
    <3> QED BY <2>4, <3>5, <3>6, <3>7 DEF ChownNew
  <2>5. CASE UNCHANGED dirs BY <2>5
  <2>6. CASE UNCHANGED vars BY <2>5, <2>6 DEF vars, hostVars
  <2> HIDE DEF Kept
  <2>7. CASE Detect \/ MakeWork \/ Put \/ PrepareDest \/ SplitExistNew
    BY <2>5, <2>7 DEF Detect, MakeWork, Put, PrepareDest, SplitExistNew, hostVars
  <2>8. CASE WriteNewList \/ MakeExistDir \/ WriteExistList \/ ExtractExist \/ MakeMetaDir
    BY <2>5, <2>8 DEF WriteNewList, WriteList, MakeExistDir, MakeDir, WriteExistList, ExtractExist,
                      MakeMetaDir, hostVars
  <2>9. CASE Capture \/ CaptureFails \/ OverwriteCat \/ OverwriteMove \/ OverwriteFails
    BY <2>5, <2>9 DEF Capture, CaptureFails, OverwriteCat, OverwriteMove, OverwriteFails, hostVars
  <2>10. CASE OverwriteRaises \/ Restore \/ Relabel \/ CleanUp \/ LoseSession
    BY <2>5, <2>10 DEF OverwriteRaises, Restore, Relabel, CleanUp, LoseSession, hostVars
  <2> QED BY <1>1, <2>1, <2>2, <2>3, <2>4, <2>6, <2>7, <2>8, <2>9, <2>10 DEF Next
<1>2. IInv /\ [Next]_vars => [Kept]_vars BY <1>1
<1> QED BY <1>2, Invariance, PTL DEF Spec, DirsKept
=============================================================================
