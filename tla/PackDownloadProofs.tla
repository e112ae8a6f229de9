------------------------- MODULE PackDownloadProofs -------------------------
(***************************************************************************)
(* Theorems about PackDownload, for every archive: any number of files and *)
(* hard links, of names that are normalised to the same path and of        *)
(* members that are left out; and for any number of failures.              *)
(***************************************************************************)
EXTENDS PackDownload, TLAPS

\* Before the archive is there, while it is used, and on the way out after a failure.
Packing == {"list", "tar", "gzip", "undo", "dropList", "dropListRaise"}
Using == {"temp", "get", "open", "files", "links", "close", "closeRaise", "rm"}
Failing == {"undo", "dropListRaise", "closeRaise"}
Between == {"entry", "end"}

\* The types of TypeOK; that the counters stay within the plan is CountInv's.
CountType == /\ pc \in Labels /\ trial \in 0..Entries /\ processed \in Nat /\ errors \in Nat
             /\ ran \in BOOLEAN /\ sudo \in BOOLEAN
FileType == /\ remote \subseteq {"lst", "tar", "tgz"} /\ localTmp \in BOOLEAN
            /\ next \in Member
            /\ extracted \subseteq Member /\ badLinks \subseteq Member
            /\ local \in [Paths -> Member \cup {Nothing, Partial}]
FaultType == session \in BOOLEAN /\ faults \in 0..MaxFaults /\ broke \subseteq Labels
Typed == CountType /\ FileType /\ FaultType

\* The first call works while the first entry is tried, and there is only one such call.
CountInv ==
  /\ ran <=> trial > 0
  /\ pc = "end" => trial = Entries
  /\ pc \in Between => processed + errors = trial /\ errors <= 1
  /\ pc \notin Between => trial = 1 /\ processed = 0 /\ errors = 0

\* Nothing has failed while the call goes on, but the writing of hard links; something has
\* when it is on its way out or has raised.
BrokeInv ==
  /\ pc \in Failing \/ errors > 0 => broke # {}
  /\ pc \notin Failing /\ errors = 0 =>
       /\ broke \subseteq {"links", "rm"}
       /\ pc \in Packing \cup {"temp", "get", "open", "files"} => broke = {}
       /\ pc \in {"links", "close", "rm"} => broke \subseteq {"links"}
  /\ ~ran => broke = {}

\* What there is on the remote host, and of whose failure.
Undone == sudo \/ "undo" \in broke
TarReason == broke \cap {"tar", "gzip"} # {}
TgzReason == broke \cap {"dropList", "temp", "get", "open", "files", "links", "rm"} # {}
RemoteInv ==
  /\ ~ran \/ pc = "list" => remote = {}
  /\ pc = "tar" => remote = {"lst"}
  /\ pc = "gzip" => remote = {"lst", "tar"}
  /\ pc = "dropList" => remote = {"lst", "tgz"}
  /\ pc \in Using => remote = {"tgz"}
  /\ pc \in {"undo", "dropListRaise"} =>
       /\ "tar" \in remote => TarReason
       /\ "tgz" \in remote => "gzip" \in broke
  /\ pc \in {"dropListRaise"} => ("tar" \in remote \/ "tgz" \in remote => Undone)
  /\ pc = "closeRaise" => TgzReason
  /\ pc \in Between =>
       /\ "lst" \in remote => broke \cap {"list", "dropList", "dropListRaise"} # {}
       /\ "tar" \in remote => TarReason /\ Undone
       /\ "tgz" \in remote => ("gzip" \in broke /\ Undone) \/ TgzReason

\* The local copy exists from its making to the end of the extraction.
TmpInv == localTmp <=> pc \in {"get", "open", "files", "links", "close", "closeRaise"}

\* The members gone through so far, of those that Arrived is about.
FileDone(m) == m \in Kept /\ IsFile(m) /\ Alone(m) => m \in extracted /\ local[Path[m]] = m
LinkDone(m) ==
  m \in Kept \ badLinks /\ ~IsFile(m) /\ Alone(m) /\ Alone(LinkTo[m]) /\ LinkTo[m] \notin Dropped =>
    m \in extracted /\ local[Path[m]] = LinkTo[m]
Complete == ran /\ errors = 0 /\ (pc \in Between \cup {"close", "rm"})
ExtractInv ==
  /\ extracted \subseteq Kept
  /\ pc \in Packing \cup {"temp", "get", "open"} \/ ~ran => next = 1
  /\ pc = "files" => \A m \in Member : m < next => FileDone(m)
  /\ pc = "links" => /\ \A m \in Member : FileDone(m)
                     /\ \A m \in Member : m < next => LinkDone(m)
  /\ Complete => \A m \in Member : FileDone(m) /\ LinkDone(m)

IInv == Typed /\ CountInv /\ BrokeInv /\ RemoteInv /\ TmpInv /\ ExtractInv

-----------------------------------------------------------------------------
(* Types                                                                   *)

\* How a step fails: all that it does to the history of failures.
Faulty == UNCHANGED faultVars \/ Breaks \/ Fails

LEMMA FaultyStep ==
  ASSUME pc \in Labels, FaultType, Faulty
  PROVE  FaultType' /\ broke' \in {broke, broke \cup {pc}}
BY DownloadAssumption DEF FaultType, Faulty, Breaks, Fails, faultVars

LEMMA AllFaulty ==
  ASSUME [Next]_vars
  PROVE  Faulty \/ (LoseSession /\ broke' = broke /\ pc' = pc)
<1>1. CASE NextEntry BY <1>1 DEF NextEntry, Faulty
<1>2. CASE PrepareList \/ MakeTar \/ Gzip \/ Undo \/ DropList
  BY <1>2 DEF PrepareList, MakeTar, Gzip, Undo, DropList, Works, Faulty
<1>3. CASE MakeTemp \/ Get \/ OpenArchive \/ CloseArchive
  BY <1>3 DEF MakeTemp, Get, OpenArchive, CloseArchive, Works, Faulty
<1>4. CASE SkipMember \/ ExtractFile \/ NoParent BY <1>4 DEF SkipMember, ExtractFile, NoParent, Faulty
<1>5. CASE ExtractLink BY <1>5 DEF ExtractLink, LinkFailure, Faulty
<1>6. CASE RemoveArchive BY <1>6 DEF RemoveArchive, Works, Faulty
<1>7. CASE LoseSession BY <1>7 DEF LoseSession
<1>8. CASE UNCHANGED vars BY <1>8 DEF vars, Faulty
<1> QED BY <1>1, <1>2, <1>3, <1>4, <1>5, <1>6, <1>7, <1>8 DEF Next

LEMMA FaultStep ==
  ASSUME Typed, [Next]_vars
  PROVE  FaultType' /\ broke' \in {broke, broke \cup {pc}}
<1>1. pc \in Labels /\ FaultType BY DEF Typed, CountType
<1>2. CASE Faulty BY <1>1, <1>2, FaultyStep
<1>3. CASE LoseSession BY <1>1, <1>3 DEF LoseSession, FaultType
<1> QED BY <1>2, <1>3, AllFaulty

LEMMA CountStep ==
  ASSUME Typed, [Next]_vars
  PROVE  CountType'
<1> CountType BY DEF Typed
<1>1. ASSUME PullRaises \/ PullReturns, sudo' = sudo PROVE CountType'
  BY <1>1 DEF PullRaises, PullReturns, CountType, Labels
<1>2. ASSUME NEW l \in Labels, Proceed(l), sudo' = sudo PROVE CountType'
  BY <1>2 DEF Proceed, countVars, CountType
<1>3. CASE NextEntry
  <2>1. CASE Proceed("end") /\ sudo' = sudo BY <1>2, <2>1 DEF Labels
  <2>2. CASE trial < Entries /\ trial' = trial + 1
    <3>1. trial' \in 0..Entries BY <2>2, DownloadAssumption DEF CountType
    <3>2. ran' = TRUE /\ sudo' = sudo /\ errors' = errors /\ pc' \in {pc, "list"}
          /\ processed' \in {processed, processed + 1}
      BY <1>3, <2>2 DEF NextEntry, Proceed, countVars
    <3> QED BY <3>1, <3>2 DEF CountType, Labels
  <2> QED BY <1>3, <2>1, <2>2 DEF NextEntry
<1>4. CASE PrepareList \/ DropList
  <2>1. sudo' = sudo /\ (PullRaises \/ Proceed("tar") \/ Proceed("temp"))
    BY <1>4 DEF PrepareList, DropList
  <2> QED BY <1>1, <1>2, <2>1 DEF Labels
<1>5. CASE MakeTar \/ Gzip \/ Undo
  <2>1. /\ sudo' = sudo
        /\ Proceed("gzip") \/ Proceed("undo") \/ Proceed("dropList") \/ Proceed("dropListRaise")
    BY <1>5 DEF MakeTar, Gzip, Undo
  <2> QED BY <1>2, <2>1 DEF Labels
<1>6. CASE MakeTemp \/ Get \/ OpenArchive
  <2>1. /\ sudo' = sudo
        /\ \/ PullRaises \/ Proceed("get") \/ Proceed("open") \/ Proceed("files")
           \/ Proceed("closeRaise")
    BY <1>6 DEF MakeTemp, Get, OpenArchive
  <2> QED BY <1>1, <1>2, <2>1 DEF Labels
<1>7. ASSUME NEW l \in Labels, Advance(l), sudo' = sudo PROVE CountType'
  <2>1. Proceed(l) \/ Proceed(pc) BY <1>7 DEF Advance
  <2> QED BY <1>2, <1>7, <2>1 DEF CountType
<1>8. CASE SkipMember \/ ExtractFile \/ ExtractLink \/ NoParent
  <2>1. sudo' = sudo /\ (Advance("links") \/ Advance("close") \/ Proceed("closeRaise"))
    BY <1>8 DEF SkipMember, ExtractFile, ExtractLink, NoParent
  <2> QED BY <1>2, <1>7, <2>1 DEF Labels
<1>9. CASE CloseArchive \/ RemoveArchive
  <2>1. sudo' = sudo /\ (PullRaises \/ PullReturns \/ Proceed("rm"))
    BY <1>9 DEF CloseArchive, RemoveArchive
  <2> QED BY <1>1, <1>2, <2>1 DEF Labels
<1>10. CASE LoseSession BY <1>10 DEF LoseSession, countVars, CountType
<1>11. CASE UNCHANGED vars BY <1>11 DEF vars, countVars, CountType
<1> QED BY <1>3, <1>4, <1>5, <1>6, <1>8, <1>9, <1>10, <1>11 DEF Next

\* What the members' steps do to the local files.
LEMMA PathsOf == ASSUME NEW m \in Member PROVE Path[m] \in Paths
BY DEF Paths

LEMMA AdvanceType ==
  ASSUME next \in Member, NEW l, Advance(l)
  PROVE  next' \in Member
BY DownloadAssumption DEF Advance, Member

LEMMA FileStep ==
  ASSUME Typed, [Next]_vars
  PROVE  FileType'
<1> FileType BY DEF Typed
<1> DEFINE Contents == Member \cup {Nothing, Partial}
<1>0. next \in Member /\ Path[next] \in Paths /\ local \in [Paths -> Contents]
  BY PathsOf DEF FileType
<1>1. ASSUME UNCHANGED fileVars, remote' \subseteq remote \cup {"lst", "tar", "tgz"} PROVE FileType'
  BY <1>1 DEF fileVars, FileType
<1>2. CASE NextEntry \/ LoseSession \/ OpenArchive \/ NoParent \/ UNCHANGED vars
  BY <1>1, <1>2 DEF NextEntry, LoseSession, OpenArchive, NoParent, vars
<1>3. CASE PrepareList \/ MakeTar BY <1>1, <1>3 DEF PrepareList, MakeTar, Works, Before
<1>4. CASE Gzip BY <1>1, <1>4 DEF Gzip, Works, Before
<1>5. CASE Undo BY <1>1, <1>5 DEF Undo, Works, Before
<1>6. CASE DropList \/ RemoveArchive BY <1>1, <1>6 DEF DropList, RemoveArchive, Works, Before
<1>7. CASE MakeTemp \/ Get \/ CloseArchive
  BY <1>7 DEF MakeTemp, Get, CloseArchive, FileType
<1>8. CASE SkipMember
  <2>1. next' \in Member BY <1>0, <1>8, AdvanceType DEF SkipMember
  <2> QED BY <1>8, <2>1 DEF SkipMember, FileType
<1>9. ASSUME NEW c \in Contents, local' = [local EXCEPT ![Path[next]] = c]
      PROVE  local' \in [Paths -> Contents]
  BY <1>0, <1>9
<1>10. CASE ExtractFile
  <2>1. next' \in Member BY <1>0, <1>10, AdvanceType DEF ExtractFile
  <2>2. local' \in [Paths -> Contents]
    <3>1. \/ local' = local \/ local' = [local EXCEPT ![Path[next]] = next]
          \/ local' = [local EXCEPT ![Path[next]] = Partial]
      BY <1>10 DEF ExtractFile
    <3>2. next \in Contents /\ Partial \in Contents BY <1>0
    <3> QED BY <1>0, <1>9, <3>1, <3>2
  <2>3. UNCHANGED <<remote, localTmp, badLinks>> /\ extracted' \in {extracted, extracted \cup {next}}
    BY <1>10 DEF ExtractFile
  <2> QED BY <1>0, <2>1, <2>2, <2>3 DEF FileType
<1>11. CASE ExtractLink
  <2>1. next' \in Member BY <1>0, <1>11, AdvanceType DEF ExtractLink
  <2>2. UNCHANGED <<remote, localTmp>> BY <1>11 DEF ExtractLink
  <2>3. LinkTo[next] \in Member BY <1>0, <1>11, DownloadAssumption DEF ExtractLink, IsFile, Member
  <2>4. Copied(next) \in Contents
    <3>1. Path[LinkTo[next]] \in Paths BY <2>3, PathsOf
    <3>2. local[Path[LinkTo[next]]] \in Contents /\ Partial \in Contents BY <1>0, <3>1
    <3> QED BY <3>2 DEF Copied
  <2>5. ASSUME NEW c \in Contents, Extract(c) PROVE FileType'
    <3>1. local' \in [Paths -> Contents] BY <1>9, <2>5 DEF Extract
    <3> QED BY <1>0, <2>1, <2>2, <2>5, <3>1 DEF Extract, FileType
  <2>6. CASE Extract(Copied(next)) BY <2>4, <2>5, <2>6
  <2>7. CASE \E u \in Indexed(next) : Extract(u)
    <3>1. PICK u \in Indexed(next) : Extract(u) BY <2>7
    <3>2. u \in Contents BY DEF Indexed
    <3> QED BY <2>5, <3>1, <3>2
  <2>8. CASE UNCHANGED <<local, extracted, badLinks>> BY <2>1, <2>2, <2>8 DEF FileType
  <2>9. CASE LinkFailure
    <3>1. local' = local \/ local' = [local EXCEPT ![Path[next]] = Partial] BY <2>9 DEF LinkFailure
    <3>2. Partial \in Contents OBVIOUS
    <3>3. local' \in [Paths -> Contents] BY <1>0, <1>9, <3>1, <3>2
    <3> QED BY <1>0, <2>1, <2>2, <2>9, <3>3 DEF LinkFailure, FileType
  <2> QED BY <1>11, <2>6, <2>7, <2>8, <2>9 DEF ExtractLink
<1> QED BY <1>2, <1>3, <1>4, <1>5, <1>6, <1>7, <1>8, <1>10, <1>11 DEF Next

LEMMA TypedStep == ASSUME Typed, [Next]_vars PROVE Typed'
BY CountStep, FileStep, FaultStep DEF Typed

-----------------------------------------------------------------------------
(* The counters, and the local copy                                        *)

LEMMA CountInvStep ==
  ASSUME Typed, CountInv, [Next]_vars
  PROVE  CountInv'
<1>1. trial \in Nat /\ processed \in Nat /\ errors \in Nat /\ ran \in BOOLEAN
  BY DownloadAssumption DEF Typed, CountType
<1>2. ASSUME PullRaises \/ PullReturns, pc \notin Between PROVE CountInv'
  <2>1. trial' = trial /\ ran' = ran /\ pc' = "entry" BY <1>2 DEF PullRaises, PullReturns
  <2>2. trial = 1 /\ processed = 0 /\ errors = 0 /\ (ran <=> trial > 0) BY <1>2 DEF CountInv
  <2>3. processed' + errors' = 1 /\ errors' <= 1 
    <3>1. CASE PullRaises BY <2>2, <3>1 DEF PullRaises
    <3>2. CASE PullReturns BY <2>2, <3>2 DEF PullReturns
    <3> QED BY <1>2, <3>1, <3>2
  <2>4. ran' <=> trial' > 0 BY <2>1, <2>2
  <2> QED BY <2>1, <2>2, <2>3, <2>4 DEF CountInv, Between
<1>3. ASSUME NEW l, l \notin Between, pc \notin Between, Proceed(l) PROVE CountInv'
  <2>1. UNCHANGED <<trial, processed, errors, ran>> /\ pc' = l BY <1>3 DEF Proceed, countVars
  <2>2. trial = 1 /\ processed = 0 /\ errors = 0 /\ (ran <=> trial > 0) BY <1>3 DEF CountInv
  <2>3. pc' \notin Between BY <1>3, <2>1
  <2>4. trial' = 1 /\ processed' = 0 /\ errors' = 0 BY <2>1, <2>2
  <2>5. ran' <=> trial' > 0 BY <2>1, <2>2
  <2> QED BY <2>3, <2>4, <2>5 DEF CountInv, Between
<1>4. CASE NextEntry
  <2>1. pc = "entry" /\ processed + errors = trial /\ errors <= 1
    BY <1>4 DEF NextEntry, CountInv, Between
  <2>2. CASE trial = Entries /\ Proceed("end") BY <1>1, <2>1, <2>2 DEF Proceed, countVars, CountInv, Between
  <2>3. CASE trial' = trial + 1 /\ ran' = TRUE /\ ran /\ processed' = processed + 1 /\ UNCHANGED <<pc, errors>>
    BY <1>1, <2>1, <2>3 DEF CountInv, Between
  <2>4. CASE trial' = trial + 1 /\ ran' = TRUE /\ ~ran /\ pc' = "list" /\ UNCHANGED <<processed, errors>>
    BY <1>1, <2>1, <2>4 DEF CountInv, Between
  <2> QED BY <1>4, <2>2, <2>3, <2>4 DEF NextEntry
<1>5. CASE PrepareList \/ DropList
  <2>1. pc \notin Between /\ (PullRaises \/ Proceed("tar") \/ Proceed("temp"))
    BY <1>5 DEF PrepareList, DropList, Between
  <2> QED BY <1>2, <1>3, <2>1 DEF Between
<1>6. CASE MakeTar \/ Gzip \/ Undo
  <2>1. /\ pc \notin Between
        /\ Proceed("gzip") \/ Proceed("undo") \/ Proceed("dropList") \/ Proceed("dropListRaise")
    BY <1>6 DEF MakeTar, Gzip, Undo, Between
  <2> QED BY <1>3, <2>1 DEF Between
<1>7. CASE MakeTemp \/ Get \/ OpenArchive
  <2>1. /\ pc \notin Between
        /\ \/ PullRaises \/ Proceed("get") \/ Proceed("open") \/ Proceed("files")
           \/ Proceed("closeRaise")
    BY <1>7 DEF MakeTemp, Get, OpenArchive, Between
  <2> QED BY <1>2, <1>3, <2>1 DEF Between
<1>8. CASE SkipMember \/ ExtractFile \/ ExtractLink \/ NoParent
  <2>1. pc \notin Between /\ (Advance("links") \/ Advance("close") \/ Proceed("closeRaise"))
    BY <1>8 DEF SkipMember, ExtractFile, ExtractLink, NoParent, Between
  <2>2. Proceed(pc) \/ Proceed("links") \/ Proceed("close") \/ Proceed("closeRaise")
    BY <2>1 DEF Advance
  <2> QED BY <1>3, <2>1, <2>2 DEF Between
<1>9. CASE CloseArchive \/ RemoveArchive
  <2>1. pc \notin Between /\ (PullRaises \/ PullReturns \/ Proceed("rm"))
    BY <1>9 DEF CloseArchive, RemoveArchive, Between
  <2> QED BY <1>2, <1>3, <2>1 DEF Between
<1>10. CASE LoseSession BY <1>10 DEF LoseSession, countVars, CountInv
<1>11. CASE UNCHANGED vars BY <1>11 DEF vars, countVars, CountInv
<1> QED BY <1>4, <1>5, <1>6, <1>7, <1>8, <1>9, <1>10, <1>11 DEF Next

LEMMA TmpInvStep ==
  ASSUME Typed, TmpInv, [Next]_vars
  PROVE  TmpInv'
<1> localTmp \in BOOLEAN BY DEF Typed, FileType
<1>1. CASE NextEntry BY <1>1 DEF NextEntry, Proceed, fileVars, TmpInv
<1>2. CASE PrepareList \/ MakeTar \/ Gzip \/ Undo
  BY <1>2 DEF PrepareList, MakeTar, Gzip, Undo, Proceed, PullRaises, fileVars, TmpInv
<1>3. CASE DropList BY <1>3 DEF DropList, Proceed, PullRaises, fileVars, TmpInv
<1>4. CASE MakeTemp BY <1>4 DEF MakeTemp, Proceed, PullRaises, TmpInv
<1>5. CASE Get BY <1>5 DEF Get, Proceed, PullRaises, TmpInv
<1>6. CASE OpenArchive BY <1>6 DEF OpenArchive, Proceed, fileVars, TmpInv
<1>7. CASE SkipMember BY <1>7 DEF SkipMember, Advance, Proceed, TmpInv
<1>8. CASE ExtractFile BY <1>8 DEF ExtractFile, Advance, Proceed, TmpInv
<1>9. CASE ExtractLink BY <1>9 DEF ExtractLink, Advance, Proceed, TmpInv
<1>10. CASE NoParent BY <1>10 DEF NoParent, Proceed, fileVars, TmpInv
<1>11. CASE CloseArchive BY <1>11 DEF CloseArchive, Proceed, PullRaises, TmpInv
<1>12. CASE RemoveArchive BY <1>12 DEF RemoveArchive, PullReturns, PullRaises, fileVars, TmpInv
<1>13. CASE LoseSession \/ UNCHANGED vars BY <1>13 DEF LoseSession, vars, fileVars, TmpInv
<1> QED BY <1>1, <1>2, <1>3, <1>4, <1>5, <1>6, <1>7, <1>8, <1>9, <1>10, <1>11, <1>12, <1>13 DEF Next

-----------------------------------------------------------------------------
(* What has failed, and what it left                                       *)

LEMMA BrokeInvStep ==
  ASSUME Typed, CountInv, BrokeInv, [Next]_vars
  PROVE  BrokeInv'
<1>1. errors \in Nat /\ ran \in BOOLEAN /\ pc \in Labels BY DEF Typed, CountType
<1>2. pc \notin Between => errors = 0 /\ ran
  BY DownloadAssumption DEF CountInv
<1>3. broke' \in {broke, broke \cup {pc}} BY FaultStep
<1>4. ASSUME PullRaises, pc \notin Between, broke' # {} PROVE BrokeInv'
  <2>1. pc' = "entry" /\ errors' > 0 /\ ran' = ran BY <1>1, <1>4 DEF PullRaises
  <2> QED BY <1>1, <1>2, <1>4, <2>1 DEF BrokeInv, Failing
<1>5. ASSUME NEW l \in Failing, Proceed(l), pc \notin Between, broke' # {} PROVE BrokeInv'
  <2>1. pc' = l /\ ran' = ran BY <1>5 DEF Proceed, countVars
  <2> QED BY <1>2, <1>5, <2>1 DEF BrokeInv
<1>6. broke' = broke \cup {pc} => broke' # {} OBVIOUS
<1>8. ASSUME NEW l, pc \notin Between \cup Failing, Proceed(l), broke' = broke, l \notin Failing,
             pc \in Packing \cup {"temp", "get", "open", "files"}
      PROVE  BrokeInv'
  <2>1. broke = {} BY <1>2, <1>8 DEF BrokeInv
  <2>2. errors' = 0 /\ ran' = ran /\ pc' = l BY <1>2, <1>8 DEF Proceed, countVars
  <2> QED BY <1>8, <2>1, <2>2 DEF BrokeInv
<1>9. CASE NextEntry
  <2>1. pc = "entry" /\ broke' = broke BY <1>9 DEF NextEntry, faultVars
  <2>2. CASE Proceed("end")
    BY <1>1, <2>1, <2>2 DEF Proceed, countVars, BrokeInv, Failing, Packing
  <2>3. CASE ran /\ UNCHANGED <<pc, errors>> /\ ran' = TRUE
    BY <1>1, <2>1, <2>3 DEF BrokeInv, Failing, Packing
  <2>4. CASE ~ran /\ pc' = "list" /\ UNCHANGED errors /\ ran' = TRUE
    <3>1. broke = {} BY <2>4 DEF BrokeInv
    <3>2. errors = 0
      <4>1. trial = 0 /\ processed + errors = trial /\ processed \in Nat
        BY <2>1, <2>4, DownloadAssumption DEF CountInv, Between, Typed, CountType
      <4> QED BY <1>1, <4>1
    <3> QED BY <2>1, <2>4, <3>1, <3>2 DEF BrokeInv, Failing
  <2> QED BY <1>9, <2>2, <2>3, <2>4 DEF NextEntry
<1>10. CASE PrepareList
  <2>1. pc = "list" BY <1>10 DEF PrepareList
  <2>2. \/ Proceed("tar") /\ broke' = broke
        \/ PullRaises /\ broke' = broke \cup {pc}
    BY <1>10 DEF PrepareList, Works, Fails, Breaks, faultVars
  <2> QED BY <1>4, <1>6, <1>8, <2>1, <2>2 DEF Between, Failing, Packing
<1>11. CASE MakeTar \/ Gzip
  <2>1. pc \in {"tar", "gzip"} BY <1>11 DEF MakeTar, Gzip
  <2>2. \/ (Proceed("gzip") \/ Proceed("dropList")) /\ broke' = broke
        \/ Proceed("undo") /\ broke' = broke \cup {pc}
    BY <1>11 DEF MakeTar, Gzip, Works, Fails, Breaks, faultVars
  <2> QED BY <1>5, <1>6, <1>8, <2>1, <2>2 DEF Between, Failing, Packing
<1>12. CASE Undo
  <2>1. pc = "undo" /\ Proceed("dropListRaise") BY <1>12 DEF Undo
  <2>2. broke # {} BY <2>1 DEF BrokeInv, Failing
  <2> QED BY <1>3, <1>5, <2>1, <2>2 DEF Between, Failing
<1>13. CASE DropList
  <2>1. CASE pc = "dropListRaise"
    <3>1. PullRaises BY <1>13, <2>1 DEF DropList
    <3>2. broke # {} BY <2>1 DEF BrokeInv, Failing
    <3> QED BY <1>3, <1>4, <2>1, <3>1, <3>2 DEF Between
  <2>2. CASE pc = "dropList"
    <3>1. \/ Proceed("temp") /\ broke' = broke
          \/ PullRaises /\ broke' = broke \cup {pc}
      BY <1>13, <2>2 DEF DropList, Works, Fails, Breaks, faultVars
    <3> QED BY <1>4, <1>6, <1>8, <2>2, <3>1 DEF Between, Failing, Packing
  <2> QED BY <1>13, <2>1, <2>2 DEF DropList
<1>14. CASE MakeTemp \/ Get
  <2>1. pc \in {"temp", "get"} BY <1>14 DEF MakeTemp, Get
  <2>2. \/ (Proceed("get") \/ Proceed("open")) /\ broke' = broke
        \/ PullRaises /\ broke' = broke \cup {pc}
    BY <1>14 DEF MakeTemp, Get, Works, Fails, Breaks, faultVars
  <2> QED BY <1>4, <1>6, <1>8, <2>1, <2>2 DEF Between, Failing
<1>15. CASE OpenArchive
  <2>1. pc = "open" BY <1>15 DEF OpenArchive
  <2>2. \/ Proceed("files") /\ broke' = broke
        \/ Proceed("closeRaise") /\ broke' = broke \cup {pc}
    BY <1>15 DEF OpenArchive, Breaks, faultVars
  <2> QED BY <1>5, <1>6, <1>8, <2>1, <2>2 DEF Between, Failing
\* In the second pass a hard link may fail without ending it.
<1>16. ASSUME pc = "links", Proceed("links") \/ Proceed("close") PROVE BrokeInv'
  <2>1. broke \subseteq {"links"} BY <1>2, <1>16 DEF BrokeInv, Between, Failing
  <2>2. broke' \subseteq {"links"} BY <1>3, <1>16, <2>1
  <2>3. pc' \in {"links", "close"} /\ errors' = 0 /\ ran' = ran
    BY <1>2, <1>16 DEF Proceed, countVars, Between
  <2> QED BY <1>2, <1>16, <2>2, <2>3 DEF BrokeInv, Failing, Packing, Between
<1>17. CASE SkipMember
  <2>1. broke' = broke BY <1>17 DEF SkipMember, faultVars
  <2>2. CASE pc = "files"
    <3>1. Proceed("files") \/ Proceed("links") BY <1>17, <2>2 DEF SkipMember, Advance
    <3> QED BY <1>8, <2>1, <2>2, <3>1 DEF Between, Failing
  <2>3. CASE pc = "links"
    <3>1. Proceed("links") \/ Proceed("close") BY <1>17, <2>3 DEF SkipMember, Advance
    <3> QED BY <1>16, <2>3, <3>1
  <2> QED BY <1>17, <2>2, <2>3 DEF SkipMember
<1>18. CASE ExtractFile
  <2>1. pc = "files" BY <1>18 DEF ExtractFile
  <2>2. \/ Advance("links") /\ broke' = broke
        \/ Proceed("closeRaise") /\ broke' = broke \cup {pc}
    BY <1>18 DEF ExtractFile, Breaks, faultVars
  <2>3. Advance("links") => Proceed("files") \/ Proceed("links") BY <2>1 DEF Advance
  <2> QED BY <1>5, <1>6, <1>8, <2>1, <2>2, <2>3 DEF Between, Failing
<1>19. CASE ExtractLink
  <2>1. pc = "links" /\ Advance("close") BY <1>19 DEF ExtractLink
  <2>2. Proceed("links") \/ Proceed("close") BY <2>1 DEF Advance
  <2> QED BY <1>16, <2>1, <2>2
<1>20. CASE NoParent
  <2>1. pc = "links" /\ Proceed("closeRaise") /\ broke' = broke \cup {pc}
    BY <1>20 DEF NoParent, Breaks
  <2> QED BY <1>5, <1>6, <2>1 DEF Between, Failing
<1>21. CASE CloseArchive
  <2>1. broke' = broke BY <1>21 DEF CloseArchive, faultVars
  <2>2. CASE pc = "closeRaise"
    <3>1. PullRaises BY <1>21, <2>2 DEF CloseArchive
    <3>2. broke # {} BY <2>2 DEF BrokeInv, Failing
    <3> QED BY <1>4, <2>1, <2>2, <3>1, <3>2 DEF Between
  <2>3. CASE pc = "close"
    <3>1. pc' = "rm" /\ errors' = 0 /\ ran' = ran
      BY <1>2, <1>21, <2>3 DEF CloseArchive, Proceed, countVars, Between
    <3>2. broke \subseteq {"links"} BY <1>2, <2>3 DEF BrokeInv, Between, Failing
    <3> QED BY <1>2, <2>1, <2>3, <3>1, <3>2 DEF BrokeInv, Failing, Packing, Between
  <2> QED BY <1>21, <2>2, <2>3 DEF CloseArchive
<1>22. CASE RemoveArchive
  <2>1. pc = "rm" BY <1>22 DEF RemoveArchive
  <2>2. CASE PullRaises
    <3>1. broke' # {} BY <1>22, <2>2, <1>6, <1>1 DEF RemoveArchive, PullReturns, PullRaises, Fails, Breaks
    <3> QED BY <1>4, <2>1, <2>2, <3>1 DEF Between
  <2>3. CASE PullReturns
    <3>1. pc' = "entry" /\ errors' = 0 /\ ran' = ran
      BY <1>2, <2>1, <2>3 DEF PullReturns, Between
    <3>2. broke \subseteq {"links"} BY <1>2, <2>1 DEF BrokeInv, Between, Failing
    <3>3. broke' \subseteq {"links", "rm"} BY <1>3, <2>1, <3>2
    <3> QED BY <1>2, <2>1, <3>1, <3>3 DEF BrokeInv, Failing, Packing, Between
  <2> QED BY <1>22, <2>2, <2>3 DEF RemoveArchive
<1>23. CASE LoseSession \/ UNCHANGED vars
  BY <1>23 DEF LoseSession, vars, countVars, faultVars, BrokeInv
<1> QED BY <1>9, <1>10, <1>11, <1>12, <1>13, <1>14, <1>15, <1>17, <1>18, <1>19, <1>20, <1>21, <1>22,
           <1>23 DEF Next

\* Reasons only accumulate.
LEMMA ReasonsStay ==
  ASSUME Typed, [Next]_vars
  PROVE  /\ (Undone => Undone') /\ (TarReason => TarReason') /\ (TgzReason => TgzReason')
         /\ broke \subseteq broke' /\ sudo' = sudo
<1>1. broke \subseteq broke' BY FaultStep
<1>2. sudo' = sudo
  BY DEF Next, NextEntry, PrepareList, MakeTar, Gzip, Undo, DropList, MakeTemp, Get, OpenArchive,
         SkipMember, ExtractFile, ExtractLink, NoParent, CloseArchive, RemoveArchive, LoseSession, vars
<1> QED BY <1>1, <1>2 DEF Undone, TarReason, TgzReason

LEMMA RemoteInvStep ==
  ASSUME Typed, CountInv, RemoteInv, [Next]_vars
  PROVE  RemoteInv'
<1>1. ran \in BOOLEAN /\ pc \in Labels /\ remote \subseteq {"lst", "tar", "tgz"} /\ broke \subseteq broke'
  BY ReasonsStay DEF Typed, CountType, FileType
<1>2. pc \notin Between => ran BY DownloadAssumption DEF CountInv
<1>3. /\ (Undone => Undone') /\ (TarReason => TarReason') /\ (TgzReason => TgzReason')
      /\ sudo' = sudo
  BY ReasonsStay
\* The ends of the steps: the first call raises or returns, or goes on while the archive is used.
<1>4. ASSUME pc' \in Between, ran', "lst" \in remote' => broke' \cap {"list", "dropList", "dropListRaise"} # {},
             "tar" \in remote' => TarReason' /\ Undone',
             "tgz" \in remote' => ("gzip" \in broke' /\ Undone') \/ TgzReason'
      PROVE  RemoteInv'
  BY <1>4 DEF RemoteInv, Between, Using
<1>5. ASSUME pc' \in Using, ran', remote' = {"tgz"}, pc' = "closeRaise" => TgzReason' PROVE RemoteInv'
  BY <1>5 DEF RemoteInv, Between, Using
<1>6. CASE NextEntry
  <2>1. pc = "entry" /\ remote' = remote BY <1>6 DEF NextEntry
  <2>2. CASE ran /\ pc' \in Between /\ ran'
    <3>1. "lst" \in remote => broke \cap {"list", "dropList", "dropListRaise"} # {} BY <2>1 DEF RemoteInv, Between
    <3>2. "tar" \in remote => TarReason /\ Undone BY <2>1 DEF RemoteInv, Between
    <3>3. "tgz" \in remote => ("gzip" \in broke /\ Undone) \/ TgzReason BY <2>1 DEF RemoteInv, Between
    <3>4. "lst" \in remote' => broke' \cap {"list", "dropList", "dropListRaise"} # {}
      BY <1>1, <2>1, <3>1
    <3>5. "tar" \in remote' => TarReason' /\ Undone' BY <1>3, <2>1, <3>2
    <3>6. "tgz" \in remote' => ("gzip" \in broke' /\ Undone') \/ TgzReason' BY <1>1, <1>3, <2>1, <3>3
    <3> QED BY <1>4, <2>2, <3>4, <3>5, <3>6
  <2>3. CASE ~ran
    <3>1. remote' = {} BY <2>1, <2>3 DEF RemoteInv
    <3>2. pc' \in {"list", "end"} BY <1>6, <2>3 DEF NextEntry, Proceed
    <3> QED BY <3>1, <3>2 DEF RemoteInv, Between, Using
  <2>4. ran => pc' \in Between /\ ran'
    BY <1>6, <2>1 DEF NextEntry, Proceed, countVars, Between
  <2> QED BY <1>1, <2>2, <2>3, <2>4
<1>7. CASE PrepareList
  <2>1. pc = "list" /\ remote = {} /\ ran BY <1>2, <1>7 DEF PrepareList, RemoteInv, Between
  <2>2. CASE Proceed("tar") /\ remote' = remote \cup {"lst"}
    BY <2>1, <2>2 DEF Proceed, countVars, RemoteInv, Between, Using
  <2>3. CASE PullRaises /\ Fails /\ remote' \in Before(remote \cup {"lst"})
    <3>1. remote' \subseteq {"lst"} BY <2>1, <2>3 DEF Before
    <3>2. "list" \in broke' /\ pc' = "entry" /\ ran'
      BY <2>1, <2>3 DEF Fails, Breaks, PullRaises
    <3> QED BY <1>4, <3>1, <3>2 DEF Between
  <2> QED BY <1>7, <2>2, <2>3 DEF PrepareList
<1>8. CASE MakeTar
  <2>1. pc = "tar" /\ remote = {"lst"} /\ ran BY <1>2, <1>8 DEF MakeTar, RemoteInv, Between
  <2>2. CASE Proceed("gzip") /\ remote' = remote \cup {"tar"}
    BY <2>1, <2>2 DEF Proceed, countVars, RemoteInv, Between, Using
  <2>3. CASE Proceed("undo") /\ Fails /\ remote' \in Before(remote \cup {"tar"})
    <3>1. remote' \subseteq {"lst", "tar"} BY <2>1, <2>3 DEF Before
    <3>2. "tar" \in broke' /\ pc' = "undo" /\ ran'
      BY <2>1, <2>3 DEF Fails, Breaks, Proceed, countVars
    <3> QED BY <3>1, <3>2 DEF RemoteInv, TarReason, Between, Using
  <2> QED BY <1>8, <2>2, <2>3 DEF MakeTar
<1>9. CASE Gzip
  <2>1. pc = "gzip" /\ remote = {"lst", "tar"} /\ ran BY <1>2, <1>9 DEF Gzip, RemoteInv, Between
  <2>2. CASE Proceed("dropList") /\ remote' = (remote \ {"tar"}) \cup {"tgz"}
    <3>1. remote' = {"lst", "tgz"} BY <2>1, <2>2
    <3> QED BY <2>1, <2>2, <3>1 DEF Proceed, countVars, RemoteInv, Between, Using
  <2>3. CASE Proceed("undo") /\ Fails
    <3>1. "gzip" \in broke' /\ pc' = "undo" /\ ran'
      BY <2>1, <2>3 DEF Fails, Breaks, Proceed, countVars
    <3> QED BY <3>1 DEF RemoteInv, TarReason, Between, Using
  <2> QED BY <1>9, <2>2, <2>3 DEF Gzip
<1>10. CASE Undo
  <2>1. pc = "undo" /\ ran BY <1>2, <1>10 DEF Undo, Between
  <2>2. ("tar" \in remote => TarReason) /\ ("tgz" \in remote => "gzip" \in broke)
    BY <2>1 DEF RemoteInv
  <2> DEFINE r == remote \ ({"lst", "tar", "tgz"} \ Unremovable({"tar", "tgz"}))
  <2>3. (Works /\ remote' = r) \/ (Fails /\ remote' \in Before(r)) BY <1>10 DEF Undo
  <2>4. r \subseteq remote /\ (~sudo => "tar" \notin r /\ "tgz" \notin r)
    BY DEF Unremovable
  <2> HIDE DEF r
  <2>5. remote' \subseteq remote BY <2>3, <2>4 DEF Before
  <2>6. "tar" \in remote' \/ "tgz" \in remote' => Undone'
    <3>1. CASE remote' = r BY <1>3, <2>4, <3>1 DEF Undone
    <3>2. CASE Fails
      <4>1. "undo" \in broke' BY <2>1, <3>2 DEF Fails, Breaks
      <4> QED BY <4>1 DEF Undone
    <3> QED BY <2>3, <3>1, <3>2
  <2>7. pc' = "dropListRaise" /\ ran' BY <1>10, <2>1 DEF Undo, Proceed, countVars
  <2>8. ("tar" \in remote' => TarReason') /\ ("tgz" \in remote' => "gzip" \in broke')
    BY <1>1, <1>3, <2>2, <2>5
  <2> QED BY <2>6, <2>7, <2>8 DEF RemoteInv, Between, Using
<1>11. CASE DropList
  <2>1. ran /\ (Works \/ Fails) /\ (remote' = remote \ {"lst"} \/ remote' = remote)
    BY <1>2, <1>11 DEF DropList, Between, Before
  <2>2. CASE pc = "dropListRaise"
    <3>1. PullRaises /\ (remote' = remote \ {"lst"} \/ Fails) BY <1>11, <2>2 DEF DropList
    <3>2. pc' = "entry" /\ ran' BY <2>1, <3>1 DEF PullRaises
    <3>3. "lst" \in remote' => "dropListRaise" \in broke' BY <2>2, <3>1 DEF Fails, Breaks
    <3>4. /\ "tar" \in remote => TarReason /\ Undone
          /\ "tgz" \in remote => "gzip" \in broke /\ Undone
      BY <2>2 DEF RemoteInv
    <3>5. "tar" \in remote' => TarReason' /\ Undone' BY <1>3, <2>1, <3>4
    <3>6. "tgz" \in remote' => "gzip" \in broke' /\ Undone' BY <1>1, <1>3, <2>1, <3>4
    <3> QED BY <1>4, <3>2, <3>3, <3>5, <3>6 DEF Between
  <2>3. CASE pc = "dropList" /\ Works /\ remote' = remote \ {"lst"} /\ Proceed("temp")
    <3>1. remote' = {"tgz"} BY <2>3 DEF RemoteInv
    <3> QED BY <1>5, <2>1, <2>3, <3>1 DEF Proceed, countVars, Using
  <2>4. CASE pc = "dropList" /\ Fails /\ PullRaises
    <3>1. pc' = "entry" /\ ran' /\ "dropList" \in broke' BY <2>1, <2>4 DEF PullRaises, Fails, Breaks
    <3>2. "tar" \notin remote' BY <2>1, <2>4 DEF RemoteInv
    <3> QED BY <1>4, <3>1, <3>2 DEF Between, TgzReason
  <2> QED BY <1>11, <2>2, <2>3, <2>4 DEF DropList
\* A call that raises with the archive there has a reason to leave it.
<1>12. ASSUME pc \in Using, PullRaises, remote' \subseteq {"tgz"}, TgzReason' PROVE RemoteInv'
  <2>1. pc' = "entry" /\ ran' BY <1>2, <1>12 DEF PullRaises, Using, Between
  <2> QED BY <1>4, <1>12, <2>1 DEF Between
<1>13. ASSUME pc \in Using, NEW l \in Using, Proceed(l), remote' = remote, l = "closeRaise" => TgzReason'
       PROVE  RemoteInv'
  <2>1. pc' = l /\ ran' /\ remote' = {"tgz"}
    BY <1>2, <1>13 DEF Proceed, countVars, Using, Between, RemoteInv
  <2> QED BY <1>5, <1>13, <2>1
<1>14. CASE MakeTemp \/ Get
  <2>1. pc \in {"temp", "get"} /\ remote' = remote BY <1>14 DEF MakeTemp, Get
  <2>2. \/ Proceed("get") \/ Proceed("open")
        \/ PullRaises /\ broke' = broke \cup {pc}
    BY <1>14 DEF MakeTemp, Get, Fails, Breaks
  <2>3. pc \in Using BY <2>1 DEF Using
  <2>4. broke' = broke \cup {pc} => TgzReason' BY <2>1 DEF TgzReason
  <2>5. remote = {"tgz"} BY <2>3 DEF RemoteInv
  <2> QED BY <1>12, <1>13, <2>1, <2>2, <2>3, <2>4, <2>5 DEF Using
<1>15. CASE OpenArchive \/ NoParent
  <2>1. pc \in {"open", "links"} /\ remote' = remote BY <1>15 DEF OpenArchive, NoParent
  <2>2. \/ Proceed("files")
        \/ Proceed("closeRaise") /\ broke' = broke \cup {pc}
    BY <1>15 DEF OpenArchive, NoParent, Breaks
  <2>3. pc \in Using BY <2>1 DEF Using
  <2>4. broke' = broke \cup {pc} => TgzReason' BY <2>1 DEF TgzReason
  <2> QED BY <1>13, <2>1, <2>2, <2>3, <2>4 DEF Using
<1>16. CASE SkipMember \/ ExtractFile \/ ExtractLink
  <2>1. pc \in {"files", "links"} /\ remote' = remote BY <1>16 DEF SkipMember, ExtractFile, ExtractLink
  <2>2. \/ Advance("links") \/ Advance("close")
        \/ Proceed("closeRaise") /\ broke' = broke \cup {pc}
    BY <1>16 DEF SkipMember, ExtractFile, ExtractLink, Breaks
  <2>3. \/ Proceed("files") \/ Proceed("links") \/ Proceed("close")
        \/ Proceed("closeRaise") /\ broke' = broke \cup {pc}
    BY <2>1, <2>2 DEF Advance
  <2>4. pc \in Using BY <2>1 DEF Using
  <2>5. broke' = broke \cup {pc} => TgzReason' BY <2>1 DEF TgzReason
  <2> QED BY <1>13, <2>1, <2>3, <2>4, <2>5 DEF Using
<1>17. CASE CloseArchive
  <2>1. remote' = remote /\ pc \in Using BY <1>17 DEF CloseArchive, Using
  <2>2. CASE pc = "close"
    BY <1>13, <1>17, <2>1, <2>2 DEF CloseArchive, Using
  <2>3. CASE pc = "closeRaise"
    <3>1. TgzReason /\ remote = {"tgz"} BY <2>1, <2>3 DEF RemoteInv
    <3>2. TgzReason' BY <1>3, <3>1
    <3>3. PullRaises BY <1>17, <2>3 DEF CloseArchive
    <3>4. remote' \subseteq {"tgz"} BY <2>1, <3>1
    <3> QED BY <1>12, <2>1, <3>2, <3>3, <3>4
  <2> QED BY <1>17, <2>2, <2>3 DEF CloseArchive
<1>18. CASE RemoveArchive
  <2>1. pc = "rm" /\ pc \in Using /\ remote = {"tgz"} BY <1>18 DEF RemoveArchive, Using, RemoteInv
  <2>2. remote' \subseteq {"tgz"} BY <1>18, <2>1 DEF RemoveArchive, Before
  <2>3. "tgz" \in remote' => "rm" \in broke'
    BY <1>18, <2>1 DEF RemoveArchive, Works, Fails, Breaks, Before
  <2>4. pc' = "entry" /\ ran' BY <1>2, <1>18, <2>1 DEF RemoveArchive, PullRaises, PullReturns, Between
  <2> QED BY <1>4, <2>2, <2>3, <2>4 DEF Between, TgzReason
<1>19. CASE LoseSession \/ UNCHANGED vars
  BY <1>19 DEF LoseSession, vars, countVars, faultVars, RemoteInv, Undone, TarReason, TgzReason
<1> QED BY <1>6, <1>7, <1>8, <1>9, <1>10, <1>11, <1>14, <1>15, <1>16, <1>17, <1>18, <1>19 DEF Next

-----------------------------------------------------------------------------
(* The extraction                                                          *)

\* What one member's step writes, other members do not notice.
Touches(n) ==
  /\ local' = local \/ \E c : local' = [local EXCEPT ![Path[n]] = c]
  /\ extracted \subseteq extracted' /\ badLinks \subseteq badLinks'

LEMMA DoneStays ==
  ASSUME Typed, NEW n \in Member, Touches(n), NEW m \in Member, m # n
  PROVE  (FileDone(m) => FileDone(m)') /\ (LinkDone(m) => LinkDone(m)')
<1>1. Alone(m) => local'[Path[m]] = local[Path[m]]
  <2> SUFFICES ASSUME Alone(m) PROVE local'[Path[m]] = local[Path[m]] OBVIOUS
  <2>1. Path[n] # Path[m] BY DEF Alone
  <2>2. local' = local \/ \E c : local' = [local EXCEPT ![Path[n]] = c] BY DEF Touches
  <2>3. local \in [Paths -> Member \cup {Nothing, Partial}] /\ Path[m] \in Paths
    BY PathsOf DEF Typed, FileType
  <2> QED BY <2>1, <2>2, <2>3
<1>2. extracted \subseteq extracted' /\ badLinks \subseteq badLinks' BY DEF Touches
<1>3. FileDone(m) => FileDone(m)' BY <1>1, <1>2 DEF FileDone
<1>4. LinkDone(m) => LinkDone(m)' BY <1>1, <1>2 DEF LinkDone
<1> QED BY <1>3, <1>4

\* A hard link that Arrived is about gets the content of its target, which is alone too.
LEMMA LinkWritten ==
  ASSUME Typed, ExtractInv, ExtractLink, NEW m \in Member, m = next
  PROVE  LinkDone(m)' /\ Touches(m) /\ extracted' \subseteq Kept
<1> DEFINE t == LinkTo[m]
<1>1. pc = "links" /\ ~IsFile(m) /\ ~Blocked(m) BY DEF ExtractLink
<1>2. m \in Kept /\ t \in Member /\ t < m /\ LinkTo[t] = 0
  BY <1>1, DownloadAssumption DEF Kept, IsFile, Member
<1>3. t # m /\ IsFile(t) BY <1>2, DownloadAssumption DEF IsFile, Member
<1>4. FileDone(t) /\ extracted \subseteq Kept BY <1>1, <1>2 DEF ExtractInv
<1>5. local \in [Paths -> Member \cup {Nothing, Partial}] /\ Path[m] \in Paths
  BY <1>1, PathsOf DEF Typed, FileType
<1> HIDE DEF t
<1>6. ASSUME NEW c, Extract(c)
      PROVE  /\ Touches(m) /\ extracted' \subseteq Kept /\ m \in extracted' /\ local'[Path[m]] = c
             /\ badLinks' = badLinks
  BY <1>2, <1>4, <1>5, <1>6 DEF Extract, Touches
<1>7. ASSUME NEW c, Extract(c), Alone(m) /\ Alone(t) /\ t \notin Dropped => c = t
      PROVE  LinkDone(m)' /\ Touches(m) /\ extracted' \subseteq Kept
  <2>1. m \in extracted' /\ local'[Path[m]] = c BY <1>6, <1>7
  <2> QED BY <1>6, <1>7, <2>1 DEF LinkDone, t
\* Nothing but the target has its path.
<1>8. ASSUME Alone(t) PROVE Copyable(m) => t \in extracted
  <2> SUFFICES ASSUME Copyable(m) PROVE t \in extracted OBVIOUS
  <2>1. PICK u \in extracted : Path[u] = Path[t] BY DEF Copyable, t
  <2>2. u \in Member BY <1>4 DEF Kept
  <2>3. u = t BY <1>8, <2>1, <2>2 DEF Alone
  <2> QED BY <2>1, <2>3
<1>9. CASE Copyable(m) /\ Extract(Copied(m))
  <2>1. ASSUME Alone(m), Alone(t) PROVE Copied(m) = t
    <3>1. Path[m] # Path[t] BY <1>1, <1>2, <1>3, <2>1 DEF Alone
    <3>2. t \in Kept BY <1>4, <1>8, <1>9, <2>1
    <3>3. local[Path[t]] = t BY <1>3, <1>4, <2>1, <3>2 DEF FileDone
    <3> QED BY <3>1, <3>3 DEF Copied, t
  <2> QED BY <1>7, <1>9, <2>1
<1>10. CASE \E u \in Indexed(m) : Extract(u)
  <2>1. PICK u \in Indexed(m) : Extract(u) BY <1>10
  <2>2. Alone(t) => u = t BY DEF Indexed, Alone, t
  <2> QED BY <1>7, <2>1, <2>2
<1>11. CASE ~Copyable(m) /\ Indexed(m) = {} /\ UNCHANGED <<local, extracted, badLinks>>
  <2>1. Alone(t) => t \in Dropped
    <3> SUFFICES ASSUME Alone(t), t \notin Dropped PROVE FALSE OBVIOUS
    <3>1. \A v \in 1..(t - 1) : v \in Dropped \/ Path[v] # Path[t]
      <4>1. \A v \in 1..(t - 1) : v \in Member /\ v # t BY <1>2, DownloadAssumption DEF Member
      <4> QED BY <4>1 DEF Alone
    <3>2. t \in Indexed(m) BY <1>2, <1>3, <3>1 DEF Indexed, t
    <3> QED BY <1>11, <3>2
  <2> QED BY <1>4, <1>11, <2>1 DEF LinkDone, Touches, Alone, t
<1>12. CASE LinkFailure
  <2>1. m \in badLinks' BY <1>12 DEF LinkFailure
  <2>2. Touches(m) BY <1>12 DEF LinkFailure, Touches
  <2>3. extracted' = extracted BY <1>12 DEF LinkFailure
  <2> QED BY <1>4, <2>1, <2>2, <2>3 DEF LinkDone
<1> QED BY <1>9, <1>10, <1>11, <1>12 DEF ExtractLink

LEMMA ExtractInvStep ==
  ASSUME Typed, CountInv, ExtractInv, [Next]_vars
  PROVE  ExtractInv'
<1> DEFINE Early == Packing \cup {"temp", "get", "open"}
           Same == UNCHANGED <<next, extracted, local, badLinks>>
<1>1. next \in Member /\ NumMembers \in Nat \ {0} /\ errors \in Nat /\ ran \in BOOLEAN
  BY DownloadAssumption DEF Typed, FileType, CountType
<1>2. pc \notin Between => ran /\ errors = 0 BY DownloadAssumption DEF CountInv
<1>3. extracted \subseteq Kept BY DEF ExtractInv
<1>4. ASSUME Same, NEW m PROVE (FileDone(m) => FileDone(m)') /\ (LinkDone(m) => LinkDone(m)')
  BY <1>4 DEF FileDone, LinkDone
<1>5. ASSUME pc \notin Between, PullRaises, Same PROVE ExtractInv'
  <2>1. pc' = "entry" /\ ran' /\ errors' # 0 BY <1>2, <1>5 DEF PullRaises
  <2> QED BY <1>3, <1>5, <2>1 DEF ExtractInv, Packing, Complete
<1>6. ASSUME pc \in Early, NEW l \in Early, Proceed(l), Same PROVE ExtractInv'
  <2>1. pc' = l /\ next' = 1 BY <1>6 DEF ExtractInv, Proceed
  <2>2. l \notin {"files", "links", "close", "rm"} \cup Between BY <1>6 DEF Packing, Between
  <2> QED BY <1>3, <1>6, <2>1, <2>2 DEF ExtractInv, Complete
<1>7. ASSUME pc \notin Between, Proceed("closeRaise"), extracted' \subseteq Kept PROVE ExtractInv'
  <2>1. pc' = "closeRaise" /\ ran' BY <1>2, <1>7 DEF Proceed, countVars
  <2> QED BY <1>7, <2>1 DEF ExtractInv, Complete, Packing, Between
<1>8. ASSUME Complete, Complete', Same, pc' \in Between \cup {"close", "rm"} PROVE ExtractInv'
  <2>1. \A m \in Member : FileDone(m)' /\ LinkDone(m)' BY <1>4, <1>8 DEF ExtractInv
  <2>2. ran' BY <1>8 DEF Complete
  <2>3. pc' \notin Early \cup {"files", "links"} BY <1>8 DEF Packing, Between
  <2> QED BY <1>3, <1>8, <2>1, <2>2, <2>3 DEF ExtractInv
<1>9. CASE NextEntry
  <2>1. pc = "entry" /\ Same BY <1>9 DEF NextEntry, fileVars
  <2>2. CASE ~ran /\ pc' = "list"
    <3>1. next' = 1 BY <2>1, <2>2 DEF ExtractInv
    <3> QED BY <1>3, <2>1, <2>2, <3>1 DEF ExtractInv, Complete, Between
  <2>3. CASE UNCHANGED <<ran, errors>> /\ pc' \in Between
    <3>1. Complete <=> Complete' BY <2>1, <2>3 DEF Complete, Between
    <3>2. pc' \notin Early \cup {"files", "links"} BY <2>3 DEF Packing, Between
    <3>3. CASE Complete BY <1>8, <2>1, <2>3, <3>1, <3>3
    <3>4. CASE ~Complete
      <4>1. ~ran' => next' = 1 BY <2>1, <2>3 DEF ExtractInv
      <4> QED BY <1>3, <2>1, <3>1, <3>2, <3>4, <4>1 DEF ExtractInv
    <3> QED BY <3>3, <3>4
  <2>4. (~ran /\ pc' = "list") \/ (UNCHANGED <<ran, errors>> /\ pc' \in Between)
    <3>1. CASE Proceed("end") BY <3>1 DEF Proceed, countVars, Between
    <3>2. CASE ran /\ ran' = TRUE /\ UNCHANGED <<pc, errors>> BY <1>1, <2>1, <3>2 DEF Between
    <3> QED BY <1>9, <3>1, <3>2 DEF NextEntry
  <2> QED BY <2>2, <2>3, <2>4
<1>10. CASE PrepareList \/ MakeTar \/ Gzip \/ Undo
  <2>1. Same /\ pc \in Early /\ pc \notin Between
    BY <1>10 DEF PrepareList, MakeTar, Gzip, Undo, fileVars, Packing, Between
  <2>2. \/ PullRaises \/ Proceed("tar") \/ Proceed("gzip") \/ Proceed("undo") \/ Proceed("dropList")
        \/ Proceed("dropListRaise")
    BY <1>10 DEF PrepareList, MakeTar, Gzip, Undo
  <2> QED BY <1>5, <1>6, <2>1, <2>2 DEF Packing
<1>11. CASE DropList \/ MakeTemp \/ Get
  <2>1. Same /\ pc \in Early /\ pc \notin Between
    BY <1>11 DEF DropList, MakeTemp, Get, fileVars, Packing, Between
  <2>2. PullRaises \/ Proceed("temp") \/ Proceed("get") \/ Proceed("open")
    BY <1>11 DEF DropList, MakeTemp, Get
  <2> QED BY <1>5, <1>6, <2>1, <2>2
<1>12. CASE OpenArchive
  <2>1. Same /\ pc = "open" BY <1>12 DEF OpenArchive, fileVars
  <2>2. CASE Proceed("closeRaise") BY <1>3, <1>7, <2>1, <2>2 DEF Between
  <2>3. CASE Proceed("files")
    <3>1. pc' = "files" /\ next' = 1 /\ ran'
      BY <1>2, <2>1, <2>3 DEF ExtractInv, Proceed, countVars, Between
    <3>2. \A m \in Member : ~(m < 1) BY DEF Member
    <3> QED BY <1>3, <2>1, <3>1, <3>2 DEF ExtractInv, Complete, Packing, Between
  <2> QED BY <1>12, <2>2, <2>3 DEF OpenArchive
\* A member's turn is over: the pass goes on with the next one, or is over.
<1>13. ASSUME pc = "files", Advance("links"), Touches(next), extracted' \subseteq Kept,
              \A n \in Member : n = next => FileDone(n)'
       PROVE  ExtractInv'
  <2>1. \A m \in Member : m < next => FileDone(m) BY <1>13 DEF ExtractInv
  <2>2. \A m \in Member : m < next \/ m = next => FileDone(m)'
    <3> TAKE m \in Member
    <3>1. m < next => m # next BY <1>1 DEF Member
    <3> QED BY <1>1, <1>13, <2>1, <3>1, DoneStays
  <2>3. ran' /\ errors' = 0 BY <1>2, <1>13 DEF Advance, Proceed, countVars, Between
  <2>4. CASE next = NumMembers
    <3>1. pc' = "links" /\ next' = 1 BY <1>13, <2>4 DEF Advance, Proceed
    <3>2. \A m \in Member : (m < next \/ m = next) /\ ~(m < 1) BY <1>1, <2>4 DEF Member
    <3>3. \A m \in Member : FileDone(m)' BY <2>2, <3>2
    <3> QED BY <1>13, <2>3, <3>1, <3>2, <3>3 DEF ExtractInv, Complete, Packing, Between
  <2>5. CASE next # NumMembers
    <3>1. pc' = "files" /\ next' = next + 1 BY <1>13, <2>5 DEF Advance, Proceed
    <3>2. \A m \in Member : m < next' => m < next \/ m = next BY <1>1, <3>1 DEF Member
    <3>3. \A m \in Member : m < next' => FileDone(m)' BY <2>2, <3>2
    <3> QED BY <1>13, <2>3, <3>1, <3>3 DEF ExtractInv, Complete, Packing, Between
  <2> QED BY <2>4, <2>5
<1>14. ASSUME pc = "links", Advance("close"), Touches(next), extracted' \subseteq Kept,
              \A n \in Member : n = next => FileDone(n)' /\ LinkDone(n)'
       PROVE  ExtractInv'
  <2>1. (\A m \in Member : FileDone(m)) /\ \A m \in Member : m < next => LinkDone(m)
    BY <1>14 DEF ExtractInv
  <2>2. \A m \in Member : FileDone(m)' BY <1>1, <1>14, <2>1, DoneStays
  <2>3. \A m \in Member : m < next \/ m = next => LinkDone(m)'
    <3> TAKE m \in Member
    <3>1. m < next => m # next BY <1>1 DEF Member
    <3> QED BY <1>1, <1>14, <2>1, <3>1, DoneStays
  <2>4. ran' /\ errors' = 0 BY <1>2, <1>14 DEF Advance, Proceed, countVars, Between
  <2>5. CASE next = NumMembers
    <3>1. pc' = "close" BY <1>14, <2>5 DEF Advance, Proceed
    <3>2. \A m \in Member : m < next \/ m = next BY <1>1, <2>5 DEF Member
    <3>3. \A m \in Member : LinkDone(m)' BY <2>3, <3>2
    <3> QED BY <1>14, <2>2, <2>4, <3>1, <3>3 DEF ExtractInv, Complete, Packing, Between
  <2>6. CASE next # NumMembers
    <3>1. pc' = "links" /\ next' = next + 1 BY <1>14, <2>6 DEF Advance, Proceed
    <3>2. \A m \in Member : m < next' => m < next \/ m = next BY <1>1, <3>1 DEF Member
    <3>3. \A m \in Member : m < next' => LinkDone(m)' BY <2>3, <3>2
    <3> QED BY <1>14, <2>2, <2>4, <3>1, <3>3 DEF ExtractInv, Complete, Packing, Between
  <2> QED BY <2>5, <2>6
<1>15. CASE SkipMember
  <2>1. UNCHANGED <<extracted, local, badLinks>> /\ extracted' \subseteq Kept
    BY <1>3, <1>15 DEF SkipMember
  <2>2. Touches(next) BY <2>1 DEF Touches
  <2>3. CASE pc = "files"
    <3>1. (~IsFile(next) \/ Blocked(next)) /\ Advance("links") BY <1>15, <2>3 DEF SkipMember
    <3>2. \A n \in Member : n = next => FileDone(n)' BY <3>1 DEF FileDone, Kept
    <3> QED BY <1>13, <2>1, <2>2, <2>3, <3>1, <3>2
  <2>4. CASE pc = "links"
    <3>1. (IsFile(next) \/ Blocked(next)) /\ Advance("close") BY <1>15, <2>4 DEF SkipMember
    <3>2. \A n \in Member : FileDone(n) BY <2>4 DEF ExtractInv
    <3>3. \A n \in Member : n = next => FileDone(n)' BY <2>1, <3>2 DEF FileDone
    <3>4. \A n \in Member : n = next => LinkDone(n)' BY <3>1 DEF LinkDone, Kept
    <3> QED BY <1>14, <2>1, <2>2, <2>4, <3>1, <3>3, <3>4
  <2> QED BY <1>15, <2>3, <2>4 DEF SkipMember
<1>16. CASE ExtractFile
  <2>1. pc = "files" /\ IsFile(next) /\ next \in Kept BY <1>1, <1>16 DEF ExtractFile, Kept
  <2>2. CASE /\ local' = [local EXCEPT ![Path[next]] = next]
             /\ extracted' = extracted \cup {next} /\ badLinks' = badLinks
             /\ Advance("links")
    <3>1. Touches(next) BY <2>2 DEF Touches
    <3>2. extracted' \subseteq Kept BY <1>3, <2>1, <2>2
    <3>3. \A n \in Member : n = next => FileDone(n)'
      <4> TAKE n \in Member
      <4>1. local \in [Paths -> Member \cup {Nothing, Partial}] /\ Path[n] \in Paths
        BY PathsOf DEF Typed, FileType
      <4> QED BY <2>2, <4>1 DEF FileDone
    <3> QED BY <1>13, <2>1, <2>2, <3>1, <3>2, <3>3
  <2>3. CASE Proceed("closeRaise") /\ extracted' = extracted
    BY <1>3, <1>7, <2>1, <2>3 DEF Between
  <2> QED BY <1>16, <2>2, <2>3 DEF ExtractFile
<1>17. CASE ExtractLink
  <2>1. pc = "links" /\ ~IsFile(next) /\ Advance("close") BY <1>17 DEF ExtractLink
  <2>2. \A n \in Member : n = next => FileDone(n)' BY <2>1 DEF FileDone
  <2>3. \A n \in Member : n = next => LinkDone(n)' BY <1>17, LinkWritten
  <2>4. Touches(next) /\ extracted' \subseteq Kept BY <1>1, <1>17, LinkWritten
  <2> QED BY <1>14, <2>1, <2>2, <2>3, <2>4
<1>18. CASE NoParent
  <2>1. pc = "links" /\ Proceed("closeRaise") /\ extracted' = extracted
    BY <1>18 DEF NoParent, fileVars
  <2> QED BY <1>3, <1>7, <2>1 DEF Between
<1>19. CASE CloseArchive
  <2>1. Same /\ pc \in {"close", "closeRaise"} BY <1>19 DEF CloseArchive
  <2>2. CASE pc = "close" /\ Proceed("rm")
    <3>1. pc' = "rm" /\ Complete /\ Complete'
      BY <1>2, <2>2 DEF Complete, Proceed, countVars, Between
    <3> QED BY <1>8, <2>1, <3>1
  <2>3. CASE PullRaises BY <1>5, <2>1, <2>3 DEF Between
  <2> QED BY <1>19, <2>1, <2>2, <2>3 DEF CloseArchive
<1>20. CASE RemoveArchive
  <2>1. Same /\ pc = "rm" BY <1>20 DEF RemoveArchive, fileVars
  <2>2. CASE PullReturns
    <3>1. pc' = "entry" /\ Complete /\ Complete'
      BY <1>2, <2>1, <2>2 DEF Complete, PullReturns, Between
    <3> QED BY <1>8, <2>1, <3>1 DEF Between
  <2>3. CASE PullRaises BY <1>5, <2>1, <2>3 DEF Between
  <2> QED BY <1>20, <2>2, <2>3 DEF RemoveArchive
<1>21. CASE LoseSession \/ UNCHANGED vars
  <2>1. Same /\ UNCHANGED <<pc, ran, errors>>
    BY <1>21 DEF LoseSession, vars, countVars, fileVars
  <2> QED BY <1>4, <2>1 DEF ExtractInv, Complete
<1> QED BY <1>9, <1>10, <1>11, <1>12, <1>15, <1>16, <1>17, <1>18, <1>19, <1>20, <1>21 DEF Next

-----------------------------------------------------------------------------
(* The theorems                                                            *)

LEMMA InitInv == ASSUME Init PROVE IInv
<1> USE DEF Init
<1>1. NumMembers \in Nat \ {0} /\ Entries \in Nat \ {0} /\ MaxFaults \in Nat
  BY DownloadAssumption
<1>2. Typed
  <2>1. CountType
    <3>1. pc \in Labels /\ trial \in 0..Entries /\ processed \in Nat /\ errors \in Nat
      BY <1>1 DEF Labels
    <3>2. ran \in BOOLEAN /\ sudo \in BOOLEAN OBVIOUS
    <3> QED BY <3>1, <3>2 DEF CountType
  <2>2. FileType
    <3>1. next \in Member BY <1>1 DEF Member
    <3>2. local \in [Paths -> Member \cup {Nothing, Partial}] OBVIOUS
    <3>3. localTmp \in BOOLEAN OBVIOUS
    <3> QED BY <3>1, <3>2, <3>3 DEF FileType
  <2>3. FaultType BY <1>1 DEF FaultType
  <2> QED BY <2>1, <2>2, <2>3 DEF Typed
<1>3. CountInv /\ BrokeInv /\ TmpInv BY DEF CountInv, BrokeInv, TmpInv, Between, Failing, Packing
<1>4. RemoteInv BY DEF RemoteInv, Using, Between
<1>5. ExtractInv BY DEF ExtractInv, Complete, Packing
<1> QED BY <1>2, <1>3, <1>4, <1>5 DEF IInv

LEMMA Invariance == Spec => []IInv
<1>1. Init => IInv BY InitInv
<1>2. IInv /\ [Next]_vars => IInv'
  <2> SUFFICES ASSUME IInv, [Next]_vars PROVE IInv' OBVIOUS
  <2>1. Typed /\ CountInv /\ BrokeInv /\ RemoteInv /\ TmpInv /\ ExtractInv BY DEF IInv
  <2>2. Typed' /\ CountInv' BY <2>1, TypedStep, CountInvStep
  <2>3. BrokeInv' BY <2>1, BrokeInvStep
  <2>4. RemoteInv' BY <2>1, RemoteInvStep
  <2>5. TmpInv' BY <2>1, TmpInvStep
  <2>6. ExtractInv' BY <2>1, ExtractInvStep
  <2> QED BY <2>2, <2>3, <2>4, <2>5, <2>6 DEF IInv
<1> QED BY <1>1, <1>2, PTL DEF Spec

\* The type invariant. That the counters stay within the host's plan, with one error at most,
\* is CountInv's: there is one call of pull_one that does anything.
THEOREM TypeCorrect == Spec => []TypeOK
<1>1. IInv => TypeOK
  <2> SUFFICES ASSUME IInv PROVE TypeOK OBVIOUS
  <2>1. CountType /\ FileType /\ FaultType /\ CountInv BY DEF IInv, Typed
  <2>2. trial \in Nat /\ trial <= Entries /\ processed \in Nat /\ errors \in Nat
    BY <2>1, DownloadAssumption DEF CountType
  <2>3. processed \in 0..Entries /\ errors \in 0..1
    <3>1. processed <= trial /\ errors <= 1 BY <2>1, <2>2 DEF CountInv
    <3> QED BY <2>2, <3>1, DownloadAssumption
  <2> QED BY <2>1, <2>3 DEF TypeOK, CountType, FileType, FaultType
<1> QED BY <1>1, Invariance, PTL

\* Every entry tried is processed or an error; there is an error only if something failed, and
\* none only if nothing did but the writing of a hard link or the removal of the archive.
THEOREM CountersTrue == Spec => []CountsTruthful
<1>1. IInv => CountsTruthful
  BY DEF IInv, Typed, CountInv, BrokeInv, CountsTruthful, CountType, Between, Failing
<1> QED BY <1>1, Invariance, PTL

\* No temporary outlives its use: the local archive never survives the call, the remote ones
\* only if the steps that make or remove them failed.
THEOREM TemporariesGone == Spec => []TempsRemoved
<1>1. IInv => TempsRemoved
  <2> SUFFICES ASSUME IInv, pc \in Between PROVE TempsRemoved BY DEF TempsRemoved, Between
  <2>1. ~localTmp BY DEF IInv, TmpInv, Between
  <2>2. RemoteInv BY DEF IInv
  <2> QED BY <2>1, <2>2 DEF RemoteInv, TempsRemoved, TarReason, TgzReason, Undone
<1> QED BY <1>1, Invariance, PTL

\* A host that ends without an error has every file of the archive under its own name, and
\* its hard links are files with their target's content.
THEOREM FilesArrived == Spec => []Arrived
<1>1. IInv => Arrived
  <2> SUFFICES ASSUME IInv, pc = "end", errors = 0, NEW m \in Kept \ badLinks, Alone(m),
                      IsFile(m) \/ (Alone(LinkTo[m]) /\ LinkTo[m] \notin Dropped)
               PROVE  m \in extracted /\ local[Path[m]] = Content(m)
    BY DEF Arrived
  <2>1. ran BY DownloadAssumption DEF IInv, CountInv
  <2>2. FileDone(m) /\ LinkDone(m)
    <3>1. Complete /\ m \in Member BY <2>1 DEF Complete, Between, Kept
    <3> QED BY <3>1 DEF IInv, ExtractInv
  <2> QED BY <2>2 DEF FileDone, LinkDone, Content
<1> QED BY <1>1, Invariance, PTL
=============================================================================
