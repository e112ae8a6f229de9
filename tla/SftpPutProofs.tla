---------------------------- MODULE SftpPutProofs ----------------------------
(***************************************************************************)
(* Theorems about SftpPut, for every plan, every remote host and every     *)
(* number of failures. Each rests on TypeOK and an invariant of its own.   *)
(***************************************************************************)
EXTENDS SftpPut, TLAPS

\* A file without content has no owner; what a call has recorded is its file's owner.
Recording == {"tools", "mkdir", "writable", "meta", "exists", "record"}
OwnerInv ==
  /\ \A f \in File : file[f].body = "none" <=> file[f].owner = "none"
  /\ pc \in Recording => recorded = "none"
  /\ pc \in {"put", "chown"} => recorded = "none" \/ recorded = file[Target].owner

\* The entries that are done with their file: those before trial, and trial after its put.
Past == {"entry", "chown", "restore", "removeMeta", "end"}
Passed(e) == e < trial \/ (e = trial /\ pc \in Past)
ContainedInv ==
  /\ pc = "end" => trial = NumEntries
  /\ \A f \in File : Spared(f) => file[f].body # "part"
  /\ \A e \in Entry \ Link : Passed(e) /\ Spared(PathOf[e]) => file[PathOf[e]].body = "new"

Noticed(e) == outcome[e] = "raised" \/ e \in unsent
NoticedInv ==
  \A e \in Entry \ Link :
    Passed(e) =>
      \/ file[PathOf[e]].body = "new"
      \/ \E u \in Entry : u >= e /\ PathOf[u] = PathOf[e] /\ Noticed(u)

\* Only the call under way knows of a directory, and not before it has asked for one.
MetaInv ==
  /\ pc \in {"tools", "mkdir", "writable", "meta"} => ~meta
  /\ session =>
       \A e \in metas :
         \/ e \in lost
         \/ outcome[e] = "raised"
         \/ e = trial /\ meta /\ pc \notin {"entry", "end"}

-----------------------------------------------------------------------------
(* Type correctness                                                        *)

\* However a command ends, it keeps the types of what records failures.
LEMMA Ends ==
  ASSUME SetType, trial \in Entry, Works \/ ExitsBadly \/ Raises \/ Loses \/ UNCHANGED faultVars
  PROVE  session' \in BOOLEAN /\ faults' \in 0..MaxFaults /\ hit' \subseteq Entry /\ lost' \subseteq Entry
<1>1. CASE Works
  BY <1>1 DEF Works, SetType, faultVars
<1>2. CASE ExitsBadly
  BY <1>2, PutAssumption DEF ExitsBadly, SetType
<1>3. CASE Raises
  BY <1>2, <1>3 DEF Raises, SetType
<1>4. CASE Loses
  BY <1>4, PutAssumption DEF Loses, SetType
<1>5. CASE UNCHANGED faultVars
  BY <1>5 DEF SetType, faultVars
<1> QED
  BY <1>1, <1>2, <1>3, <1>4, <1>5

\* Every step keeps the types of the loop's variables.
LEMMA LoopTypeStep == ASSUME TypeOK, [Next]_vars PROVE LoopType'
<1> USE PutAssumption DEF TypeOK, LoopType, CallType, FileType, Entry, Labels, Works, ExitsBadly, Raises, Loses, Report, Proceed, PushReturns, PushRaises, faultVars, callVars
<1>1. CASE NextEntry
  BY <1>1 DEF NextEntry
<1>2. CASE CheckTools
  BY <1>2 DEF CheckTools
<1>3. CASE MakeParent
  BY <1>3 DEF MakeParent
<1>4. CASE CheckWritable
  BY <1>4 DEF CheckWritable
<1>5. CASE MakeMeta
  BY <1>5 DEF MakeMeta
<1>6. CASE TestExists
  BY <1>6 DEF TestExists, Target
<1>7. CASE Record
  BY <1>7 DEF Record, Target
<1>8. CASE Put
  BY <1>8 DEF Put, Written, AfterPut, Target
<1>9. CASE Chown
  BY <1>9 DEF Chown, Target
<1>10. CASE RestoreDumps
  BY <1>10 DEF RestoreDumps
<1>11. CASE RemoveMeta
  BY <1>11 DEF RemoveMeta
<1>12. CASE LoseSession
  BY <1>12 DEF LoseSession
<1>13. CASE UNCHANGED vars
  BY <1>13 DEF vars
<1> QED
  BY <1>1, <1>2, <1>3, <1>4, <1>5, <1>6, <1>7, <1>8, <1>9, <1>10, <1>11, <1>12, <1>13 DEF Next

\* Every step keeps the types of a call's variables.
LEMMA CallTypeStep == ASSUME TypeOK, [Next]_vars PROVE CallType'
<1> USE PutAssumption DEF TypeOK, LoopType, CallType, FileType, Entry, Labels, Works, ExitsBadly, Raises, Loses, Report, Proceed, PushReturns, PushRaises, faultVars, callVars
<1>1. CASE NextEntry
  BY <1>1 DEF NextEntry
<1>2. CASE CheckTools
  BY <1>2 DEF CheckTools
<1>3. CASE MakeParent
  BY <1>3 DEF MakeParent
<1>4. CASE CheckWritable
  BY <1>4 DEF CheckWritable
<1>5. CASE MakeMeta
  BY <1>5 DEF MakeMeta
<1>6. CASE TestExists
  BY <1>6 DEF TestExists, Target
<1>7. CASE Record
  BY <1>7 DEF Record, Target
<1>8. CASE Put
  BY <1>8 DEF Put, Written, AfterPut, Target
<1>9. CASE Chown
  BY <1>9 DEF Chown, Target
<1>10. CASE RestoreDumps
  BY <1>10 DEF RestoreDumps
<1>11. CASE RemoveMeta
  BY <1>11 DEF RemoveMeta
<1>12. CASE LoseSession
  BY <1>12 DEF LoseSession
<1>13. CASE UNCHANGED vars
  BY <1>13 DEF vars
<1> QED
  BY <1>1, <1>2, <1>3, <1>4, <1>5, <1>6, <1>7, <1>8, <1>9, <1>10, <1>11, <1>12, <1>13 DEF Next

\* Giving back changes the owner of the entry's file, or nothing.
LEMMA ChownFile ==
  ASSUME TypeOK, Chown
  PROVE  /\ Target \in File /\ trial \in Entry
         /\ \/ file' = file
            \/ /\ recorded # "none"
               /\ file' = [file EXCEPT ![Target] = [body |-> file[Target].body, owner |-> recorded]]
<1>1. Target \in File /\ trial \in Entry
  BY PutAssumption DEF Chown, TypeOK, LoopType, Target
<1>2. file \in [File -> [body : {"none", "old", "part", "new"}, owner : File \cup {"none", "login"}]]
  BY DEF TypeOK, FileType
<1>3. file' = file \/ (recorded # "none" /\ file' = [file EXCEPT ![Target].owner = recorded])
  BY DEF Chown
<1>4. [file[Target] EXCEPT !.owner = recorded] = [body |-> file[Target].body, owner |-> recorded]
  BY <1>1, <1>2
<1>5. [file EXCEPT ![Target].owner = recorded]
        = [file EXCEPT ![Target] = [file[Target] EXCEPT !.owner = recorded]]
  BY <1>1, <1>2
<1> QED
  BY <1>1, <1>3, <1>4, <1>5

\* Every step keeps the types of the remote files.
LEMMA FileTypeStep == ASSUME TypeOK, [Next]_vars PROVE FileType'
<1> USE PutAssumption DEF TypeOK, LoopType, CallType, FileType, Entry, Labels, Works, ExitsBadly, Raises, Loses, Report, Proceed, PushReturns, PushRaises, faultVars, callVars
<1>1. CASE NextEntry
  BY <1>1 DEF NextEntry
<1>2. CASE CheckTools
  BY <1>2 DEF CheckTools
<1>3. CASE MakeParent
  BY <1>3 DEF MakeParent
<1>4. CASE CheckWritable
  BY <1>4 DEF CheckWritable
<1>5. CASE MakeMeta
  BY <1>5 DEF MakeMeta
<1>6. CASE TestExists
  BY <1>6 DEF TestExists, Target
<1>7. CASE Record
  BY <1>7 DEF Record, Target
<1>8. CASE Put
  BY <1>8 DEF Put, Written, AfterPut, Target
<1>9. CASE Chown
  BY <1>9, ChownFile
<1>10. CASE RestoreDumps
  BY <1>10 DEF RestoreDumps
<1>11. CASE RemoveMeta
  BY <1>11 DEF RemoveMeta
<1>12. CASE LoseSession
  BY <1>12 DEF LoseSession
<1>13. CASE UNCHANGED vars
  BY <1>13 DEF vars
<1> QED
  BY <1>1, <1>2, <1>3, <1>4, <1>5, <1>6, <1>7, <1>8, <1>9, <1>10, <1>11, <1>12, <1>13 DEF Next

\* Every step keeps the types of sets and counters.
LEMMA SetTypeStep == ASSUME TypeOK, [Next]_vars PROVE SetType'
<1> USE DEF TypeOK, SetType
<1>1. CASE NextEntry
  BY <1>1, PutAssumption DEF NextEntry, faultVars
<1>2. CASE CheckTools
  <2>1. trial \in Entry
    BY <1>2 DEF CheckTools, LoopType
  <2>2. Works \/ ExitsBadly \/ Raises \/ Loses \/ UNCHANGED faultVars
    BY <1>2 DEF CheckTools
  <2>3. metas' \subseteq Entry /\ unsent' \subseteq Entry
    BY <1>2, <2>1 DEF CheckTools, Report, PushRaises
  <2> QED
    BY <2>1, <2>2, <2>3, Ends
<1>3. CASE MakeParent
  <2>1. trial \in Entry
    BY <1>3 DEF MakeParent, LoopType
  <2>2. Works \/ ExitsBadly \/ Raises \/ Loses \/ UNCHANGED faultVars
    BY <1>3 DEF MakeParent
  <2>3. metas' \subseteq Entry /\ unsent' \subseteq Entry
    BY <1>3, <2>1 DEF MakeParent, Report, PushRaises
  <2> QED
    BY <2>1, <2>2, <2>3, Ends
<1>4. CASE CheckWritable
  <2>1. trial \in Entry
    BY <1>4 DEF CheckWritable, LoopType
  <2>2. Works \/ ExitsBadly \/ Raises \/ Loses \/ UNCHANGED faultVars
    BY <1>4 DEF CheckWritable
  <2>3. metas' \subseteq Entry /\ unsent' \subseteq Entry
    BY <1>4, <2>1 DEF CheckWritable, Report, PushRaises
  <2> QED
    BY <2>1, <2>2, <2>3, Ends
<1>5. CASE MakeMeta
  <2>1. trial \in Entry
    BY <1>5 DEF MakeMeta, LoopType
  <2>2. Works \/ ExitsBadly \/ Raises \/ Loses \/ UNCHANGED faultVars
    BY <1>5 DEF MakeMeta
  <2>3. metas' \subseteq Entry /\ unsent' \subseteq Entry
    BY <1>5, <2>1 DEF MakeMeta, Report, PushRaises
  <2> QED
    BY <2>1, <2>2, <2>3, Ends
<1>6. CASE TestExists
  <2>1. trial \in Entry
    BY <1>6 DEF TestExists, LoopType
  <2>2. Works \/ ExitsBadly \/ Raises \/ Loses \/ UNCHANGED faultVars
    BY <1>6 DEF TestExists
  <2>3. metas' \subseteq Entry /\ unsent' \subseteq Entry
    BY <1>6, <2>1 DEF TestExists, Report, PushRaises
  <2> QED
    BY <2>1, <2>2, <2>3, Ends
<1>7. CASE Record
  <2>1. trial \in Entry
    BY <1>7 DEF Record, LoopType
  <2>2. Works \/ ExitsBadly \/ Raises \/ Loses \/ UNCHANGED faultVars
    BY <1>7 DEF Record
  <2>3. metas' \subseteq Entry /\ unsent' \subseteq Entry
    BY <1>7, <2>1 DEF Record, Report, PushRaises
  <2> QED
    BY <2>1, <2>2, <2>3, Ends
<1>8. CASE Put
  <2>1. trial \in Entry
    BY <1>8 DEF Put, LoopType
  <2>2. Works \/ ExitsBadly \/ Raises \/ Loses \/ UNCHANGED faultVars
    BY <1>8 DEF Put
  <2>3. metas' \subseteq Entry /\ unsent' \subseteq Entry
    BY <1>8, <2>1 DEF Put, Report, PushRaises
  <2> QED
    BY <2>1, <2>2, <2>3, Ends
<1>9. CASE Chown
  <2>1. trial \in Entry
    BY <1>9 DEF Chown, LoopType
  <2>2. Works \/ ExitsBadly \/ Raises \/ Loses \/ UNCHANGED faultVars
    BY <1>9 DEF Chown
  <2>3. metas' \subseteq Entry /\ unsent' \subseteq Entry
    BY <1>9, <2>1 DEF Chown, Report, PushRaises
  <2> QED
    BY <2>1, <2>2, <2>3, Ends
<1>10. CASE RestoreDumps
  <2>1. trial \in Entry
    BY <1>10 DEF RestoreDumps, LoopType
  <2>2. Works \/ ExitsBadly \/ Raises \/ Loses \/ UNCHANGED faultVars
    BY <1>10 DEF RestoreDumps
  <2>3. metas' \subseteq Entry /\ unsent' \subseteq Entry
    BY <1>10, <2>1 DEF RestoreDumps, Report, PushRaises
  <2> QED
    BY <2>1, <2>2, <2>3, Ends
<1>11. CASE RemoveMeta
  <2>1. trial \in Entry
    BY <1>11 DEF RemoveMeta, LoopType
  <2>2. Works \/ ExitsBadly \/ Raises \/ Loses \/ UNCHANGED faultVars
    BY <1>11 DEF RemoveMeta
  <2>3. metas' \subseteq Entry /\ unsent' \subseteq Entry
    BY <1>11, <2>1 DEF RemoveMeta, Report, PushRaises
  <2> QED
    BY <2>1, <2>2, <2>3, Ends
<1>12. CASE LoseSession
  BY <1>12, PutAssumption DEF LoseSession, faultVars
<1>13. CASE UNCHANGED vars
  BY <1>13 DEF vars, faultVars
<1> QED
  BY <1>1, <1>2, <1>3, <1>4, <1>5, <1>6, <1>7, <1>8, <1>9, <1>10, <1>11, <1>12, <1>13 DEF Next

\* Every variable keeps its type.
THEOREM TypeCorrect == Spec => []TypeOK
<1>1. Init => TypeOK
  <2> SUFFICES ASSUME Init PROVE TypeOK
    OBVIOUS
  <2>1. LoopType
    BY PutAssumption DEF Init, LoopType, Entry, Labels
  <2>2. CallType
    BY DEF Init, CallType
  <2>3. FileType
    <3>1. PICK there \in SUBSET File :
            file = [f \in File |-> IF f \in there THEN [body |-> "old", owner |-> f] ELSE Absent]
      BY DEF Init
    <3> QED
      BY <3>1 DEF FileType, Absent
  <2>4. SetType
    BY PutAssumption DEF Init, SetType
  <2> QED
    BY <2>1, <2>2, <2>3, <2>4 DEF TypeOK
<1>2. TypeOK /\ [Next]_vars => TypeOK'
  BY LoopTypeStep, CallTypeStep, FileTypeStep, SetTypeStep DEF TypeOK
<1> QED
  BY <1>1, <1>2, PTL DEF Spec

-----------------------------------------------------------------------------
(* Owners                                                                  *)

\* A step keeps what is known of owners, and changes none that is there.
LEMMA OwnerStep ==
  ASSUME TypeOK, OwnerInv, [Next]_vars
  PROVE  /\ OwnerInv'
         /\ \A f \in File : file[f].owner # "none" => file'[f].owner = file[f].owner
<1> USE PutAssumption DEF TypeOK, LoopType, CallType, FileType, OwnerInv, Recording, Target, Entry, Works, ExitsBadly, Raises, Loses, Report, Proceed, PushReturns, PushRaises, faultVars, callVars
<1>1. CASE NextEntry
  BY <1>1 DEF NextEntry
<1>2. CASE CheckTools
  BY <1>2 DEF CheckTools
<1>3. CASE MakeParent
  BY <1>3 DEF MakeParent
<1>4. CASE CheckWritable
  BY <1>4 DEF CheckWritable
<1>5. CASE MakeMeta
  BY <1>5 DEF MakeMeta
<1>6. CASE TestExists
  BY <1>6 DEF TestExists, Target
<1>7. CASE Record
  BY <1>7 DEF Record, Target
<1>8. CASE Put
  <2>1. Target \in File /\ pc' \in {"chown", "removeMeta"} /\ pc = "put" /\ UNCHANGED <<trial, recorded>>
    BY <1>8 DEF Put, AfterPut
  <2>2. file' = file \/ \E b \in {"part", "new"} : file' = [file EXCEPT ![Target] = Written(b)]
    BY <1>8 DEF Put
  <2>3. CASE file' = file
    BY <2>1, <2>3
  <2>4. ASSUME NEW b \in {"part", "new"}, file' = [file EXCEPT ![Target] = Written(b)]
        PROVE  /\ OwnerInv'
               /\ \A f \in File : file[f].owner # "none" => file'[f].owner = file[f].owner
    BY <2>1, <2>4 DEF Written
  <2> QED
    BY <2>2, <2>3, <2>4
<1>9. CASE Chown
  BY <1>9 DEF Chown, Target
<1>10. CASE RestoreDumps
  BY <1>10 DEF RestoreDumps
<1>11. CASE RemoveMeta
  BY <1>11 DEF RemoveMeta
<1>12. CASE LoseSession
  BY <1>12 DEF LoseSession
<1>13. CASE UNCHANGED vars
  BY <1>13 DEF vars
<1> QED
  BY <1>1, <1>2, <1>3, <1>4, <1>5, <1>6, <1>7, <1>8, <1>9, <1>10, <1>11, <1>12, <1>13 DEF Next

\* An owner, once there, stays.
THEOREM OwnersStay == Spec => OwnersKept
<1>1. Init => OwnerInv
  BY PutAssumption DEF Init, OwnerInv, Recording, Absent
<1>2. TypeOK /\ OwnerInv /\ [Next]_vars =>
        OwnerInv' /\ [\A f \in File : file[f].owner # "none" => file'[f].owner = file[f].owner]_vars
  BY OwnerStep
<1> QED
  BY <1>1, <1>2, TypeCorrect, PTL DEF Spec, OwnersKept

-----------------------------------------------------------------------------
(* Failures                                                                *)

\* A step keeps what is known of the files of entries without a failure.
LEMMA ContainedStep == ASSUME TypeOK, ContainedInv, [Next]_vars PROVE ContainedInv'
<1> USE PutAssumption DEF TypeOK, LoopType, FileType, ContainedInv, Passed, Past, Spared, Entry, Works, ExitsBadly, Raises, Loses, Report, Proceed, PushReturns, PushRaises, faultVars, callVars
<1>1. CASE NextEntry
  BY <1>1 DEF NextEntry
<1>2. CASE CheckTools
  BY <1>2 DEF CheckTools
<1>3. CASE MakeParent
  BY <1>3 DEF MakeParent
<1>4. CASE CheckWritable
  BY <1>4 DEF CheckWritable
<1>5. CASE MakeMeta
  BY <1>5 DEF MakeMeta
<1>6. CASE TestExists
  BY <1>6 DEF TestExists, Target
<1>7. CASE Record
  BY <1>7 DEF Record, Target
<1>8. CASE Put
  BY <1>8 DEF Put, Written, AfterPut, Target
<1>9. CASE Chown
  BY <1>9, ChownFile DEF Chown, Target
<1>10. CASE RestoreDumps
  BY <1>10 DEF RestoreDumps
<1>11. CASE RemoveMeta
  BY <1>11 DEF RemoveMeta
<1>12. CASE LoseSession
  BY <1>12 DEF LoseSession
<1>13. CASE UNCHANGED vars
  BY <1>13 DEF vars
<1> QED
  BY <1>1, <1>2, <1>3, <1>4, <1>5, <1>6, <1>7, <1>8, <1>9, <1>10, <1>11, <1>12, <1>13 DEF Next

\* A failure concerns its own path only.
THEOREM FailuresContained == Spec => []Contained
<1>1. Init => ContainedInv
  BY PutAssumption DEF Init, ContainedInv, Passed, Spared, Entry, Absent
<1>2. TypeOK /\ ContainedInv => Contained
  BY PutAssumption DEF TypeOK, LoopType, ContainedInv, Contained, Passed, Past, Entry, Spared
<1> QED
  BY <1>1, <1>2, ContainedStep, TypeCorrect, PTL DEF Spec

\* A step keeps that what has not arrived has been noticed.
LEMMA NoticedStep == ASSUME TypeOK, NoticedInv, [Next]_vars PROVE NoticedInv'
<1> USE PutAssumption DEF TypeOK, LoopType, FileType, NoticedInv, Passed, Past, Noticed, Entry, Works, ExitsBadly, Raises, Loses, Report, Proceed, PushReturns, PushRaises, faultVars, callVars
<1>1. CASE NextEntry
  BY <1>1 DEF NextEntry
<1>2. CASE CheckTools
  BY <1>2 DEF CheckTools
<1>3. CASE MakeParent
  BY <1>3 DEF MakeParent
<1>4. CASE CheckWritable
  BY <1>4 DEF CheckWritable
<1>5. CASE MakeMeta
  BY <1>5 DEF MakeMeta
<1>6. CASE TestExists
  BY <1>6 DEF TestExists, Target
<1>7. CASE Record
  BY <1>7 DEF Record, Target
<1>8. CASE Put
  BY <1>8 DEF Put, Written, AfterPut, Target
<1>9. CASE Chown
  BY <1>9, ChownFile DEF Chown, Target
<1>10. CASE RestoreDumps
  BY <1>10 DEF RestoreDumps
<1>11. CASE RemoveMeta
  BY <1>11 DEF RemoveMeta
<1>12. CASE LoseSession
  BY <1>12 DEF LoseSession
<1>13. CASE UNCHANGED vars
  BY <1>13 DEF vars
<1> QED
  BY <1>1, <1>2, <1>3, <1>4, <1>5, <1>6, <1>7, <1>8, <1>9, <1>10, <1>11, <1>12, <1>13 DEF Next

\* What does not arrive counts as an error of the host, unless its directory was not to be had
\* or its put failed: sftp_put_one() drops nothing else, and returns before the put otherwise
\* for a link only.
THEOREM FailuresAccounted == Spec => []Accounted
<1>1. Init => NoticedInv
  BY PutAssumption DEF Init, NoticedInv, Passed, Entry
<1>2. TypeOK /\ ContainedInv /\ NoticedInv => Accounted
  BY PutAssumption DEF TypeOK, LoopType, ContainedInv, NoticedInv, Accounted, Passed, Past, Entry, Noticed
<1>3. Spec => []ContainedInv
  <2>1. Init => ContainedInv
    BY PutAssumption DEF Init, ContainedInv, Passed, Spared, Entry, Absent
  <2> QED
    BY <2>1, ContainedStep, TypeCorrect, PTL DEF Spec
<1> QED
  BY <1>1, <1>2, <1>3, NoticedStep, TypeCorrect, PTL DEF Spec
-----------------------------------------------------------------------------
(* Temporary directories                                                   *)

\* A step keeps what is known of temporary directories.
LEMMA MetaStep == ASSUME TypeOK, MetaInv, [Next]_vars PROVE MetaInv'
<1> USE PutAssumption DEF TypeOK, LoopType, CallType, SetType, MetaInv, Entry, Works, ExitsBadly, Raises, Loses, Proceed, PushReturns, PushRaises, faultVars, callVars
<1>1. CASE NextEntry
  BY <1>1 DEF NextEntry
<1>2. CASE CheckTools
  BY <1>2 DEF CheckTools
<1>3. CASE MakeParent
  BY <1>3 DEF MakeParent
<1>4. CASE CheckWritable
  BY <1>4 DEF CheckWritable
<1>5. CASE MakeMeta
  <2>1. trial' = trial /\ pc = "meta" /\ ~meta /\ trial \in Entry
    BY <1>5 DEF MakeMeta
  <2>2. CASE meta' = TRUE /\ metas' = metas \cup {trial} /\ pc' = "exists" /\ outcome' = outcome /\ UNCHANGED faultVars
    BY <2>1, <2>2
  <2>3. CASE pc' = "exists" /\ outcome' = outcome /\ UNCHANGED <<meta, metas>> /\ lost' = lost /\ session
    BY <2>1, <2>3
  <2>4. CASE PushRaises /\ metas' \in {metas, metas \cup {trial}} /\ lost \subseteq lost' /\ (session' => session)
    <3>1. outcome'[trial] = "raised" /\ \A e \in Entry \ {trial} : outcome'[e] = outcome[e]
      BY <2>1, <2>4
    <3> QED
      BY <2>1, <2>4, <3>1
  <2>5. CASE Works /\ meta' = TRUE /\ metas' = metas \cup {trial} /\ Proceed("exists")
    BY <2>2, <2>5
  <2>6. CASE ExitsBadly /\ Proceed("exists") /\ UNCHANGED <<meta, metas>>
    BY <2>3, <2>6
  <2>7. CASE Raises /\ PushRaises /\ UNCHANGED <<meta, metas>>
    BY <2>4, <2>7
  <2>8. CASE Loses /\ PushRaises /\ metas' = metas \cup {trial}
    BY <2>4, <2>8
  <2> QED
    BY <1>5, <2>5, <2>6, <2>7, <2>8 DEF MakeMeta
<1>6. CASE TestExists
  BY <1>6 DEF TestExists
<1>7. CASE Record
  BY <1>7 DEF Record
<1>8. CASE Put
  BY <1>8 DEF Put, AfterPut
<1>9. CASE Chown
  BY <1>9 DEF Chown
<1>10. CASE RestoreDumps
  BY <1>10 DEF RestoreDumps
<1>11. CASE RemoveMeta
  <2>1. trial' = trial /\ trial \in Entry /\ pc' = "entry" /\ \A e \in Entry \ {trial} : outcome'[e] = outcome[e]
    BY <1>11 DEF RemoveMeta
  <2>2. lost \subseteq lost' /\ (session' => session) /\ metas' \subseteq metas
    BY <1>11 DEF RemoveMeta
  <2>3. session' /\ meta => trial \notin metas' \/ trial \in lost'
    BY <1>11 DEF RemoveMeta
  <2>4. session' /\ outcome[trial] = "none" => \A e \in metas' : e \in lost' \/ outcome'[e] = "raised"
    BY <2>1, <2>2, <2>3
  <2> QED
    BY <1>11, <2>1, <2>4 DEF RemoveMeta
<1>12. CASE LoseSession
  BY <1>12 DEF LoseSession
<1>13. CASE UNCHANGED vars
  BY <1>13 DEF vars
<1> QED
  BY <1>1, <1>2, <1>3, <1>4, <1>5, <1>6, <1>7, <1>8, <1>9, <1>10, <1>11, <1>12, <1>13 DEF Next

\* With the session up, only a call that raised, or whose mktemp or rm failed, leaves a directory.
THEOREM MetasRemoved == Spec => []MetaRemoved
<1>1. Init => MetaInv
  BY DEF Init, MetaInv
<1>2. TypeOK /\ MetaInv => MetaRemoved
  BY DEF TypeOK, SetType, MetaInv, MetaRemoved
<1> QED
  BY <1>1, <1>2, MetaStep, TypeCorrect, PTL DEF Spec
=============================================================================
