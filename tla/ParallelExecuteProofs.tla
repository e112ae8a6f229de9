----------------------- MODULE ParallelExecuteProofs -----------------------
(***************************************************************************)
(* Theorems about ParallelExecute, for every number of hosts, entries,     *)
(* workers and signals.                                                    *)
(***************************************************************************)
EXTENDS ParallelExecute, TLAPS, SequenceTheorems, FiniteSetTheorems, WellFoundedInduction

Loop == CleanLabels \ {"clean"}
InSummary == Loop \ {"fn"}

\* Where the frames of the main thread can be: a handler that is past SetAbort has set
\* the event; at most one frame runs the clean-ups; only it uses cleanNext.
FrameInv ==
  /\ pc = "register" => registered < CleanRemote
  /\ \A d \in 1..Depth : LabelAt(d) # "set" => abort
  /\ \A d \in 0..Depth : LabelAt(d) \in Loop => cleaned
  /\ \A d, e \in 0..Depth : LabelAt(d) \in Loop /\ LabelAt(e) \in Loop => d = e
  /\ \A d \in 0..Depth : LabelAt(d) \in InSummary => cleanNext = Summary
  /\ ~logUp => cleaned

\* What the main thread knows of the tasks at each of its labels.
ResultInv ==
  /\ cleaned => abort \/ pc \in CleanLabels \cup {"exit"}
  /\ retrying => abort \/ (pc \in Collecting \ {"result"} /\ task[k].at # "ok")
  /\ ending = "raised" => abort /\ pc \in CleanLabels \cup {"unwind", "exit"}
  /\ pc = "unwind" => ending = "raised"
  /\ pc \in {"register"} \cup Submitting =>
       ending = "ok" /\ \A t \in Task : t >= k => task[t].at = "idle"
  /\ pc \in Collecting =>
       \A t \in 1..(k - 1) : Done(t) /\ (ending = "ok" => Clean(t))
  /\ pc \in Collecting \ {"result"} => Done(k)
  /\ pc \in CleanLabels \cup {"exit"} =>
       \A t \in Task : \/ ending = "raised" /\ task[t].at = "idle"
                       \/ Done(t) /\ (ending = "ok" => Clean(t))
  /\ ending = "error" => abort \/ \E t \in Task : Done(t) /\ ~Clean(t)

\* Every entry a worker tried was processed, failed, or is the one it is busy with.
Busy == {"local", "check", "call", "transfer", "after"}
Counted(r, total) ==
  /\ r.at \notin {"cancelled", "crashed"} =>
       r.processed + r.errors = r.trial - (IF r.at \in Busy THEN 1 ELSE 0)
  /\ r.at = "ok" => r.trial = total
CountInv == \A t \in Task : Counted(task[t], Entries[HostOf[t]])

IInv == TypeOK /\ FrameInv /\ ResultInv /\ CountInv

-----------------------------------------------------------------------------
(* Type correctness                                                        *)

\* A label that no handler visits is the base frame's.
LEMMA BaseFrame ==
  ASSUME FrameType, NEW l, l \notin HandlerLabels, At(l)
  PROVE  Depth = 0 /\ pc = l
BY DEF FrameType, At, Label, LabelAt, Depth

\* Moving the running frame to one of the handler's labels keeps the stack typed.
LEMMA GotoType ==
  ASSUME FrameType, NEW l \in HandlerLabels, Goto(l)
  PROVE  handlers' \in Seq(HandlerLabels)
<1>1. CASE Depth = 0
  BY <1>1 DEF FrameType, Goto
<1>2. CASE Depth > 0
  <2>1. handlers' = [handlers EXCEPT ![Depth] = l] BY <1>2 DEF Goto
  <2> QED BY <1>2, <2>1 DEF FrameType, Depth
<1> QED BY <1>1, <1>2 DEF FrameType, Depth

\* So does the end of run_cleanups().
LEMMA ReturnType ==
  ASSUME FrameType, Return
  PROVE  handlers' \in Seq(HandlerLabels)
<1>1. CASE Depth = 0
  BY <1>1 DEF FrameType, Return
<1>2. CASE Depth > 0 /\ At("again")
  BY <1>2 DEF FrameType, Return, Depth
<1>3. CASE Depth > 0 /\ ~At("again")
  BY <1>3, GotoType DEF Return, HandlerLabels
<1> QED BY <1>1, <1>2, <1>3 DEF FrameType, Depth

\* Releasing a lock keeps the owners typed.
LEMMA ReleaseType ==
  ASSUME TypeOK, NEW l \in Sections, Release(l)
  PROVE  owner' \in [Locks -> Int]
BY DEF TypeOK, FrameType, Release, LockOf, Locks, Free

\* Every step of the main thread keeps the base frame's variables typed.
LEMMA MainTypeStep == ASSUME TypeOK, Main PROVE MainType'
<1> USE ExecuteAssumption
     DEF TypeOK, MainType, Inside, Task, Submitting, Collecting, CleanLabels, BaseLabels,
         HandlerLabels
<1>1. CASE RegisterCleanup
  BY <1>1, BaseFrame DEF RegisterCleanup, StopType, CleanRemote
<1>2. CASE StartHost
  BY <1>2, BaseFrame DEF StartHost
<1>3. CASE EmitCheck
  BY <1>3, BaseFrame DEF EmitCheck, Goto
<1>4. CASE LogStart
  BY <1>4, BaseFrame DEF LogStart
<1>5. CASE Submit
  BY <1>5, BaseFrame DEF Submit
<1>6. CASE EmitFails
  BY <1>6, BaseFrame DEF EmitFails
<1>7. CASE TakeResult
  BY <1>7, BaseFrame DEF TakeResult
<1>8. CASE FindRecord
  BY <1>8, BaseFrame DEF FindRecord
<1>9. CASE ReadTrial
  BY <1>9, BaseFrame DEF ReadTrial, AggrType
<1>10. CASE ReadProcessed
  BY <1>10, BaseFrame DEF ReadProcessed, AggrType
<1>11. CASE AddTotals
  BY <1>11, BaseFrame DEF AddTotals
<1>12. CASE LogDone
  <2>1. pc = "doneLog" /\ pc' \in {"clean", "result"} BY <1>12, BaseFrame DEF LogDone
  <2>2. ending' \in {"ok", "error", "raised"} /\ retrying' = FALSE /\ seen' = seen
    BY <1>12 DEF LogDone
  <2>3. (k = NumTasks /\ pc' = "clean" /\ k' = k) \/ (k # NumTasks /\ pc' = "result" /\ k' = k + 1)
    BY <1>12 DEF LogDone
  <2>4. k' \in Nat \ {0} /\ (pc' = "result" => k' \in Task) BY <2>1, <2>3
  <2> QED BY <2>1, <2>2, <2>4
<1>13. CASE Unwind
  BY <1>13, BaseFrame DEF Unwind
<1>14. CASE SetAbort
  BY <1>14 DEF SetAbort, Goto, Return, At, Label, LabelAt, Depth
<1>15. CASE RunCleanups
  BY <1>15 DEF RunCleanups, Goto, Return, At, Label, LabelAt, Depth
<1>16. CASE BeginSummary
  BY <1>16 DEF BeginSummary, Goto, Return, At, Label, LabelAt, Depth
<1>17. CASE CopyTotals
  BY <1>17 DEF CopyTotals, Goto, Return, At, Label, LabelAt, Depth
<1>18. CASE LogSummary
  BY <1>18 DEF LogSummary, Goto, Return, At, Label, LabelAt, Depth
<1>19. CASE ShutdownLogging
  BY <1>19 DEF ShutdownLogging, Goto, Return, At, Label, LabelAt, Depth
<1>20. CASE CleanupsDone
  BY <1>20 DEF CleanupsDone, Goto, Return, At, Label, LabelAt, Depth
<1>21. CASE Acquire \/ CleanupTemps \/ CloseSession
  BY <1>21 DEF Acquire, CleanupTemps, CloseSession, mainVars
<1> QED BY <1>1, <1>2, <1>3, <1>4, <1>5, <1>6, <1>7, <1>8, <1>9, <1>10, <1>11, <1>12, <1>13, <1>14, <1>15, <1>16, <1>17, <1>18, <1>19, <1>20, <1>21 DEF Main

\* So it does the stack, the signals and the owners of the locks.
LEMMA FrameTypeStep == ASSUME TypeOK, Main \/ Signal PROVE FrameType'
<1> USE ExecuteAssumption
     DEF TypeOK, FrameType, HandlerLabels, CleanLabels, Depth, At, Label, LabelAt, Sections,
         StopSections, AggrSections, QueueSections
<1>1. CASE Acquire
  BY <1>1 DEF Acquire, LockOf, Locks
<1>2. CASE RegisterCleanup
  BY <1>2, ReleaseType DEF RegisterCleanup, Inside
<1>3. CASE StartHost
  BY <1>3, ReleaseType DEF StartHost, Inside
<1>4. CASE EmitCheck
  BY <1>4, GotoType, BaseFrame DEF EmitCheck, Goto
<1>5. CASE LogStart
  BY <1>5, ReleaseType DEF LogStart, Inside
<1>6. CASE FindRecord
  BY <1>6, ReleaseType DEF FindRecord, Inside
<1>7. CASE AddTotals
  BY <1>7, ReleaseType DEF AddTotals, Inside
<1>8. CASE LogDone
  BY <1>8, ReleaseType DEF LogDone, Inside
<1>9. CASE SetAbort
  BY <1>9, ReleaseType, GotoType DEF SetAbort, Inside
<1>10. CASE RunCleanups
  BY <1>10, ReleaseType, ReturnType, GotoType DEF RunCleanups, Inside
<1>11. CASE BeginSummary
  BY <1>11, GotoType DEF BeginSummary
<1>12. CASE CopyTotals
  BY <1>12, ReleaseType, GotoType DEF CopyTotals, Inside
<1>13. CASE LogSummary
  BY <1>13, ReleaseType, GotoType DEF LogSummary, Inside
<1>14. CASE ShutdownLogging
  BY <1>14, ReleaseType, GotoType DEF ShutdownLogging, Inside
<1>15. CASE CleanupsDone
  BY <1>15, ReturnType DEF CleanupsDone
<1>16. CASE Signal
  BY <1>16 DEF Signal
<1>17. CASE Submit \/ EmitFails \/ TakeResult \/ ReadTrial \/ ReadProcessed \/ Unwind
          \/ CleanupTemps \/ CloseSession
  <2>1. UNCHANGED <<handlers, signals, owner>>
    BY <1>17
    DEF Submit, EmitFails, TakeResult, ReadTrial, ReadProcessed, Unwind, CleanupTemps,
        CloseSession
  <2> QED BY <2>1
<1> QED BY <1>1, <1>2, <1>3, <1>4, <1>5, <1>6, <1>7, <1>8, <1>9, <1>10, <1>11, <1>12, <1>13, <1>14, <1>15, <1>16, <1>17 DEF Main

\* So it does the clean-up state: only a frame inside run_cleanups() counts it down.
LEMMA StopTypeStep == ASSUME TypeOK, FrameInv, Main \/ Signal PROVE StopType'
<1> USE ExecuteAssumption
     DEF TypeOK, StopType, FrameType, stopVars, Summary, CloseAll, CleanLocal, CleanRemote
<1>1. CASE RegisterCleanup
  <2>1. pc = "register" BY <1>1, BaseFrame DEF RegisterCleanup, Inside, HandlerLabels, CleanLabels
  <2>2. registered < 4 BY <2>1 DEF FrameInv
  <2> QED BY <1>1, <2>2 DEF RegisterCleanup
<1>2. CASE SetAbort
  BY <1>2 DEF SetAbort
<1>3. CASE RunCleanups
  BY <1>3 DEF RunCleanups
<1>4. CASE CleanupTemps
  BY <1>4 DEF CleanupTemps, FnReturns
<1>5. CASE CloseSession
  <2>1. cleanNext = 2 /\ UNCHANGED <<abort, registered, cleaned>> BY <1>5 DEF CloseSession
  <2>2. CASE open = {} /\ FnReturns /\ UNCHANGED open
    <3>1. ran' \in Seq(1..CleanRemote) /\ cleanNext' \in 0..CleanRemote
      BY <2>1, <2>2 DEF FnReturns
    <3> QED BY <2>1, <2>2, <3>1
  <2>3. CASE \E h \in open : open' = open \ {h} /\ UNCHANGED <<ran, cleanNext>>
    BY <2>1, <2>3
  <2> QED BY <1>5, <2>2, <2>3 DEF CloseSession
<1>6. CASE ShutdownLogging
  <2>1. LabelAt(Depth) = "stop" /\ Depth \in 0..Depth
    BY <1>6 DEF ShutdownLogging, Inside, At, Label, Depth
  <2>2. cleanNext = Summary BY <2>1 DEF FrameInv, InSummary, Loop, CleanLabels
  <2> QED BY <1>6, <2>2 DEF ShutdownLogging, FnReturns
<1>7. CASE Acquire \/ StartHost \/ EmitCheck \/ LogStart \/ Submit \/ EmitFails
          \/ TakeResult \/ FindRecord \/ ReadTrial \/ ReadProcessed \/ AddTotals
          \/ LogDone \/ Unwind \/ BeginSummary \/ CopyTotals \/ LogSummary
          \/ CleanupsDone \/ Signal
  <2>1. UNCHANGED stopVars
    BY <1>7
    DEF Acquire, StartHost, EmitCheck, LogStart, Submit, EmitFails, TakeResult,
        FindRecord, ReadTrial, ReadProcessed, AddTotals, LogDone, Unwind, BeginSummary,
        CopyTotals, LogSummary, CleanupsDone, Signal
  <2> QED BY <2>1
<1> QED BY <1>1, <1>2, <1>3, <1>4, <1>5, <1>6, <1>7 DEF Main

\* So it does the aggregator and the logging.
LEMMA AggrTypeStep == ASSUME TypeOK, Main \/ Signal PROVE AggrType'
<1> USE ExecuteAssumption
     DEF TypeOK, AggrType, FrameType, aggrVars
<1>1. CASE StartHost
  BY <1>1, BaseFrame DEF StartHost, MainType, Inside, Zero, Submitting, HandlerLabels, CleanLabels, Task
<1>2. CASE EmitCheck
  BY <1>2 DEF EmitCheck
<1>3. CASE AddTotals
  <2>1. k \in Task
    BY <1>3, BaseFrame
    DEF AddTotals, MainType, Inside, Collecting, HandlerLabels, CleanLabels
  <2>2. ErrorsOf(k) \in Nat BY <2>1 DEF TaskType, TaskRecord, ErrorsOf
  <2>3. (IF retrying THEN 1 ELSE ErrorsOf(k)) \in Nat BY <2>2
  <2>4. PICK e \in Nat : totals' = [ errors    |-> totals.errors + e,
                                    processed |-> totals.processed + seen.processed,
                                    trial     |-> totals.trial + seen.trial ]
    BY <1>3, <2>3 DEF AddTotals
  <2>5. /\ totals.errors + e \in Nat /\ totals.processed + seen.processed \in Nat
        /\ totals.trial + seen.trial \in Nat
    BY <2>4 DEF MainType
  <2>6. totals' \in [errors : Nat, processed : Nat, trial : Nat] BY <2>4, <2>5
  <2> QED BY <1>3, <2>6 DEF AddTotals
<1>4. CASE LogSummary
  BY <1>4 DEF LogSummary
<1>5. CASE ShutdownLogging
  BY <1>5 DEF ShutdownLogging
<1>6. CASE Acquire \/ RegisterCleanup \/ LogStart \/ Submit \/ EmitFails \/ TakeResult
          \/ FindRecord \/ ReadTrial \/ ReadProcessed \/ LogDone \/ Unwind
          \/ SetAbort \/ RunCleanups \/ CleanupTemps \/ CloseSession \/ BeginSummary
          \/ CopyTotals \/ CleanupsDone \/ Signal
  <2>1. UNCHANGED aggrVars
    BY <1>6
    DEF Acquire, RegisterCleanup, LogStart, Submit, EmitFails, TakeResult, FindRecord,
        ReadTrial, ReadProcessed, LogDone, Unwind, SetAbort, RunCleanups, CleanupTemps,
        CloseSession, BeginSummary, CopyTotals, CleanupsDone, Signal
  <2> QED BY <2>1
<1> QED BY <1>1, <1>2, <1>3, <1>4, <1>5, <1>6 DEF Main

\* A task's record with a new label and one new counter.
LEMMA RecordType ==
  ASSUME NEW x \in TaskRecord, NEW l \in TaskLabels, NEW n \in Nat
  PROVE  /\ [x EXCEPT !.at = l] \in TaskRecord
         /\ [x EXCEPT !.at = l, !.trial = n] \in TaskRecord
         /\ [x EXCEPT !.at = l, !.processed = n] \in TaskRecord
         /\ [x EXCEPT !.at = l, !.errors = n] \in TaskRecord
         /\ [x EXCEPT !.at = l, !.late = n] \in TaskRecord
BY DEF TaskRecord

\* A step that changes one task's record keeps it typed.
LEMMA UpdateType ==
  ASSUME TypeOK, NEW t \in Task,
         NEW r \in TaskRecord,
         r.trial <= Entries[HostOf[t]], task' = [task EXCEPT ![t] = r]
  PROVE  TaskType'
BY DEF TypeOK, TaskType

\* The main thread only queues tasks: their records stay typed.
LEMMA TaskTypeMain == ASSUME TypeOK, Main \/ Signal PROVE TaskType'
<1> USE ExecuteAssumption
     DEF TypeOK, TaskType
<1>1. CASE Submit
  <2>1. k \in Task /\ task' = [task EXCEPT ![k].at = "queued"]
    BY <1>1, BaseFrame DEF Submit, MainType, Submitting, HandlerLabels, CleanLabels
  <2> DEFINE r == [task[k] EXCEPT !.at = "queued"]
  <2>2. "queued" \in TaskLabels /\ task[k] \in TaskRecord /\ task' = [task EXCEPT ![k] = r]
    BY <2>1 DEF TaskLabels, Pending
  <2>4. r \in TaskRecord /\ r.trial = task[k].trial BY <2>2, RecordType DEF TaskRecord
  <2>3. r.trial <= Entries[HostOf[k]] BY <2>1, <2>4
  <2> HIDE DEF r
  <2> QED BY <2>1, <2>2, <2>3, <2>4, UpdateType
<1>2. CASE Acquire \/ RegisterCleanup \/ StartHost \/ EmitCheck \/ LogStart
          \/ EmitFails \/ TakeResult \/ FindRecord \/ ReadTrial \/ ReadProcessed
          \/ AddTotals \/ LogDone \/ Unwind \/ SetAbort \/ RunCleanups
          \/ CleanupTemps \/ CloseSession \/ BeginSummary \/ CopyTotals
          \/ LogSummary \/ ShutdownLogging \/ CleanupsDone \/ Signal
  <2>1. UNCHANGED task
    BY <1>2
    DEF Acquire, RegisterCleanup, StartHost, EmitCheck, LogStart, EmitFails,
        TakeResult, FindRecord, ReadTrial, ReadProcessed, AddTotals, LogDone, Unwind,
        SetAbort, RunCleanups, CleanupTemps, CloseSession, BeginSummary, CopyTotals,
        LogSummary, ShutdownLogging, CleanupsDone, Signal
  <2> QED BY <2>1
<1> QED BY <1>1, <1>2 DEF Main

\* A worker that only moves to another label keeps its record typed.
LEMMA MoveType ==
  ASSUME TypeOK, NEW t \in Task, NEW l \in TaskLabels, Move(t, l)
  PROVE  TaskType'
<1> DEFINE r == [task[t] EXCEPT !.at = l]
<1>1. r \in TaskRecord BY RecordType DEF TypeOK, TaskType
<1>2. r.trial <= Entries[HostOf[t]] BY DEF TypeOK, TaskType, TaskRecord
<1>3. task' = [task EXCEPT ![t] = r] BY DEF Move
<1> HIDE DEF r
<1> QED BY <1>1, <1>2, <1>3, UpdateType

\* Most of a worker's steps leave the aggregator alone, all of them the main thread.
LEMMA WorkerQuiet ==
  ASSUME TypeOK, WorkerFrame, UNCHANGED aggrVars
  PROVE  AggrType' /\ UNCHANGED <<mainVars, handlers, signals, owner, stopVars>>
BY DEF TypeOK, AggrType, aggrVars, WorkerFrame

\* Every step of a worker keeps the tasks' records and the aggregator typed.
LEMMA WorkerTypeStep ==
  ASSUME TypeOK, NEW t \in Task, Local(t) \/ Transfer(t)
  PROVE  TaskType' /\ AggrType' /\ UNCHANGED <<mainVars, handlers, signals, owner, stopVars>>
<1> USE DEF TaskLabels, Pending, Finished
<1>0. /\ task[t] \in TaskRecord
      /\ task[t].trial <= Entries[HostOf[t]]
      /\ Entries[HostOf[t]] \in Nat
      /\ AggrType
  BY ExecuteAssumption DEF TypeOK, TaskType, Task
<1>12. /\ task[t].trial + 1 \in Nat /\ task[t].processed + 1 \in Nat
       /\ task[t].errors + 1 \in Nat
       /\ task[t].late + (IF abort THEN 1 ELSE 0) \in Nat
  BY <1>0 DEF TaskRecord
<1>13. ASSUME NEW r \in TaskRecord, r.trial = task[t].trial, task' = [task EXCEPT ![t] = r]
       PROVE  TaskType'
  BY <1>0, <1>13, UpdateType
<1>1. CASE StartTask(t)
  <2>1. TaskType' BY <1>1, MoveType DEF StartTask
  <2> QED BY <1>1, <2>1, WorkerQuiet DEF StartTask
<1>2. CASE MakeDirectory(t)
  <2>1. TaskType' BY <1>2, MoveType DEF MakeDirectory
  <2> QED BY <1>2, <2>1, WorkerQuiet DEF MakeDirectory
<1>3. CASE NextEntry(t)
  <2> DEFINE r == [task[t] EXCEPT !.at = IF Gather THEN "local" ELSE "check", !.trial = @ + 1]
  <2>1. r \in TaskRecord
    BY <1>0, <1>12, RecordType
  <2>2. ASSUME MoreEntries(t), task' = [task EXCEPT ![t] = r] PROVE TaskType'
    <3>1. r.trial <= Entries[HostOf[t]] BY <1>0, <2>2 DEF TaskRecord, MoreEntries
    <3> HIDE DEF r
    <3> QED BY <2>1, <2>2, <3>1, UpdateType
  <2>3. ASSUME Move(t, "ok") \/ Move(t, "cancelled") PROVE TaskType'
    BY <2>3, MoveType
  <2>5. \/ Move(t, "ok") \/ Move(t, "cancelled")
        \/ MoreEntries(t) /\ task' = [task EXCEPT ![t] = r]
    BY <1>3 DEF NextEntry
  <2> HIDE DEF r
  <2>4. TaskType' BY <2>2, <2>3, <2>5
  <2>6. WorkerFrame /\ UNCHANGED aggrVars BY <1>3 DEF NextEntry
  <2> QED BY <2>4, <2>6, WorkerQuiet
<1>4. CASE CheckBefore(t)
  <2>1. TaskType' BY <1>4, MoveType DEF CheckBefore
  <2> QED BY <1>4, <2>1, WorkerQuiet DEF CheckBefore
<1>5. CASE BeginTransfer(t)
  <2> DEFINE r == [task[t] EXCEPT !.at = "transfer", !.late = @ + IF abort THEN 1 ELSE 0]
  <2>1. r \in TaskRecord /\ r.trial = task[t].trial
    BY <1>0, <1>12, RecordType DEF TaskRecord
  <2>2. task' = [task EXCEPT ![t] = r] BY <1>5 DEF BeginTransfer
  <2> HIDE DEF r
  <2>3. TaskType' BY <1>13, <2>1, <2>2
  <2> QED BY <1>5, <2>3, WorkerQuiet DEF BeginTransfer
<1>6. CASE CheckAfter(t)
  <2> DEFINE r == [task[t] EXCEPT !.at = "report", !.processed = @ + 1]
  <2>1. r \in TaskRecord /\ r.trial = task[t].trial
    BY <1>0, <1>12, RecordType DEF TaskRecord
  <2>2. task' = [task EXCEPT ![t] = r] \/ Move(t, "cancelled") BY <1>6 DEF CheckAfter
  <2> HIDE DEF r
  <2>3. TaskType' BY <1>13, <2>1, <2>2, MoveType
  <2> QED BY <1>6, <2>3, WorkerQuiet DEF CheckAfter
<1>7. CASE Report(t)
  <2>1. TaskType' BY <1>7, MoveType DEF Report
  <2>2. AggrType' BY <1>0, <1>7 DEF Report, AggrType, TaskRecord
  <2> QED BY <1>7, <2>1, <2>2 DEF Report, WorkerFrame
<1>8. CASE ReportCheck(t)
  <2>1. TaskType' BY <1>8, MoveType DEF ReportCheck
  <2>2. AggrType' BY <1>0, <1>8 DEF ReportCheck, AggrType
  <2> QED BY <1>8, <2>1, <2>2 DEF ReportCheck, WorkerFrame
<1>9. CASE ReportLog(t)
  <2>1. TaskType' BY <1>9, MoveType DEF ReportLog
  <2> QED BY <1>9, <2>1, WorkerQuiet DEF ReportLog
<1>10. CASE TransferOk(t)
  <2>1. TaskType' BY <1>10, MoveType DEF TransferOk
  <2> QED BY <1>10, <2>1, WorkerQuiet DEF TransferOk
<1>11. CASE TransferFails(t)
  <2> DEFINE r == [task[t] EXCEPT !.at = "report", !.errors = @ + 1]
  <2>1. r \in TaskRecord /\ r.trial = task[t].trial
    BY <1>0, <1>12, RecordType DEF TaskRecord
  <2>2. task' = [task EXCEPT ![t] = r] BY <1>11 DEF TransferFails
  <2> HIDE DEF r
  <2>3. TaskType' BY <1>13, <2>1, <2>2
  <2> QED BY <1>11, <2>3, WorkerQuiet DEF TransferFails
<1> QED BY <1>1, <1>2, <1>3, <1>4, <1>5, <1>6, <1>7, <1>8, <1>9, <1>10, <1>11 DEF Local, Transfer

\* Together: every step keeps the types.
LEMMA TypeStep == ASSUME TypeOK, FrameInv, [Next]_vars PROVE TypeOK'
<1>1. CASE Main
  BY <1>1, MainTypeStep, FrameTypeStep, StopTypeStep, TaskTypeMain, AggrTypeStep DEF TypeOK
<1>2. CASE Signal
  <2>1. MainType' BY <1>2 DEF Signal, TypeOK, MainType, mainVars
  <2> QED BY <1>2, <2>1, FrameTypeStep, StopTypeStep, TaskTypeMain, AggrTypeStep DEF TypeOK
<1>3. ASSUME NEW t \in Task, Local(t) \/ Transfer(t) PROVE TypeOK'
  BY <1>3, WorkerTypeStep
  DEF TypeOK, MainType, FrameType, StopType, mainVars, stopVars
<1>4. CASE UNCHANGED vars
  BY <1>4
  DEF vars, TypeOK, MainType, FrameType, StopType, TaskType, AggrType, mainVars, stopVars, aggrVars
<1> QED BY <1>1, <1>2, <1>3, <1>4 DEF Next

-----------------------------------------------------------------------------
(* The frames of the main thread                                           *)

\* The running frame moves to label l; the frames under it stay where they are.
Moves(l) ==
  /\ Depth' = Depth
  /\ \A d \in 0..Depth : LabelAt(d)' = IF d = Depth THEN l ELSE LabelAt(d)

\* Goto, the clean-up frames and a stutter are moves of the running frame.
LEMMA GotoMoves == ASSUME FrameType, NEW l, Goto(l) PROVE Moves(l)
<1>1. CASE Depth = 0
  BY <1>1 DEF FrameType, Goto, Moves, Depth, LabelAt
<1>2. CASE Depth > 0
  BY <1>2 DEF FrameType, Goto, Moves, Depth, LabelAt
<1> QED BY <1>1, <1>2 DEF FrameType, Depth

\* A base frame that leaves the handlers alone moves to its new label.
LEMMA BaseMoves ==
  ASSUME FrameType, Depth = 0, UNCHANGED handlers
  PROVE  Moves(pc')
BY DEF FrameType, Moves, Depth, LabelAt

\* A step that changes no label is a move to the same one.
LEMMA StayMoves == ASSUME FrameType, UNCHANGED <<pc, handlers>> PROVE Moves(Label)
BY DEF FrameType, Moves, Depth, Label, LabelAt

\* What a step of the running frame has to respect.
LEMMA MovesInv ==
  ASSUME FrameType, FrameInv, NEW l, Moves(l),
         Depth > 0 /\ l # "set" => abort', abort => abort', cleaned => cleaned',
         l \in Loop => cleaned' /\ (Label \in Loop \/ ~cleaned),
         l \in InSummary => cleanNext' = Summary,
         cleanNext' = cleanNext \/ Label \in Loop \/ ~cleaned,
         pc' = "register" => registered' < CleanRemote,
         ~logUp' => cleaned'
  PROVE  FrameInv'
<1> USE DEF FrameInv, Moves
<1>0. Depth \in Nat /\ Label = LabelAt(Depth) BY DEF FrameType, Depth, Label
<1>1. \A d \in (1..Depth)' : LabelAt(d)' # "set" => abort' BY <1>0
<1>2. \A d \in (0..Depth)' : LabelAt(d)' \in Loop => cleaned' BY <1>0
<1>3. ASSUME NEW d \in (0..Depth)', NEW e \in (0..Depth)', LabelAt(d)' \in Loop, LabelAt(e)' \in Loop
      PROVE  d = e
  BY <1>0, <1>3
<1>4. ASSUME NEW d \in (0..Depth)', LabelAt(d)' \in InSummary
      PROVE  cleanNext' = Summary
  <2>1. CASE d = Depth
    BY <1>4, <2>1
  <2>2. CASE d # Depth
    <3>1. d \in 0..Depth /\ LabelAt(d) \in Loop /\ LabelAt(d) \in InSummary
      BY <1>0, <1>4, <2>2 DEF InSummary
    <3>2. cleaned /\ Label \notin Loop BY <1>0, <2>2, <3>1
    <3> QED BY <1>0, <3>1, <3>2
  <2> QED BY <2>1, <2>2
<1> QED BY <1>1, <1>2, <1>3, <1>4

\* A sequence without its last element.
LEMMA FrontOfSeq ==
  ASSUME NEW S, NEW s \in Seq(S), NEW n \in Nat, n + 1 = Len(s)
  PROVE  Len(SubSeq(s, 1, n)) = n /\ \A d \in 1..n : SubSeq(s, 1, n)[d] = s[d]
OBVIOUS

\* The running handler ends.
LEMMA PopInv ==
  ASSUME FrameType, FrameInv, Depth > 0, handlers' = SubSeq(handlers, 1, Depth - 1),
         UNCHANGED <<pc, abort, registered, cleaned, cleanNext, logUp>>
  PROVE  FrameInv'
<1>1. handlers \in Seq(HandlerLabels) /\ Len(handlers) \in Nat \ {0}
  BY DEF FrameType, Depth
<1> DEFINE n == Len(handlers) - 1
           q == SubSeq(handlers, 1, n)
<1>0. n \in Nat /\ n + 1 = Len(handlers) BY <1>1
<1>2. handlers' = q /\ Len(q) = n /\ \A d \in 1..n : q[d] = handlers[d]
  <2>1. handlers' = q BY DEF Depth
  <2> HIDE DEF n
  <2>2. Len(q) = n /\ \A d \in 1..n : q[d] = handlers[d] BY <1>0, <1>1, FrontOfSeq
  <2> QED BY <2>1, <2>2
<1> HIDE DEF n, q
<1>3. Depth' = Depth - 1 /\ \A d \in 0..(Depth - 1) : LabelAt(d)' = LabelAt(d)
  BY <1>0, <1>1, <1>2 DEF Depth, LabelAt
<1>4. Depth \in Nat BY <1>1 DEF Depth
<1> QED BY <1>3, <1>4 DEF FrameInv

\* A signal pushes a handler that has not yet set the event.
LEMMA PushInv ==
  ASSUME FrameType, FrameInv, handlers' = Append(handlers, "set"),
         UNCHANGED <<pc, abort, registered, cleaned, cleanNext, logUp>>
  PROVE  FrameInv'
<1>1. /\ Depth' = Depth + 1 /\ Depth \in Nat
      /\ \A d \in 0..Depth : LabelAt(d)' = LabelAt(d)
      /\ \A d \in 1..(Depth + 1) : d > Depth => LabelAt(d)' = "set"
  <2>1. handlers \in Seq(HandlerLabels) /\ Len(handlers) \in Nat /\ "set" \in HandlerLabels
    BY DEF FrameType, HandlerLabels
  <2>2. /\ Len(handlers') = Len(handlers) + 1
        /\ \A d \in 1..Len(handlers) : handlers'[d] = handlers[d]
        /\ handlers'[Len(handlers) + 1] = "set"
    BY <2>1, AppendProperties
  <2> QED BY <2>1, <2>2 DEF Depth, LabelAt
<1>2. "set" \notin Loop BY DEF Loop, CleanLabels
<1>3. \A d \in (1..Depth)' : LabelAt(d)' # "set" => abort' BY <1>1 DEF FrameInv
<1>4. \A d \in (0..Depth)' : LabelAt(d)' \in Loop => d \in 0..Depth /\ LabelAt(d) \in Loop
  BY <1>1, <1>2
<1>5. \A d \in (0..Depth)' : LabelAt(d)' \in InSummary => d \in 0..Depth /\ LabelAt(d) \in InSummary
  BY <1>1, <1>2 DEF InSummary
<1> QED BY <1>3, <1>4, <1>5 DEF FrameInv

\* Every step keeps what is known of the handlers' frames and the locks.
LEMMA FrameStep == ASSUME TypeOK, FrameInv, [Next]_vars PROVE FrameInv'
<1> USE DEF TypeOK, mainVars, stopVars, aggrVars
<1>0. FrameType /\ Depth \in Nat /\ Label = LabelAt(Depth) /\ Depth \in 0..Depth
  BY DEF FrameType, Depth, Label
<1>00. (Depth > 0 /\ Label # "set" => abort) /\ (Label \in Loop => cleaned)
       /\ (Label \in InSummary => cleanNext = Summary)
  BY <1>0 DEF FrameInv
<1>1. CASE RegisterCleanup \/ StartHost \/ LogStart \/ Submit \/ EmitFails \/ TakeResult
         \/ FindRecord \/ ReadTrial \/ ReadProcessed \/ AddTotals \/ LogDone \/ Unwind
  <2>1. Depth = 0 /\ UNCHANGED <<handlers, abort, cleaned, cleanNext, logUp>>
    BY <1>0, <1>1, BaseFrame
    DEF RegisterCleanup, StartHost, LogStart, Submit, EmitFails, TakeResult, FindRecord,
        ReadTrial, ReadProcessed, AddTotals, LogDone, Unwind, Inside,
        HandlerLabels, CleanLabels
  <2>2. pc' \notin Loop /\ (pc' = "register" => registered' < CleanRemote)
    BY <1>1
    DEF RegisterCleanup, StartHost, LogStart, Submit, EmitFails, TakeResult, FindRecord,
        ReadTrial, ReadProcessed, AddTotals, LogDone, Unwind,
        FrameInv, Loop, CleanLabels, StopType, CleanRemote
  <2> QED BY <1>0, <2>1, <2>2, BaseMoves, MovesInv DEF InSummary, FrameInv
<1>2. CASE Acquire \/ CleanupTemps \/ CloseSession
  <2>1. Moves(Label) /\ UNCHANGED <<pc, abort, cleaned, registered, logUp>>
    BY <1>0, <1>2, StayMoves DEF Acquire, CleanupTemps, CloseSession
  <2>2. cleanNext' = cleanNext \/ Label = "fn"
    BY <1>2 DEF Acquire, CleanupTemps, CloseSession, At
  <2> QED BY <1>0, <1>00, <2>1, <2>2, MovesInv DEF FrameInv, Loop, InSummary, CleanLabels
<1>3. CASE SetAbort
  <2>1. Goto("clean") /\ Moves("clean") BY <1>0, <1>3, GotoMoves DEF SetAbort
  <2> QED BY <1>0, <1>00, <1>3, <2>1, MovesInv
      DEF SetAbort, FnReturns, FrameInv, Loop, InSummary, CleanLabels, At, Inside, Goto
<1>4. CASE BeginSummary
  <2>1. Goto("sum") /\ Moves("sum") BY <1>0, <1>4, GotoMoves DEF BeginSummary
  <2> QED BY <1>0, <1>00, <1>4, <2>1, MovesInv
      DEF BeginSummary, FnReturns, FrameInv, Loop, InSummary, CleanLabels, At, Inside, Goto
<1>5. CASE CopyTotals
  <2>1. Goto("sumCheck") /\ Moves("sumCheck") BY <1>0, <1>5, GotoMoves DEF CopyTotals
  <2> QED BY <1>0, <1>00, <1>5, <2>1, MovesInv
      DEF CopyTotals, FnReturns, FrameInv, Loop, InSummary, CleanLabels, At, Inside, Goto
<1>6. CASE LogSummary
  <2>1. Goto("stop") /\ Moves("stop") BY <1>0, <1>6, GotoMoves DEF LogSummary
  <2> QED BY <1>0, <1>00, <1>6, <2>1, MovesInv
      DEF LogSummary, FnReturns, FrameInv, Loop, InSummary, CleanLabels, At, Inside, Goto
<1>7. CASE ShutdownLogging
  <2>1. Goto("fn") /\ Moves("fn") BY <1>0, <1>7, GotoMoves DEF ShutdownLogging
  <2> QED BY <1>0, <1>00, <1>7, <2>1, MovesInv
      DEF ShutdownLogging, FnReturns, FrameInv, Loop, InSummary, CleanLabels, At, Inside, Goto
<1>8. CASE EmitCheck
  <2>1. logUp' = TRUE /\ UNCHANGED <<abort, cleaned, cleanNext, registered>> BY <1>8 DEF EmitCheck
  <2>2. CASE At("sumCheck") /\ Goto("sumLog")
    <3>1. Moves("sumLog") BY <1>0, <2>2, GotoMoves
    <3> QED BY <1>0, <1>00, <2>1, <2>2, <3>1, MovesInv
        DEF FrameInv, Loop, InSummary, CleanLabels, At, Goto
  <2>3. CASE \E l \in {"start", "done"} : pc' # "register" /\ pc' \notin Loop /\ Depth = 0 /\ UNCHANGED handlers
    BY <1>0, <1>00, <2>1, <2>3, BaseMoves, MovesInv DEF InSummary, FrameInv
  <2>4. CASE (At("startCheck") /\ Goto("startLog")) \/ (At("doneCheck") /\ Goto("doneLog"))
    <3>1. Depth = 0 BY <1>0, <2>4, BaseFrame DEF HandlerLabels, CleanLabels
    <3> QED BY <2>3, <2>4, <3>1 DEF Goto, Loop, CleanLabels
  <2> QED BY <1>8, <2>2, <2>4 DEF EmitCheck
<1>9. ASSUME Return, UNCHANGED <<abort, registered, cleaned, cleanNext, logUp>>, Label # "set"
      PROVE  FrameInv'
  <2>1. CASE Depth = 0
    <3>1. Moves(pc') /\ pc' = "exit" BY <1>0, <1>9, <2>1, BaseMoves DEF Return
    <3> QED BY <1>0, <1>00, <1>9, <2>1, <3>1, MovesInv DEF InSummary, Loop, CleanLabels, FrameInv
  <2>2. CASE Depth > 0 /\ At("again")
    BY <1>0, <1>9, <2>2, PopInv DEF Return
  <2>3. CASE Depth > 0 /\ ~At("again")
    <3>1. Goto("again") /\ Moves("again") BY <1>0, <1>9, <2>3, GotoMoves DEF Return
    <3> QED BY <1>0, <1>00, <1>9, <2>3, <3>1, MovesInv
        DEF InSummary, Loop, CleanLabels, FrameInv, Goto
  <2> QED BY <1>0, <2>1, <2>2, <2>3
<1>10. CASE RunCleanups
  <2>1. Label # "set" /\ UNCHANGED <<abort, registered, logUp>>
    BY <1>10 DEF RunCleanups, Inside, At
  <2>2. CASE cleaned
    BY <1>9, <1>10, <2>1, <2>2 DEF RunCleanups
  <2>3. CASE ~cleaned
    <3>1. cleaned' /\ Goto("fn") /\ Moves("fn") BY <1>0, <1>10, <2>3, GotoMoves DEF RunCleanups
    <3> QED BY <1>0, <1>00, <2>1, <2>3, <3>1, MovesInv
        DEF InSummary, Loop, CleanLabels, FrameInv, Goto
  <2> QED BY <2>2, <2>3
<1>11. CASE CleanupsDone
  BY <1>9, <1>11 DEF CleanupsDone, At
<1>12. CASE Signal
  BY <1>0, <1>12, PushInv DEF Signal
<1>13. ASSUME NEW t \in Task, Local(t) \/ Transfer(t) PROVE FrameInv'
  <2>1. UNCHANGED <<pc, handlers, abort, registered, cleaned, cleanNext>> /\ (~logUp' => ~logUp)
    BY <1>13
    DEF Local, Transfer, StartTask, MakeDirectory, NextEntry, CheckBefore, BeginTransfer,
        CheckAfter, Report, ReportCheck, ReportLog, TransferOk, TransferFails, WorkerFrame
  <2> QED BY <2>1 DEF FrameInv, LabelAt, Depth
<1>14. CASE UNCHANGED vars
  BY <1>14 DEF vars, FrameInv, LabelAt, Depth
<1> QED BY <1>1, <1>2, <1>3, <1>4, <1>5, <1>6, <1>7, <1>8, <1>10, <1>11, <1>12, <1>13, <1>14
    DEF Next, Main

-----------------------------------------------------------------------------
(* The workers' counters and the results                                   *)

\* A worker's step changes its own record only, never a finished or an unsubmitted one,
\* and keeps the counters consistent.
LEMMA WorkerStep ==
  ASSUME TypeOK, CountInv, NEW t \in Task, Local(t) \/ Transfer(t)
  PROVE  /\ task[t].at \notin Finished \cup {"idle"}
         /\ \A u \in Task \ {t} : task'[u] = task[u]
         /\ Counted(task'[t], Entries[HostOf[t]])
<1> USE DEF Counted, Busy, Finished
<1>0. /\ task[t] \in TaskRecord /\ task \in [Task -> TaskRecord]
      /\ Counted(task[t], Entries[HostOf[t]])
  BY DEF TypeOK, TaskType, CountInv
<1>1. CASE StartTask(t)
  BY <1>0, <1>1 DEF StartTask, Move, TaskRecord
<1>2. CASE MakeDirectory(t)
  BY <1>0, <1>2 DEF MakeDirectory, Move, TaskRecord
<1>3. CASE NextEntry(t)
  <2>1. CASE ~MoreEntries(t) /\ Move(t, "ok")
    <3>1. task[t].at = "top" BY <1>3 DEF NextEntry
    <3>2. task[t].trial = Entries[HostOf[t]]
      BY <1>0, <2>1, ExecuteAssumption DEF TypeOK, TaskType, TaskRecord, MoreEntries, Task
    <3> QED BY <1>0, <2>1, <3>1, <3>2 DEF Move, TaskRecord
  <2>2. CASE Move(t, "cancelled")
    BY <1>0, <1>3, <2>2 DEF NextEntry, Move, TaskRecord
  <2>3. CASE /\ ~Cancels
             /\ task' = [task EXCEPT ![t] =
                           [task[t] EXCEPT !.at = IF Gather THEN "local" ELSE "check",
                                           !.trial = @ + 1]]
    <3>1. /\ task'[t].at \in {"local", "check"} /\ task'[t].trial = task[t].trial + 1
          /\ task'[t].processed = task[t].processed /\ task'[t].errors = task[t].errors
      BY <1>0, <2>3 DEF TaskRecord
    <3>0. task[t].at = "top" BY <1>3 DEF NextEntry
    <3>2. task[t].processed + task[t].errors = task[t].trial BY <1>0, <3>0 DEF TaskRecord
    <3>3. Counted(task'[t], Entries[HostOf[t]]) BY <1>0, <3>1, <3>2 DEF TaskRecord
    <3>4. \A u \in Task \ {t} : task'[u] = task[u] BY <1>0, <2>3
    <3> QED BY <1>3, <3>3, <3>4 DEF NextEntry
  <2>4. \/ ~MoreEntries(t) /\ Move(t, "ok")
        \/ Move(t, "cancelled")
        \/ /\ ~Cancels
           /\ task' = [task EXCEPT ![t] =
                         [task[t] EXCEPT !.at = IF Gather THEN "local" ELSE "check",
                                         !.trial = @ + 1]]
    BY <1>3 DEF NextEntry
  <2> QED BY <2>1, <2>2, <2>3, <2>4
<1>4. CASE CheckBefore(t)
  BY <1>0, <1>4 DEF CheckBefore, Move, TaskRecord
<1>5. CASE BeginTransfer(t)
  BY <1>0, <1>5 DEF BeginTransfer, Move, TaskRecord
<1>6. CASE CheckAfter(t)
  <2>1. CASE Move(t, "cancelled")
    BY <1>0, <1>6, <2>1 DEF CheckAfter, Move, TaskRecord
  <2>2. CASE task' = [task EXCEPT ![t] = [task[t] EXCEPT !.at = "report", !.processed = @ + 1]]
    <3>1. /\ task'[t].at = "report" /\ task'[t].trial = task[t].trial
          /\ task'[t].processed = task[t].processed + 1 /\ task'[t].errors = task[t].errors
      BY <1>0, <2>2 DEF TaskRecord
    <3>2. task[t].processed + task[t].errors = task[t].trial - 1 BY <1>0, <1>6 DEF CheckAfter
    <3>3. Counted(task'[t], Entries[HostOf[t]]) BY <1>0, <3>1, <3>2 DEF TaskRecord
    <3> QED BY <1>0, <1>6, <2>2, <3>3 DEF CheckAfter
  <2> QED BY <1>6, <2>1, <2>2 DEF CheckAfter
<1>7. CASE Report(t)
  BY <1>0, <1>7 DEF Report, Move, TaskRecord
<1>8. CASE ReportCheck(t)
  BY <1>0, <1>8 DEF ReportCheck, Move, TaskRecord
<1>9. CASE ReportLog(t)
  BY <1>0, <1>9 DEF ReportLog, Move, TaskRecord
<1>10. CASE TransferOk(t)
  BY <1>0, <1>10 DEF TransferOk, Move, TaskRecord
<1>11. CASE TransferFails(t)
  BY <1>0, <1>11 DEF TransferFails, Move, TaskRecord
<1> QED BY <1>1, <1>2, <1>3, <1>4, <1>5, <1>6, <1>7, <1>8, <1>9, <1>10, <1>11 DEF Local, Transfer

\* Submitting a task only queues it.
LEMMA SubmitStep ==
  ASSUME TypeOK, ResultInv, Submit
  PROVE  /\ k \in Task /\ task[k].at = "idle"
         /\ task' = [task EXCEPT ![k] = [task[k] EXCEPT !.at = "queued"]]
<1>1. pc = "submit" BY BaseFrame DEF TypeOK, Submit, HandlerLabels, CleanLabels
<1>2. k \in Task BY <1>1 DEF TypeOK, MainType, Submitting
<1>3. task[k].at = "idle" BY <1>1, <1>2 DEF ResultInv, Submitting, Task
<1> QED BY <1>2, <1>3 DEF Submit

\* Every step keeps a task's counters consistent with its label.
LEMMA CountStep == ASSUME TypeOK, ResultInv, CountInv, [Next]_vars PROVE CountInv'
<1>1. CASE Submit
  <2>1. /\ task[k].at = "idle" /\ task \in [Task -> TaskRecord] /\ k \in Task
        /\ task' = [task EXCEPT ![k] = [task[k] EXCEPT !.at = "queued"]]
    BY <1>1, SubmitStep DEF TypeOK, TaskType
  <2>2. ASSUME NEW t \in Task PROVE Counted(task'[t], Entries[HostOf[t]])
    <3>1. CASE t # k BY <2>1, <3>1 DEF CountInv
    <3>2. CASE t = k BY <2>1, <3>2 DEF CountInv, Counted, Busy, TaskRecord
    <3> QED BY <3>1, <3>2
  <2> QED BY <2>2 DEF CountInv
<1>2. CASE (Main /\ ~Submit) \/ Signal \/ UNCHANGED vars
  <2>1. UNCHANGED task
    BY <1>2
    DEF Main, vars, Acquire, RegisterCleanup, StartHost, EmitCheck, LogStart, EmitFails,
        TakeResult, FindRecord, ReadTrial, ReadProcessed, AddTotals, LogDone, Unwind, SetAbort,
        RunCleanups, CleanupTemps, CloseSession, BeginSummary, CopyTotals, LogSummary,
        ShutdownLogging, CleanupsDone, Signal
  <2> QED BY <2>1 DEF CountInv
<1>3. ASSUME NEW t \in Task, Local(t) \/ Transfer(t) PROVE CountInv'
  BY <1>3, WorkerStep DEF CountInv
<1> QED BY <1>1, <1>2, <1>3 DEF Next

\* Steps that leave execute()'s own state alone, or only move it through the clean-ups.
LEMMA QuietStep ==
  ASSUME TypeOK, ResultInv, UNCHANGED <<k, retrying, ending>>,
         pc' = pc \/ (pc \in CleanLabels /\ pc' \in CleanLabels \cup {"exit"}),
         abort => abort', cleaned' => cleaned \/ abort' \/ pc \in CleanLabels,
         \A t \in Task : Done(t) \/ task[t].at = "idle" => task'[t] = task[t]
  PROVE  ResultInv'
<1>1. \A t \in Task : Done(t) => Done(t)' /\ Clean(t)' = Clean(t) BY DEF Done, Clean
<1>2. CleanLabels \cap ({"register", "unwind", "exit"} \cup Submitting \cup Collecting) = {}
      /\ "exit" \notin {"register", "unwind"} \cup Submitting \cup Collecting
  BY DEF CleanLabels, Submitting, Collecting
<1> USE DEF ResultInv
<1>3. cleaned' => abort' \/ pc' \in CleanLabels \cup {"exit"} BY <1>2
<1>4. pc' \in Collecting =>
         \A t \in 1..(k' - 1) : Done(t)' /\ (ending' = "ok" => Clean(t)')
  <2>1. SUFFICES ASSUME pc' \in Collecting
                 PROVE  \A t \in 1..(k - 1) : Done(t)' /\ (ending' = "ok" => Clean(t)')
    OBVIOUS
  <2>2. pc \in Collecting /\ k \in Task /\ NumTasks \in Nat
    BY <1>2, <2>1, ExecuteAssumption DEF TypeOK, MainType
  <2>3. \A t \in 1..(k - 1) : t \in Task BY <2>2 DEF Task
  <2> QED BY <1>1, <2>2, <2>3
<1>5. pc' \in Collecting \ {"result"} => (k' = k /\ Done(k)')
  BY <1>1, <1>2 DEF TypeOK, MainType
<1>6. pc' \in CleanLabels \cup {"exit"} =>
         \A t \in Task : \/ ending' = "raised" /\ task'[t].at = "idle"
                         \/ Done(t)' /\ (ending' = "ok" => Clean(t)')
  BY <1>1
<1>7. ending' = "error" => abort' \/ \E t \in Task : Done(t)' /\ ~Clean(t)' BY <1>1
<1>8. pc' \in {"register"} \cup Submitting =>
         ending' = "ok" /\ \A t \in Task : t >= k' => task'[t].at = "idle"
  BY <1>2
<1>9. retrying' => abort' \/ (pc' \in Collecting \ {"result"} /\ task'[k'].at # "ok")
  <2>1. SUFFICES ASSUME retrying, ~abort
                 PROVE  pc' \in Collecting \ {"result"} /\ task'[k].at # "ok"
    OBVIOUS
  <2>2. pc \in Collecting \ {"result"} /\ task[k].at # "ok" /\ Done(k) BY <2>1
  <2>3. pc' = pc /\ k \in Task BY <1>2, <2>2 DEF TypeOK, MainType
  <2> QED BY <2>2, <2>3
<1> QED BY <1>2, <1>3, <1>4, <1>5, <1>6, <1>7, <1>8, <1>9

\* Every step keeps what execute() has concluded from the futures it collected.
LEMMA ResultStep == ASSUME TypeOK, FrameInv, ResultInv, CountInv, [Next]_vars PROVE ResultInv'
<1> USE DEF mainVars, stopVars
<1>0. FrameType /\ Depth \in Nat /\ Label = LabelAt(Depth) /\ pc \in BaseLabels
  BY DEF TypeOK, FrameType, MainType, Depth, Label
<1>1. ASSUME NEW l, Goto(l) PROVE pc' = pc \/ (Depth = 0 /\ pc' = l)
  BY <1>1 DEF Goto
<1>2. ASSUME Return PROVE pc' = pc \/ (Depth = 0 /\ pc' = "exit")
  BY <1>1, <1>2 DEF Return
<1>3. ASSUME NEW l \in CleanLabels \cup {"set", "again"}, At(l), Depth = 0 PROVE pc \in CleanLabels
  BY <1>0, <1>3
  DEF At, Label, LabelAt, CleanLabels, BaseLabels, Submitting, Collecting
<1>4. CASE RunCleanups
  <2>1. UNCHANGED <<k, retrying, ending, task, abort>> BY <1>4 DEF RunCleanups
  <2>2. PICK l \in {"clean", "again"} : At(l) BY <1>4 DEF RunCleanups, Inside
  <2>3. Depth > 0 => abort
    <3>1. LabelAt(Depth) # "set" BY <1>0, <2>2 DEF At
    <3> HIDE DEF Depth
    <3>2. Depth > 0 => Depth \in 1..Depth BY <1>0
    <3> QED BY <3>1, <3>2 DEF FrameInv
  <2>4. Depth = 0 => pc \in CleanLabels BY <1>3, <2>2 DEF CleanLabels
  <2>5. Return \/ Goto("fn") BY <1>4 DEF RunCleanups
  <2>6. pc' = pc \/ (pc \in CleanLabels /\ pc' \in CleanLabels \cup {"exit"})
    BY <1>1, <1>2, <2>4, <2>5 DEF CleanLabels
  <2> QED BY <1>0, <2>1, <2>3, <2>4, <2>6, QuietStep
<1>5. CASE SetAbort \/ BeginSummary \/ CopyTotals \/ LogSummary \/ ShutdownLogging \/ CleanupsDone
  <2>1. UNCHANGED <<k, retrying, ending, task, cleaned>> /\ (abort => abort')
    BY <1>5
    DEF SetAbort, BeginSummary, CopyTotals, LogSummary, ShutdownLogging, CleanupsDone
  <2>2. \E l \in CleanLabels \cup {"set", "again"} : At(l)
    BY <1>5
    DEF SetAbort, BeginSummary, CopyTotals, LogSummary, ShutdownLogging, CleanupsDone, Inside,
        CleanLabels
  <2>3. Return \/ \E l \in CleanLabels : Goto(l)
    BY <1>5
    DEF SetAbort, BeginSummary, CopyTotals, LogSummary, ShutdownLogging, CleanupsDone, CleanLabels
  <2>4. pc' = pc \/ (pc \in CleanLabels /\ pc' \in CleanLabels \cup {"exit"})
    BY <1>1, <1>2, <1>3, <2>2, <2>3
  <2> QED BY <2>1, <2>4, QuietStep
<1>6. CASE Acquire \/ CleanupTemps \/ CloseSession \/ Signal \/ UNCHANGED vars
  <2>1. UNCHANGED <<pc, k, retrying, ending, task, abort, cleaned>>
    BY <1>6 DEF Acquire, CleanupTemps, CloseSession, Signal, vars
  <2> QED BY <2>1, QuietStep
<1>7. ASSUME NEW t \in Task, Local(t) \/ Transfer(t) PROVE ResultInv'
  <2>1. UNCHANGED <<pc, k, retrying, ending, abort, cleaned>>
    BY <1>7
    DEF Local, Transfer, StartTask, MakeDirectory, NextEntry, CheckBefore, BeginTransfer,
        CheckAfter, Report, ReportCheck, ReportLog, TransferOk, TransferFails, WorkerFrame
  <2>2. \A u \in Task : Done(u) \/ task[u].at = "idle" => task'[u] = task[u]
    BY <1>7, WorkerStep DEF Done
  <2> QED BY <2>1, <2>2, QuietStep
<1> USE DEF ResultInv, Inside, HandlerLabels, CleanLabels, Submitting, Collecting
<1>8. CASE EmitCheck
  <2>1. UNCHANGED <<k, retrying, ending, task, abort, cleaned>> BY <1>8 DEF EmitCheck
  <2>2. CASE At("sumCheck") /\ Goto("sumLog")
    <3>1. pc' = pc \/ (pc \in CleanLabels /\ pc' \in CleanLabels \cup {"exit"})
      BY <1>1, <1>3, <2>2
    <3> QED BY <2>1, <3>1, QuietStep
  <2>3. CASE (At("startCheck") /\ Goto("startLog")) \/ (At("doneCheck") /\ Goto("doneLog"))
    <3>1. (pc = "startCheck" /\ pc' = "startLog") \/ (pc = "doneCheck" /\ pc' = "doneLog")
      BY <1>0, <2>3, BaseFrame DEF Goto
    <3> QED BY <2>1, <3>1 DEF Done, Clean
  <2> QED BY <1>8, <2>2, <2>3 DEF EmitCheck
<1>9. CASE RegisterCleanup
  <2>1. pc = "register" BY <1>0, <1>9, BaseFrame DEF RegisterCleanup
  <2> QED BY <1>9, <2>1, ExecuteAssumption DEF RegisterCleanup, Done, Clean, TypeOK, MainType, Task
<1>10. CASE StartHost
  <2>1. pc = "start" BY <1>0, <1>10, BaseFrame DEF StartHost
  <2> QED BY <1>10, <2>1, ExecuteAssumption DEF StartHost, Done, Clean
<1>11. CASE LogStart
  <2>1. pc = "startLog" BY <1>0, <1>11, BaseFrame DEF LogStart
  <2> QED BY <1>11, <2>1, ExecuteAssumption DEF LogStart, Done, Clean
<1>12. CASE TakeResult
  <2>1. pc = "result" BY <1>0, <1>12, BaseFrame DEF TakeResult
  <2> QED BY <1>12, <2>1, ExecuteAssumption DEF TakeResult, Done, Clean
<1>13. CASE FindRecord
  <2>1. pc = "read" BY <1>0, <1>13, BaseFrame DEF FindRecord
  <2> QED BY <1>13, <2>1, ExecuteAssumption DEF FindRecord, Done, Clean
<1>14. CASE ReadTrial
  <2>1. pc = "readTrial" BY <1>0, <1>14, BaseFrame DEF ReadTrial
  <2> QED BY <1>14, <2>1, ExecuteAssumption DEF ReadTrial, Done, Clean
<1>15. CASE ReadProcessed
  <2>1. pc = "readProcessed" BY <1>0, <1>15, BaseFrame DEF ReadProcessed
  <2> QED BY <1>15, <2>1, ExecuteAssumption DEF ReadProcessed, Done, Clean
<1>16. CASE AddTotals
  <2>1. pc = "add" BY <1>0, <1>16, BaseFrame DEF AddTotals
  <2> QED BY <1>16, <2>1, ExecuteAssumption DEF AddTotals, Done, Clean
<1>17. CASE Submit
  <2>1. pc = "submit" BY <1>0, <1>17, BaseFrame DEF Submit
  <2>2. k \in Task /\ task' = [task EXCEPT ![k] = [task[k] EXCEPT !.at = "queued"]]
    BY <1>17, SubmitStep
  <2>3. \A t \in Task : t > k => task'[t].at = "idle" BY <2>1, <2>2 DEF Task
  <2>4. UNCHANGED <<abort, cleaned, retrying, ending>> /\ ending = "ok"
    BY <1>17, <2>1 DEF Submit
  <2>5. (pc' = "start" /\ k' = k + 1) \/ (pc' = "result" /\ k' = 1) BY <1>17 DEF Submit
  <2> QED BY <2>1, <2>2, <2>3, <2>4, <2>5 DEF Task
<1>18. CASE EmitFails
  <2>1. cleaned BY <1>18 DEF EmitFails, FrameInv
  <2>2. pc \in {"startLog", "doneLog"} BY <1>0, <1>18, BaseFrame DEF EmitFails
  <2>3. abort BY <2>1, <2>2
  <2> QED BY <1>18, <2>2, <2>3, BaseFrame, <1>0 DEF EmitFails, Done, Clean
<1>19. CASE Unwind
  <2>1. pc = "unwind" /\ pc' = "clean" BY <1>0, <1>19, BaseFrame DEF Unwind
  <2>2. ending = "raised" /\ \A t \in Task : Done(t) \/ task[t].at = "idle"
    BY <1>19, <2>1 DEF Unwind
  <2> QED BY <1>19, <2>1, <2>2 DEF Unwind, Done, Clean
<1>20. CASE LogDone
  <2>1. pc = "doneLog" BY <1>0, <1>20, BaseFrame DEF LogDone
  <2>2. k \in Task /\ Done(k) /\ NumTasks \in Nat /\ ending # "raised"
    BY <2>1, ExecuteAssumption DEF TypeOK, MainType
  <2>3. UNCHANGED <<task, abort, cleaned>> /\ retrying' = FALSE
        /\ (ending' = "ok" => ending = "ok" /\ Clean(k))
        /\ (ending' = "error" => retrying \/ ~Clean(k) \/ ending = "error") /\ ending' # "raised"
    BY <1>20, <2>2 DEF LogDone
  <2>4. \A t \in 1..k : Done(t) /\ (ending' = "ok" => Clean(t))
    BY <2>1, <2>2, <2>3 DEF Task
  <2>5. ending' = "error" => abort' \/ \E t \in Task : Done(t)' /\ ~Clean(t)'
    BY <2>2, <2>3 DEF Done, Clean
  <2>6. (pc' = "clean" /\ k = NumTasks) \/ (pc' = "result" /\ k' = k + 1) BY <1>20 DEF LogDone
  <2>7. \A t \in 1..k : Done(t)' /\ (ending' = "ok" => Clean(t)') BY <2>3, <2>4 DEF Done, Clean
  <2>8. cleaned' => abort' \/ pc' \in CleanLabels \cup {"exit"} BY <2>1, <2>3
  <2>9. CASE pc' = "clean" /\ k = NumTasks
    BY <2>3, <2>5, <2>7, <2>8, <2>9 DEF Task
  <2>10. CASE pc' = "result" /\ k' = k + 1
    BY <2>2, <2>3, <2>5, <2>7, <2>8, <2>10 DEF Task
  <2> QED BY <2>6, <2>9, <2>10
<1> QED BY <1>4, <1>5, <1>6, <1>7, <1>8, <1>9, <1>10, <1>11, <1>12, <1>13, <1>14, <1>15, <1>16, <1>17, <1>18, <1>19, <1>20 DEF Next, Main

-----------------------------------------------------------------------------
(* The theorems                                                            *)

\* The initial states satisfy the inductive invariant.
LEMMA InitInv == ASSUME Init PROVE IInv
<1> USE ExecuteAssumption
<1>1. MainType
  <2>1. /\ pc = "register" /\ k = 1 /\ retrying \in BOOLEAN /\ ending = "ok"
        /\ seen = [trial |-> 0, processed |-> 0]
    BY DEF Init, Zero
  <2> QED BY <2>1 DEF MainType, BaseLabels, Submitting, Collecting
<1>2. FrameType
  <2>1. handlers = << >> /\ signals = 0 /\ owner = [l \in Locks |-> -1] BY DEF Init, Locks
  <2> QED BY <2>1 DEF FrameType
<1>3. StopType
  <2>1. ran \in Seq(1..CleanRemote) BY DEF Init
  <2>2. open \subseteq Host BY DEF Init, Task
  <2>3. abort \in BOOLEAN /\ cleaned \in BOOLEAN /\ registered = 0 /\ cleanNext = 0 BY DEF Init
  <2> QED BY <2>1, <2>2, <2>3 DEF StopType, CleanRemote
<1>4. TaskType BY DEF Init, TaskType, TaskRecord, TaskLabels, Unstarted, Pending, Task
<1>5. AggrType BY DEF Init, AggrType, Zero
<1>6. FrameInv
  <2>1. Depth = 0 /\ LabelAt(0) = "register" /\ registered = 0 /\ logUp
    BY DEF Init, Depth, LabelAt
  <2> QED BY <2>1 DEF FrameInv, InSummary, Loop, CleanLabels, CleanRemote
<1>7. ResultInv
  BY DEF Init, ResultInv, Submitting, Collecting, CleanLabels, Unstarted
<1>8. CountInv BY DEF Init, CountInv, Counted, Unstarted, Busy
<1> QED BY <1>1, <1>2, <1>3, <1>4, <1>5, <1>6, <1>7, <1>8 DEF IInv, TypeOK

\* The inductive invariant holds in every reachable state.
LEMMA Invariance == Spec => []IInv
<1>1. Init => IInv BY InitInv
<1>2. IInv /\ [Next]_vars => IInv' BY TypeStep, FrameStep, ResultStep, CountStep DEF IInv
<1> QED BY <1>1, <1>2, PTL DEF Spec

\* Every variable keeps its type, and every loop index and counter its range, for any number
\* of hosts, entries, workers and signals.
THEOREM TypeCorrect == Spec => []TypeOK
<1>1. IInv => TypeOK BY DEF IInv
<1> QED BY <1>1, Invariance, PTL

\* The exit status of execute() can be trusted: EXIT_OK is returned only when every entry of
\* every host was transferred, and an error without a signal only when some host went wrong.
THEOREM ExitCorrect == Spec => []ExitTruthful
<1>1. ASSUME IInv, pc = "exit" PROVE /\ ending = "ok" => \A t \in Task : Done(t) /\ Clean(t)
                                     /\ ending # "ok" => abort \/ \E t \in Task : ~Clean(t)
  BY <1>1 DEF IInv, ResultInv, TypeOK, MainType
<1>2. ASSUME IInv, NEW t \in Task, Clean(t) PROVE task[t].processed = Entries[HostOf[t]]
  <2>1. task[t] \in TaskRecord /\ Counted(task[t], Entries[HostOf[t]])
    BY <1>2 DEF IInv, CountInv, TypeOK, TaskType
  <2>2. task[t].at = "ok" /\ task[t].errors = 0 BY <1>2 DEF Clean
  <2> QED BY <2>1, <2>2 DEF Counted, Busy, TaskRecord
<1>3. IInv => ExitTruthful BY <1>1, <1>2 DEF ExitTruthful
<1> QED BY <1>3, Invariance, PTL

-----------------------------------------------------------------------------
(* The run implements its contract                                         *)

\* Only run_cleanups() in execute()'s own frame ends the run, and nothing follows the end.
LEMMA ExitStep ==
  ASSUME TypeOK, [Next]_vars
  PROVE  /\ pc = "exit" => UNCHANGED <<pc, ending>>
         /\ pc # "exit" /\ pc' = "exit" => pc \in CleanLabels /\ UNCHANGED <<ending, task, abort>>
<1> USE DEF TypeOK, Inside, HandlerLabels, CleanLabels, mainVars, stopVars
<1>1. CASE RunCleanups \/ CleanupsDone
  <2>1. UNCHANGED <<ending, task, abort>> BY <1>1 DEF RunCleanups, CleanupsDone
  <2>2. \E l \in {"clean", "again", "fn"} : At(l) BY <1>1 DEF RunCleanups, CleanupsDone
  <2>3. Return \/ Goto("fn") BY <1>1 DEF RunCleanups, CleanupsDone
  <2>4. pc' # pc => Depth = 0 BY <2>3 DEF Return, Goto
  <2>5. Depth = 0 => pc \in {"clean", "fn"}
    BY <2>2 DEF At, Label, LabelAt, MainType, BaseLabels, Submitting, Collecting
  <2> QED BY <2>1, <2>4, <2>5
<1>2. CASE SetAbort \/ BeginSummary \/ CopyTotals \/ LogSummary \/ ShutdownLogging
  <2>1. UNCHANGED ending /\ \E l \in CleanLabels : Goto(l)
    BY <1>2 DEF SetAbort, BeginSummary, CopyTotals, LogSummary, ShutdownLogging
  <2>2. Label # "exit"
    BY <1>2 DEF SetAbort, BeginSummary, CopyTotals, LogSummary, ShutdownLogging, At
  <2> QED BY <2>1, <2>2 DEF Goto, Label, LabelAt
<1>3. CASE Acquire \/ CleanupTemps \/ CloseSession \/ Signal \/ UNCHANGED vars
  BY <1>3 DEF Acquire, CleanupTemps, CloseSession, Signal, vars
<1>4. CASE EmitCheck
  <2>1. UNCHANGED ending /\ \E l \in {"startLog", "doneLog", "sumLog"} : Goto(l)
    BY <1>4 DEF EmitCheck
  <2>2. Label # "exit" BY <1>4 DEF EmitCheck, At
  <2> QED BY <2>1, <2>2 DEF Goto, Label, LabelAt
<1>5. CASE \/ RegisterCleanup \/ StartHost \/ LogStart \/ Submit \/ EmitFails
           \/ TakeResult \/ FindRecord \/ ReadTrial \/ ReadProcessed \/ AddTotals \/ LogDone
           \/ Unwind
  <2>1. \E l \in {"register"} \cup Submitting \cup Collecting \cup {"unwind"} : At(l)
    BY <1>5
    DEF RegisterCleanup, StartHost, LogStart, Submit, EmitFails, TakeResult, FindRecord,
        ReadTrial, ReadProcessed, AddTotals, LogDone, Unwind, Submitting, Collecting
  <2>2. pc # "exit" BY <2>1, BaseFrame DEF Submitting, Collecting
  <2>3. pc' # "exit"
    BY <1>5
    DEF RegisterCleanup, StartHost, LogStart, Submit, EmitFails, TakeResult, FindRecord,
        ReadTrial, ReadProcessed, AddTotals, LogDone, Unwind
  <2> QED BY <2>2, <2>3
<1>6. ASSUME NEW t \in Task, Local(t) \/ Transfer(t) PROVE UNCHANGED <<pc, ending>>
  BY <1>6, WorkerTypeStep
<1> QED BY <1>1, <1>2, <1>3, <1>4, <1>5, <1>6 DEF Next, Main

\* A worker starts its task, or refuses it once the run is stopped; after that the task never
\* waits again.
LEMMA WorkerOutcome ==
  ASSUME IInv, NEW t \in Task, Local(t) \/ Transfer(t)
  PROVE  /\ task[t].at = "queued" =>
              task'[t].at \in (IF abort THEN {"cancelled"} ELSE {"root", "top"})
         /\ task[t].at # "queued" => task'[t].at \notin Pending
<1>0. task \in [Task -> TaskRecord] BY DEF IInv, TypeOK, TaskType
<1> USE DEF TaskRecord, Move, Pending
<1>1. CASE StartTask(t)
  BY <1>0, <1>1 DEF StartTask, Cancels
<1>2. CASE NextEntry(t)
  <2>1. /\ task[t].at = "top"
        /\ \/ \E l \in {"ok", "cancelled"} : Move(t, l)
           \/ task' = [task EXCEPT ![t] =
                         [task[t] EXCEPT !.at = IF Gather THEN "local" ELSE "check",
                                         !.trial = @ + 1]]
    BY <1>2 DEF NextEntry
  <2>2. CASE \E l \in {"ok", "cancelled"} : Move(t, l) BY <1>0, <2>1, <2>2
  <2>3. CASE task' = [task EXCEPT ![t] =
                        [task[t] EXCEPT !.at = IF Gather THEN "local" ELSE "check",
                                        !.trial = @ + 1]]
    <3>1. task'[t].at \in {"local", "check"} BY <1>0, <2>3
    <3> QED BY <2>1, <3>1
  <2> QED BY <2>1, <2>2, <2>3
<1>3. CASE MakeDirectory(t) \/ CheckBefore(t) \/ BeginTransfer(t)
  BY <1>0, <1>3 DEF MakeDirectory, CheckBefore, BeginTransfer
<1>4. CASE TransferOk(t) \/ TransferFails(t) \/ CheckAfter(t)
  BY <1>0, <1>4 DEF TransferOk, TransferFails, CheckAfter
<1>5. CASE Report(t) \/ ReportCheck(t) \/ ReportLog(t)
  BY <1>0, <1>5 DEF Report, ReportCheck, ReportLog
<1> QED BY <1>1, <1>2, <1>3, <1>4, <1>5 DEF Local, Transfer

\* A step that leaves the tasks' outcomes and the event alone, and does not end the run, is
\* no step of the contract.
LEMMA StutterStep ==
  ASSUME TypeOK, [Next]_vars, \A t \in Task : OutcomeOf(t)' = OutcomeOf(t), UNCHANGED abort,
         pc # "exit" => pc' # "exit"
  PROVE  UNCHANGED Contract!vars
BY ExitStep DEF Contract!vars

\* Every step of the run is a step of the contract, or none.
LEMMA ContractStep == ASSUME IInv, [Next]_vars PROVE [Contract!Next]_(Contract!vars)
<1>0. TypeOK BY DEF IInv
<1>1. CASE pc # "exit" /\ pc' = "exit"
  <2>1. pc \in CleanLabels /\ UNCHANGED <<ending, task, abort>> BY <1>0, <1>1, ExitStep
  <2>2. \A t \in Task : \/ ending = "raised" /\ task[t].at = "idle"
                        \/ Done(t) /\ (ending = "ok" => Clean(t))
    BY <2>1 DEF IInv, ResultInv
  <2>3. (ending = "raised" => abort) /\ (ending = "error" => abort \/ \E t \in Task : ~Clean(t))
        /\ ending \in {"ok", "error", "raised"}
    BY DEF IInv, ResultInv, TypeOK, MainType
  <2>4. \A t \in Task : OutcomeOf(t)' = OutcomeOf(t) BY <2>1 DEF OutcomeOf, Done, Clean
  <2>5. \A t \in Task : Done(t) => OutcomeOf(t) = (IF Clean(t) THEN "clean" ELSE "bad")
    BY DEF OutcomeOf, Done, Finished, Pending
  <2>6. \A t \in Task : OutcomeOf(t) # "active"
    BY <2>2, <2>5 DEF OutcomeOf, Pending
  <2>7. Contract!Decide
    BY <1>1, <2>1, <2>2, <2>3, <2>4, <2>5, <2>6 DEF Contract!Decide, Contract!Settled
  <2> QED BY <2>7 DEF Contract!Next
<1>2. CASE (pc # "exit" => pc' # "exit") /\ SetAbort
  <2>1. UNCHANGED task /\ abort' = TRUE BY <1>2 DEF SetAbort
  <2>2. \A t \in Task : OutcomeOf(t)' = OutcomeOf(t) BY <2>1 DEF OutcomeOf, Done, Clean
  <2>3. Contract!Stop BY <1>0, <1>2, <2>1, <2>2, ExitStep DEF Contract!Stop
  <2> QED BY <2>3 DEF Contract!Next
<1>3. CASE (pc # "exit" => pc' # "exit") /\ Submit
  <2>1. /\ k \in Task /\ task[k].at = "idle" /\ task \in [Task -> TaskRecord]
        /\ task' = [task EXCEPT ![k] = [task[k] EXCEPT !.at = "queued"]]
    BY <1>0, <1>3, SubmitStep DEF IInv, TypeOK, TaskType
  <2>2. ASSUME NEW t \in Task PROVE OutcomeOf(t)' = OutcomeOf(t)
    <3>1. CASE t = k BY <2>1, <3>1 DEF OutcomeOf, Pending, TaskRecord
    <3>2. CASE t # k BY <2>1, <3>2 DEF OutcomeOf, Done, Clean
    <3> QED BY <3>1, <3>2
  <2>3. UNCHANGED abort BY <1>3 DEF Submit, stopVars
  <2> QED BY <1>0, <1>3, <2>2, <2>3, StutterStep
<1>4. CASE (pc # "exit" => pc' # "exit") /\ ((Main /\ ~SetAbort /\ ~Submit) \/ Signal \/ UNCHANGED vars)
  <2>1. UNCHANGED <<task, abort>>
    BY <1>4
    DEF Main, vars, stopVars, Acquire, RegisterCleanup, StartHost, EmitCheck, LogStart,
        EmitFails, TakeResult, FindRecord, ReadTrial, ReadProcessed, AddTotals, LogDone, Unwind,
        RunCleanups, CleanupTemps, CloseSession, BeginSummary, CopyTotals, LogSummary,
        ShutdownLogging, CleanupsDone, Signal
  <2>2. \A t \in Task : OutcomeOf(t)' = OutcomeOf(t) BY <2>1 DEF OutcomeOf, Done, Clean
  <2> QED BY <1>0, <1>4, <2>1, <2>2, StutterStep
<1>5. ASSUME NEW t \in Task, Local(t) \/ Transfer(t) PROVE [Contract!Next]_(Contract!vars)
  <2>1. UNCHANGED <<pc, ending, abort>> BY <1>0, <1>5, WorkerTypeStep DEF mainVars, stopVars
  <2>2. /\ task[t].at \notin Finished \cup {"idle"}
        /\ \A u \in Task \ {t} : task'[u] = task[u]
    BY <1>5, WorkerStep DEF IInv
  <2>3. \A u \in Task \ {t} : OutcomeOf(u)' = OutcomeOf(u) BY <2>2 DEF OutcomeOf, Done, Clean
  <2>4. CASE task[t].at = "queued" /\ abort
    <3>1. OutcomeOf(t) = "waiting" /\ OutcomeOf(t)' = "bad"
      BY <1>5, <2>4, WorkerOutcome DEF OutcomeOf, Done, Clean, Pending, Finished
    <3>2. Contract!Refuse(t) BY <2>1, <2>3, <2>4, <3>1 DEF Contract!Refuse
    <3> QED BY <3>2 DEF Contract!Next
  <2>5. CASE task[t].at = "queued" /\ ~abort
    <3>1. OutcomeOf(t) = "waiting" /\ OutcomeOf(t)' = "active"
      BY <1>5, <2>5, WorkerOutcome DEF OutcomeOf, Done, Clean, Pending, Finished
    <3>2. Contract!Start(t) BY <2>1, <2>3, <2>5, <3>1 DEF Contract!Start
    <3> QED BY <3>2 DEF Contract!Next
  <2>6. CASE task[t].at # "queued"
    <3>1. OutcomeOf(t) = "active" BY <2>2, <2>6 DEF OutcomeOf, Done, Pending
    <3>2. OutcomeOf(t)' \in {"active", "clean", "bad"}
      BY <1>5, <2>6, WorkerOutcome DEF OutcomeOf
    <3>3. CASE OutcomeOf(t)' = "active"
      BY <2>1, <2>3, <3>1, <3>3 DEF Contract!vars
    <3>4. CASE OutcomeOf(t)' \in {"clean", "bad"}
      <4>1. Contract!Finish(t) BY <2>1, <2>3, <3>1, <3>4 DEF Contract!Finish
      <4> QED BY <4>1 DEF Contract!Next
    <3> QED BY <3>2, <3>3, <3>4
  <2> QED BY <2>4, <2>5, <2>6
<1> QED BY <1>1, <1>2, <1>3, <1>4, <1>5 DEF Next

\* The run implements its contract, for any number of hosts, entries, workers and signals: no
\* host is started after a stop, every outcome is decided once, and the verdict is success
\* only when every host ended clean.
THEOREM ImplementsContract == Spec => ContractSpec
<1>1. Init => Contract!Init
  BY DEF Init, Contract!Init, OutcomeOf, Pending, Unstarted
<1>2. IInv /\ [Next]_vars => [Contract!Next]_(Contract!vars) BY ContractStep
<1> QED BY <1>1, <1>2, Invariance, PTL DEF Spec, ContractSpec, Contract!Spec

-----------------------------------------------------------------------------
(* The cooperative stop is prompt                                          *)

\* A worker that began a transfer after the stop is never again on its way to another one.
OnTheWay == {"idle", "queued", "root", "local", "check", "call"}
LateInv == \A t \in Task : task[t].late <= 1 /\ (task[t].late > 0 => abort /\ task[t].at \notin OnTheWay)

\* Whoever runs or has begun a transfer after the stop had a worker thread of its own.
Threads == Running \cup {t \in Task : task[t].late > 0}
BoundInv == Cardinality(Threads) <= Workers

\* A worker's step keeps that of its own record, and starts a transfer after the stop once.
LEMMA WorkerLate ==
  ASSUME TypeOK, LateInv, NEW t \in Task, Local(t) \/ Transfer(t)
  PROVE  task'[t].late <= 1 /\ (task'[t].late > 0 => abort /\ task'[t].at \notin OnTheWay)
<1> USE DEF OnTheWay, TaskRecord
<1>0. /\ task[t] \in TaskRecord /\ task \in [Task -> TaskRecord]
      /\ task[t].late <= 1 /\ (task[t].late > 0 => abort /\ task[t].at \notin OnTheWay)
  BY DEF TypeOK, TaskType, LateInv
<1>1. CASE StartTask(t)
  BY <1>0, <1>1 DEF StartTask, Move
<1>2. CASE MakeDirectory(t)
  BY <1>0, <1>2 DEF MakeDirectory, Move
<1>3. CASE NextEntry(t)
  <2>1. CASE \E l \in {"ok", "cancelled"} : Move(t, l)
    BY <1>0, <1>3, <2>1 DEF Move
  <2>2. CASE /\ ~Cancels
             /\ task' = [task EXCEPT ![t] =
                           [task[t] EXCEPT !.at = IF Gather THEN "local" ELSE "check",
                                           !.trial = @ + 1]]
    <3>1. task'[t].late = task[t].late BY <1>0, <2>2
    <3> QED BY <1>0, <2>2, <3>1 DEF Cancels
  <2> QED BY <1>3, <2>1, <2>2 DEF NextEntry
<1>4. CASE CheckBefore(t)
  BY <1>0, <1>4 DEF CheckBefore, Move
<1>5. CASE BeginTransfer(t)
  <2>1. task[t].late = 0 BY <1>0, <1>5 DEF BeginTransfer
  <2>2. task'[t].at = "transfer" /\ task'[t].late = task[t].late + (IF abort THEN 1 ELSE 0)
    BY <1>0, <1>5 DEF BeginTransfer
  <2> QED BY <2>1, <2>2
<1>6. CASE CheckAfter(t)
  <2>1. \/ task' = [task EXCEPT ![t] = [task[t] EXCEPT !.at = "cancelled"]]
        \/ task' = [task EXCEPT ![t] = [task[t] EXCEPT !.at = "report", !.processed = @ + 1]]
    BY <1>6 DEF CheckAfter, Move
  <2>2. CASE task' = [task EXCEPT ![t] = [task[t] EXCEPT !.at = "cancelled"]]
    BY <1>0, <2>2
  <2>3. CASE task' = [task EXCEPT ![t] = [task[t] EXCEPT !.at = "report", !.processed = @ + 1]]
    <3>1. task'[t].late = task[t].late /\ task'[t].at = "report" BY <1>0, <2>3
    <3> QED BY <1>0, <3>1
  <2> QED BY <2>1, <2>2, <2>3
<1>7. CASE TransferOk(t) \/ TransferFails(t)
  <2>1. task'[t].late = task[t].late /\ task'[t].at \in {"after", "report"}
    <3>1. CASE TransferOk(t) BY <1>0, <3>1 DEF TransferOk, Move
    <3>2. CASE TransferFails(t) BY <1>0, <3>2 DEF TransferFails
    <3> QED BY <1>7, <3>1, <3>2
  <2> QED BY <1>0, <2>1
<1>8. CASE Report(t) \/ ReportCheck(t) \/ ReportLog(t)
  BY <1>0, <1>8 DEF Report, ReportCheck, ReportLog, Move
<1> QED BY <1>1, <1>2, <1>3, <1>4, <1>5, <1>6, <1>7, <1>8 DEF Local, Transfer

\* A step of a worker that is not queued is one of a thread that is already running.
LEMMA WorkerRuns ==
  ASSUME IInv, NEW t \in Task, Local(t) \/ Transfer(t), task[t].at # "queued"
  PROVE  t \in Running
BY WorkerStep DEF IInv, Running, Pending

\* The event is never cleared.
LEMMA AbortStays == ASSUME [Next]_vars, abort PROVE abort'
BY DEF Next, Main, Local, Transfer, vars, stopVars, Acquire, RegisterCleanup, StartHost, EmitCheck,
       LogStart, Submit, EmitFails, TakeResult, FindRecord, ReadTrial, ReadProcessed, AddTotals,
       LogDone, Unwind, SetAbort, RunCleanups, CleanupTemps, CloseSession, BeginSummary,
       CopyTotals, LogSummary, ShutdownLogging, CleanupsDone, Signal, StartTask, MakeDirectory,
       NextEntry, CheckBefore, BeginTransfer, CheckAfter, Report, ReportCheck, ReportLog,
       TransferOk, TransferFails, WorkerFrame

\* The main thread and the signals leave the workers' records alone, but for the task queued.
LEMMA MainTasks ==
  ASSUME IInv, Main \/ Signal \/ UNCHANGED vars
  PROVE  \A t \in Task : \/ task'[t] = task[t]
                        \/ /\ task[t].at = "idle"
                           /\ task'[t] = [task[t] EXCEPT !.at = "queued"]
<1>1. CASE Submit
  BY <1>1, SubmitStep DEF IInv, TypeOK, TaskType
<1>2. CASE (Main /\ ~Submit) \/ Signal \/ UNCHANGED vars
  <2>1. UNCHANGED task
    BY <1>2
    DEF Main, vars, Acquire, RegisterCleanup, StartHost, EmitCheck, LogStart, EmitFails,
        TakeResult, FindRecord, ReadTrial, ReadProcessed, AddTotals, LogDone, Unwind, SetAbort,
        RunCleanups, CleanupTemps, CloseSession, BeginSummary, CopyTotals, LogSummary,
        ShutdownLogging, CleanupsDone, Signal
  <2> QED BY <2>1
<1> QED BY <1>1, <1>2

\* Every step keeps LateInv.
LEMMA LateStep == ASSUME IInv, LateInv, [Next]_vars PROVE LateInv'
<1>0. TypeOK /\ task \in [Task -> TaskRecord] /\ (abort => abort')
  BY AbortStays DEF IInv, TypeOK, TaskType
<1>1. CASE Main \/ Signal \/ UNCHANGED vars
  <2>1. ASSUME NEW t \in Task
        PROVE  task'[t].late <= 1 /\ (task'[t].late > 0 => abort' /\ task'[t].at \notin OnTheWay)
    <3>1. CASE task'[t] = task[t] BY <1>0, <3>1 DEF LateInv
    <3>2. CASE task[t].at = "idle" /\ task'[t] = [task[t] EXCEPT !.at = "queued"]
      <4>1. task[t] \in TaskRecord /\ ~(task[t].late > 0) /\ task[t].late <= 1
        BY <1>0, <3>2 DEF LateInv, OnTheWay
      <4>2. task'[t].late = task[t].late BY <3>2, <4>1 DEF TaskRecord
      <4> QED BY <4>1, <4>2
    <3> QED BY <1>1, <3>1, <3>2, MainTasks
  <2> QED BY <2>1 DEF LateInv
<1>2. ASSUME NEW t \in Task, Local(t) \/ Transfer(t) PROVE LateInv'
  <2>1. task'[t].late <= 1 /\ (task'[t].late > 0 => abort' /\ task'[t].at \notin OnTheWay)
    BY <1>0, <1>2, WorkerLate
  <2>2. \A u \in Task \ {t} : task'[u] = task[u] BY <1>2, WorkerStep DEF IInv
  <2> QED BY <1>0, <2>1, <2>2 DEF LateInv
<1> QED BY <1>1, <1>2 DEF Next

\* There are finitely many threads, and fewer of them when there are fewer tasks.
LEMMA FewerThreads ==
  ASSUME NEW S \in SUBSET Task, NEW T \in SUBSET S
  PROVE  IsFiniteSet(S) /\ Cardinality(S) \in Nat /\ Cardinality(T) <= Cardinality(S)
<1>1. IsFiniteSet(Task) BY ExecuteAssumption, FS_Interval DEF Task
<1>2. IsFiniteSet(S) BY <1>1, FS_Subset
<1>3. Cardinality(S) \in Nat BY <1>2, FS_CardinalityType
<1> QED BY <1>2, <1>3, FS_Subset

\* Every step keeps the number of threads within the pool's size.
LEMMA BoundStep == ASSUME IInv, LateInv, BoundInv, [Next]_vars PROVE BoundInv'
<1>0. TypeOK /\ task \in [Task -> TaskRecord] /\ Workers \in Nat /\ Threads \subseteq Task
  BY ExecuteAssumption DEF IInv, TypeOK, TaskType, Workers, Threads, Running
<1>1. ASSUME Threads' \subseteq Threads PROVE BoundInv'
  <2>1. PICK T : T = Threads' OBVIOUS
  <2>2. Cardinality(T) <= Cardinality(Threads) /\ Cardinality(Threads) \in Nat
        /\ Cardinality(T) \in Nat
    BY <1>0, <1>1, <2>1, FewerThreads
  <2> QED BY <1>0, <2>1, <2>2 DEF BoundInv
<1>2. CASE Main \/ Signal \/ UNCHANGED vars
  <2>1. ASSUME NEW t \in Task, task'[t].at \notin Pending \cup Finished \/ task'[t].late > 0
        PROVE  t \in Threads
    <3>1. CASE task'[t] = task[t] BY <2>1, <3>1 DEF Threads, Running
    <3>2. CASE task[t].at = "idle" /\ task'[t] = [task[t] EXCEPT !.at = "queued"]
      BY <1>0, <2>1, <3>2 DEF Threads, TaskRecord, Pending
    <3> QED BY <1>2, <3>1, <3>2, MainTasks
  <2> QED BY <1>1, <2>1 DEF Threads, Running
<1>3. ASSUME NEW t \in Task, Local(t) \/ Transfer(t) PROVE BoundInv'
  <2>0. \A u \in Task \ {t} : task'[u] = task[u] BY <1>3, WorkerStep DEF IInv
  <2>1. Threads' \subseteq Threads \cup {t} BY <2>0 DEF Threads, Running
  <2>2. CASE t \in Threads BY <1>1, <2>1, <2>2
  <2>3. CASE t \notin Threads
    <3>1. task[t].at = "queued" BY <1>3, <2>3, WorkerRuns DEF Threads
    <3>2. StartTask(t)
      BY <1>3, <3>1
      DEF Local, Transfer, MakeDirectory, NextEntry, CheckBefore, BeginTransfer, CheckAfter,
          Report, ReportCheck, ReportLog, TransferOk, TransferFails
    <3>3. CASE abort
      <4>1. task'[t].at = "cancelled" /\ task'[t].late = task[t].late
        BY <1>0, <3>2, <3>3 DEF StartTask, Cancels, Move, TaskRecord
      <4>2. t \notin Threads'
        BY <2>3, <4>1 DEF Threads, Running, Finished
      <4> QED BY <1>1, <2>1, <4>2
    <3>4. CASE ~abort
      <4>1. Threads = Running
        BY <3>4 DEF LateInv, Threads
      <4>2. Cardinality(Threads) < Workers BY <3>2, <4>1 DEF StartTask
      <4>3. IsFiniteSet(Threads) /\ Cardinality(Threads) \in Nat BY <1>0, FewerThreads
      <4>4. Cardinality(Threads \cup {t}) = Cardinality(Threads) + 1
        BY <2>3, <4>3, FS_AddElement
      <4>5. PICK T : T = Threads' OBVIOUS
      <4>6. Threads \cup {t} \in SUBSET Task /\ T \in SUBSET (Threads \cup {t})
        BY <1>0, <2>1, <4>5
      <4>7. Cardinality(T) <= Cardinality(Threads) + 1 /\ Cardinality(T) \in Nat
        BY <4>4, <4>6, FewerThreads
      <4> QED BY <1>0, <4>2, <4>3, <4>5, <4>7 DEF BoundInv
    <3> QED BY <3>3, <3>4
  <2> QED BY <2>2, <2>3
<1> QED BY <1>2, <1>3 DEF Next

\* The cooperative stop is prompt, however many hosts and entries are left and however the
\* workers interleave with the handler: at most one transfer per worker thread begins after
\* the abort event is set.
THEOREM StopPrompt == Spec => []CancelBound
<1>1. Init => LateInv /\ BoundInv
  <2>1. SUFFICES ASSUME Init PROVE LateInv /\ BoundInv OBVIOUS
  <2>2. \A t \in Task : task[t].late = 0 /\ task[t].at = "idle" BY <2>1 DEF Init, Unstarted
  <2>3. Threads = {} BY <2>2 DEF Threads, Running, Pending
  <2>4. Cardinality(Threads) = 0 BY <2>3, FS_EmptySet
  <2> QED BY <2>2, <2>4, ExecuteAssumption DEF LateInv, BoundInv, Workers
<1>2. IInv /\ LateInv /\ BoundInv /\ [Next]_vars => LateInv' /\ BoundInv'
  BY LateStep, BoundStep
<1>3. IInv /\ LateInv /\ BoundInv => CancelBound
  <2>1. SUFFICES ASSUME IInv, LateInv, BoundInv PROVE CancelBound OBVIOUS
  <2> DEFINE L == {t \in Task : task[t].late > 0}
  <2>2. Workers \in Nat /\ Threads \in SUBSET Task /\ L \in SUBSET Threads
    BY ExecuteAssumption DEF Workers, Threads, Running
  <2>3. Cardinality(L) <= Cardinality(Threads) /\ Cardinality(Threads) \in Nat
        /\ Cardinality(L) \in Nat
    BY <2>2, FewerThreads
  <2>4. Cardinality(L) <= Workers BY <2>1, <2>2, <2>3 DEF BoundInv
  <2> QED BY <2>1, <2>4 DEF LateInv, CancelBound
<1> QED BY <1>1, <1>2, <1>3, Invariance, PTL DEF Spec

-----------------------------------------------------------------------------
(* The clean-ups                                                           *)

InLoop == \E d \in 0..Depth : LabelAt(d) \in Loop
AtStop == \E d \in 0..Depth : LabelAt(d) = "stop"

\* The clean-ups that have run are the last registered down to the one after cleanNext; a
\* frame is inside run_cleanups() until all have; the summary is the last one's.
OrderInv ==
  /\ ~cleaned => ran = << >> /\ summary = << >>
  /\ cleaned => cleanNext = 0 \/ InLoop
  /\ \A i \in 1..(Len(ran) - 1) : ran[i + 1] = ran[i] - 1
  /\ ran # << >> => ran[Len(ran)] = cleanNext + 1 /\ ran[1] = cleanNext + Len(ran)
  /\ ran # << >> /\ ran[1] >= CloseAll /\ cleanNext < CloseAll => open = {}
  /\ Len(summary) <= 1
  /\ summary # << >> => cleanNext = 0 \/ (AtStop /\ cleanNext = Summary)

\* The frame that runs the clean-ups goes on, from inside them, and stays at "stop".
LoopStays ==
  \A d \in 0..Depth : LabelAt(d) \in Loop =>
    d \in (0..Depth)' /\ LabelAt(d)' \in Loop /\ (LabelAt(d) = "stop" => LabelAt(d)' = "stop")

\* A move outside the clean-ups, or inside them before "stop", is such a step.
LEMMA MovesStay ==
  ASSUME FrameType, NEW l, Moves(l), Label \in Loop => l \in Loop, Label = "stop" => l = "stop"
  PROVE  LoopStays
BY DEF LoopStays, Moves, Label, Depth, FrameType

\* So is the end of a call of run_cleanups() that had nothing to do.
LEMMA ReturnStays ==
  ASSUME FrameType, FrameInv, Return, Label \notin Loop
  PROVE  LoopStays
<1>0. Depth \in Nat /\ Label = LabelAt(Depth) BY DEF FrameType, Depth, Label
<1>1. CASE Depth = 0
  <2>1. Moves(pc') BY <1>1, BaseMoves DEF Return
  <2> QED BY <2>1, MovesStay DEF Loop, CleanLabels
<1>2. CASE Depth > 0 /\ At("again")
  <2>1. handlers' = SubSeq(handlers, 1, Depth - 1) /\ UNCHANGED pc BY <1>2 DEF Return
  <2>2. PICK n \in Nat : n + 1 = Depth BY <1>0, <1>2
  <2>3. handlers' = SubSeq(handlers, 1, n) /\ n + 1 = Len(handlers)
        /\ handlers \in Seq(HandlerLabels)
    BY <2>1, <2>2 DEF Depth, FrameType
  <2>4. Len(handlers') = n /\ \A d \in 1..n : handlers'[d] = handlers[d]
    BY <2>3, FrontOfSeq
  <2>5. Depth' = n /\ \A d \in 0..n : LabelAt(d)' = LabelAt(d)
    BY <2>1, <2>4 DEF Depth, LabelAt
  <2> QED BY <1>0, <2>2, <2>5 DEF LoopStays
<1>3. CASE Depth > 0 /\ ~At("again")
  <2>1. Moves("again") BY <1>3, GotoMoves DEF Return
  <2> QED BY <2>1, MovesStay DEF Loop, CleanLabels
<1> QED BY <1>0, <1>1, <1>2, <1>3

\* A signal's handler starts on top of the other frames.
LEMMA PushStays ==
  ASSUME FrameType, handlers' = Append(handlers, "set"), UNCHANGED pc
  PROVE  LoopStays
<1>1. handlers \in Seq(HandlerLabels) /\ Len(handlers) \in Nat /\ "set" \in HandlerLabels
  BY DEF FrameType, HandlerLabels
<1>2. /\ Len(handlers') = Len(handlers) + 1
      /\ \A d \in 1..Len(handlers) : handlers'[d] = handlers[d]
  BY <1>1, AppendProperties
<1>3. Depth \in Nat /\ Depth' = Depth + 1 /\ \A d \in 0..Depth : LabelAt(d)' = LabelAt(d)
  BY <1>1, <1>2 DEF Depth, LabelAt
<1> QED BY <1>3 DEF LoopStays

\* A step that runs no clean-up keeps the order.
LEMMA QuietOrder ==
  ASSUME OrderInv, UNCHANGED <<cleaned, cleanNext, ran, summary>>, open' \subseteq open,
         cleanNext = 0 \/ LoopStays
  PROVE  OrderInv'
<1>1. CASE cleanNext = 0 BY <1>1 DEF OrderInv
<1>2. CASE LoopStays
  <2>1. InLoop => InLoop' BY <1>2 DEF InLoop, LoopStays
  <2>2. AtStop => AtStop' BY <1>2 DEF AtStop, LoopStays, Loop, CleanLabels
  <2> QED BY <2>1, <2>2 DEF OrderInv
<1> QED BY <1>1, <1>2

\* The end of one clean-up keeps the order, with the sessions closed after close_all().
LEMMA ReturnsOrder ==
  ASSUME StopType, OrderInv, FnReturns, cleaned, cleaned', cleanNext > 0, InLoop',
         UNCHANGED <<open, summary>>, cleanNext = CloseAll => open = {}
  PROVE  OrderInv'
<1>1. /\ cleanNext \in 1..4 /\ ran \in Seq(1..4) /\ Len(ran) \in Nat
      /\ cleanNext' = cleanNext - 1 /\ ran' = Append(ran, cleanNext)
  BY DEF StopType, FnReturns, CleanRemote
<1>2. /\ Len(ran') = Len(ran) + 1 /\ ran' # << >>
      /\ \A i \in 1..Len(ran) : ran'[i] = ran[i]
      /\ ran'[Len(ran) + 1] = cleanNext
  BY <1>1, AppendProperties
<1>3. ran # << >> => /\ Len(ran) > 0 /\ ran[Len(ran)] = cleanNext + 1
                     /\ ran[1] = cleanNext + Len(ran)
  BY <1>1, EmptySeq DEF OrderInv
<1>4. ran = << >> => Len(ran) = 0 OBVIOUS
<1>5. \A i \in 1..(Len(ran') - 1) : ran'[i + 1] = ran'[i] - 1
  <2>1. SUFFICES ASSUME NEW i \in 1..Len(ran) PROVE ran'[i + 1] = ran'[i] - 1
    BY <1>1, <1>2
  <2>2. CASE i < Len(ran)
    <3>1. i + 1 \in 1..Len(ran) /\ i \in 1..(Len(ran) - 1) BY <1>1, <2>2
    <3> QED BY <1>2, <3>1 DEF OrderInv
  <2>3. CASE i = Len(ran)
    <3>1. ran[Len(ran)] = cleanNext + 1 BY <1>3, <1>4, <2>3
    <3> QED BY <1>1, <1>2, <2>3, <3>1
  <2> QED BY <1>1, <2>2, <2>3
<1>6. ran'[Len(ran')] = cleanNext' + 1 /\ ran'[1] = cleanNext' + Len(ran')
  BY <1>1, <1>2, <1>3, <1>4
<1>7. ran'[1] >= CloseAll /\ cleanNext' < CloseAll => open' = {}
  <2>1. SUFFICES ASSUME ran'[1] >= CloseAll, cleanNext' < CloseAll, cleanNext # CloseAll
                 PROVE  open = {}
    OBVIOUS
  <2>2. cleanNext = 1 BY <1>1, <2>1 DEF CloseAll
  <2>3. ran # << >> /\ ran[1] >= CloseAll BY <1>1, <1>2, <1>3, <1>4, <2>1, <2>2 DEF CloseAll
  <2> QED BY <2>2, <2>3 DEF OrderInv, CloseAll
<1>8. summary' # << >> => cleanNext' = 0 BY <1>1 DEF OrderInv, Summary
<1>9. Len(summary') <= 1 BY DEF OrderInv
<1> QED BY <1>1, <1>2, <1>5, <1>6, <1>7, <1>8, <1>9 DEF OrderInv

\* Every step keeps the order of the clean-ups.
LEMMA OrderStep == ASSUME TypeOK, FrameInv, OrderInv, [Next]_vars PROVE OrderInv'
<1> USE DEF mainVars, stopVars, aggrVars
<1>0. /\ FrameType /\ StopType /\ Depth \in Nat /\ Label = LabelAt(Depth) /\ Depth \in 0..Depth
      /\ (Label \in Loop => cleaned) /\ (Label \in InSummary => cleanNext = Summary)
  BY DEF TypeOK, FrameType, Depth, Label, FrameInv
<1>00. ASSUME NEW l \in Loop, Moves(l) PROVE InLoop' /\ (l = "stop" => AtStop')
  BY <1>0, <1>00 DEF Moves, InLoop, AtStop
<1>1. CASE RegisterCleanup \/ StartHost \/ LogStart \/ Submit \/ EmitFails \/ TakeResult
         \/ FindRecord \/ ReadTrial \/ ReadProcessed \/ AddTotals \/ LogDone \/ Unwind
  <2>1. Depth = 0 /\ UNCHANGED <<handlers, cleaned, cleanNext, ran, open, summary>>
        /\ \E l : At(l) /\ l \notin HandlerLabels
    BY <1>0, <1>1, BaseFrame
    DEF RegisterCleanup, StartHost, LogStart, Submit, EmitFails, TakeResult, FindRecord,
        ReadTrial, ReadProcessed, AddTotals, LogDone, Unwind, Inside,
        HandlerLabels, CleanLabels
  <2>2. Label \notin Loop BY <2>1 DEF At, HandlerLabels, Loop
  <2> QED BY <1>0, <2>1, <2>2, BaseMoves, MovesStay, QuietOrder DEF Loop, CleanLabels
<1>2. CASE Acquire
  <2>1. Moves(Label) /\ UNCHANGED <<cleaned, cleanNext, ran, open, summary>>
    BY <1>0, <1>2, StayMoves DEF Acquire
  <2> QED BY <1>0, <2>1, MovesStay, QuietOrder
<1>3. CASE CleanupTemps \/ CloseSession
  <2>1. Moves(Label) /\ Label = "fn" /\ cleanNext \in 2..4 /\ UNCHANGED <<cleaned, summary>>
    BY <1>0, <1>3, StayMoves
    DEF CleanupTemps, CloseSession, At, CloseAll, CleanLocal, CleanRemote
  <2>2. cleaned /\ InLoop' BY <1>0, <1>00, <2>1 DEF Loop, CleanLabels
  <2>3. CASE /\ FnReturns /\ UNCHANGED open /\ (cleanNext = CloseAll => open = {})
    BY <1>0, <2>1, <2>2, <2>3, ReturnsOrder
  <2>4. CASE \E h \in open : open' = open \ {h} /\ UNCHANGED <<ran, cleanNext>>
    BY <1>0, <2>1, <2>4, MovesStay, QuietOrder
  <2> QED BY <1>3, <2>3, <2>4 DEF CleanupTemps, CloseSession, CloseAll, CleanLocal, CleanRemote
<1>4. CASE SetAbort
  <2>1. Moves("clean") /\ Label = "set" /\ UNCHANGED <<cleaned, cleanNext, ran, open, summary>>
    BY <1>0, <1>4, GotoMoves DEF SetAbort, Inside, At
  <2> QED BY <1>0, <2>1, MovesStay, QuietOrder DEF Loop, CleanLabels
<1>5. CASE BeginSummary
  <2>1. Moves("sum") /\ Label = "fn" /\ UNCHANGED <<cleaned, cleanNext, ran, open, summary>>
    BY <1>0, <1>5, GotoMoves DEF BeginSummary, At
  <2> QED BY <1>0, <2>1, MovesStay, QuietOrder DEF Loop, CleanLabels
<1>6. CASE CopyTotals
  <2>1. Moves("sumCheck") /\ Label = "sum" /\ UNCHANGED <<cleaned, cleanNext, ran, open, summary>>
    BY <1>0, <1>6, GotoMoves DEF CopyTotals, Inside, At
  <2> QED BY <1>0, <2>1, MovesStay, QuietOrder DEF Loop, CleanLabels
<1>7. CASE EmitCheck
  <2>1. PICK l, m : /\ At(l) /\ Moves(m) /\ UNCHANGED <<cleaned, cleanNext, ran, open, summary>>
                    /\ <<l, m>> \in { <<"startCheck", "startLog">>, <<"doneCheck", "doneLog">>,
                                     <<"sumCheck", "sumLog">> }
    BY <1>0, <1>7, GotoMoves DEF EmitCheck
  <2> QED BY <1>0, <2>1, MovesStay, QuietOrder DEF Loop, CleanLabels, At
<1>8. CASE LogSummary
  <2>1. Moves("stop") /\ Label = "sumLog" /\ UNCHANGED <<cleaned, cleanNext, ran, open>>
    BY <1>0, <1>8, GotoMoves DEF LogSummary, Inside, At
  <2>2. cleaned /\ cleanNext = Summary /\ InLoop' /\ AtStop'
    BY <1>0, <1>00, <2>1 DEF Loop, InSummary, CleanLabels
  <2>3. ~AtStop BY <1>0, <2>1 DEF AtStop, FrameInv, Loop, CleanLabels
  <2>4. summary = << >> BY <2>2, <2>3 DEF OrderInv, Summary
  <2>5. Len(summary') <= 1 BY <1>8, <2>4 DEF LogSummary
  <2> QED BY <2>1, <2>2, <2>5 DEF OrderInv
<1>9. CASE ShutdownLogging
  <2>1. Moves("fn") /\ Label = "stop" /\ UNCHANGED <<cleaned, open, summary>> /\ FnReturns
    BY <1>0, <1>9, GotoMoves DEF ShutdownLogging, Inside, At
  <2>2. cleaned /\ cleanNext = 1 /\ InLoop'
    BY <1>0, <1>00, <2>1 DEF Loop, InSummary, CleanLabels, Summary
  <2> QED BY <1>0, <2>1, <2>2, ReturnsOrder DEF CloseAll
<1>10. CASE CleanupsDone
  BY <1>10, QuietOrder DEF CleanupsDone
<1>11. CASE RunCleanups
  <2>1. UNCHANGED <<ran, open, summary>> /\ Label \notin Loop
    BY <1>11 DEF RunCleanups, Inside, At, Loop, CleanLabels
  <2>2. CASE cleaned
    <3>1. Return /\ UNCHANGED <<cleaned, cleanNext>> BY <1>11, <2>2 DEF RunCleanups
    <3> QED BY <1>0, <2>1, <3>1, ReturnStays, QuietOrder
  <2>3. CASE ~cleaned
    <3>1. cleaned' /\ Moves("fn") BY <1>0, <1>11, <2>3, GotoMoves DEF RunCleanups
    <3>2. InLoop' BY <1>00, <3>1 DEF Loop, CleanLabels
    <3>3. ran' = << >> /\ summary' = << >> BY <2>1, <2>3 DEF OrderInv
    <3> QED BY <3>1, <3>2, <3>3 DEF OrderInv
  <2> QED BY <2>2, <2>3
<1>12. CASE Signal
  <2>1. LoopStays BY <1>0, <1>12, PushStays DEF Signal
  <2> QED BY <1>12, <2>1, QuietOrder DEF Signal
<1>13. ASSUME NEW t \in Task, Local(t) \/ Transfer(t) PROVE OrderInv'
  <2>1. UNCHANGED <<pc, handlers, cleaned, cleanNext, ran, open, summary>>
    BY <1>13
    DEF Local, Transfer, StartTask, MakeDirectory, NextEntry, CheckBefore, BeginTransfer,
        CheckAfter, Report, ReportCheck, ReportLog, TransferOk, TransferFails, WorkerFrame
  <2> QED BY <1>0, <2>1, StayMoves, MovesStay, QuietOrder
<1>14. CASE UNCHANGED vars
  BY <1>0, <1>14, StayMoves, MovesStay, QuietOrder DEF vars
<1> QED BY <1>1, <1>2, <1>3, <1>4, <1>5, <1>6, <1>7, <1>8, <1>9, <1>10, <1>11, <1>12, <1>13, <1>14
    DEF Next, Main

\* However signals interrupt the clean-ups, and the handlers one another: each clean-up runs
\* at most once, in the reverse of the registrations and none skipped; they are over when the
\* frame that ran them has gone on; and one summary line at most comes after close_all().
THEOREM CleanupsOrdered == Spec => []CleanupOrder
<1>1. Init => OrderInv
  <2>1. SUFFICES ASSUME Init PROVE OrderInv OBVIOUS
  <2>2. ran = << >> /\ summary = << >> /\ ~cleaned BY <2>1 DEF Init
  <2>3. Len(ran) = 0 /\ Len(summary) = 0 BY <2>2
  <2> QED BY <2>2, <2>3 DEF OrderInv
<1>2. IInv /\ OrderInv /\ [Next]_vars => OrderInv' BY OrderStep DEF IInv
<1>3. IInv /\ OrderInv => CleanupOrder
  <2>1. SUFFICES ASSUME IInv, OrderInv PROVE CleanupOrder OBVIOUS
  <2>2. StopType /\ FrameType BY <2>1 DEF IInv, TypeOK
  <2>3. ASSUME handlers = << >>, pc \notin CleanLabels, ran # << >> PROVE Len(ran) = ran[1]
    <3>1. Depth = 0 /\ LabelAt(0) = pc BY <2>3 DEF Depth, LabelAt
    <3>2. cleaned /\ ~InLoop BY <2>1, <2>3, <3>1 DEF OrderInv, InLoop, Loop
    <3>3. cleanNext = 0 BY <2>1, <3>2 DEF OrderInv
    <3>4. Len(ran) \in Nat BY <2>2 DEF StopType
    <3> QED BY <2>1, <2>3, <3>3, <3>4 DEF OrderInv
  <2>4. ASSUME ran # << >>, ran[1] >= CloseAll, summary # << >> PROVE open = {}
    BY <2>1, <2>4 DEF OrderInv, Summary, CloseAll
  <2> QED BY <2>1, <2>3, <2>4 DEF OrderInv, CleanupOrder
<1> QED BY <1>1, <1>2, <1>3, Invariance, PTL DEF Spec

-----------------------------------------------------------------------------
(* Induction and sums over finite sets                                     *)

\* The order of the natural numbers is well-founded, as a set of pairs.
LEMMA LessWF == IsWellFoundedOn({r \in Nat \X Nat : r[1] < r[2]}, Nat)
BY NatLessThanWellFounded DEF OpToRel

\* Every nonempty set of natural numbers has a least element.
LEMMA LeastNat == ASSUME NEW T, T \subseteq Nat, T # {} PROVE \E x \in T : \A y \in T : x <= y
<1> DEFINE R == {r \in Nat \X Nat : r[1] < r[2]}
<1>1. IsWellFoundedOn(R, Nat) BY LessWF
<1>2. \A x, y \in Nat : x < y => <<x, y>> \in R OBVIOUS
<1> HIDE DEF R
<1>3. PICK x \in T : \A y \in T : <<y, x>> \notin R BY <1>1, WFMin
<1>4. \A y \in T : ~(y < x) BY <1>2, <1>3
<1>5. \A y \in T : x <= y BY <1>4
<1> QED BY <1>5

\* What is true of 0 and of a number's successor is true of all.
LEMMA Inductive ==
  ASSUME NEW T, 0 \in T, \A n \in Nat : n \in T => n + 1 \in T
  PROVE  Nat \subseteq T
<1> SUFFICES ASSUME Nat \ T # {} PROVE FALSE OBVIOUS
<1>1. PICK m \in Nat \ T : \A n \in Nat \ T : m <= n BY LeastNat
<1>2. m - 1 \in Nat /\ ~(m <= m - 1) BY <1>1
<1>3. m - 1 \in T BY <1>1, <1>2
<1>4. m - 1 + 1 \in T /\ m - 1 + 1 = m BY <1>2, <1>3
<1> QED BY <1>1, <1>4

\* A sum takes any element first and goes on with the rest: `it' is such a table of the
\* sums of the sets in D, and UpTo(n, S) are the subsets of S with at most n elements.
Some(s) == CHOOSE x \in s : TRUE
Plus(it, s, f) == IF s = {} THEN 0 ELSE f[Some(s)] + it[s \ {Some(s)}]
Adds(it, D, f) == it = [s \in D |-> Plus(it, s, f)]
UpTo(n, S) == {s \in SUBSET S : Cardinality(s) <= n}

\* A set without one of its elements is smaller by one.
LEMMA Smaller ==
  ASSUME NEW S, IsFiniteSet(S), NEW s \in SUBSET S, NEW x \in s
  PROVE  /\ Cardinality(s) \in Nat /\ s \ {x} \in SUBSET S
         /\ Cardinality(s \ {x}) = Cardinality(s) - 1
         /\ Cardinality(s) > 0
<1>1. IsFiniteSet(s) BY FS_Subset
<1>2. Cardinality(s) \in Nat BY <1>1, FS_CardinalityType
<1>3. Cardinality(s \ {x}) = Cardinality(s) - 1 BY <1>1, FS_RemoveElement
<1>4. Cardinality(s \ {x}) \in Nat BY <1>1, FS_Subset, FS_CardinalityType
<1> QED BY <1>2, <1>3, <1>4

\* The element taken first is one of the set.
LEMMA SomeIn == ASSUME NEW s, s # {} PROVE Some(s) \in s
BY DEF Some

\* A finite set has a table of sums: that of the smaller sets, extended.
LEMMA SumExists == ASSUME NEW S, IsFiniteSet(S), NEW f PROVE \E it : Adds(it, SUBSET S, f)
<1> DEFINE T == {n \in Nat : \E g : Adds(g, UpTo(n, S), f)}
<1>1. 0 \in T
  <2> DEFINE g == [s \in UpTo(0, S) |-> 0]
  <2>1. ASSUME NEW s \in UpTo(0, S) PROVE s = {}
    <3> SUFFICES ASSUME s # {} PROVE FALSE OBVIOUS
    <3>1. Cardinality(s) > 0 /\ Cardinality(s) <= 0 /\ Cardinality(s) \in Nat
      BY SomeIn, Smaller DEF UpTo
    <3> QED BY <3>1
  <2>2. Adds(g, UpTo(0, S), f) BY <2>1 DEF Adds, Plus
  <2> QED BY <2>2
<1>2. ASSUME NEW n \in Nat, n \in T PROVE n + 1 \in T
  <2>1. PICK h : Adds(h, UpTo(n, S), f) BY <1>2
  <2> DEFINE g == [s \in UpTo(n + 1, S) |-> Plus(h, s, f)]
  <2>2. ASSUME NEW s \in UpTo(n + 1, S), s # {}
        PROVE  s \ {Some(s)} \in UpTo(n, S) /\ s \ {Some(s)} \in UpTo(n + 1, S)
    <3>1. s \in SUBSET S /\ Cardinality(s) <= n + 1 /\ Some(s) \in s BY <2>2, SomeIn DEF UpTo
    <3>2. Cardinality(s \ {Some(s)}) = Cardinality(s) - 1 /\ Cardinality(s) \in Nat /\ s \ {Some(s)} \in SUBSET S
      BY <3>1, Smaller
    <3> QED BY <3>1, <3>2 DEF UpTo
  <2>3. \A s \in UpTo(n, S) : h[s] = Plus(h, s, f) BY <2>1 DEF Adds
  <2>4. \A s \in UpTo(n + 1, S) : s # {} => g[s \ {Some(s)}] = h[s \ {Some(s)}]  BY <2>2, <2>3
  <2> HIDE DEF g
  <2>5. ASSUME NEW s \in UpTo(n + 1, S) PROVE Plus(g, s, f) = Plus(h, s, f)
    <3>1. CASE s = {} BY <3>1 DEF Plus
    <3>2. CASE s # {} BY <2>4, <3>2 DEF Plus
    <3> QED BY <3>1, <3>2
  <2>6. Adds(g, UpTo(n + 1, S), f)
    <3>1. g = [s \in UpTo(n + 1, S) |-> Plus(h, s, f)] BY DEF g
    <3> QED BY <2>5, <3>1 DEF Adds
  <2> QED BY <2>6
<1>3. Nat \subseteq T BY <1>1, <1>2, Inductive
<1>4. PICK g : Adds(g, UpTo(Cardinality(S), S), f) BY <1>3, FS_CardinalityType
<1>5. UpTo(Cardinality(S), S) = SUBSET S BY FS_Subset DEF UpTo
<1> QED BY <1>4, <1>5

\* Any element may be taken first, not just the chosen one.
LEMMA SumAny ==
  ASSUME NEW S, IsFiniteSet(S), NEW f \in [S -> Int], NEW it, Adds(it, SUBSET S, f)
  PROVE  \A s \in SUBSET S : it[s] \in Int /\ \A x \in s : it[s] = f[x] + it[s \ {x}]
<1> DEFINE Right(s) == it[s] \in Int /\ \A x \in s : it[s] = f[x] + it[s \ {x}]
           T == {n \in Nat : \A s \in UpTo(n, S) : Right(s)}
<1>0. \A s \in SUBSET S : it[s] = Plus(it, s, f) BY DEF Adds
<1>a. Right({})
  <2>1. it[{}] = Plus(it, {}, f) BY <1>0
  <2>2. Plus(it, {}, f) = 0 BY DEF Plus
  <2> QED BY <2>1, <2>2
<1>1. 0 \in T
  <2>1. ASSUME NEW s \in UpTo(0, S) PROVE s = {}
    <3> SUFFICES ASSUME s # {} PROVE FALSE OBVIOUS
    <3>1. Cardinality(s) > 0 /\ Cardinality(s) <= 0 /\ Cardinality(s) \in Nat
      BY SomeIn, Smaller DEF UpTo
    <3> QED BY <3>1
  <2> QED BY <1>a, <2>1
<1>2. ASSUME NEW n \in Nat, n \in T PROVE n + 1 \in T
  <2> SUFFICES ASSUME NEW s \in UpTo(n + 1, S), s # {} PROVE Right(s)
    <3>1. ASSUME NEW s \in UpTo(n + 1, S), s = {} PROVE Right(s) BY <1>a, <3>1
    <3> HIDE DEF Right
    <3> QED BY <3>1
  <2>1. PICK y : y = Some(s) /\ y \in s BY SomeIn
  <2>2. s \in SUBSET S /\ it[s] = f[y] + it[s \ {y}]
    <3>1. s \in SUBSET S BY DEF UpTo
    <3>2. it[s] = Plus(it, s, f) BY <1>0, <3>1
    <3> QED BY <2>1, <3>1, <3>2 DEF Plus
  <2>3. ASSUME NEW x \in s PROVE s \ {x} \in UpTo(n, S)
    <3>1. Cardinality(s) \in Nat /\ s \ {x} \in SUBSET S /\ Cardinality(s \ {x}) = Cardinality(s) - 1
      BY <2>2, Smaller
    <3> QED BY <3>1 DEF UpTo
  <2>4. \A u \in UpTo(n, S) : Right(u) BY <1>2
  <2>5. it[s] \in Int BY <2>1, <2>2, <2>3, <2>4
  <2>6. ASSUME NEW x \in s PROVE it[s] = f[x] + it[s \ {x}]
    <3>1. CASE x = y BY <2>2, <3>1
    <3>2. CASE x # y
      <4> DEFINE a == s \ {x}
                 b == s \ {y}
      <4>1. Right(a) /\ Right(b) /\ y \in a /\ x \in b BY <2>1, <2>3, <2>4, <3>2
      <4>2. a \ {y} = b \ {x} OBVIOUS
      <4>3. it[a] = f[y] + it[a \ {y}] /\ it[b] = f[x] + it[b \ {x}] BY <4>1
      <4>4. f[x] \in Int /\ f[y] \in Int /\ it[a] \in Int /\ it[b] \in Int BY <2>1, <2>2, <4>1
      <4>5. a \ {y} \in UpTo(n, S)
        <5>1. a \in SUBSET S /\ Cardinality(a) <= n /\ a \in UpTo(n, S) BY <2>3 DEF UpTo
        <5>2. y \in a BY <4>1
        <5> HIDE DEF a
        <5>3. Cardinality(a \ {y}) = Cardinality(a) - 1 /\ Cardinality(a) \in Nat BY <5>1, <5>2, Smaller
        <5> QED BY <5>1, <5>3 DEF UpTo
      <4>6. it[a \ {y}] \in Int BY <2>4, <4>5
      <4>7. it[b \ {x}] = it[a \ {y}] BY <4>2
      <4>8. it[s] = f[y] + it[b] BY <2>2
      <4> HIDE DEF a, b
      <4>9. it[s] = f[x] + it[a] BY <4>3, <4>4, <4>6, <4>7, <4>8
      <4> QED BY <4>9 DEF a
    <3> QED BY <3>1, <3>2
  <2> QED BY <2>5, <2>6
<1>3. Nat \subseteq T BY <1>1, <1>2, Inductive
<1>4. ASSUME NEW s \in SUBSET S PROVE Right(s)
  <2>1. Cardinality(s) \in Nat BY FS_Subset, FS_CardinalityType
  <2>2. s \in UpTo(Cardinality(s), S) BY <2>1 DEF UpTo
  <2> QED BY <1>3, <2>1, <2>2
<1> QED BY <1>4

\* The sum the properties speak of, with the function as a parameter.
Sum(f, S) == MapThenSumSet(LAMBDA x : f[x], S)

\* The sum of the library module is the entry of a table.
LEMMA SumIterates ==
  ASSUME NEW S, IsFiniteSet(S), NEW f
  PROVE  \E it : Adds(it, SUBSET S, f) /\ it[S] = Sum(f, S)
<1> DEFINE Step(it) == [s \in SUBSET S |->
                          IF s = {} THEN 0
                          ELSE LET x == CHOOSE x \in s : TRUE IN f[x] + it[s \ {x}]]
           iter == CHOOSE it : it = Step(it)
<1>1. Sum(f, S) = iter[S] BY DEF Sum, MapThenSumSet, MapThenFoldSet
<1>2. \A it : Adds(it, SUBSET S, f) <=> it = Step(it) BY DEF Adds, Plus, Some
<1> HIDE DEF Step
<1>3. PICK it : Adds(it, SUBSET S, f) BY SumExists
<1>4. it = Step(it) BY <1>2, <1>3
<1>5. iter = Step(iter) BY <1>4
<1>6. Adds(iter, SUBSET S, f) BY <1>2, <1>5
<1> QED BY <1>1, <1>6

\* Two tables of one function have the same sums.
LEMMA SumUnique ==
  ASSUME NEW S, IsFiniteSet(S), NEW f, NEW a, NEW b, Adds(a, SUBSET S, f), Adds(b, SUBSET S, f)
  PROVE  \A s \in SUBSET S : a[s] = b[s]
<1> DEFINE T == {n \in Nat : \A s \in UpTo(n, S) : a[s] = b[s]}
<1>0. ASSUME NEW s \in SUBSET S, s = {} \/ a[s \ {Some(s)}] = b[s \ {Some(s)}] PROVE a[s] = b[s]
  <2>1. a[s] = Plus(a, s, f) /\ b[s] = Plus(b, s, f) BY DEF Adds
  <2> QED BY <1>0, <2>1 DEF Plus
<1>1. 0 \in T
  <2>1. ASSUME NEW s \in UpTo(0, S) PROVE s = {} /\ s \in SUBSET S
    <3> SUFFICES ASSUME s # {} PROVE FALSE BY DEF UpTo
    <3>1. Cardinality(s) > 0 /\ Cardinality(s) <= 0 /\ Cardinality(s) \in Nat
      BY SomeIn, Smaller DEF UpTo
    <3> QED BY <3>1
  <2> QED BY <1>0, <2>1
<1>2. ASSUME NEW n \in Nat, n \in T PROVE n + 1 \in T
  <2> SUFFICES ASSUME NEW s \in UpTo(n + 1, S) PROVE a[s] = b[s] OBVIOUS
  <2>1. s \in SUBSET S BY DEF UpTo
  <2>2. ASSUME s # {} PROVE s \ {Some(s)} \in UpTo(n, S)
    <3>1. Cardinality(s) \in Nat /\ s \ {Some(s)} \in SUBSET S
          /\ Cardinality(s \ {Some(s)}) = Cardinality(s) - 1
      BY <2>1, <2>2, SomeIn, Smaller
    <3> QED BY <3>1 DEF UpTo
  <2> QED BY <1>0, <1>2, <2>1, <2>2
<1>3. Nat \subseteq T BY <1>1, <1>2, Inductive
<1>4. ASSUME NEW s \in SUBSET S PROVE a[s] = b[s]
  <2>1. Cardinality(s) \in Nat BY FS_Subset, FS_CardinalityType
  <2>2. s \in UpTo(Cardinality(s), S) BY <2>1 DEF UpTo
  <2> QED BY <1>3, <2>1, <2>2
<1> QED BY <1>4

\* Nothing sums up to 0.
LEMMA SumEmpty == ASSUME NEW f PROVE Sum(f, {}) = 0
<1>1. PICK it : Adds(it, SUBSET {}, f) /\ it[{}] = Sum(f, {}) BY SumIterates, FS_EmptySet
<1>2. it[{}] = Plus(it, {}, f) BY <1>1 DEF Adds
<1> QED BY <1>1, <1>2 DEF Plus

\* One more element adds its value.
LEMMA SumAdd ==
  ASSUME NEW S, IsFiniteSet(S), NEW x, x \notin S, NEW f, \A y \in S \cup {x} : f[y] \in Int
  PROVE  /\ Sum(f, S) \in Int
         /\ Sum(f, S \cup {x}) = f[x] + Sum(f, S)
<1> DEFINE U == S \cup {x}
           g == [y \in U |-> f[y]]
<1>1. IsFiniteSet(U) BY FS_AddElement
<1>2. PICK a : Adds(a, SUBSET U, f) /\ a[U] = Sum(f, U) BY <1>1, SumIterates
<1>3. PICK b : Adds(b, SUBSET S, f) /\ b[S] = Sum(f, S) BY SumIterates
<1>4. Adds(a, SUBSET U, g)
  <2>1. ASSUME NEW s \in SUBSET U PROVE Plus(a, s, f) = Plus(a, s, g)
    BY SomeIn DEF Plus
  <2> QED BY <1>2, <2>1 DEF Adds
<1>5. a[U] \in Int /\ a[U] = g[x] + a[U \ {x}] /\ a[S] \in Int
  <2>1. g \in [U -> Int] OBVIOUS
  <2>2. U \in SUBSET U /\ S \in SUBSET U /\ x \in U OBVIOUS
  <2> HIDE DEF U, g
  <2>3. \A s \in SUBSET U : a[s] \in Int /\ \A y \in s : a[s] = g[y] + a[s \ {y}]
    BY <1>1, <1>4, <2>1, SumAny
  <2> QED BY <2>2, <2>3
<1>6. U \ {x} = S OBVIOUS
<1>7. a[S] = b[S]
  <2> DEFINE c == [s \in SUBSET S |-> a[s]]
  <2>1. \A s \in SUBSET S : a[s] = Plus(a, s, f) /\ Plus(a, s, f) = Plus(c, s, f)
    <3>1. ASSUME NEW s \in SUBSET S PROVE a[s] = Plus(a, s, f) BY <1>2 DEF Adds
    <3>2. ASSUME NEW s \in SUBSET S PROVE Plus(a, s, f) = Plus(c, s, f)
      <4>1. s \ {Some(s)} \in SUBSET S OBVIOUS
      <4> QED BY <4>1 DEF Plus
    <3> QED BY <3>1, <3>2
  <2>2. Adds(c, SUBSET S, f) BY <2>1 DEF Adds
  <2>3. c[S] = a[S] OBVIOUS
  <2> HIDE DEF c
  <2>4. \A s \in SUBSET S : c[s] = b[s] BY <1>3, <2>2, SumUnique
  <2>5. S \in SUBSET S OBVIOUS
  <2> QED BY <2>3, <2>4, <2>5
<1> QED BY <1>2, <1>3, <1>5, <1>6, <1>7

\* The sum depends on the values at the elements only.
LEMMA SumSame ==
  ASSUME NEW S, IsFiniteSet(S), NEW f, NEW g, \A x \in S : f[x] = g[x]
  PROVE  Sum(f, S) = Sum(g, S)
<1>1. PICK a : Adds(a, SUBSET S, f) /\ a[S] = Sum(f, S) BY SumIterates
<1>2. PICK b : Adds(b, SUBSET S, g) /\ b[S] = Sum(g, S) BY SumIterates
<1>3. ASSUME NEW s \in SUBSET S PROVE Plus(b, s, g) = Plus(b, s, f)
  <2>1. s # {} => Some(s) \in S BY SomeIn
  <2> QED BY <2>1 DEF Plus
<1>4. Adds(b, SUBSET S, f) BY <1>2, <1>3 DEF Adds
<1>5. \A s \in SUBSET S : a[s] = b[s] BY <1>1, <1>4, SumUnique
<1>6. S \in SUBSET S OBVIOUS
<1> QED BY <1>1, <1>2, <1>5, <1>6

-----------------------------------------------------------------------------
(* The summary of a run that no signal disturbs                            *)

\* The errors of the results and the progress of their hosts, by task.
Errs == [t \in Task |-> ErrorsOf(t)]
Trials == [t \in Task |-> st[HostOf[t]].trial]
Processeds == [t \in Task |-> st[HostOf[t]].processed]
Added == {"doneCheck", "doneLog"}

\* The tasks whose results are in the totals.
Counts ==
  IF pc \in Added THEN 1..k
  ELSE IF pc \in Collecting THEN 1..(k - 1)
  ELSE IF pc \in CleanLabels \cup {"exit"} THEN Task ELSE {}

\* Between two reports a worker's counters are those of its host's record.
Reported == Pending \cup {"root", "top", "reportCheck", "reportLog", "ok"}
ReportInv ==
  /\ \A t \in Task : task[t].at = "idle" => task[t].trial = 0 /\ task[t].processed = 0
  /\ Distinct => \A t \in Task : task[t].at \in Reported =>
       st[HostOf[t]] = [trial |-> task[t].trial, processed |-> task[t].processed]

\* Without a signal, execute() alone runs the clean-ups, all four, and the totals it prints
\* are not changed any more.
AloneInv ==
  /\ handlers = << >> /\ ~abort
  /\ pc # "register" => registered = CleanRemote
  /\ cleaned <=> pc \in Loop \cup {"exit"}
  /\ cleaned /\ ran = << >> => cleanNext = CleanRemote
  /\ ran # << >> => ran[1] = CleanRemote
  /\ pc = "stop" \/ (cleaned /\ cleanNext = 0) => summary = <<totals>>
  /\ cleaned /\ cleanNext = 0 => ~logUp
  /\ pc = "exit" => cleanNext = 0

\* The totals are the sums of the results collected so far, and the verdict tells an error
\* as soon as the next host's turn comes.
TotalsInv ==
  /\ totals.errors = Sum(Errs, Counts)
  /\ Distinct => totals.trial = Sum(Trials, Counts) /\ totals.processed = Sum(Processeds, Counts)
SumsInv ==
  /\ TotalsInv
  /\ (totals.errors = 0) = (ending = "ok" /\ (pc \in Added => Clean(k)))
  /\ Distinct /\ pc \in {"readProcessed", "add"} => seen.trial = st[HostOf[k]].trial
  /\ Distinct /\ pc = "add" => seen.processed = st[HostOf[k]].processed

UndisturbedInv == signals = 0 => AloneInv /\ SumsInv

\* Without a handler, execute()'s own frame runs.
LEMMA OwnFrame ==
  ASSUME handlers = << >>
  PROVE  /\ Depth = 0 /\ Label = pc
         /\ \A l : At(l) <=> pc = l
         /\ \A l : Goto(l) => pc' = l /\ handlers' = handlers
         /\ Return /\ pc # "again" => pc' = "exit" /\ handlers' = handlers
<1>1. Depth = 0 BY DEF Depth
<1> QED BY <1>1 DEF Label, LabelAt, At, Goto, Return

\* The sums of the properties are those of the results and records.
LEMMA TotalIsSum == ASSUME NEW f PROVE Total(f) = Sum(f, Task)
BY DEF Total, Sum

\* Every step keeps the workers' counters and their hosts' records together.
LEMMA ReportStep ==
  ASSUME IInv, ReportInv, [Next]_vars
  PROVE  ReportInv'
<1> USE DEF aggrVars
<1>0. /\ TypeOK /\ task \in [Task -> TaskRecord] /\ HostOf \in [Task -> Host]
      /\ st \in [Host -> [trial : Nat, processed : Nat]]
  BY ExecuteAssumption DEF IInv, TypeOK, TaskType, AggrType, Task
<1>1. CASE StartHost
  <2>1. pc = "start" /\ k \in Task
    BY <1>0, <1>1, BaseFrame
    DEF StartHost, Inside, TypeOK, MainType, Submitting, HandlerLabels, CleanLabels
  <2>2. task[k].at = "idle" BY <2>1 DEF IInv, ResultInv, Submitting, Task
  <2>3. UNCHANGED task /\ st' = [st EXCEPT ![HostOf[k]] = Zero] BY <1>1 DEF StartHost
  <2>4. ASSUME Distinct, NEW t \in Task, task'[t].at \in Reported
        PROVE  st'[HostOf[t]] = [trial |-> task'[t].trial, processed |-> task'[t].processed]
    <3>1. CASE t = k
      <4>1. task[k].trial = 0 /\ task[k].processed = 0 BY <2>1, <2>2 DEF ReportInv
      <4> QED BY <1>0, <2>1, <2>3, <3>1, <4>1 DEF Zero
    <3>2. CASE t # k
      <4>1. HostOf[t] # HostOf[k] BY <2>1, <2>4, <3>2 DEF Distinct
      <4> QED BY <1>0, <2>3, <2>4, <4>1 DEF ReportInv
    <3> QED BY <3>1, <3>2
  <2> QED BY <2>3, <2>4 DEF ReportInv, Distinct
<1>2. CASE Submit
  <2>1. k \in Task /\ task[k].at = "idle" /\ UNCHANGED st
        /\ task' = [task EXCEPT ![k] = [task[k] EXCEPT !.at = "queued"]]
    BY <1>0, <1>2, SubmitStep DEF IInv, Submit
  <2>2. ASSUME NEW t \in Task
        PROVE  /\ task'[t].trial = task[t].trial /\ task'[t].processed = task[t].processed
               /\ task'[t].at = (IF t = k THEN "queued" ELSE task[t].at)
    BY <1>0, <2>1 DEF TaskRecord
  <2> QED BY <2>1, <2>2 DEF ReportInv, Distinct, Reported, Pending
<1>3. CASE (Main /\ ~StartHost /\ ~Submit) \/ Signal \/ UNCHANGED vars
  <2>1. UNCHANGED <<task, st>>
    BY <1>3
    DEF Main, vars, Acquire, RegisterCleanup, EmitCheck, LogStart, EmitFails,
        TakeResult, FindRecord, ReadTrial, ReadProcessed, AddTotals, LogDone, Unwind, SetAbort,
        RunCleanups, CleanupTemps, CloseSession, BeginSummary, CopyTotals, LogSummary,
        ShutdownLogging, CleanupsDone, Signal
  <2> QED BY <2>1 DEF ReportInv, Distinct
<1>4. ASSUME NEW t \in Task, Local(t) \/ Transfer(t) PROVE ReportInv'
  <2>1. \A u \in Task \ {t} : task'[u] = task[u] BY <1>0, <1>4, WorkerStep DEF IInv
  <2>2. task'[t].at # "idle" BY <1>4, WorkerOutcome DEF Pending
  <2>3. ASSUME UNCHANGED st,
               task'[t].at \in Reported =>
                 /\ task[t].at \in Reported
                 /\ task'[t].trial = task[t].trial /\ task'[t].processed = task[t].processed
        PROVE  ReportInv'
    BY <2>1, <2>2, <2>3 DEF ReportInv, Distinct
  <2>4. ASSUME NEW l, Move(t, l), UNCHANGED st, l \in Reported => task[t].at \in Reported
        PROVE  ReportInv'
    <3>1. /\ task'[t].at = l
          /\ task'[t].trial = task[t].trial /\ task'[t].processed = task[t].processed
      BY <1>0, <2>4 DEF Move, TaskRecord
    <3> QED BY <2>3, <2>4, <3>1
  <2>5. CASE Report(t)
    <3>1. st' = [st EXCEPT ![HostOf[t]] = [trial |-> task[t].trial,
                                           processed |-> task[t].processed]]
          /\ Move(t, "reportCheck")
      BY <2>5 DEF Report
    <3>2. task'[t].trial = task[t].trial /\ task'[t].processed = task[t].processed
      BY <1>0, <3>1 DEF Move, TaskRecord
    <3>3. ASSUME Distinct, NEW u \in Task, task'[u].at \in Reported
          PROVE  st'[HostOf[u]] = [trial |-> task'[u].trial, processed |-> task'[u].processed]
      <4>1. CASE u = t BY <1>0, <3>1, <3>2, <4>1
      <4>2. CASE u # t
        <5>1. HostOf[u] # HostOf[t] BY <3>3, <4>2 DEF Distinct
        <5> QED BY <1>0, <2>1, <3>1, <3>3, <4>2, <5>1 DEF ReportInv
      <4> QED BY <4>1, <4>2
    <3> QED BY <2>1, <2>2, <3>3 DEF ReportInv, Distinct
  <2>6. CASE StartTask(t)
    BY <2>4, <2>6 DEF StartTask, Reported, Pending
  <2>7. CASE MakeDirectory(t)
    <3>1. \/ task[t].at = "root" /\ (Move(t, "top") \/ Move(t, "crashed"))
          \/ task[t].at = "local" /\ (Move(t, "check") \/ Move(t, "crashed"))
      BY <2>7 DEF MakeDirectory
    <3> QED BY <2>4, <2>7, <3>1 DEF MakeDirectory, Reported, Pending
  <2>8. CASE NextEntry(t)
    <3>1. \/ Move(t, "ok") \/ Move(t, "cancelled")
          \/ task' = [task EXCEPT ![t] = [task[t] EXCEPT !.at = IF Gather THEN "local" ELSE "check",
                                                         !.trial = @ + 1]]
      BY <2>8 DEF NextEntry
    <3>2. task[t].at = "top" /\ UNCHANGED st BY <2>8 DEF NextEntry
    <3>3. CASE task' = [task EXCEPT ![t] =
                   [task[t] EXCEPT !.at = IF Gather THEN "local" ELSE "check", !.trial = @ + 1]]
      <4>1. task'[t].at \in {"local", "check"} BY <1>0, <3>3 DEF TaskRecord
      <4> QED BY <2>3, <3>2, <4>1 DEF Reported, Pending
    <3> QED BY <2>4, <3>1, <3>2, <3>3 DEF Reported
  <2>9. CASE CheckBefore(t)
    BY <2>4, <2>9 DEF CheckBefore, Reported, Pending
  <2>10. CASE BeginTransfer(t) \/ TransferFails(t)
    <3>1. /\ UNCHANGED st
          /\ \/ task' = [task EXCEPT ![t] = [task[t] EXCEPT !.at = "transfer",
                                                 !.late = @ + IF abort THEN 1 ELSE 0]]
             \/ task' = [task EXCEPT ![t] = [task[t] EXCEPT !.at = "report", !.errors = @ + 1]]
      BY <2>10 DEF BeginTransfer, TransferFails
    <3>2. task'[t].at \in {"transfer", "report"}
      BY <1>0, <3>1 DEF TaskRecord
    <3> QED BY <2>3, <3>1, <3>2 DEF Reported, Pending
  <2>11. CASE CheckAfter(t)
    <3>1. \/ Move(t, "cancelled")
          \/ task' = [task EXCEPT ![t] = [task[t] EXCEPT !.at = "report", !.processed = @ + 1]]
      BY <2>11 DEF CheckAfter
    <3>2. task'[t].at \in {"cancelled", "report"}
      <4>1. CASE Move(t, "cancelled") BY <1>0, <4>1 DEF Move, TaskRecord
      <4>2. CASE task' = [task EXCEPT ![t] =
                   [task[t] EXCEPT !.at = "report", !.processed = @ + 1]]
        BY <1>0, <4>2 DEF TaskRecord
      <4> QED BY <3>1, <4>1, <4>2
    <3>3. UNCHANGED st BY <2>11 DEF CheckAfter
    <3> QED BY <2>3, <3>2, <3>3 DEF Reported, Pending
  <2>12. CASE ReportCheck(t)
    BY <2>4, <2>12 DEF ReportCheck, Reported, Pending
  <2>13. CASE ReportLog(t)
    BY <2>4, <2>13 DEF ReportLog, Reported, Pending
  <2>14. CASE TransferOk(t)
    BY <2>4, <2>14 DEF TransferOk, Reported, Pending
  <2> QED BY <1>4, <2>5, <2>6, <2>7, <2>8, <2>9, <2>10, <2>11, <2>12, <2>13, <2>14 DEF Local, Transfer
<1> QED BY <1>1, <1>2, <1>3, <1>4 DEF Next

\* The next clean-up's entry in the list keeps its first one.
LEMMA FirstStays ==
  ASSUME StopType, FnReturns, cleanNext > 0, ran = << >> => cleanNext = CleanRemote,
         ran # << >> => ran[1] = CleanRemote
  PROVE  ran' # << >> /\ ran'[1] = CleanRemote /\ cleanNext' = cleanNext - 1
<1>1. /\ cleanNext \in 1..4 /\ ran \in Seq(1..4) /\ Len(ran) \in Nat
      /\ cleanNext' = cleanNext - 1 /\ ran' = Append(ran, cleanNext)
  BY DEF StopType, FnReturns, CleanRemote
<1>2. /\ Len(ran') = Len(ran) + 1 /\ ran' # << >>
      /\ \A i \in 1..Len(ran) : ran'[i] = ran[i]
      /\ ran'[Len(ran) + 1] = cleanNext
  BY <1>1, AppendProperties
<1>3. CASE ran = << >>
  <2>1. Len(ran) = 0 BY <1>3
  <2> QED BY <1>1, <1>2, <1>3, <2>1
<1>4. CASE ran # << >>
  <2>1. 1 \in 1..Len(ran) BY <1>1, <1>4, EmptySeq
  <2> QED BY <1>1, <1>2, <1>4, <2>1
<1> QED BY <1>3, <1>4

\* The labels of execute()'s own frame.
LEMMA OwnLabels ==
  /\ CleanLabels \cap ({"register", "unwind", "exit"} \cup Submitting \cup Collecting) = {}
  /\ {"exit", "register", "unwind"} \cap (Submitting \cup Collecting) = {}
  /\ Submitting \cap Collecting = {}
  /\ Loop = {"fn", "sum", "sumCheck", "sumLog", "stop"} /\ InSummary = Loop \ {"fn"}
BY DEF CleanLabels, Submitting, Collecting, Loop, InSummary

\* In a run no signal disturbs, a task that the main thread has passed is done.
LEMMA CountsDone ==
  ASSUME IInv, ~abort, NEW t \in Task,
         t \in Counts \/ (pc \in Collecting \ {"result"} /\ t = k)
  PROVE  Done(t)
<1>1. CASE pc \in Collecting
  <2>1. k \in Task /\ \A u \in 1..(k - 1) : Done(u) BY <1>1 DEF IInv, TypeOK, MainType, ResultInv
  <2>2. pc # "result" => Done(k) BY <1>1 DEF IInv, ResultInv
  <2>3. "result" \notin Added BY DEF Added
  <2>4. t \in 1..(k - 1) \/ (t = k /\ pc # "result")
    BY <1>1, <2>1, <2>3 DEF Counts, Task
  <2> QED BY <2>1, <2>2, <2>4
<1>2. CASE pc \in CleanLabels \cup {"exit"}
  BY <1>2 DEF IInv, ResultInv
<1>3. CASE pc \notin Collecting /\ pc \notin CleanLabels \cup {"exit"}
  BY <1>3 DEF Counts, Added, Collecting
<1> QED BY <1>1, <1>2, <1>3

\* Every step of an undisturbed run keeps what is known of its clean-ups.
LEMMA AloneStep ==
  ASSUME IInv, OrderInv, AloneInv, [Next]_vars, UNCHANGED signals
  PROVE  AloneInv'
<1> USE DEF mainVars, stopVars, aggrVars
<1>0. /\ StopType /\ FrameInv /\ TypeOK /\ pc \in BaseLabels /\ handlers = << >> /\ ~abort
      /\ ResultInv /\ signals \in Nat
  BY DEF IInv, TypeOK, MainType, AloneInv, FrameType
<1>1. /\ Depth = 0 /\ Label = pc
      /\ \A l : At(l) <=> pc = l
      /\ \A l : Goto(l) => pc' = l /\ handlers' = handlers
      /\ Return /\ pc # "again" => pc' = "exit" /\ handlers' = handlers
  BY <1>0, OwnFrame
<1>2. pc \notin {"set", "again"}
  BY <1>0 DEF BaseLabels, CleanLabels, Submitting, Collecting
<1>3. /\ pc \in Loop => cleaned
      /\ pc \in InSummary => cleanNext = Summary
  <2>1. LabelAt(0) = pc BY <1>1 DEF Label
  <2> QED BY <1>0, <1>1, <2>1 DEF FrameInv
<1>4. CASE StartHost \/ LogStart \/ Submit \/ TakeResult \/ FindRecord \/ ReadTrial
         \/ ReadProcessed \/ AddTotals \/ LogDone
  <2>1. pc \in Submitting \cup Collecting
    BY <1>1, <1>4
    DEF StartHost, LogStart, Submit, TakeResult, FindRecord, ReadTrial, ReadProcessed,
        AddTotals, LogDone, Inside, Submitting, Collecting
  <2>2. pc' \in Submitting \cup Collecting \cup {"clean"}
    BY <1>4
    DEF StartHost, LogStart, Submit, TakeResult, FindRecord, ReadTrial, ReadProcessed,
        AddTotals, LogDone, Submitting, Collecting
  <2>3. UNCHANGED <<handlers, abort, registered, cleaned, cleanNext, ran>>
    BY <1>4
    DEF StartHost, LogStart, Submit, TakeResult, FindRecord, ReadTrial, ReadProcessed,
        AddTotals, LogDone
  <2>4. pc \notin Loop \cup {"exit", "register"} BY <2>1, OwnLabels DEF Loop
  <2>5. pc' \notin Loop \cup {"exit"} BY <2>2, OwnLabels DEF Loop
  <2>6. pc' # "stop" BY <2>5, OwnLabels
  <2> QED BY <2>3, <2>4, <2>5, <2>6 DEF AloneInv
<1>5. CASE EmitFails \/ Unwind
  <2>1. ~cleaned => logUp BY <1>0 DEF FrameInv
  <2>2. pc \in {"startLog", "doneLog", "unwind"} BY <1>1, <1>5 DEF EmitFails, Unwind
  <2>3. ~cleaned /\ pc # "unwind"
    BY <1>0, <2>2, OwnLabels DEF AloneInv, ResultInv
  <2> QED BY <1>1, <1>5, <2>1, <2>3 DEF EmitFails, Unwind
<1>6. CASE RegisterCleanup
  <2>1. pc = "register" /\ registered \in 0..3
    BY <1>0, <1>1, <1>6 DEF RegisterCleanup, Inside, FrameInv, StopType, CleanRemote
  <2>2. /\ UNCHANGED <<handlers, abort, cleaned, cleanNext, ran, totals, summary, logUp>>
        /\ registered' = registered + 1
        /\ pc' \in {"register", "clean", "start"}
        /\ pc' # "register" => registered + 1 >= 4
    BY <1>6, <2>1 DEF RegisterCleanup, CleanRemote
  <2>3. ~cleaned BY <2>1, OwnLabels DEF AloneInv
  <2>4. pc' \notin Loop \cup {"exit"} BY <2>2, OwnLabels
  <2> QED BY <2>1, <2>2, <2>3, <2>4 DEF AloneInv, CleanRemote
<1>7. CASE Acquire \/ UNCHANGED vars
  BY <1>7 DEF Acquire, AloneInv, vars
<1>8. CASE CleanupTemps
  <2>1. pc = "fn" /\ cleanNext \in {3, 4} /\ FnReturns
        /\ UNCHANGED <<pc, handlers, abort, registered, cleaned, totals, summary, logUp>>
    BY <1>1, <1>8 DEF CleanupTemps, CleanLocal, CleanRemote
  <2>2. cleaned BY <1>3, <2>1, OwnLabels
  <2>3. ran' # << >> /\ ran'[1] = CleanRemote /\ cleanNext' = cleanNext - 1
    BY <1>0, <2>1, <2>2, FirstStays DEF AloneInv
  <2> QED BY <2>1, <2>2, <2>3 DEF AloneInv
<1>9. CASE CloseSession
  <2>1. pc = "fn" /\ cleanNext = 2
        /\ UNCHANGED <<pc, handlers, abort, registered, cleaned, totals, summary, logUp>>
    BY <1>1, <1>9 DEF CloseSession, CloseAll
  <2>2. cleaned BY <1>3, <2>1, OwnLabels
  <2>3. CASE FnReturns
    <3>1. ran' # << >> /\ ran'[1] = CleanRemote /\ cleanNext' = cleanNext - 1
      BY <1>0, <2>1, <2>2, <2>3, FirstStays DEF AloneInv
    <3> QED BY <2>1, <2>2, <3>1 DEF AloneInv
  <2>4. CASE UNCHANGED <<ran, cleanNext>>
    BY <2>1, <2>2, <2>4 DEF AloneInv
  <2> QED BY <1>9, <2>3, <2>4 DEF CloseSession
<1>10. CASE SetAbort \/ Signal
  <2>1. ~SetAbort BY <1>1, <1>2 DEF SetAbort, Inside
  <2>2. ~Signal BY <1>0 DEF Signal
  <2> QED BY <1>10, <2>1, <2>2
<1>11. CASE RunCleanups
  <2>1. pc = "clean" BY <1>1, <1>2, <1>11 DEF RunCleanups, Inside
  <2>2. ~cleaned BY <2>1, OwnLabels DEF AloneInv, CleanLabels
  <2>3. /\ cleaned' /\ cleanNext' = registered /\ pc' = "fn"
        /\ UNCHANGED <<handlers, abort, registered, ran, totals, summary, logUp>>
    BY <1>1, <1>11, <2>2 DEF RunCleanups
  <2>4. registered = 4 /\ ran = << >>
    BY <2>1, <2>2 DEF AloneInv, OrderInv, CleanRemote
  <2>5. pc' \in Loop BY <2>3, OwnLabels
  <2> QED BY <2>3, <2>4, <2>5 DEF AloneInv, CleanRemote
<1>12. CASE BeginSummary \/ CopyTotals
  <2>1. /\ pc \in {"fn", "sum"} /\ pc' \in {"sum", "sumCheck"}
        /\ UNCHANGED <<handlers, abort, registered, cleaned, cleanNext, ran, totals, summary, logUp>>
    BY <1>1, <1>12 DEF BeginSummary, CopyTotals, Inside
  <2>2. cleaned BY <1>3, <2>1, OwnLabels
  <2> QED BY <2>1, <2>2, OwnLabels DEF AloneInv
<1>13. CASE EmitCheck
  <2>1. /\ <<pc, pc'>> \in { <<"startCheck", "startLog">>, <<"doneCheck", "doneLog">>,
                             <<"sumCheck", "sumLog">> }
        /\ UNCHANGED <<handlers, abort, registered, cleaned, cleanNext, ran, totals, summary>>
    BY <1>1, <1>13 DEF EmitCheck
  <2>2. cleaned => pc = "sumCheck" BY <2>1, OwnLabels DEF AloneInv
  <2>3. cleaned => cleanNext = 1 BY <1>3, <2>2, OwnLabels DEF Summary
  <2>4. pc \notin {"register", "exit"} /\ pc' \notin {"register", "exit", "stop"} BY <2>1
  <2>5. (pc \in Loop) = (pc' \in Loop) BY <2>1, OwnLabels
  <2> QED BY <2>1, <2>3, <2>4, <2>5 DEF AloneInv
<1>14. CASE LogSummary
  <2>1. /\ pc = "sumLog" /\ pc' = "stop" /\ summary' = Append(summary, totals)
        /\ UNCHANGED <<handlers, abort, registered, cleaned, cleanNext, ran, totals, logUp>>
    BY <1>1, <1>14 DEF LogSummary, Inside
  <2>2. cleaned /\ cleanNext = 1 BY <1>3, <2>1, OwnLabels DEF Summary
  <2>3. ~AtStop
    <3>1. \A d \in 0..Depth : LabelAt(d) = pc BY <1>1 DEF Label
    <3> QED BY <2>1, <3>1 DEF AtStop
  <2>4. summary = << >> BY <2>2, <2>3 DEF OrderInv
  <2>5. summary' = <<totals'>> BY <2>1, <2>4
  <2> QED BY <2>1, <2>2, <2>5, OwnLabels DEF AloneInv
<1>15. CASE ShutdownLogging
  <2>1. /\ pc = "stop" /\ pc' = "fn" /\ FnReturns /\ ~logUp'
        /\ UNCHANGED <<handlers, abort, registered, cleaned, totals, summary>>
    BY <1>1, <1>15 DEF ShutdownLogging, Inside
  <2>2. cleaned /\ cleanNext = 1 BY <1>3, <2>1, OwnLabels DEF Summary
  <2>3. ran' # << >> /\ ran'[1] = CleanRemote /\ cleanNext' = cleanNext - 1
    BY <1>0, <2>1, <2>2, FirstStays DEF AloneInv
  <2> QED BY <2>1, <2>2, <2>3, OwnLabels DEF AloneInv
<1>16. CASE CleanupsDone
  <2>1. /\ pc = "fn" /\ cleanNext = 0 /\ pc' = "exit"
        /\ UNCHANGED <<handlers, abort, registered, cleaned, cleanNext, ran, totals, summary, logUp>>
    BY <1>1, <1>16 DEF CleanupsDone
  <2>2. cleaned BY <1>3, <2>1, OwnLabels
  <2> QED BY <2>1, <2>2 DEF AloneInv
<1>17. ASSUME NEW t \in Task, Local(t) \/ Transfer(t) PROVE AloneInv'
  <2>1. UNCHANGED <<pc, handlers, abort, registered, cleaned, cleanNext, ran, totals, summary>>
    BY <1>17
    DEF Local, Transfer, StartTask, MakeDirectory, NextEntry, CheckBefore, BeginTransfer,
        CheckAfter, Report, ReportCheck, ReportLog, TransferOk, TransferFails, WorkerFrame
  <2>2. ~Done(t) BY <1>0, <1>17, WorkerStep DEF IInv, Done
  <2>3. ~cleaned
    <3>1. cleaned => Counts = Task BY OwnLabels DEF AloneInv, Counts, Loop, Added, Collecting
    <3> QED BY <1>0, <2>2, <3>1, CountsDone
  <2> QED BY <2>1, <2>3 DEF AloneInv
<1> QED BY <1>4, <1>5, <1>6, <1>7, <1>8, <1>9, <1>10, <1>11, <1>12, <1>13, <1>14, <1>15, <1>16, <1>17
    DEF Next, Main

\* The tasks in the totals are tasks of the run.
LEMMA CountsTasks ==
  ASSUME TypeOK
  PROVE  /\ Counts \in SUBSET Task /\ IsFiniteSet(Counts)
         /\ pc \in Collecting => k \in Task
         /\ pc \in Added => pc \in Collecting
<1>1. (pc \in Collecting => k \in Task) /\ (pc \in Added => pc \in Collecting)
  BY DEF TypeOK, MainType, Added, Collecting
<1>2. NumTasks \in Nat BY ExecuteAssumption
<1>3. Counts \subseteq Task BY <1>1, <1>2 DEF Counts, Task
<1>4. IsFiniteSet(Task) BY <1>2, FS_Interval DEF Task
<1>5. PICK c : c = Counts OBVIOUS
<1>6. IsFiniteSet(c) BY <1>3, <1>4, <1>5, FS_Subset
<1> QED BY <1>1, <1>3, <1>5, <1>6

\* A step that collects no result keeps the sums of those collected.
LEMMA SumsKeep ==
  ASSUME TypeOK, SumsInv, UNCHANGED totals, Counts' = Counts,
         \A t \in Counts : task'[t] = task[t],
         Distinct => \A t \in Counts : st'[HostOf[t]] = st[HostOf[t]]
  PROVE  TotalsInv'
<1>1. PICK c : c = Counts /\ c \in SUBSET Task /\ IsFiniteSet(c) BY CountsTasks
<1>2. PICK e, f : e = Errs /\ f = Errs' OBVIOUS
<1>3. PICK g, h : g = Trials /\ h = Trials' OBVIOUS
<1>4. PICK p, q : p = Processeds /\ q = Processeds' OBVIOUS
<1>5. \A t \in c : e[t] = f[t] BY <1>1, <1>2 DEF Errs, ErrorsOf
<1>6. Distinct => \A t \in c : g[t] = h[t] /\ p[t] = q[t]
  BY <1>1, <1>3, <1>4 DEF Trials, Processeds
<1>7. Sum(e, c) = Sum(f, c) BY <1>1, <1>5, SumSame
<1>8. Distinct => Sum(g, c) = Sum(h, c) /\ Sum(p, c) = Sum(q, c) BY <1>1, <1>6, SumSame
<1>9. /\ totals.errors = Sum(e, c)
      /\ Distinct => totals.trial = Sum(g, c) /\ totals.processed = Sum(p, c)
  BY <1>1, <1>2, <1>3, <1>4 DEF SumsInv, TotalsInv
<1>10. /\ Sum(Errs, Counts)' = Sum(f, c) /\ Sum(Trials, Counts)' = Sum(h, c)
       /\ Sum(Processeds, Counts)' = Sum(q, c)
  BY <1>1, <1>2, <1>3, <1>4
<1>11. Distinct' = Distinct BY DEF Distinct
<1> QED BY <1>7, <1>8, <1>9, <1>10, <1>11 DEF TotalsInv

\* The result of the task the loop is at goes into the sums.
LEMMA SumsGrow ==
  ASSUME TypeOK, SumsInv, pc = "add", pc' = "doneCheck", UNCHANGED <<k, task, st>>,
         totals'.errors = totals.errors + ErrorsOf(k),
         totals'.trial = totals.trial + seen.trial,
         totals'.processed = totals.processed + seen.processed
  PROVE  TotalsInv'
<1>1. k \in Task /\ NumTasks \in Nat /\ Task = 1..NumTasks
  BY ExecuteAssumption, CountsTasks DEF Task, Collecting
<1> DEFINE c == 1..(k - 1)
<1>2. Counts = c /\ Counts' = 1..k /\ 1..k = c \cup {k} /\ k \notin c /\ c \in SUBSET Task
  BY <1>1 DEF Counts, Collecting, Added
<1>3. IsFiniteSet(c) BY <1>1, FS_Interval
<1> HIDE DEF c
<1>4. PICK e, g, p : e = Errs /\ g = Trials /\ p = Processeds OBVIOUS
<1>5. Errs' = e /\ Trials' = g /\ Processeds' = p BY <1>4 DEF Errs, ErrorsOf, Trials, Processeds
<1>6. \A t \in Task : e[t] = ErrorsOf(t) /\ e[t] \in Int
  <2>1. ASSUME NEW t \in Task PROVE task[t].errors \in Int
    BY DEF TypeOK, TaskType, TaskRecord
  <2> QED BY <1>4, <2>1 DEF Errs, ErrorsOf
<1>7. \A t \in Task : /\ g[t] = st[HostOf[t]].trial /\ g[t] \in Int
                      /\ p[t] = st[HostOf[t]].processed /\ p[t] \in Int
  <2>1. ASSUME NEW t \in Task PROVE st[HostOf[t]].trial \in Int /\ st[HostOf[t]].processed \in Int
    BY ExecuteAssumption DEF TypeOK, AggrType, Task
  <2> QED BY <1>4, <2>1 DEF Trials, Processeds
<1>8. ASSUME NEW f, \A t \in Task : f[t] \in Int
      PROVE  Sum(f, c \cup {k}) = f[k] + Sum(f, c) /\ Sum(f, c) \in Int
  <2>1. \A y \in c \cup {k} : f[y] \in Int BY <1>1, <1>2, <1>8
  <2> QED BY <1>2, <1>3, <2>1, SumAdd
<1>9. totals.errors = Sum(e, c) BY <1>2, <1>4 DEF SumsInv, TotalsInv
<1>10. Distinct => /\ totals.trial = Sum(g, c) /\ seen.trial = g[k]
                   /\ totals.processed = Sum(p, c) /\ seen.processed = p[k]
  BY <1>1, <1>2, <1>4, <1>7 DEF SumsInv, TotalsInv
<1>11. /\ Sum(Errs, Counts)' = Sum(e, c \cup {k}) /\ Sum(Trials, Counts)' = Sum(g, c \cup {k})
       /\ Sum(Processeds, Counts)' = Sum(p, c \cup {k})
  BY <1>2, <1>5
<1>12. Distinct' = Distinct BY DEF Distinct
<1>13. totals'.errors = Sum(e, c \cup {k})
  <2>1. e[k] = ErrorsOf(k) /\ e[k] \in Int BY <1>1, <1>6
  <2>2. Sum(e, c \cup {k}) = e[k] + Sum(e, c) /\ Sum(e, c) \in Int BY <1>6, <1>8
  <2> QED BY <1>9, <2>1, <2>2
<1>14. Distinct => totals'.trial = Sum(g, c \cup {k}) /\ totals'.processed = Sum(p, c \cup {k})
  <2>1. g[k] \in Int /\ p[k] \in Int BY <1>1, <1>7
  <2>2. Sum(g, c \cup {k}) = g[k] + Sum(g, c) /\ Sum(g, c) \in Int BY <1>7, <1>8
  <2>3. Sum(p, c \cup {k}) = p[k] + Sum(p, c) /\ Sum(p, c) \in Int BY <1>7, <1>8
  <2> QED BY <1>10, <2>1, <2>2, <2>3
<1> QED BY <1>11, <1>12, <1>13, <1>14 DEF TotalsInv

\* A result has no error when it is clean.
LEMMA NoError == ASSUME TypeOK, NEW t \in Task PROVE ErrorsOf(t) \in Nat /\ (ErrorsOf(t) = 0 <=> Clean(t))
<1>1. task[t].errors \in Nat BY DEF TypeOK, TaskType, TaskRecord
<1> QED BY <1>1 DEF ErrorsOf, Clean

\* Every step of an undisturbed run keeps the totals true.
LEMMA SumsStep ==
  ASSUME IInv, AloneInv, SumsInv, [Next]_vars, UNCHANGED signals
  PROVE  SumsInv'
<1> USE DEF mainVars, stopVars, aggrVars
<1>0. /\ StopType /\ FrameInv /\ TypeOK /\ pc \in BaseLabels /\ handlers = << >> /\ ~abort
      /\ ResultInv /\ signals \in Nat /\ (retrying => task[k].at # "ok") /\ ending # "raised" /\ ending \in {"ok", "error", "raised"}
      /\ totals.errors \in Nat
  BY DEF IInv, TypeOK, MainType, AloneInv, FrameType, ResultInv, AggrType
<1>1. /\ Depth = 0 /\ Label = pc
      /\ \A l : At(l) <=> pc = l
      /\ \A l : Goto(l) => pc' = l /\ handlers' = handlers
      /\ Return /\ pc # "again" => pc' = "exit" /\ handlers' = handlers
  BY <1>0, OwnFrame
<1>2. pc \notin {"set", "again"}
  BY <1>0 DEF BaseLabels, CleanLabels, Submitting, Collecting
<1>3. Counts \in SUBSET Task /\ (pc \in Collecting => k \in Task) /\ (pc \in Added => pc \in Collecting)
  BY <1>0, CountsTasks
<1>4. Distinct' = Distinct BY DEF Distinct
\* Steps that only move on.
<1>5. ASSUME UNCHANGED <<totals, ending, k, seen, task, st>>, Counts' = Counts,
             pc' \in Added <=> pc \in Added,
             pc' \in {"readProcessed", "add"} => pc' = pc
      PROVE  SumsInv'
  <2>1. TotalsInv'
    BY <1>0, <1>5, SumsKeep
  <2>2. (totals'.errors = 0) = (ending' = "ok" /\ (pc' \in Added => Clean(k)'))
    BY <1>5 DEF SumsInv, Clean
  <2> QED BY <1>4, <1>5, <2>1, <2>2 DEF SumsInv
<1>6. CASE RegisterCleanup \/ LogStart \/ Submit \/ StartHost
  <2>1. pc \in {"register"} \cup Submitting
    BY <1>1, <1>6 DEF RegisterCleanup, LogStart, Submit, StartHost, Inside, Submitting
  <2>2. pc \notin Added /\ Counts = {} BY <2>1, OwnLabels DEF Counts, Added, Collecting
  <2>3. UNCHANGED <<totals, ending>>
        /\ (pc' = "clean" => NumTasks = 0) /\ (pc' = "result" => k' = 1)
        /\ pc' \in {"register", "clean", "result"} \cup Submitting
    BY <1>6 DEF RegisterCleanup, LogStart, Submit, StartHost, Submitting
  <2>4. pc' \notin Added /\ pc' \notin {"readProcessed", "add"}
    BY <2>3 DEF Added, Submitting, CleanLabels
  <2>5. Counts' = {}
    <3>1. CASE pc' = "result" BY <2>3, <3>1 DEF Counts, Added, Collecting
    <3>2. CASE pc' = "clean" BY <2>3, <3>2 DEF Counts, Added, Collecting, CleanLabels, Task
    <3>3. CASE pc' \in {"register"} \cup Submitting
      BY <3>3, OwnLabels DEF Counts, Added, Collecting
    <3> QED BY <2>3, <3>1, <3>2, <3>3
  <2>6. TotalsInv'
    BY <1>0, <2>2, <2>3, <2>5, SumsKeep
  <2> QED BY <2>2, <2>3, <2>4, <2>6 DEF SumsInv
<1>7. CASE EmitFails \/ Unwind
  <2>1. ~cleaned => logUp BY <1>0 DEF FrameInv
  <2>2. pc \in {"startLog", "doneLog", "unwind"} BY <1>1, <1>7 DEF EmitFails, Unwind
  <2>3. ~cleaned /\ pc # "unwind"
    BY <1>0, <2>2, OwnLabels DEF AloneInv, ResultInv
  <2> QED BY <1>1, <1>7, <2>1, <2>3 DEF EmitFails, Unwind
<1>8. CASE EmitCheck
  <2>1. /\ <<pc, pc'>> \in { <<"startCheck", "startLog">>, <<"doneCheck", "doneLog">>,
                             <<"sumCheck", "sumLog">> }
        /\ UNCHANGED <<totals, ending, k, seen, task, st>>
    BY <1>1, <1>8 DEF EmitCheck
  <2>2. Counts' = Counts /\ (pc' \in Added <=> pc \in Added)
    BY <2>1 DEF Counts, Added, Collecting, CleanLabels
  <2> QED BY <1>5, <2>1, <2>2
<1>9. CASE TakeResult \/ FindRecord \/ ReadProcessed
  <2>1. /\ <<pc, pc'>> \in { <<"result", "read">>, <<"read", "readTrial">>,
                             <<"readProcessed", "add">> }
        /\ UNCHANGED <<totals, ending, k, task, st>>
        /\ seen'.trial = seen.trial
        /\ pc' = "add" => seen'.processed = st[HostOf[k]].processed
    BY <1>0, <1>1, <1>9 DEF TakeResult, FindRecord, ReadProcessed, Inside, TypeOK, MainType
  <2>2. Counts' = Counts /\ pc' \notin Added /\ pc \notin Added
    BY <2>1 DEF Counts, Added, Collecting, CleanLabels
  <2>3. TotalsInv'
    BY <1>0, <2>1, <2>2, SumsKeep
  <2> QED BY <1>4, <2>1, <2>2, <2>3 DEF SumsInv
<1>10. CASE ReadTrial
  <2>1. /\ pc = "readTrial" /\ pc' = "readProcessed" /\ UNCHANGED <<totals, ending, k, task, st>>
        /\ seen'.trial = st[HostOf[k]].trial
    BY <1>0, <1>1, <1>10 DEF ReadTrial, TypeOK, MainType
  <2>2. Counts' = Counts /\ pc' \notin Added /\ pc \notin Added
    BY <2>1 DEF Counts, Added, Collecting, CleanLabels
  <2>3. TotalsInv'
    BY <1>0, <2>1, <2>2, SumsKeep
  <2> QED BY <1>4, <2>1, <2>2, <2>3 DEF SumsInv
<1>11. CASE AddTotals
  <2>1. /\ pc = "add" /\ pc' = "doneCheck" /\ UNCHANGED <<ending, k, task, st, seen>>
        /\ totals'.errors = totals.errors + ErrorsOf(k)
        /\ totals'.trial = totals.trial + seen.trial
        /\ totals'.processed = totals.processed + seen.processed
    <3>1. (IF retrying THEN 1 ELSE ErrorsOf(k)) = ErrorsOf(k) BY <1>0 DEF ErrorsOf
    <3> QED BY <1>0, <1>1, <1>11, <3>1 DEF AddTotals, Inside
  <2>2. TotalsInv'
    BY <1>0, <2>1, SumsGrow
  <2>3. k \in Task BY <1>3, <2>1 DEF Collecting
  <2>4. ErrorsOf(k) \in Nat /\ (ErrorsOf(k) = 0 <=> Clean(k)) BY <1>0, <2>3, NoError
  <2>5. totals'.errors = 0 <=> totals.errors = 0 /\ Clean(k)
    BY <1>0, <2>1, <2>4
  <2>6. totals.errors = 0 <=> ending = "ok" BY <2>1 DEF SumsInv, Added
  <2>7. Clean(k)' <=> Clean(k) BY <2>1 DEF Clean
  <2>8. totals'.errors = 0 <=> (ending' = "ok" /\ (pc' \in Added => Clean(k)'))
    BY <2>1, <2>5, <2>6, <2>7 DEF Added
  <2>9. (totals'.errors = 0) = (ending' = "ok" /\ (pc' \in Added => Clean(k)')) BY <2>8
  <2> QED BY <2>1, <2>2, <2>9 DEF SumsInv
<1>12. CASE LogDone
  <2>1. /\ pc = "doneLog" /\ UNCHANGED <<totals, task, st, seen>>
        /\ ending' = (IF ~Clean(k) THEN "error" ELSE ending)
        /\ \/ k = NumTasks /\ pc' = "clean" /\ k' = k
           \/ pc' = "result" /\ k' = k + 1
    <3>1. retrying => ~Clean(k) BY <1>0 DEF Clean
    <3> QED BY <1>0, <1>1, <1>12, <3>1 DEF LogDone, Inside
  <2>2. k \in Task /\ NumTasks \in Nat
    BY <1>3, <2>1, ExecuteAssumption DEF Collecting
  <2>3. Counts' = Counts
    BY <2>1, <2>2 DEF Counts, Added, Collecting, CleanLabels, Task
  <2>4. TotalsInv'
    BY <1>0, <2>1, <2>3, SumsKeep
  <2>5. totals.errors = 0 <=> ending = "ok" /\ Clean(k) BY <2>1 DEF SumsInv, Added
  <2>6. ending' = "ok" <=> ending = "ok" /\ Clean(k) BY <2>1
  <2>7. pc' \notin Added \cup {"readProcessed", "add"} BY <2>1 DEF Added
  <2>8. (totals'.errors = 0) = (ending' = "ok") BY <2>1, <2>5, <2>6
  <2> QED BY <2>4, <2>7, <2>8 DEF SumsInv
<1>13. CASE Acquire \/ CleanupTemps \/ CloseSession \/ UNCHANGED vars
  <2>1. UNCHANGED <<pc, totals, ending, k, seen, task, st>>
    BY <1>13 DEF Acquire, CleanupTemps, CloseSession, vars
  <2>2. Counts' = Counts BY <2>1 DEF Counts
  <2> QED BY <1>5, <2>1, <2>2
<1>14. CASE SetAbort \/ Signal
  <2>1. ~SetAbort BY <1>1, <1>2 DEF SetAbort, Inside
  <2>2. ~Signal BY <1>0 DEF Signal
  <2> QED BY <1>14, <2>1, <2>2
<1>15. CASE RunCleanups \/ BeginSummary \/ CopyTotals \/ LogSummary \/ ShutdownLogging \/ CleanupsDone
  <2>1. pc \in {"clean", "fn", "sum", "sumLog", "stop"} /\ UNCHANGED <<totals, ending, k, seen, task, st>>
    BY <1>1, <1>2, <1>15
    DEF RunCleanups, BeginSummary, CopyTotals, LogSummary, ShutdownLogging, CleanupsDone, Inside
  <2>2. Return \/ \E l \in {"fn", "sum", "sumCheck", "stop"} : Goto(l)
    BY <1>15
    DEF RunCleanups, BeginSummary, CopyTotals, LogSummary, ShutdownLogging, CleanupsDone
  <2>3. pc' \in {"fn", "sum", "sumCheck", "stop", "exit"} BY <1>1, <1>2, <2>2
  <2>4. Counts' = Counts /\ pc \notin Added /\ pc' \notin Added
    BY <2>1, <2>3 DEF Counts, Added, Collecting, CleanLabels
  <2> QED BY <1>5, <2>1, <2>3, <2>4
<1>16. ASSUME NEW t \in Task, Local(t) \/ Transfer(t) PROVE SumsInv'
  <2>1. UNCHANGED <<pc, k, seen, ending, totals>>
    BY <1>16
    DEF Local, Transfer, StartTask, MakeDirectory, NextEntry, CheckBefore, BeginTransfer,
        CheckAfter, Report, ReportCheck, ReportLog, TransferOk, TransferFails, WorkerFrame
  <2>2. ~Done(t) /\ \A u \in Task \ {t} : task'[u] = task[u]
    BY <1>0, <1>16, WorkerStep DEF IInv, Done
  <2>3. st' = st \/ \E r : st' = [st EXCEPT ![HostOf[t]] = r]
    BY <1>16
    DEF Local, Transfer, StartTask, MakeDirectory, NextEntry, CheckBefore, BeginTransfer,
        CheckAfter, Report, ReportCheck, ReportLog, TransferOk, TransferFails
  <2>4. ASSUME NEW u \in Task, u # t, Distinct PROVE st'[HostOf[u]] = st[HostOf[u]]
    <3>1. HostOf[u] # HostOf[t] BY <2>4 DEF Distinct
    <3>2. HostOf[u] \in Host /\ st \in [Host -> [trial : Nat, processed : Nat]]
      BY <1>0, ExecuteAssumption DEF TypeOK, AggrType, Task
    <3> QED BY <2>3, <3>1, <3>2
  <2>5. \A u \in Counts : u # t BY <1>0, <1>3, <2>2, CountsDone
  <2>6. pc \in Collecting \ {"result"} => k # t BY <1>0, <1>3, <2>2, CountsDone
  <2>7. Counts' = Counts BY <2>1 DEF Counts
  <2>8. TotalsInv'
    BY <1>0, <1>3, <2>1, <2>2, <2>4, <2>5, <2>7, SumsKeep
  <2>9. pc \in Added => Clean(k)' = Clean(k)
    <3>1. pc \in Added => k \in Task \ {t} BY <1>3, <2>6 DEF Added
    <3> QED BY <2>1, <2>2, <3>1 DEF Clean
  <2>10. Distinct /\ pc \in {"readProcessed", "add"} => st'[HostOf[k]] = st[HostOf[k]]
    BY <1>3, <2>4, <2>6 DEF Collecting
  <2>11. (totals'.errors = 0) = (ending' = "ok" /\ (pc' \in Added => Clean(k)'))
    BY <2>1, <2>9 DEF SumsInv
  <2> QED BY <1>4, <2>1, <2>8, <2>10, <2>11 DEF SumsInv
<1> QED BY <1>6, <1>7, <1>8, <1>9, <1>10, <1>11, <1>12, <1>13, <1>14, <1>15, <1>16 DEF Next, Main

\* What both theorems about the summary rest on is kept by every step.
LEMMA SummaryInv ==
  /\ Init => OrderInv /\ ReportInv /\ UndisturbedInv
  /\ IInv /\ OrderInv /\ ReportInv /\ UndisturbedInv /\ [Next]_vars
       => OrderInv' /\ ReportInv' /\ UndisturbedInv'
<1>1. Init => OrderInv /\ ReportInv /\ UndisturbedInv
  <2>1. SUFFICES ASSUME Init PROVE OrderInv /\ ReportInv /\ UndisturbedInv OBVIOUS
  <2>2. ran = << >> /\ summary = << >> /\ ~cleaned BY <2>1 DEF Init
  <2>3. OrderInv
    <3>1. Len(ran) = 0 /\ Len(summary) = 0 BY <2>2
    <3> QED BY <2>2, <3>1 DEF OrderInv
  <2>4. ReportInv
    <3>1. \A t \in Task : task[t].trial = 0 /\ task[t].processed = 0 /\ HostOf[t] \in Host
      BY <2>1, ExecuteAssumption DEF Init, Unstarted, Task
    <3>2. \A h \in Host : st[h] = Zero BY <2>1 DEF Init
    <3> QED BY <3>1, <3>2 DEF ReportInv, Zero
  <2>5. AloneInv BY <2>1, OwnLabels DEF Init, AloneInv
  <2>6. SumsInv
    <3>1. pc = "register" /\ totals.errors = 0 /\ totals.trial = 0 /\ totals.processed = 0 /\ ending = "ok"
      BY <2>1 DEF Init
    <3>2. Counts = {} /\ pc \notin Added \cup {"readProcessed", "add"}
      BY <3>1 DEF Counts, Added, Collecting, CleanLabels
    <3>3. Sum(Errs, {}) = 0 /\ Sum(Trials, {}) = 0 /\ Sum(Processeds, {}) = 0 BY SumEmpty
    <3> QED BY <3>1, <3>2, <3>3 DEF SumsInv, TotalsInv
  <2> QED BY <2>3, <2>4, <2>5, <2>6 DEF UndisturbedInv
<1>2. IInv /\ OrderInv /\ ReportInv /\ UndisturbedInv /\ [Next]_vars
        => OrderInv' /\ ReportInv' /\ UndisturbedInv'
  <2>1. SUFFICES ASSUME IInv, OrderInv, ReportInv, UndisturbedInv, [Next]_vars
                 PROVE  OrderInv' /\ ReportInv' /\ UndisturbedInv'
    OBVIOUS
  <2>2. OrderInv' BY <2>1, OrderStep DEF IInv
  <2>3. ReportInv' BY <2>1, ReportStep
  <2>4. UndisturbedInv'
    <3>1. SUFFICES ASSUME signals' = 0 PROVE AloneInv' /\ SumsInv' BY DEF UndisturbedInv
    <3>2. signals \in Nat BY <2>1 DEF IInv, TypeOK, FrameType
    <3>3. signals' = signals \/ signals' = signals + 1
      <4>1. CASE Main
        BY <4>1
        DEF Main, mainVars, Acquire, RegisterCleanup, StartHost, EmitCheck, LogStart, Submit,
            EmitFails, TakeResult, FindRecord, ReadTrial, ReadProcessed, AddTotals, LogDone,
            Unwind, SetAbort, RunCleanups, CleanupTemps, CloseSession, BeginSummary, CopyTotals,
            LogSummary, ShutdownLogging, CleanupsDone
      <4>2. CASE Signal BY <4>2 DEF Signal
      <4>3. ASSUME NEW t \in Task, Local(t) \/ Transfer(t) PROVE UNCHANGED signals
        BY <2>1, <4>3, WorkerTypeStep DEF IInv
      <4>4. CASE UNCHANGED vars BY <4>4 DEF vars
      <4> QED BY <2>1, <4>1, <4>2, <4>3, <4>4 DEF Next
    <3>4. signals = 0 /\ UNCHANGED signals BY <3>1, <3>2, <3>3
    <3>5. AloneInv /\ SumsInv BY <2>1, <3>4 DEF UndisturbedInv
    <3> QED BY <2>1, <3>4, <3>5, AloneStep, SumsStep
  <2> QED BY <2>2, <2>3, <2>4
<1> QED BY <1>1, <1>2

\* At the end of a run that no signal disturbs the totals printed are the sums of all results.
LEMMA SummaryAtEnd ==
  ASSUME IInv, UndisturbedInv, pc = "exit", signals = 0
  PROVE  /\ AloneInv /\ cleaned /\ cleanNext = 0 /\ ~logUp /\ summary = <<totals>>
         /\ totals.errors = Total(Errs) /\ (totals.errors = 0) = (ending = "ok")
         /\ Distinct => totals.trial = Total(Trials) /\ totals.processed = Total(Processeds)
<1>1. AloneInv /\ SumsInv BY DEF UndisturbedInv
<1>2. cleaned /\ cleanNext = 0 /\ ~logUp /\ summary = <<totals>> BY <1>1 DEF AloneInv
<1>3. Counts = Task /\ pc \notin Added BY DEF Counts, Added, Collecting, CleanLabels
<1>4. /\ Total(Errs) = Sum(Errs, Task) /\ Total(Trials) = Sum(Trials, Task)
      /\ Total(Processeds) = Sum(Processeds, Task)
  BY TotalIsSum
<1> QED BY <1>1, <1>2, <1>3, <1>4 DEF SumsInv, TotalsInv

\* The summary of a run that no signal disturbs, for any number of hosts, entries and workers
\* and hosts listed any number of times: it is printed once, after the sessions are closed;
\* its errors are the workers', and there are some exactly when the exit status says so.
THEOREM SummaryTrue == Spec => []SummaryExact
<1>1. IInv /\ OrderInv /\ UndisturbedInv => SummaryExact
  <2>1. SUFFICES ASSUME IInv, OrderInv, UndisturbedInv, pc = "exit", signals = 0
                 PROVE  /\ ran = <<CleanRemote, CleanLocal, CloseAll, Summary>> /\ open = {} /\ ~logUp
                        /\ Len(summary) = 1
                        /\ (summary[1].errors = 0) = (ending = "ok")
                        /\ summary[1].errors = Total([t \in Task |-> ErrorsOf(t)])
    BY DEF SummaryExact
  <2>2. StopType BY <2>1 DEF IInv, TypeOK
  <2>3. /\ AloneInv /\ cleaned /\ cleanNext = 0 /\ ~logUp /\ summary = <<totals>>
        /\ totals.errors = Total(Errs) /\ (totals.errors = 0) = (ending = "ok")
    BY <2>1, SummaryAtEnd
  <2>4. ran # << >> /\ ran[1] = 4 BY <2>3 DEF AloneInv, CleanRemote
  <2>5. ran \in Seq(1..4) /\ Len(ran) \in Nat BY <2>2 DEF StopType, CleanRemote
  <2>6. Len(ran) = 4 /\ open = {}
    BY <2>1, <2>3, <2>4, <2>5 DEF OrderInv, CloseAll
  <2>7. ran = <<CleanRemote, CleanLocal, CloseAll, Summary>>
    <3>1. ran[2] = ran[1] - 1 /\ ran[3] = ran[2] - 1 /\ ran[4] = ran[3] - 1
      <4>1. 1 \in 1..(Len(ran) - 1) /\ 2 \in 1..(Len(ran) - 1) /\ 3 \in 1..(Len(ran) - 1)
        BY <2>6
      <4>2. ran[1 + 1] = ran[1] - 1 /\ ran[2 + 1] = ran[2] - 1 /\ ran[3 + 1] = ran[3] - 1
        BY <2>1, <4>1 DEF OrderInv
      <4> QED BY <4>2
    <3>2. ran[2] = 3 /\ ran[3] = 2 /\ ran[4] = 1 BY <2>4, <3>1
    <3> QED BY <2>4, <2>5, <2>6, <3>2 DEF CleanRemote, CleanLocal, CloseAll, Summary
  <2>8. Len(summary) = 1 /\ summary[1] = totals BY <2>3
  <2> QED BY <2>3, <2>6, <2>7, <2>8 DEF Errs
<1> QED BY <1>1, SummaryInv, Invariance, PTL DEF Spec

\* With no host listed twice, the summary of such a run adds up what the workers have tried
\* and transferred: what each has reported last, and all of it if the worker ended itself.
THEOREM ProgressTrue == Spec => []SummaryProgress
<1>1. IInv /\ ReportInv /\ UndisturbedInv => SummaryProgress
  <2>1. SUFFICES ASSUME IInv, ReportInv, UndisturbedInv, pc = "exit", signals = 0, Distinct
                 PROVE  /\ \A t \in Task : task[t].at = "ok" =>
                             st[HostOf[t]] = [trial |-> task[t].trial,
                                              processed |-> task[t].processed]
                        /\ summary[1].trial = Total([t \in Task |-> st[HostOf[t]].trial])
                        /\ summary[1].processed = Total([t \in Task |-> st[HostOf[t]].processed])
    BY DEF SummaryProgress
  <2>2. \A t \in Task : task[t].at = "ok" =>
           st[HostOf[t]] = [trial |-> task[t].trial, processed |-> task[t].processed]
    BY <2>1 DEF ReportInv, Reported
  <2>3. summary = <<totals>> /\ totals.trial = Total(Trials) /\ totals.processed = Total(Processeds)
    BY <2>1, SummaryAtEnd
  <2> QED BY <2>2, <2>3 DEF Trials, Processeds
<1> QED BY <1>1, SummaryInv, Invariance, PTL DEF Spec
=============================================================================
