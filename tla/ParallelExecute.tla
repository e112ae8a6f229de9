-------------------------- MODULE ParallelExecute --------------------------
(***************************************************************************)
(* One run of execute() of gather_parallel.py and scatter_parallel.py: the *)
(* main thread registers clean-ups, starts one worker per task, collects   *)
(* the futures and cleans up; the pool's workers run run_host_gather or    *)
(* run_host_scatter; and the handler that the command line installs for    *)
(* SIGINT and SIGTERM runs on the main thread, on top of whatever that     *)
(* thread is doing, possibly on top of itself.                             *)
(*                                                                         *)
(* The main thread is a base frame at label pc and a stack of handler      *)
(* frames. Locks are Python's non-reentrant ones. A label of Sections is *)
(* a critical section: a frame at such a label first takes the lock, then  *)
(* does the section's body and releases it. A worker's sections are one    *)
(* step each, taken while the lock is free.                                *)
(***************************************************************************)
EXTENDS Integers, Sequences, FiniteSets, FiniteSetsExt

CONSTANTS
  NumTasks,      \* lines of the hosts file that passed the connectivity probe
  Host,          \* host names
  HostOf,        \* the host of each task: a name may be listed twice
  Entries,       \* the length of each host's plan
  Parallel,      \* the requested number of workers
  Gather,        \* TRUE for gm-gather, which makes local directories
  MaxSignals     \* bound: how many signals arrive

ASSUME ExecuteAssumption ==
  /\ NumTasks \in Nat
  /\ HostOf \in [1..NumTasks -> Host]
  /\ Entries \in [Host -> Nat]
  /\ Parallel \in Int
  /\ Gather \in BOOLEAN
  /\ MaxSignals \in Nat

VARIABLES
  pc,            \* the base frame's label
  k,             \* its loop index: the task being submitted or collected
  seen,          \* the progress done_host has copied: [trial, processed]
  retrying,      \* is done_host running in an except branch?
  ending,        \* what execute() will end with: "ok", "error" or "raised"
  handlers,      \* labels of the handler frames, the last one running
  signals,       \* signals delivered so far
  owner,         \* who holds each lock: a frame's depth, or Free
  abort,         \* GracefulStop.abort_event
  registered,    \* how many clean-ups are registered
  cleaned,       \* GracefulStop._cleaned
  cleanNext,     \* the clean-up run_cleanups() calls next, last registered first
  ran,           \* history: the clean-ups that have run, in order
  open,          \* hosts whose SSH and SFTP sessions are open
  task,          \* each worker's label and counters
  st,            \* HostLogAggregator._hosts: progress per host
  totals,        \* its counters _te, _tp and _tt
  summary,       \* history: the totals of each summary line
  logUp          \* is core_logging._logger set?

mainVars == <<pc, k, seen, retrying, ending>>
stopVars == <<abort, registered, cleaned, cleanNext, ran, open>>
aggrVars == <<st, totals, summary, logUp>>
vars == <<mainVars, handlers, signals, owner, stopVars, task, aggrVars>>

Task == 1..NumTasks

\* The clean-ups in the order they are registered; the last registered runs first.
Summary == 1
CloseAll == 2
CleanLocal == 3
CleanRemote == 4

Zero == [trial |-> 0, processed |-> 0]
Unstarted == [at |-> "idle", trial |-> 0, processed |-> 0, errors |-> 0, late |-> 0]

Workers == IF Parallel <= 0 THEN 1 ELSE Parallel          \* _clamp_parallel

Init ==
  /\ pc = "register"
  /\ k = 1
  /\ seen = Zero
  /\ retrying = FALSE
  /\ ending = "ok"
  /\ handlers = << >>
  /\ signals = 0
  /\ owner = [l \in {"gs", "event", "aggr", "logq"} |-> -1]
  /\ abort = FALSE
  /\ registered = 0
  /\ cleaned = FALSE
  /\ cleanNext = 0
  /\ ran = << >>
  /\ open = {HostOf[t] : t \in Task}
  /\ task = [t \in Task |-> Unstarted]
  /\ st = [h \in Host |-> Zero]
  /\ totals = [errors |-> 0, processed |-> 0, trial |-> 0]
  /\ summary = << >>
  /\ logUp = TRUE

-----------------------------------------------------------------------------
(* Frames of the main thread and locks                                     *)

Depth == Len(handlers)
Free == -1

LabelAt(d) == IF d = 0 THEN pc ELSE handlers[d]
Label == LabelAt(Depth)

StopSections == {"register", "clean", "again"}
AggrSections == {"start", "read", "add", "sum"}
QueueSections == {"startLog", "doneLog", "sumLog", "stop"}
Emitting == {"startLog", "doneLog", "sumLog"}

LockOf(l) ==
  IF l \in StopSections THEN "gs"
  ELSE IF l = "set" THEN "event"
  ELSE IF l \in AggrSections THEN "aggr" ELSE "logq"
Sections == StopSections \cup {"set"} \cup AggrSections \cup QueueSections
Locks == {"gs", "event", "aggr", "logq"}

At(l) == Label = l
Goto(l) ==
  IF Depth = 0
    THEN pc' = l /\ UNCHANGED handlers
    ELSE handlers' = [handlers EXCEPT ![Depth] = l] /\ UNCHANGED pc

\* The running frame is at label l and inside its critical section.
Inside(l) == At(l) /\ owner[LockOf(l)] = Depth
ReleaseForgets(l) ==                                      \* mutant: one path keeps the lock
  owner' = IF l = "add" THEN owner ELSE [owner EXCEPT ![LockOf(l)] = Free]
Release(l) == owner' = [owner EXCEPT ![LockOf(l)] = Free]

\* put_nowait() on the log queue follows the assert in _emit: it needs _logger.
Acquire ==
  /\ Label \in Sections
  /\ Label \in Emitting => logUp
  /\ owner[LockOf(Label)] = Free
  /\ owner' = [owner EXCEPT ![LockOf(Label)] = Depth]
  /\ UNCHANGED <<mainVars, handlers, signals, stopVars, task, aggrVars>>

\* The running frame waits for a lock that a frame under it holds: for ever.
SelfBlocked ==
  /\ Label \in Sections
  /\ owner[LockOf(Label)] \in 0..(Depth - 1)

-----------------------------------------------------------------------------
(* Results of the workers                                                  *)

Finished == {"ok", "cancelled", "crashed"}
Pending == {"idle", "queued"}
Done(t) == task[t].at \in Finished
ErrorsOf(t) == IF task[t].at = "ok" THEN task[t].errors ELSE 1
Clean(t) == task[t].at = "ok" /\ task[t].errors = 0

-----------------------------------------------------------------------------
(* The base frame: execute()                                               *)

RegisterCleanup ==
  /\ Inside("register")
  /\ registered' = registered + 1
  /\ Release("register")
  /\ pc' = IF registered + 1 < CleanRemote THEN "register"
           ELSE IF NumTasks = 0 THEN "clean" ELSE "start"
  /\ UNCHANGED <<k, seen, retrying, ending, handlers, signals, task, aggrVars,
                 abort, cleaned, cleanNext, ran, open>>

StartHost ==
  /\ Inside("start")
  /\ st' = [st EXCEPT ![HostOf[k]] = Zero]
  /\ Release("start")
  /\ pc' = "startCheck"
  /\ UNCHANGED <<k, seen, retrying, ending, handlers, signals, stopVars, task,
                 totals, summary, logUp>>

\* _emit() starts the logging again when it finds it shut down.
EmitCheck ==
  /\ \/ At("startCheck") /\ Goto("startLog")
     \/ At("doneCheck") /\ Goto("doneLog")
     \/ At("sumCheck") /\ Goto("sumLog")
  /\ logUp' = TRUE
  /\ UNCHANGED <<k, seen, retrying, ending, signals, owner, stopVars, task,
                 st, totals, summary>>

LogStart ==
  /\ Inside("startLog")
  /\ Release("startLog")
  /\ pc' = "submit"
  /\ UNCHANGED <<k, seen, retrying, ending, handlers, signals, stopVars, task, aggrVars>>

Submit ==
  /\ At("submit")
  /\ task' = [task EXCEPT ![k].at = "queued"]
  /\ IF k = NumTasks
       THEN pc' = "result" /\ k' = 1
       ELSE pc' = "start" /\ k' = k + 1
  /\ UNCHANGED <<seen, retrying, ending, handlers, signals, owner, stopVars, aggrVars>>

\* A handler shut the logging down between _emit's test and its use of _logger. In
\* start_host and in an except branch's done_host the exception leaves execute(); in the
\* try's done_host the except branch reports the host a second time, with one error.
EmitFails ==
  /\ ~logUp
  /\ \/ /\ At("startLog") \/ (At("doneLog") /\ retrying)
        /\ pc' = "unwind"
        /\ ending' = "raised"
        /\ UNCHANGED retrying
     \/ /\ At("doneLog")
        /\ ~retrying
        /\ pc' = "read"
        /\ retrying' = TRUE
        /\ UNCHANGED ending
  /\ UNCHANGED <<k, seen, handlers, signals, owner, stopVars, task, aggrVars>>

\* result() raises what ended a worker early: an except branch calls done_host then.
TakeResult ==
  /\ At("result")
  /\ Done(k)
  /\ pc' = "read"
  /\ retrying' = (task[k].at # "ok")
  /\ UNCHANGED <<k, seen, ending, handlers, signals, owner, stopVars, task,
                 aggrVars>>

\* done_host keeps a reference to the host's record and reads its fields unlocked.
FindRecord ==
  /\ Inside("read")
  /\ Release("read")
  /\ pc' = "readTrial"
  /\ UNCHANGED <<k, seen, retrying, ending, handlers, signals, stopVars, task, aggrVars>>

ReadTrial ==
  /\ At("readTrial")
  /\ seen' = [seen EXCEPT !.trial = st[HostOf[k]].trial]
  /\ pc' = "readProcessed"
  /\ UNCHANGED <<k, retrying, ending, handlers, signals, owner, stopVars, task, aggrVars>>

ReadProcessed ==
  /\ At("readProcessed")
  /\ seen' = [seen EXCEPT !.processed = st[HostOf[k]].processed]
  /\ pc' = "add"
  /\ UNCHANGED <<k, retrying, ending, handlers, signals, owner, stopVars, task, aggrVars>>

AddTotalsNoErrors ==                                      \* mutant: the result's errors are dropped
  /\ Inside("add")
  /\ totals' = [ errors    |-> totals.errors + (IF retrying THEN 1 ELSE 0),
                 processed |-> totals.processed + seen.processed,
                 trial     |-> totals.trial + seen.trial ]
  /\ Release("add")
  /\ pc' = "doneCheck"
  /\ UNCHANGED <<k, seen, retrying, ending, handlers, signals, stopVars, task,
                 st, summary, logUp>>

AddTotals ==
  /\ Inside("add")
  /\ totals' = [ errors    |-> totals.errors + (IF retrying THEN 1 ELSE ErrorsOf(k)),
                 processed |-> totals.processed + seen.processed,
                 trial     |-> totals.trial + seen.trial ]
  /\ Release("add")
  /\ pc' = "doneCheck"
  /\ UNCHANGED <<k, seen, retrying, ending, handlers, signals, stopVars, task,
                 st, summary, logUp>>

LogDone ==
  /\ Inside("doneLog")
  /\ Release("doneLog")
  /\ ending' = IF retrying \/ ~Clean(k) THEN "error" ELSE ending
  /\ retrying' = FALSE
  /\ IF k = NumTasks
       THEN pc' = "clean" /\ UNCHANGED k
       ELSE pc' = "result" /\ k' = k + 1
  /\ UNCHANGED <<seen, handlers, signals, stopVars, task, aggrVars>>

\* Leaving the pool's "with" block waits for every submitted task.
Unwind ==
  /\ At("unwind")
  /\ \A t \in Task : Done(t) \/ task[t].at = "idle"
  /\ pc' = "clean"
  /\ UNCHANGED <<k, seen, retrying, ending, handlers, signals, owner, stopVars, task,
                 aggrVars>>

-----------------------------------------------------------------------------
(* The signal handler, and run_cleanups() in either kind of frame          *)

Signal ==
  /\ signals < MaxSignals
  /\ pc # "exit"
  /\ signals' = signals + 1
  /\ handlers' = Append(handlers, "set")
  /\ UNCHANGED <<mainVars, owner, stopVars, task, aggrVars>>

SetAbort ==
  /\ Inside("set")
  /\ abort' = TRUE
  /\ Release("set")
  /\ Goto("clean")
  /\ UNCHANGED <<k, seen, retrying, ending, signals, registered, cleaned, cleanNext, ran,
                 open, task, aggrVars>>

\* run_cleanups() returns: execute() ends; the handler calls it a second time, then ends.
Return ==
  IF Depth = 0 THEN pc' = "exit" /\ UNCHANGED handlers
  ELSE IF At("again") THEN handlers' = SubSeq(handlers, 1, Depth - 1) /\ UNCHANGED pc
  ELSE Goto("again")

RunCleanups ==
  /\ \E l \in {"clean", "again"} : Inside(l) /\ Release(l)
  /\ IF cleaned
       THEN Return /\ UNCHANGED <<cleaned, cleanNext>>
       ELSE cleaned' = TRUE /\ cleanNext' = registered /\ Goto("fn")
  /\ UNCHANGED <<k, seen, retrying, ending, signals, abort, registered, ran, open, task,
                 aggrVars>>

FnReturnsRaises ==                                        \* mutant: an exception ends the loop
  /\ ran' = Append(ran, cleanNext)
  /\ cleanNext' = IF cleanNext = CloseAll THEN 0 ELSE cleanNext - 1
FnReturns == ran' = Append(ran, cleanNext) /\ cleanNext' = cleanNext - 1

\* Neither command line asks for temporaries to be removed: these two do nothing.
CleanupTemps ==
  /\ At("fn")
  /\ cleanNext \in {CleanLocal, CleanRemote}
  /\ FnReturns
  /\ UNCHANGED <<mainVars, handlers, signals, owner, abort, registered, cleaned, open, task,
                 aggrVars>>

CloseSessionNone ==                                       \* mutant: sessions are not closed
  /\ At("fn")
  /\ cleanNext = CloseAll
  /\ FnReturns
  /\ UNCHANGED <<mainVars, handlers, signals, owner, abort, registered, cleaned, open, task,
                 aggrVars>>

CloseSession ==
  /\ At("fn")
  /\ cleanNext = CloseAll
  /\ \/ \E h \in open : open' = open \ {h} /\ UNCHANGED <<ran, cleanNext>>
     \/ open = {} /\ FnReturns /\ UNCHANGED open
  /\ UNCHANGED <<mainVars, handlers, signals, owner, abort, registered, cleaned, task,
                 aggrVars>>

\* _cleanup_summary: summary() copies the totals, which only the base frame adds to...
BeginSummary ==
  /\ At("fn")
  /\ cleanNext = Summary
  /\ Goto("sum")
  /\ UNCHANGED <<k, seen, retrying, ending, signals, owner, stopVars, task, aggrVars>>

CopyTotals ==
  /\ Inside("sum")
  /\ Release("sum")
  /\ Goto("sumCheck")
  /\ UNCHANGED <<k, seen, retrying, ending, signals, stopVars, task, aggrVars>>

\* ...and logs them; then shutdown_logging() puts its sentinel on the same queue.
LogSummary ==
  /\ Inside("sumLog")
  /\ summary' = Append(summary, totals)
  /\ Release("sumLog")
  /\ Goto("stop")
  /\ UNCHANGED <<k, seen, retrying, ending, signals, stopVars, task, st, totals, logUp>>

ShutdownLogging ==
  /\ Inside("stop")
  /\ logUp' = FALSE
  /\ Release("stop")
  /\ FnReturns
  /\ Goto("fn")
  /\ UNCHANGED <<k, seen, retrying, ending, signals, abort, registered, cleaned, open, task,
                 st, totals, summary>>

CleanupsDone ==
  /\ At("fn")
  /\ cleanNext = 0
  /\ Return
  /\ UNCHANGED <<k, seen, retrying, ending, signals, owner, stopVars, task, aggrVars>>

-----------------------------------------------------------------------------
(* A worker: run_host_gather() or run_host_scatter()                       *)

CancelsNever == FALSE                                     \* mutant: the event is not polled
Cancels == abort                                          \* abort_point

Move(t, l) == task' = [task EXCEPT ![t] = [task[t] EXCEPT !.at = l]]
WorkerFrame == UNCHANGED <<mainVars, handlers, signals, owner, stopVars>>

\* The pool takes queued tasks in the order they were submitted.
Running == {t \in Task : task[t].at \notin Pending \cup Finished}

StartTask(t) ==
  /\ task[t].at = "queued"
  /\ \A u \in 1..(t - 1) : task[u].at # "queued"
  /\ Cardinality(Running) < Workers
  /\ Move(t, IF Cancels THEN "cancelled" ELSE IF Gather THEN "root" ELSE "top")
  /\ WorkerFrame /\ UNCHANGED aggrVars

\* mkdir outside the per-entry try: its exception ends the host.
MakeDirectory(t) ==
  /\ \/ task[t].at = "root" /\ \E l \in {"top", "crashed"} : Move(t, l)
     \/ task[t].at = "local" /\ \E l \in {"check", "crashed"} : Move(t, l)
  /\ WorkerFrame /\ UNCHANGED aggrVars

MoreEntriesOff(t) == task[t].trial <= Entries[HostOf[t]]  \* mutant: off by one
MoreEntries(t) == task[t].trial < Entries[HostOf[t]]

NextEntry(t) ==
  /\ task[t].at = "top"
  /\ \/ ~MoreEntries(t) /\ Move(t, "ok")
     \/ MoreEntries(t) /\ Cancels /\ Move(t, "cancelled")
     \/ /\ MoreEntries(t)
        /\ ~Cancels
        /\ task' = [task EXCEPT ![t] = [task[t] EXCEPT !.at = IF Gather THEN "local" ELSE "check",
                                               !.trial = @ + 1]]
  /\ WorkerFrame /\ UNCHANGED aggrVars

CheckBefore(t) ==
  /\ task[t].at = "check"
  /\ Move(t, IF Cancels THEN "cancelled" ELSE "call")
  /\ WorkerFrame /\ UNCHANGED aggrVars

BeginTransfer(t) ==
  /\ task[t].at = "call"
  /\ task' = [task EXCEPT ![t] = [task[t] EXCEPT !.at = "transfer",
                                            !.late = @ + IF abort THEN 1 ELSE 0]]
  /\ WorkerFrame /\ UNCHANGED aggrVars

TransferOk(t) ==
  /\ task[t].at = "transfer"
  /\ HostOf[t] \in open
  /\ Move(t, "after")
  /\ WorkerFrame /\ UNCHANGED aggrVars

TransferFailsSilently(t) ==                               \* mutant: errors += 1 forgotten
  /\ task[t].at = "transfer"
  /\ Move(t, "report")
  /\ WorkerFrame /\ UNCHANGED aggrVars

TransferFails(t) ==
  /\ task[t].at = "transfer"
  /\ task' = [task EXCEPT ![t] = [task[t] EXCEPT !.at = "report", !.errors = @ + 1]]
  /\ WorkerFrame /\ UNCHANGED aggrVars

CheckAfter(t) ==
  /\ task[t].at = "after"
  /\ \/ Cancels /\ Move(t, "cancelled")
     \/ ~Cancels /\ task' = [task EXCEPT ![t] = [task[t] EXCEPT !.at = "report", !.processed = @ + 1]]
  /\ WorkerFrame /\ UNCHANGED aggrVars

ReportEarly(t) ==                                         \* mutant: the count from before the transfer
  /\ task[t].at = "report"
  /\ owner["aggr"] = Free
  /\ st' = [st EXCEPT ![HostOf[t]] = [trial |-> task[t].trial, processed |-> @.processed]]
  /\ Move(t, "reportCheck")
  /\ WorkerFrame /\ UNCHANGED <<totals, summary, logUp>>

\* progress(): the counters under the lock, then a line through _emit.
Report(t) ==
  /\ task[t].at = "report"
  /\ owner["aggr"] = Free
  /\ st' = [st EXCEPT ![HostOf[t]] = [trial |-> task[t].trial,
                                      processed |-> task[t].processed]]
  /\ Move(t, "reportCheck")
  /\ WorkerFrame /\ UNCHANGED <<totals, summary, logUp>>

ReportCheck(t) ==
  /\ task[t].at = "reportCheck"
  /\ logUp' = TRUE
  /\ Move(t, "reportLog")
  /\ WorkerFrame /\ UNCHANGED <<st, totals, summary>>

ReportLog(t) ==
  /\ task[t].at = "reportLog"
  /\ Move(t, IF logUp THEN "top" ELSE "crashed")
  /\ WorkerFrame /\ UNCHANGED aggrVars

-----------------------------------------------------------------------------
Main ==
  \/ Acquire
  \/ RegisterCleanup \/ StartHost \/ EmitCheck \/ LogStart \/ Submit \/ EmitFails
  \/ TakeResult \/ FindRecord \/ ReadTrial \/ ReadProcessed \/ AddTotals \/ LogDone
  \/ Unwind
  \/ SetAbort \/ RunCleanups \/ CleanupTemps \/ CloseSession
  \/ BeginSummary \/ CopyTotals \/ LogSummary \/ ShutdownLogging \/ CleanupsDone

Local(t) ==
  \/ StartTask(t) \/ MakeDirectory(t) \/ NextEntry(t) \/ CheckBefore(t) \/ BeginTransfer(t)
  \/ CheckAfter(t) \/ Report(t) \/ ReportCheck(t) \/ ReportLog(t)

Transfer(t) == TransferOk(t) \/ TransferFails(t)

Next == Main \/ Signal \/ \E t \in Task : Local(t) \/ Transfer(t)

\* The main thread and the workers keep running. A transfer has no timeout of its own:
\* it is sure to end only once close_all() has closed its session.
Fairness ==
  /\ WF_vars(Main)
  /\ \A t \in Task : WF_vars(Local(t)) /\ WF_vars(TransferFails(t) /\ HostOf[t] \notin open)

Spec == Init /\ [][Next]_vars /\ Fairness

-----------------------------------------------------------------------------
(* Properties                                                              *)

CleanLabels == {"clean", "fn", "sum", "sumCheck", "sumLog", "stop"}
Submitting == {"start", "startCheck", "startLog", "submit"}
Collecting == {"result", "read", "readTrial", "readProcessed", "add", "doneCheck", "doneLog"}
BaseLabels == {"register"} \cup Submitting \cup Collecting \cup CleanLabels \cup {"unwind", "exit"}
HandlerLabels == CleanLabels \cup {"set", "again"}
TaskLabels ==
  Pending \cup Finished \cup { "root", "top", "local", "check", "call", "transfer", "after",
    "report", "reportCheck", "reportLog" }

MainType ==
  /\ pc \in BaseLabels
  /\ k \in Nat \ {0}
  /\ pc = "register" => k = 1
  /\ pc \in Submitting \cup Collecting => k \in Task
  /\ seen \in [trial : Nat, processed : Nat]
  /\ retrying \in BOOLEAN
  /\ ending \in {"ok", "error", "raised"}
FrameType ==
  /\ handlers \in Seq(HandlerLabels)
  /\ signals \in 0..MaxSignals
  /\ owner \in [Locks -> Int]
StopType ==
  /\ abort \in BOOLEAN
  /\ cleaned \in BOOLEAN
  /\ registered \in 0..CleanRemote
  /\ cleanNext \in 0..CleanRemote
  /\ ran \in Seq(1..CleanRemote)
  /\ open \subseteq Host
TaskRecord == [at : TaskLabels, trial : Nat, processed : Nat, errors : Nat, late : Nat]
TaskType ==
  /\ task \in [Task -> TaskRecord]
  /\ \A t \in Task : task[t].trial <= Entries[HostOf[t]]
AggrType ==
  /\ st \in [Host -> [trial : Nat, processed : Nat]]
  /\ totals \in [errors : Nat, processed : Nat, trial : Nat]
  /\ summary \in Seq([errors : Nat, processed : Nat, trial : Nat])
  /\ logUp \in BOOLEAN

\* The type of every variable: loop indices and counters stay in range.
TypeOK == MainType /\ FrameType /\ StopType /\ TaskType /\ AggrType

\* What execute() returns can be trusted: EXIT_OK means every entry of every host was
\* transferred, and without a signal EXIT_ERR_GENERIC means some host did not end clean.
ExitTruthful ==
  /\ pc = "exit" /\ ending = "ok" =>
       \A t \in Task : Clean(t) /\ task[t].processed = Entries[HostOf[t]]
  /\ pc = "exit" /\ ending # "ok" => abort \/ \E t \in Task : ~Clean(t)

\* The cooperative stop is prompt: however many hosts and entries are left, at most one
\* transfer per worker thread begins once the abort event is set.
CancelBound ==
  /\ \A t \in Task : task[t].late <= 1
  /\ Cardinality({t \in Task : task[t].late > 0}) <= Workers

\* Clean-ups run at most once each, in the reverse of their registration, none skipped;
\* all of them are over when the handler that ran them has returned and when execute()
\* has; the summary line comes after the sessions are closed, if close_all was registered.
CleanupOrder ==
  /\ \A i \in 1..(Len(ran) - 1) : ran[i + 1] = ran[i] - 1
  /\ handlers = << >> /\ pc \notin CleanLabels /\ ran # << >> => Len(ran) = ran[1]
  /\ ran # << >> /\ ran[1] >= CloseAll /\ summary # << >> => open = {}
  /\ Len(summary) <= 1

\* A sum over all tasks, of their results or of their hosts' records.
Total(f) == MapThenSumSet(LAMBDA t : f[t], Task)

\* The summary of a run that no signal disturbed: it comes once, after the sessions are
\* closed; its errors are those of the workers' results, also for a host listed twice; it
\* shows an error exactly when the exit status does.
SummaryExact ==
  pc = "exit" /\ signals = 0 =>
    /\ ran = <<CleanRemote, CleanLocal, CloseAll, Summary>> /\ open = {} /\ ~logUp
    /\ Len(summary) = 1
    /\ (summary[1].errors = 0) = (ending = "ok")
    /\ summary[1].errors = Total([t \in Task |-> ErrorsOf(t)])

\* In such a run, with no host listed twice, what a worker that ended itself has tried and
\* transferred is its host's record, and the summary's progress is the records' sum.
Distinct == \A t, u \in Task : HostOf[t] = HostOf[u] => t = u
SummaryProgress ==
  pc = "exit" /\ signals = 0 /\ Distinct =>
    /\ \A t \in Task : task[t].at = "ok" =>
         st[HostOf[t]] = [trial |-> task[t].trial, processed |-> task[t].processed]
    /\ summary[1].trial = Total([t \in Task |-> st[HostOf[t]].trial])
    /\ summary[1].processed = Total([t \in Task |-> st[HostOf[t]].processed])

\* After a signal the run ends, even when a transfer hangs: close_all() breaks it off. The
\* exception is a handler that waits for a lock held by the code it interrupted.
StopEnds == abort ~> (pc = "exit" \/ SelfBlocked)

\* A run whose transfers all end comes to an end itself.
RunEnds ==
  (\A t \in Task : []<>(task[t].at # "transfer")) => <>(pc = "exit" \/ SelfBlocked)

\* The run implements the contract: no host starts after a stop, outcomes are decided
\* once, and the verdict matches them.
OutcomeOf(t) ==
  IF task[t].at \in Pending THEN "waiting"
  ELSE IF ~Done(t) THEN "active"
  ELSE IF Clean(t) THEN "clean" ELSE "bad"

Contract == INSTANCE RunContract WITH
  outcome <- [t \in Task |-> OutcomeOf(t)],
  stopped <- abort,
  verdict <- IF pc = "exit" THEN ending ELSE "none"

ContractSpec == Contract!Spec

\* docs/common-specJP.md:167 - on SIGINT or SIGTERM the tool stops cooperatively: it
\* finishes, whatever the moment the signal arrives at.
SignalEndsRun == abort ~> pc = "exit"

\* docs/common-specJP.md:219 - the summary's trial and processed are the sums over all
\* hosts: in a run without signals, whose workers all ended themselves, of their counters.
SummaryTotals ==
  pc = "exit" /\ signals = 0 /\ (\A t \in Task : task[t].at = "ok") =>
    /\ summary[1].trial = Total([t \in Task |-> task[t].trial])
    /\ summary[1].processed = Total([t \in Task |-> task[t].processed])

\* docs/common-specJP.md:212 - the summary comes once all hosts are through: nothing is
\* counted after it.
SummaryLast == \A i \in DOMAIN summary : summary[i] = totals
=============================================================================
