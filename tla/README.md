# gm-tools: TLA+ verification project

`gm-gather` downloads files from many hosts to one local directory and `gm-scatter`
uploads local files to many hosts, over SSH/SFTP, with one worker thread per host and a
cooperative stop on SIGINT/SIGTERM. This directory holds TLA+ models of the tools' control
(`src/src/gm_tools/`), TLC configurations that check them, and TLAPS proofs about them.
Paths below are relative to `src/src/gm_tools/` unless they start with `docs/` or `tests/`.

## 1. Inventory

| component | state it keeps | operations | hard part |
| --- | --- | --- | --- |
| Parallel executor (`gather_parallel.py`, `scatter_parallel.py`) | futures, `errors_any`, cleanup closures | `execute` | collecting results of workers while a signal may arrive between any two steps |
| Host worker (`core_pull.py`, `core_push.py`) | per-run counters | `run_host_gather`, `run_host_scatter` | cancellation points, one entry failing, an exception outside the per-entry `try` |
| Graceful stop (`core_signal_handling.py`) | `abort_event`, `_cleanups`, `_lock`, `_cleaned` | `register_cleanup`, `request_stop`, `run_cleanups`, signal handler | the handler runs on the main thread, on top of whatever it was doing, and takes non-reentrant locks |
| Host log aggregator (`core_logging.py`) | per-host progress, totals, `_lock` | `start_host`, `progress`, `done_host`, `summary` | totals are built from progress the workers write |
| Log queue (`core_logging.py`) | `_q`, `_listener`, `_logger` | `init_logging`, `shutdown_logging`, `_emit` | lock-free check-then-act, re-initialisation after shutdown |
| Connection registry (`core_ssh.py`) | host -> open channels, SFTPs, connections | `register_*`, `close_connections`, `close_all`, `ssh_open` | bucket looked up in one critical section and used in another |
| Host probe (`core_cli_support.py`) | reachable / unreachable lists | `validate_hosts_connectivity`, `filter_hosts_by_connectivity` | probes of one host share one bucket of the registry |
| Temp registries (`core_remote_fs.py`, `core_archive.py`) | host -> temporary paths | `register_*`, `create_*`, `cleanup_*` | none in use: nothing registers a path |
| SFTP download (`gather_cli.py: _make_pull_one_sftp`, `core_pull.py`) | local files, counters | get one file | a failed get has already emptied the local file |
| SFTP upload (`core_scatter.py: sftp_put_one`) | remote files and their metadata | put one file (a directory tree is possible but no caller passes one) | metadata saved before and restored after a step that may fail; only the normal ends remove the temporary directory |
| Pack upload (`core_scatter.py: upload_pack_and_extract`) | remote temporaries, destination files, report | upload, preflight, extract NEW, overwrite EXIST, restore metadata | about twenty remote steps, each may fail or lose the connection |
| Pack download (`gather_cli.py`, `core_archive.py`) | remote list/tar/gz, local archive | `remote_pack_paths`, `download_and_extract_tar` | temporaries of each failing step |
| Archive extraction (`core_archive.py`) | extracted files | directories, files, hard links | order of members, name normalisation |
| Local pack selection (`core_scatter.py: local_pack_paths_to_tmp`) | kept paths, archive names, a temporary directory | parent/child elimination, archive | three identities of an entry: its path, its real path, its name in the archive |
| Enumeration (`core_select.py`, `_build_plan_for_host` of both tools) | walk stack, candidates, plan, local path -> remote place | `remote_walk_files`, `_enumerate_*`, `enumerate_candidates_local` | links that loop, a tree that changes between the calls, calls that fail silently |
| Path rules (`core_path_handling.py`, `core_remote_path.py`) | none | normalisation, tilde, regex split | `..` and links, names that become equal |
| Metadata tools (`core_xattr.py`, `core_selinux.py`, `core_file_attr.py`) | none | stat/chown/chmod, ACL, xattr, restorecon | best-effort remote commands |
| Remote commands (`core_cmd_flavor.py`) | none | run, detect, mkdir, existence split | a test that fails and a file that is absent look the same |
| Command lines (`gather_cli.py`, `scatter_cli.py`) | plans, sessions | `main`, `_build_plan_for_host` | exit codes, dry run, what is still open on each exit |
| Reports (`core_report.py`) | items | `add`, filters | the command line passes the null report |
| i18n, constants, test framework, packaging | - | - | no state the tools' correctness rests on |

How they interact: `main` probes the hosts, opens one SSH and one SFTP session per host and
builds a plan (registering the sessions in the connection registry), creates a `GracefulStop`,
installs its signal handlers and calls `execute`. `execute` registers four clean-ups with the
`GracefulStop`, starts one worker per hosts-file line on a thread pool, collects the futures in
order while feeding the aggregator, and runs the clean-ups in a `finally`. The signal handler
sets the abort event and runs the same clean-ups, on the main thread, between two bytecodes of
whatever that thread is doing. Workers poll the abort event, report progress to the aggregator
and call `pull_one` / `push_one`, which is the SFTP transfer or, with `--pack`, one archive
transfer on the first call and nothing afterwards.

### What makes each component correct

- *Executor, workers, stop, aggregator* (one run): the exit status can be trusted; after a
  stop no more than one transfer per worker thread begins; the clean-ups run once, in the
  order they were meant in; without a signal, the printed errors are the sum of what the workers did, and
  so is the progress when no host is listed twice; a stop, and a run without one, come to an end.
- *Registry and probe*: a session that was opened can be found until the clean-up and is closed
  by it, if the clean-up was registered in time; nobody's session is closed while it is used; a reachable host is served.
- *Pack upload*: a file is the old or the new one, as asked in owner, ACL and label if reported
  done; nothing that is not the upload's is removed; no temporary stays, but the copy that a directory
  in a file's place swallows.
- *SFTP upload*: a failure stays with its file; no file is left out before its put without a failure or an
  exception; owners stay; the temporaries of calls that return go.
- *Pack download and extraction*: what a host without errors has fetched is all there; counters
  match; the local temporary goes, the remote ones do when no step fails.
- *Log queue*: a record logged before the shutdown is written, once; what is logged after it starts
  the queue again instead of raising, as long as only one thread does so.
- *Enumeration and SFTP download*: what an SRC asks for is planned, once and nothing else, whatever
  fails or changes elsewhere in the tree; the walk ends; a run without an error has fetched the plan.
- *Local enumeration and pack selection*: a file is sent to the place of an SRC that stands for it,
  and only there; what is left out of an archive is sent by the entry that stands for it.

Where the documents ask for more than the code does, section 3 has a configuration that shows it.
The hazards behind these properties are listed line by line in `PROJECT.json`.

## 2. Modules

| module | models | composed with |
| --- | --- | --- |
| `RunContract` | the abstract specification of one run: hosts start only before a stop, each outcome is decided once, success needs every host clean | implemented by `ParallelExecute` |
| `ParallelExecute` | `execute()` of both tools with its workers, `GracefulStop`, the signal handler, the aggregator and the handler's use of the log queue | `INSTANCE RunContract` |
| `ParallelExecuteProofs` | theorems about it | extends `ParallelExecute`, `TLAPS` |
| `HostSessions` | probes, plans, worker registration and `close_all()` over the connection registry | - |
| `HostSessionsProofs` | theorems about it | extends `HostSessions`, `TLAPS` |
| `PackUpload` | `upload_pack_and_extract()` for one host | what one call of `push_one` does in `ParallelExecute` |
| `PackUploadProofs` | theorems about it | extends `PackUpload`, `TLAPS` |
| `SftpPut` | `sftp_put_one()` for one host's plan | likewise, without `--pack` |
| `SftpPutProofs` | theorems about it | extends `SftpPut`, `TLAPS` |
| `PackDownload` | `pull_one` of `--pack`: `remote_pack_paths()` and `download_and_extract_tar()` for one host's plan | what `pull_one` does in `ParallelExecute` |
| `PackDownloadProofs` | theorems about it | extends `PackDownload`, `TLAPS` |
| `FileTree` | a tree of files with links, other users' directories and changes; `stat`, `listdir`, `os.walk` on it (external) | extended by `GatherFiles` and `ScatterPlan` |
| `GatherFiles` | `gm-gather`'s `_build_plan_for_host()` with the two remote enumerations of `core_select.py`, and the gets of `run_host_gather()` without `--pack` | what the `main` of `HostSessions` does in `BuildPlan`; its plan is `PackDownload`'s with `--pack` |
| `GatherFilesProofs` | theorems about it | extends `GatherFiles`, `TLAPS` |
| `ScatterPlan` | `gm-scatter`'s `_build_plan_for_host()`, `push_one`, `local_pack_paths_to_tmp()` | its plan is `SftpPut`'s, its archive `PackUpload`'s |
| `ScatterPlanProofs` | theorems about it | extends `ScatterPlan`, `TLAPS` |
| `LogQueue` | `init_logging()`, `shutdown_logging()`, `_emit()` and the listeners' threads | the part of the log calls that is one step in `ParallelExecute` |
| `LogQueueProofs` | theorems about it | extends `LogQueue`, `TLAPS` |
| `MC*` | hosts files, plans, trees, SRC lists and archives for TLC | extend the module they are named after |

### ParallelExecute

The main thread is a stack: the base frame's label `pc` (in `execute()`, then
`run_cleanups()`) and the labels of the handler frames in `handlers`. `Signal` pushes one between
any two steps; only the top frame moves. A label of `Sections` is a critical section: `Acquire`
takes its lock, the section's action does the body and releases it, so that a signal can arrive
while the lock is held. The locks are `GracefulStop._lock` ("gs"), the event's ("event"), the
aggregator's ("aggr") and the log queue's ("logq"); none is reentrant, and `SelfBlocked` says that
the running frame waits for a frame below it. A worker is one record of `task`: its label in
`run_host_gather` / `run_host_scatter` and its counters. `done_host` is four steps
(`FindRecord`, `ReadTrial`, `ReadProcessed`, `AddTotals`), as the worker of another line of the
same host may write between them. The clean-ups are numbered as they are registered;
`RunCleanups` takes them from the last. `Gather` selects the two directories `run_host_gather`
makes outside its `try`. `retrying` says that the collecting loop is in an `except` branch: there an
assertion that fails in `done_host` ends `execute()` with the exception, in the `try` it leads to that branch.
An `_emit` that initialises the logging again after the shutdown is one step here (`EmitCheck`); `LogQueue` takes it apart. The history variables `ran`, `summary` and the field `late` record what the
properties speak of; no action reads them.

### HostSessions

Connections are named for the line of the hosts file they were opened for, once for the probe and
once for the work. A bucket of the registry is an object with a number, so that a thread can
append to one that has been taken out of the registry. `GetBucket` and `AppendTo` are the two critical
sections of `register_*`, `FindBucket`, `CloseSftps`, `CloseConn` and `Pop` the steps of
`close_connections`. `main()` goes from "probe" to "plan" to "run" to "end"; while it builds
plans it is alone, so `BuildPlan` is one step, while the workers of "run" race with `CloseAll`,
which the handler may start at any moment. `closing` says whether `execute()` has registered `close_all()`
(`RegisterCleanups`); a `Signal` before that uses up the only run of the clean-ups ("missed"), and `Exit` is then
reached with the sessions as they are.

### PackUpload, SftpPut, PackDownload

Each goes through the remote commands of one host in the order of the code; a label is the next
command. A command works (`Works`), exits with an error (`ExitsBadly`) or raises (`Raises`: a
time-out, an answer that gets lost, or any use of a session that is down). Which of the three the code tells
apart at that place is what the action says: a tolerated exit code, a fallback, a reported
failure or an exception to the caller, and the `except` and `finally` clauses are steps of their own, which
may fail too. `LoseSession` is a broken connection and also `close_all()` of a stop. The effect
of a command may precede its failure. In `PackUpload`, `mv -f` onto a directory succeeds and leaves the
copy in it (body "holding"), and `Beside` are the files that `restorecon` reaches through a new neighbour. In `SftpPut`
what only the report is told, which nobody reads, is no outcome: `unsent` are the entries whose
directory was not to be had or whose put failed. File contents are "old", "new", "part"; which host
tools exist is chosen at the start. `unsent`, `hit`, `leaked`, `lost`, `broke` and `badLinks` are histories
of what failed where, for the properties to except exactly that.

### FileTree, GatherFiles, ScatterPlan

A path is a sequence of names, a node is "dir", "file", "link" or "other". `Follow` resolves a path as
the system does: `..` after the links, at most `MaxLinks` of them, and for a user who may not pass a
`Private` directory. `ChangeTree` takes a node away, with all below it, or brings it back.

In `GatherFiles` every call to the remote host is a step of its own and a label says which comes
next: `sftp_isdir` and the like answer no when the call fails (`Asks`), a `listdir` that fails is
passed over, a remote command that raises ends the tool. `rx` tells the three shapes of an SRC apart: a
literal directory ("none"), a literal that is none ("exact", the `^name$` that
`split_src_to_root_and_tail_regex` makes of it) and a regular expression ("tail"), which is a
sequence of sets of names that `re.search` finds anywhere below the root. `mode` is the route: SFTP,
`--pack` over SFTP, and `--pack` with sudo, where one remote command walks the tree at once. `local` and
`partial` are the local files by their sanitised place (`Place`, where ".." takes back any name but "_").
`FollowSymlinks` is the option, which no action looks at; `Chosen` are the nodes that may be planned.

In `ScatterPlan` the local tree is looked at in larger steps: what one SRC stands for, and what one entry puts
into the archive, is one step each, changes come between. `relMap` is `remote_rel_map`; `Outermost` and
`FirstNamed` say which entries the two eliminations of `local_pack_paths_to_tmp()` keep, `Before` in which
order; the loop with its growing list computes just that, parents being sorted before
children. `sent` is what reaches the host and where, `twice` what of it does so more than once. The
archive's directory is made by `Pack`; adding a file (`Add`) and closing the archive (`CloseArchive`) may raise and
leave it; `Upload` is what `PackUpload` models, with either outcome, and `RemoveTmp` the `finally` clause after it,
whose `rmtree` ignores errors.

### LogQueue

Each read or write of `_q`, `_listener` and `_logger` is a step. Queues and listener threads are
numbered, so that a lost one stays visible; `mine` is the local variable of `init_logging()`.
`shutdown_logging()` runs once, at any moment, on the main thread, which waits meanwhile (`At`). `early`
and `late` are the records put before it and begun after it; `raced` says that two threads have been in
`init_logging()` at the same time.

## 3. Runs

| run | instance | shows |
| --- | --- | --- |
| `Execute` | 3 tasks: one host twice (1 entry), another (2 entries), 2 workers, 1 signal, gm-scatter | `TypeOK`, `ExitTruthful`, `CancelBound`, `SummaryExact` |
| `ExecuteStop` | 2 hosts (1 entry each), 1 worker, 2 signals, also nested, gm-gather, fairness | `CleanupOrder`, `SummaryProgress`, `StopEnds`, `RunEnds`, `ContractSpec` (the refinement) |
| `HostSessions` | 3 lines: one host twice, another once, which may refuse; 3 threads | `HostServed`, `ProbesClosed`, `SessionsFindable`, `SessionsClosed`, `SessionsKept` |
| `PackUpload` | 2 files (one in a directory of its own), 1 empty directory, 2 failures | `Placement`, `Complete`, `OldOrNew`, `SharedTmpKept`, `CleanedUp`, `DirsKept` |
| `SftpPut` | 4 entries: a file, another twice, a link; 3 failures | `Contained`, `Accounted`, `MetaRemoved`, `OwnersKept` |
| `PackDownload` | 2 plan entries; 7 archive members: files, links, a linked directory, two names with one path; 3 failures | `CountsTruthful`, `Arrived`, `TempsRemoved` |
| `GatherFiles` | a tree of 10 nodes, 5 SRC lists, 3 modes, 1 change, 1 failed call, fairness | `PlanExact`, `Fetched`, `GatherEnds` |
| `ScatterPlan` | a tree of 11 nodes, 10 SRC lists, `--pack` and `--follow-symlinks` on and off, 2 changes | `Placed` |
| `LogQueue` | the main thread (2 records), 2 workers (1 each), shutdown at any moment | `Flushed`, `Reinitialised` |

Each of these runs but `ExecuteStop` checks its module's `TypeOK` as well.

### Where the code and its documents disagree

Each of these configurations checks one property, taken from a document or a comment, which TLC finds violated by
what the code does. The first three are runs of the regular set and findings of `PROJECT.json`:

| configuration | property | what it shows |
| --- | --- | --- |
| `ExecuteBlocked` | `SignalEndsRun` | a signal that interrupts the main thread inside a critical section blocks the tool for ever, on its own lock |
| `PackUploadErrors` | `ErrorCounted` | failures written to the null report never become errors of the host or an exit code (`docs/gm-scatter-specJP.md:206`) |
| `HostSessionsTwice` | `NeverExcluded` | two probes of one host close each other's connections, and a reachable line is left out |

The others are kept to reproduce what they show (`tlc -config ScatterPlanTwice.cfg MCScatterPlan`), each with the `MC`
module of the model it is named after:

| configuration | property | what it shows |
| --- | --- | --- |
| `ExecuteTotals` | `SummaryTotals` | with a host listed twice the summary's progress is not the sum of what the workers did (`docs/common-specJP.md:219`) |
| `ExecuteLast` | `SummaryLast` | after a signal, hosts are added to the totals once the summary has been printed (`docs/common-specJP.md:212`) |
| `HostSessionsEarly` | `SessionsEnd` | a signal before `close_all()` is registered leaves the sessions open (`docs/gm-gather-specJP.md:192`) |
| `SftpPutErrors` | `ErrorCounted` | the same for a directory that is not to be had or a put that fails (`scatter_cli.py:471`) |
| `PackUploadDirectory` | `NothingStays` | `mv -f` puts the temporary copy into a directory of the file's name, without a failure (`docs/gm-scatter-specJP.md:132`) |
| `PackUploadLabels` | `LabelsRestored` | overwritten files are not given to `restorecon` (`docs/gm-scatter-specJP.md:172`) |
| `PackUploadMissed` | `OldNeverPart` | a file whose existence test fails is extracted in place and seen half-written (`docs/gm-scatter-specJP.md:129`) |
| `GatherFilesLinks` | `LinksAskedFor` | with `--pack`, links are planned without `--follow-symlinks` (`gather_cli.py:446`, `docs/gm-gather-specJP.md:143`) |
| `ScatterPlanTwice` | `SentOnce` | a file that two SRC stand for is put twice to one place (`docs/gm-scatter-specJP.md:100`) |
| `ScatterPlanMoved` | `LayoutKept` | a path found by two SRC goes to the later one's place only (`docs/gm-scatter-specJP.md:111`) |
| `ScatterPlanHidden` | `AllPacked` | a link that is not followed hides the entries below its real directory from the archive (`docs/gm-scatter-specJP.md:127`) |
| `ScatterPlanDirs` | `DirsSent` | without `--pack`, a literal directory sends nothing (`docs/gm-scatter-specJP.md:119`) |
| `ScatterPlanTmp` | `TmpGone` | what fails while the archive is made or closed leaves its directory (`docs/gm-scatter-specJP.md:213`) |

Where a passing property meets one of these cases it excepts it by name: `Placed` of
`PackUpload` the directories, `Accounted` the unsent, `SessionsClosed` the signal that came too early,
`Placed` of `ScatterPlan` the moved, the hidden and the doubled.

Met on the way and not given a configuration:

- *Stop*: a signal that arrives before even the first clean-up, the summary's, is registered
  (`gather_parallel.py:184`) ends the run without the summary of `docs/common-specJP.md:167`; one that comes later
  only misses the clean-ups that follow.
- *Logging*: when the shutdown falls between a thread's test and its assertion
  (`core_logging.py:268`, `:271`), the assertion fails, in a worker or in the main thread. Two threads that initialise
  the queue at once may leave the handler's queue without a listener, or write a record twice. What is
  logged after the shutdown may be lost at exit, since the listener is a daemon thread.
- *Pack upload*: `--selinux policy` does not refuse a host without SELinux (`core_scatter.py:832`,
  `docs/gm-scatter-specJP.md:171`); directories that were there before are given to the target user with the
  new ones (`core_scatter.py:713`, `docs/gm-scatter-specJP.md:178`).
- *SFTP upload*: `sftp_put_one` leaves its metadata directory when a command raises after `mktemp`
  (`core_scatter.py:1176`).
- *Pack download*: entries after a failed first call count as `processed` (`gather_cli.py:276`); the
  remote archive stays when the download or the extraction fails (`gather_cli.py:292`); two archive
  names that are normalised to one path overwrite each other silently; hard links that cannot be
  written are warnings only.
- *Enumeration of gm-gather*: a regular expression without "/" looks in one directory by SFTP and in all
  below it with sudo (`docs/common-specJP.md:131`); with `--sudo-collect`, what only sudo may see is
  found and then dropped by the filter, which asks by SFTP (`docs/gm-gather-specJP.md:152`); link loops
  are walked until the remote host refuses (`docs/common-specJP.md:139`); a session lost while a plan
  is made cuts the plan short without an error.
- *SFTP download*: the local directory is that of the raw host name (`gather_parallel.py:221`) while
  `--pack` uses the sanitised one (`gather_cli.py:470`); a failed get leaves an empty or partial file;
  a file whose place is the parent directory of another entry's ends the host.
- *gm-scatter*: a relative SRC that climbs above the current directory ends the tool, while
  `docs/gm-scatter-specJP.md:96` leaves out that SRC only; without `--pack`, a FIFO found by a regular
  expression blocks the worker; with `--pack --follow-symlinks` a dangling link ends the packing, which
  `docs/gm-scatter-specJP.md:298` excludes instead; of two entries with one archive name the second is
  dropped silently.

### Bounds and why they are enough

- *Execute*: with two workers, a third task is what it takes to have one waiting in the pool when
  the stop comes, and two tasks of one host to share a record of the aggregator; a plan of two entries has a
  cancellation point between transfers. One signal may arrive in each of the base frame's labels, and two,
  in `ExecuteStop`, also inside the handler.
- *HostSessions*: one host twice is the smallest hosts file with a shared bucket; the third line adds
  a host that is only closed by the host loop of `close_all()`. Three threads let all probes overlap.
- *PackUpload*: all combinations of a new and an existing file, one below a directory that may be
  new, both orders of the loop, with `MaxFaults = 2`: a failure and one in what handles it. The session may go
  at any label in addition.
- *SftpPut*, *PackDownload*: `MaxFaults = 3`, for failures in two entries, or in a command, its
  `except` clause and its `finally` clause; the archive holds each kind of member once.

- *GatherFiles*: the tree has one node of each kind that the calls tell apart, a link to the directory it is
  in, a directory only root may use and two names with one safe name, one of them a directory. `MaxLinks = 1`
  lets the walk go round once before it is refused. `Movable` are the nodes a candidate may depend on:
  itself, its directory, its link. One change and one failure, at any two of the calls, and the loss of the
  session in addition.
- *ScatterPlan*: links to a directory inside and outside the current one, to nothing and round; the SRC
  lists pair what the three identities of an entry tell apart. `MaxChanges = 2` lets a node go and come
  back; the configurations that show a divergence need no change.
- *LogQueue*: two workers can race to initialise while the main thread is stopped or logs; the main
  thread's two records are on both sides of the shutdown. Workers are alike (`SYMMETRY`).

`MaxSignals`, `MaxFaults`, `MaxChanges` and `Records` are the only counters the code does not have. All runs turn the deadlock
check off since every model ends with the program; that it ends is `RunEnds` and `StopEnds`.

### Fairness

`ExecuteStop` assumes weak fairness of the main thread's steps and of every worker's own
(`Local`), which is what the scheduler gives a runnable thread: no lock is held across a blocking
call. A transfer in progress may hang, as no time-out is set: it is only fair that it fails once its
session is closed. `RunEnds` has the end of every transfer as its hypothesis, `StopEnds` has not. No
fairness is assumed of signals.
`GatherFiles` assumes weak fairness of its one thread (`Step`): an SFTP call is answered, or the loss of the
transport ends it with an exception. Nothing is assumed of changes.
`StopEnds` excepts the states of `SelfBlocked`; `SignalEndsRun` is the same without the exception, and fails.

## 4. Proofs

`ParallelExecuteProofs`, for every number of hosts, plan length, number of workers and signals,
from `ExecuteAssumption` only:

| theorem | statement |
| --- | --- |
| `TypeCorrect` | `Spec => []TypeOK` |
| `ExitCorrect` | `Spec => []ExitTruthful` |
| `ImplementsContract` | `Spec => ContractSpec`: every run implements `RunContract` |
| `StopPrompt` | `Spec => []CancelBound` |
| `CleanupsOrdered` | `Spec => []CleanupOrder` |
| `SummaryTrue` | `Spec => []SummaryExact` |
| `ProgressTrue` | `Spec => []SummaryProgress` |

`ExitTruthful` is not inductive: what the exit status rests on is decided in the collecting loop and
in the workers, long before the exit. The invariant `IInv` is `TypeOK` and three parts. `FrameInv`
says where frames can be: at most one goes through the clean-ups, and a handler past its first step has
set the abort event. `ResultInv` says what the main thread knows at each of its labels: the tasks
before `k` have ended, cleanly while `ending` is "ok"; an "error" has a task that did not end clean, or a
stop, behind it. `CountInv` relates a worker's counters: every entry tried is processed, an error or under
way. That `IInv` is kept has one step per action, and under it the parts the action can disturb.
The refinement maps a task to its outcome (`OutcomeOf`), a
stop to `abort` and the verdict to `ending` at the exit; each action is one of the contract's or a
stutter, under the same invariant.

The others add what they need to `IInv`. For `StopPrompt`, `LateInv` says that a worker which began a
transfer after the stop is not on its way to another, and `BoundInv` that the tasks which run or did so
had a worker thread each. For `CleanupsOrdered`, `OrderInv` relates what has run to `cleanNext` and says
that some frame is inside `run_cleanups()` until all have. For `SummaryTrue` and `ProgressTrue`, `ReportInv` says that between two reports a
worker's counters are its host's record, and `UndisturbedInv` speaks of runs without a signal: `AloneInv`, that
`execute()` alone runs the clean-ups and no longer changes the totals, and `SumsInv`, that the totals are sums over
the results collected so far (`Counts`). The totals are added up in the order of the hosts file, the property's sum is
a fold over a set in no order; that they agree is proved from the definition of the library's fold, by induction on the size of the
set (`Inductive`, from the well-foundedness of `<`): tables of sums exist (`SumExists`), any element may be taken
first (`SumAny`), one more adds its value (`SumAdd`).

`HostSessionsProofs`, for every hosts file (any repetition of hosts), any set of hosts that accept, any pool,
from `SessionAssumption` only:

| theorem | statement | invariant, besides `TypeOK` and `PhaseInv` |
| --- | --- | --- |
| `TypeCorrect` | `Spec => []TypeOK` | |
| `AcceptingHostServed` | `Spec => []HostServed` | `OwnerInv`, `ServedInv` |
| `ProbesLeaveNothing` | `Spec => []ProbesClosed` | `LinkInv`, `ProbeInv` |
| `SessionsRegistered` | `Spec => []SessionsFindable` | `CloseInv` |
| `AllSessionsClosed` | `Spec => []SessionsClosed` | `LinkInv`, `CloseInv` |
| `SessionsStay` | `Spec => SessionsKept` | `LinkInv` |

`PhaseInv` says where the threads are in each phase. A probe is harmed only by one of its own host
because each bucket, registered or not, is one host's (`OwnerInv`), and one that closes another's connection
has succeeded before it (`ServedInv`). `CloseInv` says of each open session where `close_all()` is going to find it: in the
registry under a host it has not taken yet, in the bucket it holds, or in its list.

`PackUploadProofs`, for every archive, any remote host and any number of failing commands, from
`UploadAssumption`, which now has that "root", the name of the target itself, is no directory's of the archive:

| theorem | statement | invariant, besides types and `PhaseInv` |
| --- | --- | --- |
| `TypeCorrect` | `Spec => []TypeOK` | |
| `PlacedWhenReported` | `Spec => []Placement` | `ExistInv`, `NewInv` |
| `CompleteWithoutFault` | `Spec => []Complete` | all |
| `NeverHalfWritten` | `Spec => []OldOrNew` | `ExistInv` |
| `TmpStays` | `Spec => []SharedTmpKept` | `RemoteInv` |
| `NothingLeft` | `Spec => []CleanedUp` | `RemoteInv` |
| `OwnersKept` | `Spec => DirsKept` | `DirInv` |

`ExistInv` says that a file found on the host is untouched until it is moved over, then restored, then done, and that what was
recorded of it is what it was; `NewInv` that a new one is absent, extracted, given away and relabelled, in
this order; both but for the files one of whose own commands failed (`hit`). `RemoteInv` traces each temporary to the
variable the clean-up knows it by, `FaultInv` says what is true as long as no command has failed.

`PackDownloadProofs`, for every archive (any coinciding names, any links to earlier files) and any number of failures:

| theorem | statement | invariant, besides types |
| --- | --- | --- |
| `TypeCorrect` | `Spec => []TypeOK` | `CountInv` |
| `CountersTrue` | `Spec => []CountsTruthful` | `CountInv`, `BrokeInv` |
| `TemporariesGone` | `Spec => []TempsRemoved` | `RemoteInv`, `TmpInv` |
| `FilesArrived` | `Spec => []Arrived` | `ExtractInv` |

`BrokeInv` says which steps can have failed when the call is at a label, `RemoteInv` which temporaries are there
and of whose failure, `ExtractInv` that the members gone through are in place, as nothing written later has their name.

`LogQueueProofs`, for any number of threads and records:

| theorem | statement | invariant, besides types and `PhaseInv` |
| --- | --- | --- |
| `TypeCorrect` | `Spec => []TypeOK` | |
| `FlushedAtStop` | `Spec => []Flushed` | `PassedInv`, `EarlyInv` |
| `ReinitialisedAfterStop` | `Spec => []Reinitialised` | `PassedInv`, `LateInv` |

`PassedInv` says that a record found anywhere has been counted down by its thread, which never logs it again: so no
place gets it twice. `EarlyInv`: a record of before the shutdown is written, or in the first queue ahead of the
sentinel, its listener still running. `LateInv`: while no two threads have met in `init_logging()`, nobody has begun it (`Fresh`), one
thread is in it (`Halfway`) or there is one listener again (`Ready`).

`GatherFilesProofs`, for every finite remote tree, any changes of it, any SRC lists and any number of failures:

| theorem | statement | invariant |
| --- | --- | --- |
| `GatherTyped` | `Spec => []TypeOK` | `TypeInv` |
| `FetchedTruly` | `Spec => []Fetched` | `TypeInv`, `IInv` |
| `PlannedExactly` | `Spec => []PlanExact` | `TypeInv`, `PlanIInv` |

They rest on lemmas about `FileTree`: a path resolves name by name (`FollowByNames`), to a real directory or node
(`FollowReal`), through what its `via` says (`ViaGrows`, `ViaPrefix`); `Earlier` is a strict order and `Sorted` has each path once
(`EarlierOrders`, `Counting`, `SortedFacts`); below a directory names lead down as far as no link is followed, so
that `os.walk` finds just what is below (`StraightDown`, `OsWalkHas`, `OsWalkOnly`). The recursive functions are tables, shown to
exist and to be unique by induction on their length.

`TypeInv` adds the shape of the search to the types (`ShapeAt`): what a label says of the SRC under way, and that what
`names`, `dir` and `stack` hold there is below its root. In `IInv`, `SeekInv` says that the candidates stay
finitely many and nothing is fetched, `FilterInv` that what the remote host said is a file is one while the tree is untouched
(`StatStays`), `GetInv` that the entries dealt with are counted and, without an error, each place holds what was fetched to it
last (`Settled`).

`PlanExact` speaks of the paths along which nothing has changed or failed (`Undisturbed`), and says of them that they are in the plan
if an SRC asks for them and they are files, or with `--pack` links to one, and only if they are `Chosen`. `PlanIInv` has a part for each direction and one for the sorting:

- `Complete`: a path that an SRC taken so far asks for is a candidate, or still promised: the label, the names of the
  directory that are left and the directories on the stack say where it is going to be found (`Promised`). It is kept because a path that
  is undisturbed after a step was so before it, and its directories look as they did (`Steady`, `Calm`).
- `Sound`: an undisturbed candidate was asked for. A root of which only the names are to be looked at is
  walked below only if it could not be listed, and then no undisturbed path is found there (`Hopeless`).
- `Sorts`: while the candidates are sorted into files, directories and links, the three lists have each path once and none in common, and
  the undisturbed ones are where their kind says; at the end the plan is made of these lists.

`SftpPutProofs`, for every plan (any length, any repetition of paths, any links), every set of files
found there and any number of failures, from `PutAssumption` only:

| theorem | statement | invariant |
| --- | --- | --- |
| `TypeCorrect` | `Spec => []TypeOK` | inductive by itself |
| `OwnersStay` | `Spec => OwnersKept` | `OwnerInv` |
| `FailuresContained` | `Spec => []Contained` | `ContainedInv` |
| `FailuresAccounted` | `Spec => []Accounted` | `NoticedInv`, `ContainedInv` |
| `MetasRemoved` | `Spec => []MetaRemoved` | `MetaInv` |

`TypeOK` includes that a call under way has an entry and that later entries have no outcome yet. A property of the end of the plan
is strengthened to one of the entries behind the loop's counter and, after its put, of the entry at
it (`Passed`): `ContainedInv` says their files are new unless an entry of their path met a failure,
`NoticedInv` that a file which is not new has an entry that raised or is `unsent`, that one or a later one of its
path. `OwnerInv` says that what a call has recorded is still its file's owner when it gives it back,
which holds because nothing but `Put` comes between. `MetaInv` says that only the call under way knows
of a directory.

`ScatterPlanProofs`, for every finite local tree, every SRC list and every number of changes:

| theorem | statement | invariant |
| --- | --- | --- |
| `PlanWellTyped` | `Spec => []TypeOK` | `TypeInv` |
| `AllPlaced` | `Spec => []Placed` | `TypeInv`, `PlaceInv`, `QuietInv` |

The lemmas about trees and paths that stand first are those of `GatherFilesProofs`: neither module extends the other's component, so
both state them. The folds and recursive functions of `abspath()`, `realpath()` and `tarfile`'s `add()` are tables here too, shown to
exist by induction (`TakenExist`, `TableExists`, `CanonFacts`, `AddedFacts`).

`TypeInv` adds to the types what a label says of the plan and that `next` stays within what is being gone through; that
what is packed are paths of the plan needs that the order they are sorted in is a strict total one (`BeforeOrders`, `PackFacts`).

The two halves of `Placed` have an invariant each:

- `PlaceInv`: each path in the map, and each file sent, has the place that some SRC gives it. It is kept because what is below a
  path goes below that path's place (`PlaceBelow`).
- `QuietInv`: as long as nothing has changed, what is asked for at the entries gone through without a failure has been sent, and what is
  packed are the paths that no other entry contains, one for each place. It is kept because what is found depends only on what has been taken
  away (`AddedStays`, `KeptStays`).

An entry that is left out of the archive is sent by the outermost one that contains it (`OutermostEntry`), though maybe under
another name: what `add()` finds for one name of a directory it finds for every other name of it, or of one above (`AddedOnce`). That
rests on how deep a name can be found (`Reached`, `ReachedNext`, `ReachedDown`): after `l` links, no deeper than `l * |Node|` and the
length of the real path, which is at most `|Node|` (`ThereLen`); so `(MaxLinks + 1) * |Node|` rounds, the bound in `Added`, are
enough (`FewLinks`, `Rounds`).

Only model-checked:

- All liveness: `StopEnds`, `RunEnds`, `GatherEnds` (fairness, `ENABLED`).

## 5. Not modelled

- Argument parsing, dry-run listings and the mapping of errors to exit codes before `execute()`.
- The temporary registries (`core_remote_fs.py`, `core_archive.py`): nothing registers a path in the
  running tools and both `main()` turn their clean-up off; `CleanupTemps` calls them as one step.
- Code without a caller: `build_plan_from_paths`, `build_plan_from_manifest`, `core_file_attr.py`, the
  packing and unpacking functions of `core_archive.py` other than those of `PackDownload`,
  `register_channel`, `sftp_put_one` on a directory, dry runs of the transfer functions.
- The spelling of paths: separators, `./`, `//`, Windows drives and UNC names; SRC is given parsed.
- The syntax of regular expressions: a search is for names in a row.
- The texts of remote commands and the parsing of their answers; formatting of log records; package
  data, translations, build.
- A crash of the tool itself: nothing is persisted that a second run would read.

## 6. Plan

1. `CliMain`: the exit codes and the sessions open on every exit; `HostSessions` composed with it.
