------------------------------ MODULE LogQueue ------------------------------
(***************************************************************************)
(* The log queue of core_logging.py while execute() runs. _emit() puts a   *)
(* record on the queues of the logger's handlers, a listener thread writes *)
(* it. Three globals, _q, _listener and _logger, are tested and set by     *)
(* init_logging(), shutdown_logging() and _emit() without a lock.          *)
(*                                                                         *)
(* The main thread and the workers log; shutdown_logging() runs once, in   *)
(* the clean-ups, on the main thread: at its end, or in a signal handler   *)
(* between any two of its steps. Whoever logs after that initialises the   *)
(* queue again. Each read or write of a global is a step. The locks inside *)
(* the queue and the handlers are ParallelExecute's.                       *)
(***************************************************************************)
EXTENDS Integers, Sequences, FiniteSets, SequencesExt

CONSTANTS
  Worker,        \* the worker threads; they log progress, which is for verbose logging only
  Records        \* bound: how often each thread logs

Thread == Worker \cup {"main"}
Sentinel == <<>>

ASSUME LogAssumption == "main" \notin Worker /\ Records \in [Thread -> Nat]

VARIABLES
  pc,            \* what each thread does next; "out": it is not in _emit()
  left,          \* how many records a thread has still to log
  mine,          \* the local variable queue_handler: the queue it puts records on
  q, listener,   \* _q, and the queue of _listener; 0 is None
  logger,        \* is _logger set?
  verbose,       \* the logger's level: does it take progress?
  handlers,      \* the logger's handlers: the queues they put records on
  queues,        \* all queues there ever were
  threads,       \* the listeners' threads: their queues, and do they run?
  stop,          \* what shutdown_logging() does next
  written,       \* record -> how often it was written
  early,         \* history: records put on the queue before the shutdown,
  late,          \* records whose logging began after it,
  raised,        \* records whose _emit() raised,
  raced          \* and have two threads initialised at the same time?

globals == <<q, listener, logger, verbose, handlers>>
history == <<early, late, raised, raced>>
vars == <<pc, left, mine, globals, queues, threads, stop, written, history>>

Record == UNION {{t} \X (1..Records[t]) : t \in Thread}
Of(t) == <<t, left[t]>>

\* execute() has called init_logging() before there was another thread.
Init ==
  /\ pc = [t \in Thread |-> "out"] /\ left = Records
  /\ mine = [t \in Thread |-> 0]
  /\ q = 1 /\ listener = 1 /\ logger = TRUE /\ verbose \in BOOLEAN /\ handlers = <<1>>
  /\ queues = << <<>> >> /\ threads = <<[queue |-> 1, on |-> TRUE]>>
  /\ stop = "before"
  /\ written = [r \in Record |-> 0]
  /\ early = {} /\ late = {} /\ raised = {} /\ raced = FALSE

\* The main thread waits while its signal handler runs.
Stopping == stop \notin {"before", "done"}
At(t, label) == pc[t] = label /\ ~(t = "main" /\ Stopping)
Goto(t, label) == pc' = [pc EXCEPT ![t] = label]

-----------------------------------------------------------------------------
(* _emit()                                                                 *)

\* Returned, or raised: what the caller makes of an exception is left out, it goes on or not.
Returned(t) == Goto(t, "out") /\ left' = [left EXCEPT ![t] = @ - 1]
Raise(t) ==
  /\ Goto(t, "out")
  /\ raised' = raised \cup {Of(t)}
  /\ left' \in {[left EXCEPT ![t] = n] : n \in {0, left[t] - 1}}
  /\ UNCHANGED <<mine, globals, queues, threads, stop, written, early, late, raced>>

Emit(t) ==
  /\ At(t, "out") /\ left[t] > 0
  /\ Goto(t, IF logger THEN "assert" ELSE "init")
  /\ late' = IF stop = "done" THEN late \cup {Of(t)} ELSE late
  /\ UNCHANGED <<left, mine, globals, queues, threads, stop, written, early, raised, raced>>

\* assert _logger is not None
AssertLogger(t) ==
  /\ At(t, "assert")
  /\ IF logger THEN Goto(t, "log") /\ UNCHANGED <<left, mine, globals, queues, threads, stop, written, history>>
     ELSE Raise(t)

\* _logger is read again, and there is only one Logger object.
Log(t) ==
  /\ At(t, "log")
  /\ IF logger THEN Goto(t, "put") /\ UNCHANGED <<left, mine, globals, queues, threads, stop, written, history>>
     ELSE Raise(t)

\* Each handler puts the record on its queue, as often as that queue has a handler.
Taken(t) == t = "main" \/ verbose
Copies(t, i) == IF Taken(t) THEN Cardinality({h \in DOMAIN handlers : handlers[h] = i}) ELSE 0
Put(t) ==
  /\ At(t, "put")
  /\ queues' = [i \in DOMAIN queues |-> queues[i] \o [h \in 1..Copies(t, i) |-> Of(t)]]
  /\ early' = IF Taken(t) /\ stop = "before" THEN early \cup {Of(t)} ELSE early
  /\ Returned(t)
  /\ UNCHANGED <<mine, globals, threads, stop, written, late, raised, raced>>

-----------------------------------------------------------------------------
(* init_logging(verbose=False)                                             *)

Initialising(t) == pc[t] \in {"queue", "handler", "reset", "add", "listen", "start", "set"}

InitLogging(t) ==
  /\ At(t, "init")
  /\ Goto(t, IF listener # 0 THEN "assert" ELSE "queue")
  /\ raced' = (raced \/ \E u \in Thread \ {t} : Initialising(u))
  /\ UNCHANGED <<left, mine, globals, queues, threads, stop, written, early, late, raised>>

NewQueue(t) ==
  /\ At(t, "queue") /\ Goto(t, "handler")
  /\ queues' = Append(queues, <<>>)
  /\ q' = Len(queues')
  /\ UNCHANGED <<left, mine, listener, logger, verbose, handlers, threads, stop, written, history>>

MakeHandler(t) ==
  /\ At(t, "handler") /\ Goto(t, "reset")
  /\ mine' = [mine EXCEPT ![t] = q]
  /\ verbose' = FALSE
  /\ UNCHANGED <<left, q, listener, logger, handlers, queues, threads, stop, written, history>>

ResetHandlers(t) ==
  /\ At(t, "reset") /\ Goto(t, "add")
  /\ handlers' = <<>>
  /\ UNCHANGED <<left, mine, q, listener, logger, verbose, queues, threads, stop, written, history>>

AddHandler(t) ==
  /\ At(t, "add") /\ Goto(t, "listen")
  /\ handlers' = Append(handlers, mine[t])
  /\ UNCHANGED <<left, mine, q, listener, logger, verbose, queues, threads, stop, written, history>>

\* _listener = QueueListener(_q, ...), then _listener.start(), whichever listener it is by then.
MakeLocal(t) ==                             \* mutant: _listener is not declared global
  /\ At(t, "listen") /\ Goto(t, "start")
  /\ UNCHANGED <<left, mine, globals, queues, threads, stop, written, history>>
MakeListener(t) ==
  /\ At(t, "listen") /\ Goto(t, "start")
  /\ listener' = q
  /\ UNCHANGED <<left, mine, q, logger, verbose, handlers, queues, threads, stop, written, history>>

StartListener(t) ==
  /\ At(t, "start") /\ Goto(t, "set")
  /\ threads' = Append(threads, [queue |-> listener, on |-> TRUE])
  /\ UNCHANGED <<left, mine, globals, queues, stop, written, history>>

SetLogger(t) ==
  /\ At(t, "set") /\ Goto(t, "assert")
  /\ logger' = TRUE
  /\ UNCHANGED <<left, mine, q, listener, verbose, handlers, queues, threads, stop, written, history>>

-----------------------------------------------------------------------------
(* shutdown_logging() and the listeners' threads                           *)

\* _listener.stop(): puts the sentinel, and waits for the thread.
StopListener ==
  /\ stop = "before"
  /\ stop' = "join"
  /\ queues' = [queues EXCEPT ![listener] = Append(@, Sentinel)]
  /\ UNCHANGED <<pc, left, mine, globals, threads, written, history>>

JoinAnyway ==                               \* mutant: stop() does not wait
  /\ stop = "join"
  /\ stop' = "listener"
  /\ UNCHANGED <<pc, left, mine, globals, queues, threads, written, history>>
Join ==
  /\ stop = "join" /\ ~threads[1].on
  /\ stop' = "listener"
  /\ UNCHANGED <<pc, left, mine, globals, queues, threads, written, history>>

ForgetNone ==                               \* mutant: _listener is not reset
  /\ stop = "listener" /\ stop' = "q"
  /\ UNCHANGED <<pc, left, mine, globals, queues, threads, written, history>>
ForgetListener ==
  /\ stop = "listener" /\ stop' = "q"
  /\ listener' = 0
  /\ UNCHANGED <<pc, left, mine, q, logger, verbose, handlers, queues, threads, written, history>>

ForgetQueue ==
  /\ stop = "q" /\ stop' = "logger"
  /\ q' = 0
  /\ UNCHANGED <<pc, left, mine, listener, logger, verbose, handlers, queues, threads, written, history>>

ForgetLogger ==
  /\ stop = "logger" /\ stop' = "done"
  /\ logger' = FALSE
  /\ UNCHANGED <<pc, left, mine, q, listener, verbose, handlers, queues, threads, written, history>>

\* A listener's thread takes the next record and writes it, and ends at the sentinel.
Write(n) ==
  /\ threads[n].on
  /\ LET line == queues[threads[n].queue] IN
     /\ line # <<>>
     /\ queues' = [queues EXCEPT ![threads[n].queue] = Tail(line)]
     /\ IF Head(line) = Sentinel
        THEN threads' = [threads EXCEPT ![n].on = FALSE] /\ UNCHANGED written
        ELSE written' = [written EXCEPT ![Head(line)] = @ + 1] /\ UNCHANGED threads
  /\ UNCHANGED <<pc, left, mine, globals, stop, history>>

Shutdown == StopListener \/ Join \/ ForgetListener \/ ForgetQueue \/ ForgetLogger
Initialise(t) ==
  \/ InitLogging(t) \/ NewQueue(t) \/ MakeHandler(t) \/ ResetHandlers(t)
  \/ AddHandler(t) \/ MakeListener(t) \/ StartListener(t) \/ SetLogger(t)

Next ==
  \/ \E t \in Thread : Emit(t) \/ AssertLogger(t) \/ Log(t) \/ Put(t) \/ Initialise(t)
  \/ Shutdown
  \/ \E n \in DOMAIN threads : Write(n)

Spec == Init /\ [][Next]_vars

-----------------------------------------------------------------------------
(* Properties                                                              *)

\* The type of every variable.
TypeOK ==
  /\ pc \in [Thread -> {"out", "init", "assert", "log", "put", "queue", "handler", "reset", "add",
                        "listen", "start", "set"}]
  /\ \A t \in Thread : left[t] \in 0..Records[t]
  /\ {q, listener} \cup ToSet(handlers) \cup {mine[t] : t \in Thread} \subseteq 0..Len(queues)
  /\ {logger, verbose, raced} \subseteq BOOLEAN
  /\ \A i \in DOMAIN queues : ToSet(queues[i]) \subseteq Record \cup {Sentinel}
  /\ \A n \in DOMAIN threads : threads[n].queue \in DOMAIN queues /\ threads[n].on \in BOOLEAN
  /\ stop \in {"before", "join", "listener", "q", "logger", "done"}
  /\ written \in [Record -> Nat]
  /\ early \cup late \cup raised \subseteq Record

\* shutdown_logging(), called in the middle of other threads' logging, returns only when every
\* record that was on the queue before it was called has been written, and none of them twice.
Flushed ==
  /\ \A r \in early : written[r] <= 1
  /\ stop = "done" => \A r \in early : written[r] = 1

InUse(n) == threads[n].on /\ Contains(handlers, threads[n].queue)

\* What is logged after the shutdown initialises the queue again: _emit() does not raise, the
\* record is on the queue of the one listener that runs or has been written, once, and nothing
\* but that queue gets records. Only when two threads initialise at the same time this fails.
Reinitialised ==
  stop = "done" /\ ~raced =>
    /\ raised \cap late = {}
    /\ \A r \in late : written[r] <= 1
    /\ logger => /\ handlers = <<q>> /\ listener = q
                 /\ Cardinality({n \in DOMAIN threads : InUse(n)}) = 1
    /\ \A r \in late : r[1] = "main" /\ r[2] > left["main"] =>
         \/ written[r] = 1
         \/ \E n \in DOMAIN threads : InUse(n) /\ Contains(queues[threads[n].queue], r)
=============================================================================
