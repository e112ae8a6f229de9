---------------------------- MODULE HostSessions ----------------------------
(***************************************************************************)
(* The SSH sessions of one run of a command line: main() of gather_cli.py  *)
(* and scatter_cli.py, the connectivity probe of core_cli_support.py and   *)
(* the connection registry of core_ssh.py they share.                      *)
(*                                                                         *)
(* A pool of threads probes every line of the hosts file: a probe opens a  *)
(* connection, which ssh_open() registers under the host's name, and       *)
(* closes it again together with everything registered under that name.    *)
(* The main thread then opens the session of each reachable line. The      *)
(* workers of execute() register it once more, while a signal may already  *)
(* make the main thread close all there is.                                *)
(*                                                                         *)
(* A bucket is an object: a thread that has looked one up may still append *)
(* to it after another thread has taken it out of the registry.            *)
(***************************************************************************)
EXTENDS Naturals, Sequences, FiniteSets

CONSTANTS
  NumLines,      \* lines of the hosts file
  Host,          \* host names
  HostOf,        \* the host of each line: a name may be listed twice
  Accepting,     \* the hosts that accept every connection
  Parallel       \* --parallel, at least 1

ASSUME SessionAssumption ==
  /\ NumLines \in Nat \ {0}
  /\ HostOf \in [1..NumLines -> Host]
  /\ Accepting \subseteq Host
  /\ Parallel \in Nat \ {0}

Line == 1..NumLines
Main == 0                                   \* the main thread, among the lines' threads
Thread == {Main} \cup Line
\* A connection is named for the line it was opened for: once to probe, once to work with.
Probe(t) == t
Work(t) == NumLines + t
Conn == 1..(2 * NumLines)

VARIABLES
  phase,         \* main(): "probe", "plan", "run", "end"
  exit,          \* "none", "no hosts", "dry run", "ran" or "raised"
  thread,        \* each thread's label, its host, the bucket it holds, what it closes next
  verdict,       \* a probe's result: "none", "ok", "ssh" or "sftp"
  conn,          \* each connection: "none", "open" or "closed"
  sftp,          \* the SFTP client opened on it, likewise
  registry,      \* _registry: host -> number of its bucket, or 0
  bucket,        \* the buckets ever made: [conns, sftps]
  session,       \* meta_per_host: the connection the workers of a host use
  planned,       \* lines whose plan is built
  stop,          \* has a signal arrived?
  closing        \* the clean-up close_all(): "unregistered", "registered" or "missed"

vars == <<phase, exit, thread, verdict, conn, sftp, registry, bucket, session, planned, stop, closing>>
tableVars == <<registry, bucket>>
linkVars == <<conn, sftp>>
mainVars == <<phase, exit, session, planned, stop, closing>>

\* close_all() goes through hosts and keeps the one it is at in host.
Idle(x) ==
  [ at |-> "idle", host |-> IF x = Main THEN HostOf[1] ELSE HostOf[x], bucket |-> 0,
    hosts |-> {}, todo |-> {} ]

Init ==
  /\ phase = "probe" /\ exit = "none"
  /\ thread = [x \in Thread |-> Idle(x)]
  /\ verdict = [t \in Line |-> "none"]
  /\ conn = [c \in Conn |-> "none"]
  /\ sftp = [c \in Conn |-> "none"]
  /\ registry = [h \in Host |-> 0]
  /\ bucket = << >>
  /\ session = [h \in Host |-> 0]
  /\ planned = {}
  /\ stop = FALSE
  /\ closing = "unregistered"

Empty == [conns |-> {}, sftps |-> {}]

At(x, l) == thread[x].at = l
Goto(x, l) == thread' = [thread EXCEPT ![x].at = l]

-----------------------------------------------------------------------------
(* The registry                                                            *)

\* _get_bucket(): look up or create, in one critical section.
GetBucket(x, next) ==
  LET h == thread[x].host
      b == IF registry[h] # 0 THEN registry[h] ELSE Len(bucket) + 1
  IN /\ registry' = [registry EXCEPT ![h] = b]
     /\ bucket' = IF registry[h] # 0 THEN bucket ELSE Append(bucket, Empty)
     /\ thread' = [thread EXCEPT ![x].at = next, ![x].bucket = b]

\* register_connection() and register_sftp() append in a second one.
AppendTo(x, field, c, next) ==
  /\ bucket' = [bucket EXCEPT ![thread[x].bucket][field] = @ \cup {c}]
  /\ Goto(x, next)
  /\ UNCHANGED registry

\* close(): a connection takes its SFTP client with it.
ShutLink(link, S) == [c \in Conn |-> IF c \in S /\ link[c] = "open" THEN "closed" ELSE link[c]]

FindBucketAssumes(x, absent) ==             \* mutant: "if bucket is None" is missing
  /\ At(x, "find")
  /\ thread' = [thread EXCEPT ![x].at = "sftps", ![x].bucket = registry[thread[x].host]]
  /\ UNCHANGED <<linkVars, tableVars>>

\* close_connections(): look the bucket up; close its SFTP clients, then the connections it
\* has at that moment, one by one and outside the lock; take the host out of the registry.
FindBucket(x, absent) ==
  /\ At(x, "find")
  /\ IF registry[thread[x].host] = 0
       THEN Goto(x, absent)
       ELSE thread' = [thread EXCEPT ![x].at = "sftps", ![x].bucket = registry[thread[x].host]]
  /\ UNCHANGED <<linkVars, tableVars>>

CloseSftps(x) ==
  /\ At(x, "sftps")
  /\ sftp' = ShutLink(sftp, bucket[thread[x].bucket].sftps)
  /\ thread' = [thread EXCEPT ![x].at = "conns", ![x].todo = bucket[thread[x].bucket].conns]
  /\ UNCHANGED <<conn, tableVars>>

CloseConn(x) ==
  /\ At(x, "conns")
  /\ IF thread[x].todo = {}
       THEN Goto(x, "pop") /\ UNCHANGED linkVars
       ELSE \E c \in thread[x].todo :
              /\ conn' = ShutLink(conn, {c})
              /\ sftp' = ShutLink(sftp, {c})
              /\ thread' = [thread EXCEPT ![x].todo = @ \ {c}]
  /\ UNCHANGED tableVars

Pop(x, next) ==
  /\ At(x, "pop")
  /\ registry' = [registry EXCEPT ![thread[x].host] = 0]
  /\ thread' = [thread EXCEPT ![x].at = next, ![x].bucket = 0]
  /\ UNCHANGED <<bucket, linkVars>>

CloseConnections(x, next) == FindBucket(x, next) \/ CloseSftps(x) \/ CloseConn(x) \/ Pop(x, next)

-----------------------------------------------------------------------------
(* A probe: _probe_host(), one task of the pool per line                   *)

Busy == {t \in Line : thread[t].at \notin {"idle", "done"}}

\* Whatever opens a connection may fail unless the host accepts them all.
MayFail(h) == h \notin Accepting

Connect(t) ==
  /\ phase = "probe"
  /\ At(t, "idle")
  /\ \A u \in 1..(t - 1) : ~At(u, "idle")
  /\ Cardinality(Busy) < Parallel
  /\ \/ conn' = [conn EXCEPT ![Probe(t)] = "open"] /\ Goto(t, "lookup") /\ UNCHANGED verdict
     \/ /\ MayFail(HostOf[t])
        /\ verdict' = [verdict EXCEPT ![t] = "ssh"]
        /\ Goto(t, "find")
        /\ UNCHANGED conn
  /\ UNCHANGED <<mainVars, sftp, tableVars>>

\* The registration that ssh_open() ends with.
Register(t) ==
  /\ phase = "probe"
  /\ \/ At(t, "lookup") /\ GetBucket(t, "append")
     \/ At(t, "append") /\ AppendTo(t, "conns", Probe(t), "sftp")
  /\ UNCHANGED <<mainVars, verdict, linkVars>>

OpenSftp(t) ==
  /\ At(t, "sftp")
  /\ \/ /\ conn[Probe(t)] = "open"
        /\ sftp' = [sftp EXCEPT ![Probe(t)] = "open"]
        /\ verdict' = [verdict EXCEPT ![t] = "ok"]
     \/ /\ conn[Probe(t)] # "open" \/ MayFail(HostOf[t])
        /\ verdict' = [verdict EXCEPT ![t] = "sftp"]
        /\ UNCHANGED sftp
  /\ Goto(t, "own")
  /\ UNCHANGED <<mainVars, conn, tableVars>>

CloseOwnSftp(t) ==                          \* mutant: the connection is left to the registry
  /\ At(t, "own")
  /\ sftp' = ShutLink(sftp, {Probe(t)})
  /\ Goto(t, "find")
  /\ UNCHANGED <<mainVars, verdict, conn, tableVars>>

\* The finally clause: its own SFTP client and connection, then close_connections(host),
\* which it also calls when it never got a connection.
CloseOwn(t) ==
  /\ At(t, "own")
  /\ conn' = ShutLink(conn, {Probe(t)})
  /\ sftp' = ShutLink(sftp, {Probe(t)})
  /\ Goto(t, "find")
  /\ UNCHANGED <<mainVars, verdict, tableVars>>

CloseHost(t) ==
  /\ CloseConnections(t, "done")
  /\ UNCHANGED <<mainVars, verdict>>

-----------------------------------------------------------------------------
(* main()                                                                  *)

ReachableHosts ==                           \* mutant: one result per host, a failure wins
  {t \in Line : \A u \in Line : HostOf[u] = HostOf[t] => verdict[u] = "ok"}
Reachable == {t \in Line : verdict[t] = "ok"}

LeaveProbing ==
  IF Reachable = {} THEN phase' = "end" /\ exit' = "no hosts" ELSE phase' = "plan" /\ UNCHANGED exit

ProbedEarly ==                              \* mutant: on the results, not the end of the pool
  /\ phase = "probe"
  /\ \A t \in Line : verdict[t] # "none"
  /\ LeaveProbing
  /\ UNCHANGED <<thread, verdict, linkVars, tableVars, session, planned, stop, closing>>

\* The pool is left when every probe has ended.
Probed ==
  /\ phase = "probe"
  /\ \A t \in Line : At(t, "done")
  /\ LeaveProbing
  /\ UNCHANGED <<thread, verdict, linkVars, tableVars, session, planned, stop, closing>>

BuildPlanLatest ==                          \* mutant: one connection per host is registered
  /\ phase = "plan"
  /\ \E t \in Reachable \ planned :
       LET h == HostOf[t]
       IN /\ \A u \in Reachable \ planned : t <= u
          /\ conn' = [conn EXCEPT ![Work(t)] = "open"]
          /\ sftp' = [sftp EXCEPT ![Work(t)] = "open"]
          /\ bucket' = Append(bucket, [conns |-> {Work(t)}, sftps |-> {}])
          /\ registry' = [registry EXCEPT ![h] = Len(bucket) + 1]
          /\ session' = [session EXCEPT ![h] = Work(t)]
          /\ planned' = planned \cup {t}
  /\ UNCHANGED <<phase, exit, thread, verdict, stop, closing>>

\* _build_plan_for_host(): ssh_open() and open_sftp(), then the enumeration. The main thread
\* is alone, so opening and registering are one step. An exception ends the program.
BuildPlan ==
  /\ phase = "plan"
  /\ \E t \in Reachable \ planned :
       LET h == HostOf[t]
           b == IF registry[h] # 0 THEN registry[h] ELSE Len(bucket) + 1
           known == IF registry[h] # 0 THEN bucket ELSE Append(bucket, Empty)
       IN /\ \A u \in Reachable \ planned : t <= u
          /\ conn' = [conn EXCEPT ![Work(t)] = "open"]
          /\ sftp' = [sftp EXCEPT ![Work(t)] = "open"]
          /\ bucket' = [known EXCEPT ![b].conns = @ \cup {Work(t)}]
          /\ registry' = [registry EXCEPT ![h] = b]
          /\ session' = [session EXCEPT ![h] = Work(t)]
          /\ planned' = planned \cup {t}
  /\ UNCHANGED <<phase, exit, thread, verdict, stop, closing>>

PlanFails ==
  /\ phase = "plan"
  /\ planned # Reachable
  /\ phase' = "end" /\ exit' = "raised"
  /\ UNCHANGED <<session, planned, stop, closing, thread, verdict, linkVars, tableVars>>

\* With every plan built: a dry run ends, otherwise the handlers are installed and
\* execute() begins, which registers its clean-ups before it starts the workers.
Planned ==
  /\ phase = "plan"
  /\ planned = Reachable
  /\ \/ phase' = "end" /\ exit' = "dry run" /\ UNCHANGED thread
     \/ /\ phase' = "run"
        /\ thread' = [x \in Thread |-> Idle(x)]
        /\ UNCHANGED exit
  /\ UNCHANGED <<verdict, linkVars, tableVars, session, planned, stop, closing>>

-----------------------------------------------------------------------------
(* A worker: the first lines of run_host_gather() and run_host_scatter()    *)

\* It looks up the host's connection and its SFTP client and registers both.
StartWork(t) ==
  /\ phase = "run"
  /\ closing # "unregistered"
  /\ t \in Reachable
  /\ At(t, "idle")
  /\ \A u \in 1..(t - 1) : u \in Reachable => ~At(u, "idle")
  /\ Cardinality(Busy) < Parallel
  /\ Goto(t, IF stop THEN "done" ELSE "lookup")
  /\ UNCHANGED <<mainVars, verdict, linkVars, tableVars>>

RegisterSession(t) ==
  /\ phase = "run"
  /\ LET c == session[HostOf[t]] IN
     \/ At(t, "lookup") /\ GetBucket(t, "append")
     \/ At(t, "append") /\ AppendTo(t, "conns", c, "lookupSftp")
     \/ At(t, "lookupSftp") /\ GetBucket(t, "appendSftp")
     \/ At(t, "appendSftp") /\ AppendTo(t, "sftps", c, "work")
  /\ UNCHANGED <<mainVars, verdict, linkVars>>

\* The transfers, which need no more than the session.
EndWork(t) ==
  /\ At(t, "work")
  /\ Goto(t, "done")
  /\ UNCHANGED <<mainVars, verdict, linkVars, tableVars>>

-----------------------------------------------------------------------------
(* The clean-up: close_all(), on the main thread                           *)

RegisterCleanups ==
  /\ phase = "run"
  /\ closing = "unregistered"
  /\ closing' = "registered"
  /\ UNCHANGED <<phase, exit, session, planned, stop, thread, verdict, linkVars, tableVars>>

\* The handler's run_cleanups() is the only one that counts: what is registered after it is
\* never called.
Signal ==
  /\ phase = "run"
  /\ ~stop
  /\ stop' = TRUE
  /\ closing' = IF closing = "unregistered" THEN "missed" ELSE closing
  /\ UNCHANGED <<phase, exit, session, planned, thread, verdict, linkVars, tableVars>>

WorkersDone == \A t \in Reachable : At(t, "done")

CleanedUp == At(Main, "done")
\* run_cleanups() runs once: when the workers have ended, or before, in the handler. It
\* copies the hosts and closes them one after the other.
CloseAll ==
  /\ phase = "run"
  /\ closing = "registered"
  /\ At(Main, "idle")
  /\ stop \/ WorkersDone
  /\ thread' = [thread EXCEPT ![Main].at = "next", ![Main].hosts = {h \in Host : registry[h] # 0}]
  /\ UNCHANGED <<mainVars, verdict, linkVars, tableVars>>

NextHost ==
  /\ At(Main, "next")
  /\ IF thread[Main].hosts = {}
       THEN Goto(Main, "done")
       ELSE \E h \in thread[Main].hosts :
              thread' = [thread EXCEPT ![Main].at = "find", ![Main].host = h, ![Main].hosts = @ \ {h}]
  /\ UNCHANGED <<mainVars, verdict, linkVars, tableVars>>

CloseNextHost ==
  /\ CloseConnections(Main, "next")
  /\ UNCHANGED <<mainVars, verdict>>

Exit ==
  /\ phase = "run"
  /\ WorkersDone
  /\ CleanedUp \/ closing = "missed"
  /\ phase' = "end" /\ exit' = "ran"
  /\ UNCHANGED <<session, planned, stop, closing, thread, verdict, linkVars, tableVars>>

-----------------------------------------------------------------------------
ProbeStep(t) == Connect(t) \/ Register(t) \/ OpenSftp(t) \/ CloseOwn(t) \/ CloseHost(t)
WorkStep(t) == StartWork(t) \/ RegisterSession(t) \/ EndWork(t)
MainStep ==
  \/ Probed \/ BuildPlan \/ PlanFails \/ Planned
  \/ RegisterCleanups \/ CloseAll \/ NextHost \/ CloseNextHost \/ Exit

Next == MainStep \/ Signal \/ \E t \in Line : ProbeStep(t) \/ WorkStep(t)

Spec == Init /\ [][Next]_vars

-----------------------------------------------------------------------------
(* Properties                                                              *)

Labels == { "idle", "lookup", "append", "sftp", "own", "find", "sftps", "conns", "pop", "done",
  "lookupSftp", "appendSftp", "work", "next" }
LinkState == {"none", "open", "closed"}

\* The type of every variable: a bucket is only held under a number that was given out.
TypeOK ==
  /\ phase \in {"probe", "plan", "run", "end"}
  /\ exit \in {"none", "no hosts", "dry run", "ran", "raised"}
  /\ thread \in [Thread -> [ at : Labels, host : Host, bucket : 0..Len(bucket),
                             hosts : SUBSET Host, todo : SUBSET Conn ]]
  /\ \A x \in Thread : thread[x].at \in {"append", "appendSftp", "sftps"} => thread[x].bucket # 0
  /\ verdict \in [Line -> {"none", "ok", "ssh", "sftp"}]
  /\ conn \in [Conn -> LinkState] /\ sftp \in [Conn -> LinkState]
  /\ registry \in [Host -> 0..Len(bucket)]
  /\ bucket \in Seq([conns : SUBSET Conn, sftps : SUBSET Conn])
  /\ session \in [Host -> {0} \cup Conn]
  /\ planned \subseteq Reachable
  /\ stop \in BOOLEAN
  /\ closing \in {"unregistered", "registered", "missed"}

\* A host that accepts every connection is served, even when it is listed more than once
\* and its probes close each other's connections.
HostServed ==
  phase # "probe" =>
    \A t \in Line : HostOf[t] \in Accepting => \E u \in Reachable : HostOf[u] = HostOf[t]

\* Probing leaves nothing behind: every connection it opened is closed and the registry is
\* empty before the first session is opened.
ProbesClosed ==
  phase # "probe" =>
    /\ \A t \in Line : conn[Probe(t)] # "open" /\ sftp[Probe(t)] # "open"
    /\ planned = {} /\ phase = "plan" => \A h \in Host : registry[h] = 0

\* Until the clean-up starts, close_all() would find every session there is.
SessionsFindable ==
  phase \in {"plan", "run"} /\ At(Main, "idle") =>
    \A t \in planned : registry[HostOf[t]] # 0 /\ Work(t) \in bucket[registry[HostOf[t]]].conns

\* When the handler's clean-up is over, every session is closed, those of a host that is
\* listed twice as well, and a worker that registers one late does not matter; the same is
\* true at the end of execute(), unless a signal arrived before close_all() was registered.
AllClosed == \A c \in Conn : conn[c] # "open" /\ sftp[c] # "open"
SessionsClosed ==
  /\ CleanedUp => AllClosed
  /\ exit = "ran" => AllClosed \/ (stop /\ closing = "missed")

\* No session is closed under a worker, except by the clean-up after a signal.
SessionsKept ==
  [][\A t \in Line : conn[Work(t)] = "open" /\ conn'[Work(t)] # "open" => stop \/ WorkersDone]_vars

\* core_cli_support.py:346 - the probe tells whether a host can be connected to.
NeverExcluded ==
  \A t \in Line : HostOf[t] \in Accepting => verdict[t] \in {"none", "ok"}

\* docs/gm-gather-specJP.md:192 - after a signal, too, the tool closes the open SSH and SFTP
\* sessions when it ends.
SessionsEnd == exit = "ran" => AllClosed
=============================================================================
