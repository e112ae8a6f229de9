------------------------- MODULE HostSessionsProofs -------------------------
(***************************************************************************)
(* Theorems about HostSessions, for every hosts file, every set of hosts   *)
(* that accept connections and every number of threads.                    *)
(***************************************************************************)
EXTENDS HostSessions, TLAPS, SequenceTheorems

CleanLabels == {"idle", "next", "find", "sftps", "conns", "pop", "done"}
ProbeLabels == {"idle", "lookup", "append", "sftp", "own", "find", "sftps", "conns", "pop", "done"}
WorkLabels == {"idle", "lookup", "append", "lookupSftp", "appendSftp", "work", "done"}

\* Where the threads can be in each phase of main().
PhaseInv ==
  /\ \A t \in Line : thread[t].host = HostOf[t]
  /\ phase = "probe" =>
       At(Main, "idle") /\ planned = {} /\ \A t \in Line : thread[t].at \in ProbeLabels
  /\ phase = "plan" => At(Main, "idle") /\ \A t \in Line : At(t, "done")
  /\ phase = "run" =>
       /\ planned = Reachable
       /\ thread[Main].at \in CleanLabels
       /\ \A t \in Line : thread[t].at \in WorkLabels /\ (t \notin Reachable => At(t, "idle"))
  /\ phase = "end" => thread[Main].at \in {"idle", "done"} /\ \A t \in Line : thread[t].at \in {"idle", "done"}
  /\ ~At(Main, "idle") => /\ phase \in {"run", "end"} /\ closing = "registered"
                          /\ stop \/ WorkersDone
  /\ \A t \in planned : session[HostOf[t]] # 0

\* A probe has its connection open between Connect and CloseOwn at most, a session exists
\* once its plan is built, and no SFTP client outlives its connection.
LinkInv ==
  /\ \A c \in Conn : sftp[c] = "open" => conn[c] = "open"
  /\ \A t \in Line :
       conn[Probe(t)] = "open" => phase = "probe" /\ thread[t].at \in {"lookup", "append", "sftp", "own"}
  /\ \A t \in Line : conn[Work(t)] # "none" => t \in planned

\* While the probes run, a host in the registry has one that is going to take it out.
ProbeInv ==
  /\ phase = "probe" =>
       \A h \in Host : registry[h] # 0 =>
         \E t \in Line : HostOf[t] = h /\ thread[t].at \notin {"idle", "lookup", "done"}
  /\ phase = "plan" /\ planned = {} => \A h \in Host : registry[h] = 0

\* Each bucket is one host's: of the host it is registered for, of the threads that hold it
\* and of the connections in it.
Owned(own) ==
  /\ \A h \in Host : registry[h] # 0 => own[registry[h]] = h
  /\ \A t \in Line : thread[t].bucket # 0 => own[thread[t].bucket] = HostOf[t]
  /\ \A b \in 1..Len(bucket), t \in Line : Probe(t) \in bucket[b].conns => own[b] = HostOf[t]
OwnerInv == phase = "probe" => \E own \in [1..Len(bucket) -> Host] : Owned(own)

\* A probe that accepts is only ever cut off by one that has succeeded before it.
Served(h) == \E u \in Reachable : HostOf[u] = h
ServedInv ==
  /\ phase = "probe" =>
       \A t \in Line :
         /\ \A u \in Line : Probe(u) \in thread[t].todo => HostOf[u] = HostOf[t]
         /\ thread[t].at \in {"lookup", "append", "sftp"} => conn[Probe(t)] # "none"
         /\ thread[t].at \in {"idle", "lookup", "append", "sftp"} <=> verdict[t] = "none"
         /\ HostOf[t] \in Accepting /\ (verdict[t] # "none" \/ conn[Probe(t)] = "closed") => Served(HostOf[t])
  /\ HostServed

\* Before and during close_all(): where it will find, or has found, each session.
Findable(t) == registry[HostOf[t]] # 0 /\ Work(t) \in bucket[registry[HostOf[t]]].conns
Pending(t) ==
  \/ HostOf[t] \in thread[Main].hosts /\ Findable(t)
  \/ /\ thread[Main].host = HostOf[t]
     /\ \/ At(Main, "find") /\ Findable(t)
        \/ At(Main, "sftps") /\ Work(t) \in bucket[thread[Main].bucket].conns
        \/ At(Main, "conns") /\ Work(t) \in thread[Main].todo
CloseInv ==
  /\ SessionsFindable
  /\ thread[Main].at \in {"find", "sftps", "conns", "pop"} => thread[Main].host \notin thread[Main].hosts
  /\ At(Main, "done") => thread[Main].hosts = {}
  /\ ~At(Main, "idle") => \A t \in planned : conn[Work(t)] = "open" => Pending(t)

IInv == TypeOK /\ PhaseInv /\ LinkInv /\ ProbeInv /\ OwnerInv /\ ServedInv /\ CloseInv

-----------------------------------------------------------------------------
(* Type correctness                                                        *)

Bucket == [conns : SUBSET Conn, sftps : SUBSET Conn]
ThreadRecord(n) ==
  [at : Labels, host : Host, bucket : 0..n, hosts : SUBSET Host, todo : SUBSET Conn]

\* TypeOK in four parts.
ThreadType ==
  /\ thread \in [Thread -> ThreadRecord(Len(bucket))]
  /\ \A x \in Thread : thread[x].at \in {"append", "appendSftp", "sftps"} => thread[x].bucket # 0
TableType == registry \in [Host -> 0..Len(bucket)] /\ bucket \in Seq(Bucket)
LinkType == conn \in [Conn -> LinkState] /\ sftp \in [Conn -> LinkState]
MainType ==
  /\ phase \in {"probe", "plan", "run", "end"}
  /\ exit \in {"none", "no hosts", "dry run", "ran", "raised"}
  /\ verdict \in [Line -> {"none", "ok", "ssh", "sftp"}]
  /\ session \in [Host -> {0} \cup Conn]
  /\ planned \subseteq Reachable
  /\ stop \in BOOLEAN
  /\ closing \in {"unregistered", "registered", "missed"}

Typed == ThreadType /\ TableType /\ LinkType /\ MainType

LEMMA TypeParts == (TypeOK <=> Typed) /\ (TypeOK' <=> Typed')
BY DEF Typed, TypeOK, ThreadType, TableType, LinkType, MainType, ThreadRecord, Bucket

\* What a step does to the buckets: it may make one and put connections into them.
BucketsGrow ==
  /\ bucket' \in Seq(Bucket)
  /\ Len(bucket') >= Len(bucket)
  /\ \A b \in 1..Len(bucket) : bucket[b].conns \subseteq bucket'[b].conns

LEMMA AppendGrows ==
  ASSUME bucket \in Seq(Bucket), bucket' = Append(bucket, Empty)
  PROVE  BucketsGrow /\ Len(bucket') = Len(bucket) + 1 /\ bucket'[Len(bucket) + 1] = Empty
BY DEF BucketsGrow, Bucket, Empty

\* A bucket that is replaced by one with more connections.
LEMMA ReplaceGrows ==
  ASSUME bucket \in Seq(Bucket), NEW b \in 1..Len(bucket), NEW r \in Bucket,
         bucket[b].conns \subseteq r.conns, bucket' = [bucket EXCEPT ![b] = r]
  PROVE  /\ BucketsGrow /\ Len(bucket') = Len(bucket)
         /\ \A d \in 1..Len(bucket) : bucket'[d] = IF d = b THEN r ELSE bucket[d]
<1>1. /\ bucket' \in Seq(Bucket) /\ Len(bucket') = Len(bucket)
      /\ \A d \in 1..Len(bucket) : bucket'[d] = IF d = b THEN r ELSE bucket[d]
  BY ExceptSeq
<1> QED
  BY <1>1 DEF BucketsGrow

LEMMA PutConnGrows ==
  ASSUME bucket \in Seq(Bucket), NEW b \in 1..Len(bucket), NEW c \in Conn,
         bucket' = [bucket EXCEPT ![b].conns = @ \cup {c}]
  PROVE  /\ BucketsGrow /\ Len(bucket') = Len(bucket) /\ c \in bucket'[b].conns
         /\ \A d \in 1..Len(bucket), e \in Conn :
              e \in bucket'[d].conns => e \in bucket[d].conns \/ (d = b /\ e = c)
<1> DEFINE r == [bucket[b] EXCEPT !.conns = @ \cup {c}]
<1>1. bucket[b] \in Bucket
  OBVIOUS
<1>2. r \in Bucket /\ r.conns = bucket[b].conns \cup {c}
  BY <1>1 DEF Bucket
<1>3. bucket' = [bucket EXCEPT ![b] = r]
  OBVIOUS
<1>4. /\ BucketsGrow /\ Len(bucket') = Len(bucket)
      /\ \A d \in 1..Len(bucket) : bucket'[d] = IF d = b THEN r ELSE bucket[d]
  <2>1. bucket[b].conns \subseteq r.conns
    BY <1>2
  <2> HIDE DEF r
  <2> QED BY <1>2, <1>3, <2>1, ReplaceGrows, Zenon
<1> HIDE DEF r
<1> QED
  BY <1>2, <1>4

LEMMA PutSftpGrows ==
  ASSUME bucket \in Seq(Bucket), NEW b \in 1..Len(bucket), NEW c \in Conn,
         bucket' = [bucket EXCEPT ![b].sftps = @ \cup {c}]
  PROVE  BucketsGrow /\ Len(bucket') = Len(bucket)
<1> DEFINE r == [bucket[b] EXCEPT !.sftps = @ \cup {c}]
<1>1. bucket[b] \in Bucket
  OBVIOUS
<1>2. r \in Bucket /\ bucket[b].conns \subseteq r.conns
  BY <1>1 DEF Bucket
<1>3. bucket' = [bucket EXCEPT ![b] = r]
  OBVIOUS
<1> HIDE DEF r
<1> QED
  BY <1>2, <1>3, ReplaceGrows, Zenon

\* A thread's record with a new label and another field changed.
LEMMA RecordType ==
  ASSUME NEW n \in Nat, NEW r \in ThreadRecord(n), NEW l \in Labels,
         NEW b \in 0..n, NEW S \in SUBSET Conn, NEW H \in SUBSET Host, NEW h \in Host
  PROVE  /\ [r EXCEPT !.at = l] \in ThreadRecord(n)
         /\ [r EXCEPT !.at = l, !.bucket = b] \in ThreadRecord(n)
         /\ [r EXCEPT !.at = l, !.todo = S] \in ThreadRecord(n)
         /\ [r EXCEPT !.todo = S] \in ThreadRecord(n)
         /\ [r EXCEPT !.at = l, !.hosts = H] \in ThreadRecord(n)
         /\ [r EXCEPT !.at = l, !.host = h, !.hosts = H] \in ThreadRecord(n)
BY DEF ThreadRecord

LEMMA WiderRecord ==
  ASSUME NEW n \in Nat, NEW m \in Nat, n <= m, NEW r \in ThreadRecord(n)
  PROVE  r \in ThreadRecord(m)
BY DEF ThreadRecord

\* A thread that changes its record keeps the threads typed.
LEMMA UpdateType ==
  ASSUME ThreadType, bucket \in Seq(Bucket), BucketsGrow, NEW x \in Thread,
         NEW r \in ThreadRecord(Len(bucket')), thread' = [thread EXCEPT ![x] = r],
         r.at \in {"append", "appendSftp", "sftps"} => r.bucket # 0
  PROVE  ThreadType'
<1>1. \A y \in Thread : thread[y] \in ThreadRecord(Len(bucket'))
  BY WiderRecord DEF ThreadType, BucketsGrow
<1> QED
  BY <1>1 DEF ThreadType

LEMMA SameBuckets == ASSUME bucket \in Seq(Bucket), UNCHANGED bucket PROVE BucketsGrow
BY DEF BucketsGrow

\* Looking a bucket up, or making one.
LEMMA GetBucketType ==
  ASSUME ThreadType, TableType, NEW x \in Thread, NEW l \in {"append", "appendSftp"}, GetBucket(x, l)
  PROVE  BucketsGrow /\ ThreadType' /\ TableType'
<1> DEFINE h == thread[x].host
           b == IF registry[h] # 0 THEN registry[h] ELSE Len(bucket) + 1
           r == [thread[x] EXCEPT !.at = l, !.bucket = b]
<1>1. h \in Host /\ registry[h] \in 0..Len(bucket) /\ bucket \in Seq(Bucket)
  BY DEF ThreadType, TableType, ThreadRecord
<1>2. BucketsGrow /\ b \in 1..Len(bucket')
  BY <1>1, AppendGrows, SameBuckets DEF GetBucket, BucketsGrow
<1>3. registry' = [registry EXCEPT ![h] = b] /\ thread' = [thread EXCEPT ![x] = r]
  BY DEF GetBucket
<1>4. thread[x] \in ThreadRecord(Len(bucket'))
  BY <1>1, <1>2, WiderRecord DEF ThreadType, BucketsGrow
<1> HIDE DEF b
<1>5. r \in ThreadRecord(Len(bucket')) /\ r.bucket # 0
  <2>1. l \in Labels /\ b \in 0..Len(bucket') /\ b # 0
    BY <1>2 DEF Labels
  <2> HIDE <1>2
  <2> QED BY <1>4, <2>1 DEF ThreadRecord
<1>6. registry' \in [Host -> 0..Len(bucket')]
  <2>1. \A g \in Host : registry[g] \in 0..Len(bucket')
    BY <1>1, <1>2 DEF TableType, BucketsGrow
  <2>2. b \in 0..Len(bucket')
    BY <1>2 DEF BucketsGrow
  <2> HIDE DEF h
  <2> QED BY <1>3, <2>1, <2>2 DEF TableType
<1> HIDE DEF r
<1>7. ThreadType'
  BY <1>1, <1>2, <1>3, <1>5, UpdateType
<1> QED
  BY <1>2, <1>6, <1>7 DEF TableType, BucketsGrow

\* Putting a connection or an SFTP client into it.
LEMMA AppendToType ==
  ASSUME ThreadType, TableType, NEW x \in Thread, thread[x].bucket # 0, NEW c \in Conn,
         NEW field \in {"conns", "sftps"}, NEW l \in {"sftp", "lookupSftp", "work"},
         AppendTo(x, field, c, l)
  PROVE  BucketsGrow /\ ThreadType' /\ TableType'
<1> DEFINE r == [thread[x] EXCEPT !.at = l]
<1>1. bucket \in Seq(Bucket) /\ thread[x].bucket \in 1..Len(bucket)
  BY DEF ThreadType, TableType, ThreadRecord
<1>2. BucketsGrow /\ Len(bucket') = Len(bucket)
  <2>1. CASE field = "conns"
    BY <1>1, <2>1, PutConnGrows DEF AppendTo
  <2>2. CASE field = "sftps"
    BY <1>1, <2>2, PutSftpGrows DEF AppendTo
  <2> QED BY <2>1, <2>2
<1>3. r \in ThreadRecord(Len(bucket')) /\ r.at = l
  BY <1>2 DEF ThreadType, ThreadRecord, Labels
<1>4. thread' = [thread EXCEPT ![x] = r]
  BY DEF AppendTo, Goto
<1> HIDE DEF r
<1>5. ThreadType'
  BY <1>1, <1>2, <1>3, <1>4, UpdateType
<1> QED
  BY <1>2, <1>5 DEF TableType, BucketsGrow, AppendTo

\* A thread that moves to another label.
LEMMA GotoType ==
  ASSUME ThreadType, TableType, bucket' = bucket,
         NEW x \in Thread, NEW l \in Labels, l \notin {"append", "appendSftp", "sftps"}, Goto(x, l)
  PROVE  ThreadType'
<1> DEFINE r == [thread[x] EXCEPT !.at = l]
<1>1. r \in ThreadRecord(Len(bucket')) /\ r.at \notin {"append", "appendSftp", "sftps"}
  BY DEF ThreadType, ThreadRecord
<1>2. thread' = [thread EXCEPT ![x] = r]
  BY DEF Goto
<1> HIDE DEF r
<1>3. BucketsGrow /\ bucket \in Seq(Bucket)
  BY SameBuckets DEF TableType
<1>4. ThreadType'
  BY <1>1, <1>2, <1>3, UpdateType
<1> QED
  BY <1>4

\* ShutLink keeps what it closes typed.
LEMMA ShutLinkType ==
  ASSUME NEW link \in [Conn -> LinkState], NEW S
  PROVE  /\ ShutLink(link, S) \in [Conn -> LinkState]
         /\ \A c \in Conn : ShutLink(link, S)[c] = IF c \in S /\ link[c] = "open" THEN "closed" ELSE link[c]
BY DEF ShutLink, LinkState

\* The steps of close_connections().
LEMMA CloseConnectionsType ==
  ASSUME ThreadType, TableType, LinkType, NEW x \in Thread, NEW l \in {"done", "next"},
         CloseConnections(x, l)
  PROVE  ThreadType' /\ TableType' /\ LinkType' /\ UNCHANGED bucket
<1>1. bucket \in Seq(Bucket) /\ thread[x] \in ThreadRecord(Len(bucket)) /\ l \in Labels
  BY DEF ThreadType, TableType, Labels
<1>2. CASE FindBucket(x, l)
  <2>1. UNCHANGED <<conn, sftp, registry, bucket>>
    BY <1>2 DEF FindBucket, linkVars, tableVars
  <2>2. CASE registry[thread[x].host] = 0
    <3>1. Goto(x, l)
      BY <1>2, <2>2 DEF FindBucket
    <3> QED BY <1>1, <2>1, <3>1, GotoType DEF TableType, LinkType
  <2>3. CASE registry[thread[x].host] # 0
    <3> DEFINE r == [thread[x] EXCEPT !.at = "sftps", !.bucket = registry[thread[x].host]]
    <3>1. thread' = [thread EXCEPT ![x] = r]
      BY <1>2, <2>3 DEF FindBucket
    <3>2. registry[thread[x].host] \in 0..Len(bucket) /\ "sftps" \in Labels
      BY <1>1 DEF TableType, ThreadRecord, Labels
    <3>3. r \in ThreadRecord(Len(bucket)) /\ r.bucket # 0
      BY <1>1, <2>3, <3>2 DEF ThreadRecord
    <3> HIDE DEF r
    <3>4. BucketsGrow
      BY <1>1, <2>1, SameBuckets
    <3> QED BY <1>1, <2>1, <3>1, <3>3, <3>4, UpdateType DEF TableType, LinkType
  <2> QED BY <2>2, <2>3
<1>3. CASE CloseSftps(x)
  <2> DEFINE r == [thread[x] EXCEPT !.at = "conns", !.todo = bucket[thread[x].bucket].conns]
  <2>1. thread' = [thread EXCEPT ![x] = r] /\ UNCHANGED <<conn, registry, bucket>>
    BY <1>3 DEF CloseSftps, tableVars
  <2>2. thread[x].bucket \in 1..Len(bucket)
    BY <1>1, <1>3 DEF ThreadType, ThreadRecord, CloseSftps, At
  <2>3. bucket[thread[x].bucket].conns \in SUBSET Conn /\ "conns" \in Labels
    <3>1. bucket[thread[x].bucket] \in Bucket
      BY <1>1, <2>2
    <3> QED BY <3>1 DEF Bucket, Labels
  <2>4. r \in ThreadRecord(Len(bucket)) /\ r.at = "conns"
    BY <1>1, <2>3 DEF ThreadRecord
  <2> HIDE DEF r
  <2>5. ThreadType'
    BY <1>1, <2>1, <2>4, SameBuckets, UpdateType
  <2>6. LinkType'
    BY <1>3, <2>1, ShutLinkType DEF CloseSftps, LinkType
  <2> QED BY <2>1, <2>5, <2>6 DEF TableType
<1>4. CASE CloseConn(x)
  <2>1. UNCHANGED <<registry, bucket>>
    BY <1>4 DEF CloseConn, tableVars
  <2>2. CASE thread[x].todo = {}
    <3>1. Goto(x, "pop") /\ UNCHANGED <<conn, sftp>> /\ "pop" \in Labels
      BY <1>4, <2>2 DEF CloseConn, linkVars, Labels
    <3> QED BY <2>1, <3>1, GotoType DEF TableType, LinkType
  <2>3. CASE thread[x].todo # {}
    <3>1. PICK c \in thread[x].todo :
             /\ conn' = ShutLink(conn, {c}) /\ sftp' = ShutLink(sftp, {c})
             /\ thread' = [thread EXCEPT ![x].todo = @ \ {c}]
      BY <1>4, <2>3 DEF CloseConn
    <3> DEFINE r == [thread[x] EXCEPT !.todo = @ \ {c}]
    <3>2. thread' = [thread EXCEPT ![x] = r]
      BY <3>1
    <3>3. r \in ThreadRecord(Len(bucket)) /\ r.at = "conns"
      BY <1>1, <1>4 DEF ThreadRecord, CloseConn, At
    <3> HIDE DEF r
    <3>4. ThreadType'
      BY <1>1, <2>1, <3>2, <3>3, SameBuckets, UpdateType
    <3>5. LinkType'
      BY <3>1, ShutLinkType DEF LinkType
    <3> QED BY <2>1, <3>4, <3>5 DEF TableType
  <2> QED BY <2>2, <2>3
<1>5. CASE Pop(x, l)
  <2> DEFINE r == [thread[x] EXCEPT !.at = l, !.bucket = 0]
  <2>1. thread' = [thread EXCEPT ![x] = r] /\ UNCHANGED <<bucket, conn, sftp>>
    BY <1>5 DEF Pop, linkVars
  <2>2. r \in ThreadRecord(Len(bucket)) /\ r.at = l
    <3>1. 0 \in 0..Len(bucket)
      BY <1>1
    <3> QED BY <1>1, <3>1 DEF ThreadRecord
  <2> HIDE DEF r
  <2>3. ThreadType'
    BY <1>1, <2>1, <2>2, SameBuckets, UpdateType
  <2>4. TableType'
    <3>1. registry' = [registry EXCEPT ![thread[x].host] = 0]
      BY <1>5 DEF Pop
    <3>2. 0 \in 0..Len(bucket)
      BY <1>1
    <3> QED BY <2>1, <3>1, <3>2 DEF TableType
  <2> QED BY <2>1, <2>3, <2>4 DEF LinkType
<1> QED
  BY <1>2, <1>3, <1>4, <1>5 DEF CloseConnections

\* A step that leaves what a part talks about.
LEMMA SameTable == ASSUME TableType, UNCHANGED tableVars PROVE TableType' /\ BucketsGrow /\ bucket' = bucket
BY SameBuckets DEF TableType, tableVars

LEMMA SameMain == ASSUME MainType, UNCHANGED <<mainVars, verdict>> PROVE MainType'
BY DEF MainType, mainVars, Reachable

LEMMA SameLinks == ASSUME LinkType, UNCHANGED linkVars PROVE LinkType'
BY DEF LinkType, linkVars

LEMMA SameThread == ASSUME ThreadType, TableType, BucketsGrow, UNCHANGED thread PROVE ThreadType'
<1>1. \A y \in Thread : thread[y] \in ThreadRecord(Len(bucket'))
  BY WiderRecord DEF ThreadType, TableType, BucketsGrow
<1> QED
  BY <1>1 DEF ThreadType

\* The connections of a line.
LEMMA ConnOfLine ==
  ASSUME NEW t \in Line
  PROVE  /\ t \in Thread /\ t # Main /\ Main \in Thread /\ HostOf[t] \in Host
         /\ Probe(t) \in Conn /\ Work(t) \in Conn /\ Work(t) # 0
         /\ \A u \in Line : Probe(t) # Work(u) /\ (Work(t) = Work(u) <=> t = u) /\ (Probe(t) = Probe(u) <=> t = u)
BY SessionAssumption DEF Line, Thread, Main, Probe, Work, Conn

\* A worker that is not idle has a session to register.
LEMMA WorkerSession ==
  ASSUME MainType, PhaseInv, NEW t \in Line, phase = "run", ~At(t, "idle")
  PROVE  session[HostOf[t]] \in Conn
<1>1. t \in planned
  BY DEF PhaseInv
<1> QED
  BY <1>1, ConnOfLine DEF MainType, PhaseInv

\* The probes' steps are steps of the probe phase: no other has their labels.
LEMMA ProbePhase == ASSUME MainType, PhaseInv, NEW t \in Line, ProbeStep(t) PROVE phase = "probe"
<1>1. Connect(t) \/ Register(t) => phase = "probe"
  BY DEF Connect, Register
<1>2. ~Connect(t) /\ ~Register(t) => thread[t].at \in {"sftp", "own", "find", "sftps", "conns", "pop"}
  BY DEF ProbeStep, OpenSftp, CloseOwn, CloseHost, CloseConnections, FindBucket, CloseSftps, CloseConn, Pop, At
<1> QED
  BY <1>1, <1>2 DEF PhaseInv, MainType, WorkLabels, At

LEMMA ProbeTypeStep ==
  ASSUME TypeOK, PhaseInv, NEW t \in Line, ProbeStep(t)
  PROVE  Typed'
<1>1. ThreadType /\ TableType /\ LinkType /\ MainType
  BY TypeParts DEF Typed
<1>2. t \in Thread /\ HostOf[t] \in Host /\ Probe(t) \in Conn
  BY ConnOfLine
<1>3. {"lookup", "find", "own"} \subseteq Labels
  BY DEF Labels
<1>4. phase = "probe" /\ planned = {}
  BY <1>1, ProbePhase DEF PhaseInv
<1>5. CASE Connect(t)
  <2>1. UNCHANGED <<mainVars, sftp, tableVars>> /\ verdict' \in [Line -> {"none", "ok", "ssh", "sftp"}]
    BY <1>1, <1>5 DEF Connect, MainType
  <2>2. conn' \in [Conn -> LinkState]
    BY <1>1, <1>2, <1>5 DEF Connect, LinkType, LinkState
  <2>3. ThreadType'
    BY <1>1, <1>2, <1>3, <1>5, <2>1, GotoType DEF Connect, tableVars
  <2>4. MainType'
    BY <1>1, <1>4, <2>1 DEF MainType, mainVars
  <2> QED BY <1>1, <2>1, <2>2, <2>3, <2>4, SameTable DEF LinkType, Typed
<1>6. CASE Register(t)
  <2>1. UNCHANGED <<mainVars, verdict, linkVars>>
    BY <1>6 DEF Register
  <2>2. CASE At(t, "lookup") /\ GetBucket(t, "append")
    BY <1>1, <1>2, <2>1, <2>2, GetBucketType, SameMain, SameLinks DEF Typed
  <2>3. CASE At(t, "append") /\ AppendTo(t, "conns", Probe(t), "sftp")
    <3>1. thread[t].bucket # 0
      BY <1>1, <1>2, <2>3 DEF ThreadType, At
    <3> QED BY <1>1, <1>2, <2>1, <2>3, <3>1, AppendToType, SameMain, SameLinks DEF Typed
  <2> QED BY <1>6, <2>2, <2>3 DEF Register
<1>7. CASE OpenSftp(t)
  <2>1. UNCHANGED <<mainVars, conn, tableVars>> /\ verdict' \in [Line -> {"none", "ok", "ssh", "sftp"}]
    BY <1>1, <1>7 DEF OpenSftp, MainType
  <2>2. sftp' \in [Conn -> LinkState]
    BY <1>1, <1>2, <1>7 DEF OpenSftp, LinkType, LinkState
  <2>3. ThreadType'
    BY <1>1, <1>2, <1>3, <1>7, <2>1, GotoType DEF OpenSftp, tableVars
  <2>4. MainType'
    BY <1>1, <1>4, <2>1 DEF MainType, mainVars
  <2> QED BY <1>1, <2>1, <2>2, <2>3, <2>4, SameTable DEF LinkType, Typed
<1>8. CASE CloseOwn(t)
  <2>1. ThreadType'
    BY <1>1, <1>2, <1>3, <1>8, GotoType DEF CloseOwn, tableVars
  <2>2. LinkType'
    BY <1>1, <1>8, ShutLinkType DEF CloseOwn, LinkType
  <2> QED BY <1>1, <1>8, <2>1, <2>2, SameTable, SameMain DEF Typed, CloseOwn
<1>9. CASE CloseHost(t)
  BY <1>1, <1>2, <1>9, CloseConnectionsType, SameMain DEF Typed, CloseHost
<1> QED
  BY <1>5, <1>6, <1>7, <1>8, <1>9 DEF ProbeStep

LEMMA WorkTypeStep ==
  ASSUME TypeOK, PhaseInv, NEW t \in Line, WorkStep(t)
  PROVE  Typed'
<1>1. ThreadType /\ TableType /\ LinkType /\ MainType
  BY TypeParts DEF Typed
<1>2. t \in Thread /\ {"done", "lookup"} \subseteq Labels
  BY ConnOfLine DEF Labels
<1>3. CASE StartWork(t)
  <2>1. \E l \in {"done", "lookup"} : Goto(t, l)
    BY <1>3 DEF StartWork
  <2>2. ThreadType'
    BY <1>1, <1>2, <1>3, <2>1, GotoType DEF StartWork, tableVars
  <2> QED BY <1>1, <1>3, <2>2, SameTable, SameMain, SameLinks DEF StartWork, Typed
<1>4. CASE RegisterSession(t)
  <2>1. UNCHANGED <<mainVars, verdict, linkVars>>
    BY <1>4 DEF RegisterSession
  <2>2. CASE \E l \in {"append", "appendSftp"} : GetBucket(t, l)
    BY <1>1, <1>2, <2>1, <2>2, GetBucketType, SameMain, SameLinks DEF Typed
  <2>3. CASE At(t, "append") /\ AppendTo(t, "conns", session[HostOf[t]], "lookupSftp")
    <3>1. thread[t].bucket # 0 /\ session[HostOf[t]] \in Conn
      BY <1>1, <1>2, <1>4, <2>3, WorkerSession DEF ThreadType, At, RegisterSession
    <3> QED BY <1>1, <1>2, <2>1, <2>3, <3>1, AppendToType, SameMain, SameLinks DEF Typed
  <2>4. CASE At(t, "appendSftp") /\ AppendTo(t, "sftps", session[HostOf[t]], "work")
    <3>1. thread[t].bucket # 0 /\ session[HostOf[t]] \in Conn
      BY <1>1, <1>2, <1>4, <2>4, WorkerSession DEF ThreadType, At, RegisterSession
    <3> QED BY <1>1, <1>2, <2>1, <2>4, <3>1, AppendToType, SameMain, SameLinks DEF Typed
  <2> QED BY <1>4, <2>2, <2>3, <2>4 DEF RegisterSession
<1>5. CASE EndWork(t)
  <2>1. ThreadType'
    BY <1>1, <1>2, <1>5, GotoType DEF EndWork, tableVars
  <2> QED BY <1>1, <1>5, <2>1, SameTable, SameMain, SameLinks DEF EndWork, Typed
<1> QED
  BY <1>3, <1>4, <1>5 DEF WorkStep

\* What BuildPlan does, with the bucket it finds or makes under a name.
BuildsPlan(t, b) ==
  /\ b = IF registry[HostOf[t]] # 0 THEN registry[HostOf[t]] ELSE Len(bucket) + 1
  /\ conn' = [conn EXCEPT ![Work(t)] = "open"]
  /\ sftp' = [sftp EXCEPT ![Work(t)] = "open"]
  /\ registry' = [registry EXCEPT ![HostOf[t]] = b]
  /\ session' = [session EXCEPT ![HostOf[t]] = Work(t)]
  /\ planned' = planned \cup {t}
  /\ BucketsGrow /\ b \in 1..Len(bucket') /\ Work(t) \in bucket'[b].conns
  /\ UNCHANGED <<phase, exit, thread, verdict, stop, closing>>

LEMMA BuildPlanBuilds ==
  ASSUME TableType, BuildPlan
  PROVE  phase = "plan" /\ \E t \in Reachable \ planned, b \in Nat : BuildsPlan(t, b)
<1>1. PICK t \in Reachable \ planned :
        LET h == HostOf[t]
            b == IF registry[h] # 0 THEN registry[h] ELSE Len(bucket) + 1
            known == IF registry[h] # 0 THEN bucket ELSE Append(bucket, Empty)
        IN /\ conn' = [conn EXCEPT ![Work(t)] = "open"]
           /\ sftp' = [sftp EXCEPT ![Work(t)] = "open"]
           /\ bucket' = [known EXCEPT ![b].conns = @ \cup {Work(t)}]
           /\ registry' = [registry EXCEPT ![h] = b]
           /\ session' = [session EXCEPT ![h] = Work(t)]
           /\ planned' = planned \cup {t}
  BY DEF BuildPlan
<1> DEFINE h == HostOf[t]
           b == IF registry[h] # 0 THEN registry[h] ELSE Len(bucket) + 1
           known == IF registry[h] # 0 THEN bucket ELSE Append(bucket, Empty)
<1>2. t \in Line /\ h \in Host /\ Work(t) \in Conn
  BY ConnOfLine DEF Reachable
<1>3. registry[h] \in 0..Len(bucket) /\ bucket \in Seq(Bucket)
  BY <1>2 DEF TableType
<1>4. /\ known \in Seq(Bucket) /\ b \in 1..Len(known) /\ b \in Nat /\ Len(known) >= Len(bucket)
      /\ \A d \in 1..Len(bucket) : bucket[d].conns \subseteq known[d].conns
  <2>1. Empty \in Bucket
    BY DEF Empty, Bucket
  <2>2. CASE registry[h] # 0
    BY <1>3, <2>2
  <2>3. CASE registry[h] = 0
    <3>1. known = Append(bucket, Empty) /\ b = Len(bucket) + 1
      BY <2>3
    <3> HIDE DEF known, b
    <3> QED BY <1>3, <2>1, <3>1, AppendProperties
  <2> QED BY <2>2, <2>3
<1>5. bucket' = [known EXCEPT ![b].conns = @ \cup {Work(t)}]
  BY <1>1
<1> HIDE DEF known, b
<1>6. bucket' \in Seq(Bucket) /\ Len(bucket') = Len(known) /\ Work(t) \in bucket'[b].conns
      /\ \A d \in 1..Len(known) : known[d].conns \subseteq bucket'[d].conns
  <2> DEFINE r == [known[b] EXCEPT !.conns = @ \cup {Work(t)}]
  <2>1. known[b] \in Bucket
    BY <1>4
  <2>2. r \in Bucket /\ r.conns = known[b].conns \cup {Work(t)}
    BY <1>2, <2>1 DEF Bucket
  <2>3. bucket' = [known EXCEPT ![b] = r]
    BY <1>5
  <2> HIDE DEF r
  <2>4. /\ [known EXCEPT ![b] = r] \in Seq(Bucket) /\ Len([known EXCEPT ![b] = r]) = Len(known)
        /\ \A d \in 1..Len(known) : [known EXCEPT ![b] = r][d] = IF d = b THEN r ELSE known[d]
    BY <1>4, <2>2, ExceptSeq
  <2> QED BY <1>4, <2>2, <2>3, <2>4
<1>7. BucketsGrow /\ b \in 1..Len(bucket')
  <2>1. Len(bucket) \in Nat /\ Len(known) \in Nat BY <1>3, <1>4
  <2>2. \A d \in 1..Len(bucket) : d \in 1..Len(known) BY <1>4, <2>1
  <2>3. \A d \in 1..Len(bucket) : bucket[d].conns \subseteq bucket'[d].conns
    BY <1>4, <1>6, <2>2
  <2> QED BY <1>4, <1>6, <2>3 DEF BucketsGrow
<1>8. /\ phase = "plan" /\ UNCHANGED <<phase, exit, thread, verdict, stop, closing>>
      /\ b = IF registry[HostOf[t]] # 0 THEN registry[HostOf[t]] ELSE Len(bucket) + 1
  BY DEF BuildPlan, b
<1>9. BuildsPlan(t, b)
  BY <1>1, <1>6, <1>7, <1>8 DEF BuildsPlan, b
<1> QED
  BY <1>1, <1>4, <1>8, <1>9

LEMMA MainTypeStep ==
  ASSUME TypeOK, PhaseInv, MainStep \/ Signal \/ UNCHANGED vars
  PROVE  Typed'
<1>1. ThreadType /\ TableType /\ LinkType /\ MainType
  BY TypeParts DEF Typed
<1>2. Main \in Thread /\ {"done", "next", "find", "idle"} \subseteq Labels
  BY ConnOfLine DEF Labels, Thread
<1>3. CASE Probed \/ PlanFails \/ Exit \/ RegisterCleanups \/ Signal \/ UNCHANGED vars
  <2>1. UNCHANGED <<thread, verdict, linkVars, tableVars>>
    BY <1>3 DEF Probed, PlanFails, Exit, RegisterCleanups, Signal, vars, linkVars, tableVars
  <2>2. MainType'
    BY <1>1, <1>3 DEF Probed, PlanFails, Exit, RegisterCleanups, Signal, vars, MainType, LeaveProbing, Reachable
  <2> QED BY <1>1, <2>1, <2>2, SameTable, SameLinks, SameThread DEF Typed
<1>4. CASE BuildPlan
  <2>1. PICK t \in Reachable \ planned, b \in Nat : BuildsPlan(t, b)
    BY <1>1, <1>4, BuildPlanBuilds
  <2>2. HostOf[t] \in Host /\ Work(t) \in Conn
    BY ConnOfLine DEF Reachable
  <2>3. ThreadType'
    BY <1>1, <2>1, SameThread DEF BuildsPlan
  <2>4. TableType'
    BY <1>1, <2>1, <2>2 DEF TableType, BuildsPlan, BucketsGrow
  <2>5. LinkType'
    BY <1>1, <2>1, <2>2 DEF LinkType, BuildsPlan, LinkState
  <2>6. MainType'
    BY <1>1, <2>1, <2>2 DEF MainType, BuildsPlan, Reachable
  <2> QED BY <2>3, <2>4, <2>5, <2>6 DEF Typed
<1>5. CASE Planned
  <2>1. MainType'
    BY <1>1, <1>5 DEF MainType, Planned, Reachable
  <2>2. CASE UNCHANGED thread
    BY <1>1, <1>5, <2>1, <2>2, SameTable, SameLinks, SameThread DEF Planned, Typed
  <2>3. CASE thread' = [x \in Thread |-> Idle(x)]
    <3>1. \A x \in Thread : Idle(x) \in ThreadRecord(Len(bucket)) /\ Idle(x).at = "idle"
      BY <1>1, ConnOfLine, SessionAssumption
      DEF Idle, ThreadRecord, Labels, Thread, Line, TableType
    <3>2. ThreadType'
      BY <1>1, <1>5, <2>3, <3>1, SameTable DEF ThreadType, Planned
    <3> QED BY <1>1, <1>5, <2>1, <3>2, SameTable, SameLinks DEF Planned, Typed
  <2> QED BY <1>5, <2>2, <2>3 DEF Planned
<1>6. CASE CloseAll
  <2> DEFINE r == [thread[Main] EXCEPT !.at = "next", !.hosts = {h \in Host : registry[h] # 0}]
  <2>1. thread' = [thread EXCEPT ![Main] = r]
    BY <1>6 DEF CloseAll
  <2>2. r \in ThreadRecord(Len(bucket)) /\ r.at = "next"
    BY <1>1, <1>2 DEF ThreadType, ThreadRecord
  <2> HIDE DEF r
  <2>3. ThreadType'
    BY <1>1, <1>2, <1>6, <2>1, <2>2, SameTable, UpdateType DEF CloseAll, TableType
  <2> QED BY <1>1, <1>6, <2>3, SameTable, SameMain, SameLinks DEF CloseAll, Typed
<1>7. CASE NextHost
  <2>1. CASE Goto(Main, "done")
    BY <1>1, <1>2, <1>7, <2>1, GotoType, SameTable, SameMain, SameLinks DEF NextHost, Typed
  <2>2. CASE ~Goto(Main, "done")
    <3>1. PICK h \in thread[Main].hosts :
            thread' = [thread EXCEPT ![Main].at = "find", ![Main].host = h, ![Main].hosts = @ \ {h}]
      BY <1>7, <2>2 DEF NextHost
    <3> DEFINE r == [thread[Main] EXCEPT !.at = "find", !.host = h, !.hosts = @ \ {h}]
    <3>2. thread' = [thread EXCEPT ![Main] = r]
      BY <3>1
    <3>3. r \in ThreadRecord(Len(bucket)) /\ r.at = "find"
      BY <1>1, <1>2 DEF ThreadType, ThreadRecord
    <3> HIDE DEF r
    <3>4. ThreadType'
      BY <1>1, <1>2, <1>7, <3>2, <3>3, SameTable, UpdateType DEF NextHost, TableType
    <3> QED BY <1>1, <1>7, <3>4, SameTable, SameMain, SameLinks DEF NextHost, Typed
  <2> QED BY <2>1, <2>2
<1>8. CASE CloseNextHost
  BY <1>1, <1>2, <1>8, CloseConnectionsType, SameMain DEF CloseNextHost, Typed
<1> QED
  BY <1>3, <1>4, <1>5, <1>6, <1>7, <1>8 DEF MainStep

\* Together: every step keeps the types.
LEMMA TypeStep == ASSUME TypeOK, PhaseInv, [Next]_vars PROVE TypeOK'
BY ProbeTypeStep, WorkTypeStep, MainTypeStep, TypeParts DEF Next

-----------------------------------------------------------------------------
(* The phases                                                              *)

\* A step of one thread: the others stay, and it keeps its host.
Only(x) ==
  /\ \A y \in Thread \ {x} : thread'[y] = thread[y]
  /\ thread'[x].host = thread[x].host /\ thread'[x].hosts = thread[x].hosts

LEMMA GotoOnly ==
  ASSUME ThreadType, NEW x \in Thread, NEW l, Goto(x, l)
  PROVE  /\ Only(x) /\ thread'[x].at = l
         /\ thread'[x].bucket = thread[x].bucket /\ thread'[x].todo = thread[x].todo
BY DEF ThreadType, ThreadRecord, Goto, Only

LEMMA GetBucketOnly ==
  ASSUME ThreadType, TableType, NEW x \in Thread, NEW l, GetBucket(x, l)
  PROVE  Only(x) /\ thread'[x].at = l /\ thread'[x].todo = thread[x].todo
<1> DEFINE b == IF registry[thread[x].host] # 0 THEN registry[thread[x].host] ELSE Len(bucket) + 1
<1>1. thread' = [thread EXCEPT ![x].at = l, ![x].bucket = b]
  BY DEF GetBucket
<1> HIDE DEF b
<1> QED
  BY <1>1 DEF ThreadType, ThreadRecord, Only

LEMMA CloseConnectionsOnly ==
  ASSUME ThreadType, NEW x \in Thread, NEW l, CloseConnections(x, l)
  PROVE  /\ Only(x) /\ thread[x].at \in {"find", "sftps", "conns", "pop"}
         /\ thread'[x].at \in {"sftps", "conns", "pop", l}
<1>1. CASE FindBucket(x, l)
  BY <1>1 DEF FindBucket, Only, At, Goto, ThreadType, ThreadRecord
<1>2. CASE CloseSftps(x)
  BY <1>2 DEF CloseSftps, Only, At, ThreadType, ThreadRecord
<1>3. CASE CloseConn(x)
  <2>1. CASE Goto(x, "pop")
    BY <1>3, <2>1, GotoOnly DEF CloseConn, At
  <2>2. CASE \E c \in thread[x].todo : thread' = [thread EXCEPT ![x].todo = @ \ {c}]
    <3>1. PICK c \in thread[x].todo : thread' = [thread EXCEPT ![x].todo = @ \ {c}]
      BY <2>2
    <3> QED BY <1>3, <3>1 DEF CloseConn, Only, At, ThreadType, ThreadRecord
  <2> QED BY <1>3, <2>1, <2>2 DEF CloseConn
<1>4. CASE Pop(x, l)
  BY <1>4 DEF Pop, Only, At, ThreadType, ThreadRecord
<1> QED
  BY <1>1, <1>2, <1>3, <1>4 DEF CloseConnections

\* What a probe's step does to its thread.
LEMMA ProbeOnly ==
  ASSUME Typed, PhaseInv, NEW t \in Line, ProbeStep(t)
  PROVE  /\ phase = "probe" /\ UNCHANGED mainVars
         /\ Only(t) /\ thread'[t].at \in ProbeLabels
<1>1. ThreadType /\ TableType /\ t \in Thread
  BY ConnOfLine DEF Typed
<1>2. phase = "probe"
  BY ProbePhase DEF Typed
<1>3. CASE Connect(t)
  BY <1>1, <1>2, <1>3, GotoOnly DEF Connect, ProbeLabels
<1>4. CASE Register(t)
  <2>1. AppendTo(t, "conns", Probe(t), "sftp") => Goto(t, "sftp")
    BY DEF AppendTo
  <2> QED BY <1>1, <1>2, <1>4, <2>1, GotoOnly, GetBucketOnly DEF Register, ProbeLabels
<1>5. CASE OpenSftp(t)
  BY <1>1, <1>2, <1>5, GotoOnly DEF OpenSftp, ProbeLabels
<1>6. CASE CloseOwn(t)
  BY <1>1, <1>2, <1>6, GotoOnly DEF CloseOwn, ProbeLabels
<1>7. CASE CloseHost(t)
  BY <1>1, <1>2, <1>7, CloseConnectionsOnly DEF CloseHost, ProbeLabels
<1> QED
  BY <1>3, <1>4, <1>5, <1>6, <1>7 DEF ProbeStep

\* What a worker's step does to its thread, and to the rest.
LEMMA WorkOnly ==
  ASSUME Typed, PhaseInv, NEW t \in Line, WorkStep(t)
  PROVE  /\ phase = "run" /\ t \in Reachable /\ ~At(t, "done")
         /\ UNCHANGED <<mainVars, verdict, linkVars>>
         /\ Only(t) /\ thread'[t].at \in WorkLabels \ {"idle"}
<1>1. ThreadType /\ TableType /\ t \in Thread
  BY ConnOfLine DEF Typed
<1>2. CASE StartWork(t)
  BY <1>1, <1>2, GotoOnly DEF StartWork, WorkLabels, At
<1>3. CASE RegisterSession(t)
  <2>1. \A f, c, l : AppendTo(t, f, c, l) => Goto(t, l)
    BY DEF AppendTo
  <2>2. Only(t) /\ thread'[t].at \in WorkLabels \ {"idle"}
    BY <1>1, <1>3, <2>1, GotoOnly, GetBucketOnly DEF RegisterSession, WorkLabels
  <2> QED BY <1>3, <2>2 DEF RegisterSession, PhaseInv, At
<1>4. CASE EndWork(t)
  <2>1. phase = "run"
    BY <1>4 DEF EndWork, At, PhaseInv, Typed, MainType, ProbeLabels
  <2> QED BY <1>1, <1>4, <2>1, GotoOnly DEF EndWork, WorkLabels, At, PhaseInv
<1> QED
  BY <1>2, <1>3, <1>4 DEF WorkStep

\* What a step of close_all() does to the main thread.
CleanStep == CloseAll \/ NextHost \/ CloseNextHost

LEMMA CleanOnly ==
  ASSUME Typed, PhaseInv, CleanStep
  PROVE  /\ phase = "run" /\ UNCHANGED <<mainVars, verdict>>
         /\ \A t \in Line : thread'[t] = thread[t]
         /\ thread'[Main].at \in CleanLabels \ {"idle"}
         /\ At(Main, "idle") => closing = "registered" /\ (stop \/ WorkersDone)
<1>1. ThreadType /\ TableType /\ Main \in Thread /\ \A t \in Line : t \in Thread \ {Main}
  BY ConnOfLine DEF Typed, Thread
<1>2. CASE CloseAll
  BY <1>1, <1>2 DEF CloseAll, CleanLabels, ThreadType, ThreadRecord
<1>3. CASE NextHost
  <2>1. At(Main, "next") /\ UNCHANGED <<mainVars, verdict>>
    BY <1>3 DEF NextHost
  <2>2. phase = "run"
    BY <2>1 DEF PhaseInv, Typed, MainType, At
  <2>3. CASE Goto(Main, "done")
    BY <1>1, <2>1, <2>2, <2>3, GotoOnly DEF CleanLabels, Only, At
  <2>4. CASE \E h \in thread[Main].hosts :
              thread' = [thread EXCEPT ![Main].at = "find", ![Main].host = h, ![Main].hosts = @ \ {h}]
    <3>1. PICK h \in thread[Main].hosts :
              thread' = [thread EXCEPT ![Main].at = "find", ![Main].host = h, ![Main].hosts = @ \ {h}]
      BY <2>4
    <3> QED BY <1>1, <2>1, <2>2, <3>1 DEF CleanLabels, ThreadType, ThreadRecord, At
  <2> QED BY <1>3, <2>3, <2>4 DEF NextHost
<1>4. CASE CloseNextHost
  <2>1. Only(Main) /\ thread[Main].at \in {"find", "sftps", "conns", "pop"}
        /\ thread'[Main].at \in {"sftps", "conns", "pop", "next"}
    BY <1>1, <1>4, CloseConnectionsOnly DEF CloseNextHost
  <2>2. phase = "run"
    BY <2>1 DEF PhaseInv, Typed, MainType, At
  <2> QED BY <1>1, <1>4, <2>1, <2>2 DEF CloseNextHost, Only, CleanLabels, At
<1> QED
  BY <1>2, <1>3, <1>4 DEF CleanStep

\* Every step keeps the phases.
LEMMA PhaseStep == ASSUME Typed, PhaseInv, [Next]_vars PROVE PhaseInv'
<1>1. Main \in Thread /\ \A t \in Line : t \in Thread \ {Main} /\ HostOf[t] \in Host
  BY ConnOfLine DEF Thread
<1>2. ASSUME NEW t \in Line, ProbeStep(t) PROVE PhaseInv'
  <2>1. phase = "probe" /\ UNCHANGED mainVars /\ Only(t) /\ thread'[t].at \in ProbeLabels
    BY <1>2, ProbeOnly
  <2>2. thread'[Main] = thread[Main] /\ \A u \in Line : thread'[u].host = thread[u].host /\ thread'[u].at \in ProbeLabels
    BY <1>1, <2>1 DEF Only, PhaseInv
  <2> QED BY <2>1, <2>2 DEF PhaseInv, mainVars, At
<1>3. ASSUME NEW t \in Line, WorkStep(t) PROVE PhaseInv'
  <2>1. /\ phase = "run" /\ t \in Reachable /\ ~At(t, "done") /\ UNCHANGED <<mainVars, verdict, linkVars>>
        /\ Only(t) /\ thread'[t].at \in WorkLabels \ {"idle"}
    BY <1>3, WorkOnly
  <2>2. /\ thread'[Main] = thread[Main]
        /\ \A u \in Line : /\ thread'[u].host = thread[u].host /\ thread'[u].at \in WorkLabels
                           /\ u # t => thread'[u] = thread[u]
    BY <1>1, <2>1 DEF Only, PhaseInv
  <2>3. UNCHANGED <<phase, planned, stop, closing, session>> /\ Reachable' = Reachable
    BY <2>1 DEF mainVars, Reachable
  <2>4. ~At(Main, "idle") => stop
    BY <2>1 DEF PhaseInv, WorkersDone
  <2> QED BY <2>1, <2>2, <2>3, <2>4 DEF PhaseInv, At
<1>4. CASE CleanStep
  <2>1. /\ phase = "run" /\ UNCHANGED <<mainVars, verdict>>
        /\ \A t \in Line : thread'[t] = thread[t]
        /\ thread'[Main].at \in CleanLabels \ {"idle"}
        /\ At(Main, "idle") => closing = "registered" /\ (stop \/ WorkersDone)
    BY <1>4, CleanOnly
  <2>2. UNCHANGED <<phase, planned, stop, closing, session>> /\ Reachable' = Reachable
    BY <2>1 DEF mainVars, Reachable
  <2>3. (stop \/ WorkersDone)'
    BY <2>1, <2>2 DEF PhaseInv, WorkersDone, At, Reachable
  <2> QED BY <2>1, <2>2, <2>3 DEF PhaseInv, At
<1>5. CASE Probed
  <2>1. phase' \in {"plan", "end"}
    BY <1>5 DEF Probed, LeaveProbing
  <2>2. UNCHANGED <<thread, verdict, session, planned, stop, closing>> /\ phase = "probe" /\ \A t \in Line : At(t, "done")
    BY <1>5 DEF Probed
  <2> QED BY <2>1, <2>2 DEF PhaseInv, At
<1>6. CASE BuildPlan
  <2>1. PICK t \in Reachable \ planned, b \in Nat : phase = "plan" /\ BuildsPlan(t, b)
    BY <1>6, BuildPlanBuilds DEF Typed
  <2>2. \A u \in planned' : session'[HostOf[u]] # 0
    <3>1. Work(t) # 0 /\ \A u \in planned' : HostOf[u] \in Host
      BY <2>1, ConnOfLine DEF BuildsPlan, Typed, MainType, Reachable, Conn
    <3>2. session' = [session EXCEPT ![HostOf[t]] = Work(t)] /\ planned' = planned \cup {t}
      BY <2>1 DEF BuildsPlan
    <3> QED BY <3>1, <3>2 DEF PhaseInv, Typed, MainType
  <2> QED BY <2>1, <2>2 DEF PhaseInv, BuildsPlan, At
<1>7. CASE PlanFails
  BY <1>7 DEF PlanFails, PhaseInv, At
<1>8. CASE Planned
  <2>1. phase = "plan" /\ planned = Reachable /\ UNCHANGED <<verdict, session, planned, stop, closing>>
    BY <1>8 DEF Planned
  <2>2. CASE phase' = "end" /\ UNCHANGED thread
    BY <2>1, <2>2 DEF PhaseInv, At
  <2>3. CASE phase' = "run" /\ thread' = [x \in Thread |-> Idle(x)]
    <3>1. \A x \in Thread : thread'[x].at = "idle"
      BY <2>3 DEF Idle
    <3>2. \A t \in Line : thread'[t].host = HostOf[t]
      BY <1>1, <2>3 DEF Idle
    <3> QED BY <1>1, <2>1, <2>3, <3>1, <3>2 DEF PhaseInv, At, Reachable, WorkLabels, CleanLabels
  <2> QED BY <1>8, <2>2, <2>3 DEF Planned
<1>9. CASE Exit
  <2>1. phase = "run" /\ phase' = "end" /\ WorkersDone /\ (At(Main, "done") \/ closing = "missed")
        /\ UNCHANGED <<thread, verdict, session, planned, stop, closing>>
    BY <1>9 DEF Exit, CleanedUp
  <2>2. WorkersDone'
    BY <2>1 DEF WorkersDone, Reachable, At
  <2>3. thread[Main].at \in {"idle", "done"} BY <2>1 DEF PhaseInv, At
  <2> QED BY <2>1, <2>2, <2>3 DEF PhaseInv, At, WorkersDone
<1>10. CASE RegisterCleanups \/ Signal \/ UNCHANGED vars
  <2>1. /\ UNCHANGED <<phase, thread, verdict, session, planned>>
        /\ stop => stop'
        /\ closing' = closing \/ closing = "unregistered"
    BY <1>10 DEF RegisterCleanups, Signal, vars
  <2>2. WorkersDone <=> WorkersDone'
    BY <2>1 DEF WorkersDone, Reachable, At
  <2> QED BY <2>1, <2>2 DEF PhaseInv, At, Reachable
<1> QED
  BY <1>2, <1>3, <1>4, <1>5, <1>6, <1>7, <1>8, <1>9, <1>10 DEF Next, MainStep, CleanStep

-----------------------------------------------------------------------------
(* The connections                                                         *)

\* What close_connections() does to the connections: each one that it closes was in the todo
\* of the thread, and loses its SFTP client with it.
LEMMA CloseConnectionsLinks ==
  ASSUME Typed, NEW x \in Thread, NEW l, CloseConnections(x, l)
  PROVE  \A c \in Conn :
           /\ \/ conn'[c] = conn[c]
              \/ conn'[c] = "closed" /\ conn[c] = "open" /\ At(x, "conns") /\ c \in thread[x].todo
           /\ sftp'[c] = sftp[c] \/ sftp'[c] = "closed"
           /\ conn'[c] # conn[c] => sftp'[c] # "open"
<1> USE DEF Typed, LinkType, linkVars
<1>1. CASE FindBucket(x, l)
  BY <1>1 DEF FindBucket
<1>2. CASE CloseSftps(x)
  BY <1>2, ShutLinkType DEF CloseSftps
<1>3. CASE CloseConn(x)
  <2>1. CASE UNCHANGED linkVars
    BY <2>1
  <2>2. CASE \E c \in thread[x].todo : conn' = ShutLink(conn, {c}) /\ sftp' = ShutLink(sftp, {c})
    BY <1>3, <2>2, ShutLinkType DEF CloseConn
  <2> QED BY <1>3, <2>1, <2>2 DEF CloseConn
<1>4. CASE Pop(x, l)
  BY <1>4 DEF Pop
<1> QED
  BY <1>1, <1>2, <1>3, <1>4 DEF CloseConnections

\* Every step keeps LinkInv.
LEMMA LinkStep == ASSUME Typed, PhaseInv, LinkInv, [Next]_vars PROVE LinkInv'
<1>0. Main \in Thread /\ \A t \in Line : t \in Thread \ {Main} /\ Probe(t) \in Conn /\ Work(t) \in Conn
  BY ConnOfLine DEF Thread
<1>1. LinkType /\ ThreadType /\ TableType /\ MainType
  BY DEF Typed
<1>2. ASSUME NEW t \in Line, ProbeStep(t) PROVE LinkInv'
  <2>1. phase = "probe" /\ phase' = "probe" /\ planned' = planned /\ Only(t) /\ t \in Thread
    BY <1>0, <1>2, ProbeOnly DEF mainVars
  <2>2. \A u \in Line : u # t => thread'[u] = thread[u]
    BY <1>0, <2>1 DEF Only
  <2>3. CASE Connect(t)
    <3>1. thread'[t].at \in {"lookup", "find"} /\ UNCHANGED sftp /\ At(t, "idle")
          /\ \/ thread'[t].at = "lookup" /\ conn' = [conn EXCEPT ![Probe(t)] = "open"]
             \/ UNCHANGED conn
      BY <1>1, <2>1, <2>3, GotoOnly DEF Connect
    <3> QED BY <1>0, <1>1, <2>1, <2>2, <3>1, ConnOfLine DEF LinkInv, LinkType, At
  <2>4. CASE Register(t)
    <3>1. UNCHANGED linkVars /\ thread'[t].at \in {"append", "sftp"} /\ thread[t].at \in {"lookup", "append"}
      BY <1>1, <2>1, <2>4, GotoOnly, GetBucketOnly DEF Register, At, AppendTo
    <3> QED BY <1>0, <2>1, <2>2, <3>1 DEF LinkInv, linkVars
  <2>5. CASE OpenSftp(t)
    <3>1. /\ UNCHANGED conn /\ thread'[t].at = "own" /\ At(t, "sftp")
          /\ \/ conn[Probe(t)] = "open" /\ sftp' = [sftp EXCEPT ![Probe(t)] = "open"]
             \/ UNCHANGED sftp
      BY <1>1, <2>1, <2>5, GotoOnly DEF OpenSftp
    <3> QED BY <1>0, <1>1, <2>1, <2>2, <3>1 DEF LinkInv, At, LinkType
  <2>6. CASE CloseOwn(t)
    <3>1. /\ thread'[t].at = "find" /\ At(t, "own")
          /\ conn' = ShutLink(conn, {Probe(t)}) /\ sftp' = ShutLink(sftp, {Probe(t)})
      BY <1>1, <2>1, <2>6, GotoOnly DEF CloseOwn
    <3> QED BY <1>0, <1>1, <2>1, <2>2, <3>1, ShutLinkType DEF LinkInv, LinkType, At
  <2>7. CASE CloseHost(t)
    <3>1. thread[t].at \in {"find", "sftps", "conns", "pop"}
          /\ \A c \in Conn : /\ conn'[c] = conn[c] \/ (conn'[c] = "closed" /\ conn[c] = "open")
                             /\ sftp'[c] = sftp[c] \/ sftp'[c] = "closed"
                             /\ conn'[c] # conn[c] => sftp'[c] # "open"
      BY <1>1, <2>1, <2>7, CloseConnectionsOnly, CloseConnectionsLinks DEF CloseHost
    <3> QED BY <1>0, <2>1, <2>2, <3>1 DEF LinkInv
  <2> QED BY <1>2, <2>3, <2>4, <2>5, <2>6, <2>7 DEF ProbeStep
<1>3. ASSUME NEW t \in Line, WorkStep(t) PROVE LinkInv'
  <2>1. phase = "run" /\ UNCHANGED <<phase, planned, linkVars>>
    BY <1>3, WorkOnly DEF mainVars
  <2> QED BY <2>1 DEF LinkInv, linkVars
<1>4. CASE CleanStep
  <2>1. phase = "run" /\ UNCHANGED <<phase, planned>>
    BY <1>4, CleanOnly DEF mainVars
  <2>2. \A c \in Conn : /\ conn'[c] = conn[c] \/ (conn'[c] = "closed" /\ conn[c] = "open")
                        /\ sftp'[c] = sftp[c] \/ sftp'[c] = "closed"
                        /\ conn'[c] # conn[c] => sftp'[c] # "open"
    <3>1. CASE CloseNextHost
      BY <1>0, <3>1, CloseConnectionsLinks DEF CloseNextHost
    <3>2. CASE CloseAll \/ NextHost
      BY <3>2 DEF CloseAll, NextHost, linkVars
    <3> QED BY <1>4, <3>1, <3>2 DEF CleanStep
  <2>3. \A u \in Line : conn'[Probe(u)] # "open"
    BY <1>0, <2>1, <2>2 DEF LinkInv
  <2>4. \A u \in Line : conn'[Work(u)] # "none" => u \in planned'
    BY <1>0, <2>1, <2>2 DEF LinkInv
  <2>5. \A c \in Conn : sftp'[c] = "open" => conn'[c] = "open"
    BY <2>2 DEF LinkInv
  <2> QED BY <2>3, <2>4, <2>5 DEF LinkInv
<1>5. CASE BuildPlan
  <2>1. PICK t \in Reachable \ planned, b \in Nat : phase = "plan" /\ BuildsPlan(t, b)
    BY <1>1, <1>5, BuildPlanBuilds
  <2>2. t \in Line /\ Work(t) \in Conn
    BY <1>0 DEF Reachable
  <2>3. /\ conn' = [conn EXCEPT ![Work(t)] = "open"] /\ sftp' = [sftp EXCEPT ![Work(t)] = "open"]
        /\ planned' = planned \cup {t} /\ phase' = phase /\ UNCHANGED thread
    BY <2>1 DEF BuildsPlan
  <2>4. \A u \in Line : conn'[Probe(u)] = conn[Probe(u)] /\ (u # t => conn'[Work(u)] = conn[Work(u)])
    BY <1>0, <1>1, <2>2, <2>3, ConnOfLine DEF LinkType
  <2>5. \A c \in Conn : sftp'[c] = "open" => conn'[c] = "open"
    BY <1>1, <2>3 DEF LinkType, LinkInv
  <2>6. \A u \in Line : conn'[Probe(u)] # "open"
    BY <2>1, <2>4 DEF LinkInv
  <2>7. planned' = planned \cup {t}
    BY <2>3
  <2>8. \A u \in Line : conn'[Work(u)] # "none" => u \in planned'
    BY <2>4, <2>7 DEF LinkInv
  <2> QED BY <2>5, <2>6, <2>8 DEF LinkInv
<1>6. CASE Probed
  <2>1. \A t \in Line : conn[Probe(t)] # "open"
    BY <1>6 DEF Probed, LinkInv, At
  <2> QED BY <1>6, <2>1 DEF Probed, LinkInv, linkVars
<1>7. CASE PlanFails \/ Planned \/ Exit \/ RegisterCleanups \/ Signal \/ UNCHANGED vars
  <2>1. UNCHANGED <<linkVars, planned>>
    BY <1>7 DEF PlanFails, Planned, Exit, RegisterCleanups, Signal, vars, linkVars
  <2>2. phase = "probe" => UNCHANGED <<thread, phase>>
    BY <1>7 DEF PlanFails, Planned, Exit, RegisterCleanups, Signal, vars
  <2> QED BY <2>1, <2>2 DEF LinkInv, linkVars
<1> QED
  BY <1>2, <1>3, <1>4, <1>5, <1>6, <1>7 DEF Next, MainStep, CleanStep

-----------------------------------------------------------------------------
(* The registry, while the probes run                                      *)

\* What a step of close_connections() does to the registry.
LEMMA CloseConnectionsTable ==
  ASSUME Typed, NEW x \in Thread, NEW l, CloseConnections(x, l)
  PROVE  \/ UNCHANGED registry /\ thread'[x].at \in {"sftps", "conns", "pop"}
         \/ UNCHANGED registry /\ thread'[x].at = l /\ registry[thread[x].host] = 0
         \/ registry' = [registry EXCEPT ![thread[x].host] = 0] /\ thread'[x].at = l
<1> USE DEF Typed, ThreadType, ThreadRecord, tableVars
<1>1. CASE FindBucket(x, l)
  BY <1>1 DEF FindBucket, Goto
<1>2. CASE CloseSftps(x)
  BY <1>2 DEF CloseSftps
<1>3. CASE CloseConn(x)
  <2>1. CASE Goto(x, "pop")
    BY <1>3, <2>1 DEF CloseConn, Goto
  <2>2. CASE \E c \in thread[x].todo : thread' = [thread EXCEPT ![x].todo = @ \ {c}]
    BY <1>3, <2>2 DEF CloseConn, At
  <2> QED BY <1>3, <2>1, <2>2 DEF CloseConn
<1>4. CASE Pop(x, l)
  BY <1>4 DEF Pop
<1> QED
  BY <1>1, <1>2, <1>3, <1>4 DEF CloseConnections

\* Every step keeps ProbeInv.
LEMMA ProbeInvStep == ASSUME Typed, PhaseInv, ProbeInv, [Next]_vars PROVE ProbeInv'
<1>0. Main \in Thread /\ \A t \in Line : t \in Thread \ {Main} /\ HostOf[t] \in Host
  BY ConnOfLine DEF Thread
<1>1. ThreadType /\ TableType /\ MainType
  BY DEF Typed
<1>2. ASSUME NEW t \in Line, ProbeStep(t) PROVE ProbeInv'
  <2>1. phase = "probe" /\ phase' = "probe" /\ Only(t) /\ t \in Thread /\ thread[t].host = HostOf[t]
    BY <1>0, <1>2, ProbeOnly DEF mainVars, PhaseInv
  <2>2. \A u \in Line : u # t => thread'[u] = thread[u]
    BY <1>0, <2>1 DEF Only
  <2>3. CASE Connect(t)
    BY <1>1, <2>1, <2>2, <2>3, GotoOnly DEF Connect, ProbeInv, At, tableVars
  <2>4. CASE Register(t)
    <3>1. thread'[t].at \notin {"idle", "lookup", "done"}
      BY <1>1, <2>1, <2>4, GotoOnly, GetBucketOnly DEF Register, AppendTo
    <3>2. \A h \in Host : registry'[h] # 0 => registry[h] # 0 \/ h = HostOf[t]
      BY <1>1, <2>1, <2>4 DEF Register, AppendTo, GetBucket, TableType
    <3> QED BY <1>0, <2>1, <2>2, <3>1, <3>2 DEF ProbeInv
  <2>5. CASE OpenSftp(t) \/ CloseOwn(t)
    BY <1>1, <2>1, <2>2, <2>5, GotoOnly DEF OpenSftp, CloseOwn, ProbeInv, At, tableVars
  <2>6. CASE CloseHost(t)
    <3>1. CloseConnections(t, "done")
      BY <2>6 DEF CloseHost
    <3>2. \/ UNCHANGED registry /\ thread'[t].at \in {"sftps", "conns", "pop"}
          \/ UNCHANGED registry /\ registry[HostOf[t]] = 0
          \/ registry' = [registry EXCEPT ![HostOf[t]] = 0]
      BY <2>1, <3>1, CloseConnectionsTable
    <3>3. \A h \in Host : registry'[h] # 0 =>
            registry[h] # 0 /\ (h # HostOf[t] \/ thread'[t].at \in {"sftps", "conns", "pop"})
      BY <1>0, <1>1, <3>2 DEF TableType
    <3> QED BY <1>0, <2>1, <2>2, <3>3 DEF ProbeInv
  <2> QED BY <1>2, <2>3, <2>4, <2>5, <2>6 DEF ProbeStep
<1>3. ASSUME NEW t \in Line, WorkStep(t) PROVE ProbeInv'
  BY <1>3, WorkOnly DEF mainVars, ProbeInv
<1>4. CASE CleanStep
  BY <1>4, CleanOnly DEF mainVars, ProbeInv
<1>5. CASE BuildPlan
  BY <1>1, <1>5, BuildPlanBuilds DEF BuildsPlan, ProbeInv
<1>6. CASE Probed
  <2>1. \A h \in Host : registry[h] = 0
    BY <1>6 DEF Probed, ProbeInv, At
  <2> QED BY <1>6, <2>1 DEF Probed, LeaveProbing, ProbeInv, tableVars
<1>7. CASE PlanFails \/ Planned \/ Exit
  BY <1>7 DEF PlanFails, Planned, Exit, ProbeInv
<1>8. CASE RegisterCleanups \/ Signal \/ UNCHANGED vars
  BY <1>8 DEF RegisterCleanups, Signal, vars, ProbeInv, tableVars
<1> QED
  BY <1>2, <1>3, <1>4, <1>5, <1>6, <1>7, <1>8 DEF Next, MainStep, CleanStep

\* What a step of close_connections() does to the bucket and the todo of its thread.
LEMMA CloseConnectionsHolds ==
  ASSUME Typed, NEW x \in Thread, NEW l, CloseConnections(x, l)
  PROVE  /\ thread'[x].bucket \in {0, thread[x].bucket, registry[thread[x].host]}
         /\ \/ thread'[x].todo \subseteq thread[x].todo
            \/ At(x, "sftps") /\ thread'[x].todo = bucket[thread[x].bucket].conns
<1> USE DEF Typed, ThreadType, ThreadRecord
<1>1. CASE FindBucket(x, l)
  BY <1>1 DEF FindBucket, Goto
<1>2. CASE CloseSftps(x)
  BY <1>2 DEF CloseSftps
<1>3. CASE CloseConn(x)
  <2>1. CASE Goto(x, "pop")
    BY <2>1 DEF Goto
  <2>2. CASE \E c \in thread[x].todo : thread' = [thread EXCEPT ![x].todo = @ \ {c}]
    BY <2>2
  <2> QED BY <1>3, <2>1, <2>2 DEF CloseConn
<1>4. CASE Pop(x, l)
  BY <1>4 DEF Pop
<1> QED
  BY <1>1, <1>2, <1>3, <1>4 DEF CloseConnections

\* A probe that gets a bucket finds its host's, or makes one that was nobody's.
LEMMA GetBucketOwner ==
  ASSUME Typed, NEW x \in Thread, NEW l, GetBucket(x, l), NEW h, h = thread[x].host
  PROVE  \/ /\ registry[h] # 0 /\ thread'[x].bucket = registry[h]
            /\ UNCHANGED bucket /\ registry' = registry
         \/ /\ registry[h] = 0 /\ thread'[x].bucket = Len(bucket) + 1
            /\ registry' = [registry EXCEPT ![h] = Len(bucket) + 1]
            /\ bucket' \in Seq(Bucket) /\ Len(bucket') = Len(bucket) + 1
            /\ bucket'[Len(bucket) + 1] = Empty /\ \A b \in 1..Len(bucket) : bucket'[b] = bucket[b]
<1>1. thread[x] \in ThreadRecord(Len(bucket)) /\ h \in Host /\ registry \in [Host -> 0..Len(bucket)]
      /\ bucket \in Seq(Bucket)
  BY DEF Typed, ThreadType, TableType, ThreadRecord
<1>2. CASE registry[h] # 0
  <2>1. registry' = [registry EXCEPT ![h] = registry[h]] /\ UNCHANGED bucket
        /\ thread' = [thread EXCEPT ![x].at = l, ![x].bucket = registry[h]]
    BY <1>2 DEF GetBucket
  <2>2. thread'[x].bucket = registry[h]
    BY <1>1, <2>1 DEF Typed, ThreadType, ThreadRecord
  <2> QED BY <1>1, <1>2, <2>1, <2>2
<1>3. CASE registry[h] = 0
  <2>1. registry' = [registry EXCEPT ![h] = Len(bucket) + 1] /\ bucket' = Append(bucket, Empty)
        /\ thread' = [thread EXCEPT ![x].at = l, ![x].bucket = Len(bucket) + 1]
    BY <1>3 DEF GetBucket
  <2>2. thread'[x].bucket = Len(bucket) + 1
    BY <1>1, <2>1 DEF Typed, ThreadType, ThreadRecord
  <2>3. Empty \in Bucket
    BY DEF Empty, Bucket
  <2> QED BY <1>1, <1>3, <2>1, <2>2, <2>3, AppendProperties
<1> QED
  BY <1>2, <1>3

\* Every step keeps an owner for each bucket.
LEMMA OwnerStep == ASSUME Typed, PhaseInv, OwnerInv, [Next]_vars PROVE OwnerInv'
<1>0. \A t \in Line : t \in Thread /\ HostOf[t] \in Host /\ Probe(t) \in Conn
  BY ConnOfLine
<1>1. ThreadType /\ TableType /\ bucket \in Seq(Bucket)
  BY DEF Typed, TableType
<1>2. ASSUME NEW t \in Line, ProbeStep(t) PROVE OwnerInv'
  <2>1. phase = "probe" /\ phase' = "probe" /\ Only(t) /\ t \in Thread /\ thread[t].host = HostOf[t]
    BY <1>0, <1>2, ProbeOnly DEF mainVars, PhaseInv
  <2>2. \A u \in Line : u # t => thread'[u] = thread[u]
    BY <1>0, <2>1 DEF Only
  <2>3. PICK own \in [1..Len(bucket) -> Host] : Owned(own)
    BY <2>1 DEF OwnerInv
  <2>4. CASE UNCHANGED tableVars /\ thread'[t].bucket = thread[t].bucket
    <3>1. Owned(own)'
      BY <2>2, <2>3, <2>4 DEF Owned, tableVars
    <3> QED BY <2>4, <3>1 DEF OwnerInv, tableVars
  <2>5. CASE Connect(t) \/ OpenSftp(t) \/ CloseOwn(t)
    BY <1>1, <2>1, <2>4, <2>5, GotoOnly DEF Connect, OpenSftp, CloseOwn
  <2>6. CASE Register(t) /\ GetBucket(t, "append")
    <3>1. CASE registry[HostOf[t]] # 0 /\ thread'[t].bucket = registry[HostOf[t]]
               /\ UNCHANGED bucket /\ registry' = registry
      <4>1. Owned(own)'
        BY <1>0, <2>2, <2>3, <3>1 DEF Owned
      <4> QED BY <3>1, <4>1 DEF OwnerInv
    <3>2. CASE /\ registry[HostOf[t]] = 0 /\ thread'[t].bucket = Len(bucket) + 1
               /\ registry' = [registry EXCEPT ![HostOf[t]] = Len(bucket) + 1]
               /\ bucket' \in Seq(Bucket) /\ Len(bucket') = Len(bucket) + 1
               /\ bucket'[Len(bucket) + 1] = Empty /\ \A b \in 1..Len(bucket) : bucket'[b] = bucket[b]
      <4> DEFINE n == Len(bucket)
      <4>1. n \in Nat
        BY <1>1
      <4>2. PICK next \in [1..(n + 1) -> Host] : next[n + 1] = HostOf[t] /\ \A b \in 1..n : next[b] = own[b]
        <5> DEFINE f == [b \in 1..(n + 1) |-> IF b = n + 1 THEN HostOf[t] ELSE own[b]]
        <5>1. f \in [1..(n + 1) -> Host] /\ f[n + 1] = HostOf[t] /\ \A b \in 1..n : f[b] = own[b]
          BY <1>0, <4>1
        <5> HIDE DEF f
        <5> QED BY <5>1
      <4>3. \A h \in Host : registry'[h] # 0 => next[registry'[h]] = h
        <5>1. \A h \in Host : registry[h] \in 0..n /\ registry'[h] = IF h = HostOf[t] THEN n + 1 ELSE registry[h]
          BY <1>0, <1>1, <3>2 DEF TableType
        <5>2. \A h \in Host : registry[h] # 0 => own[registry[h]] = h
          BY <2>3 DEF Owned
        <5> QED BY <4>1, <4>2, <5>1, <5>2
      <4>4. \A u \in Line : thread'[u].bucket # 0 => next[thread'[u].bucket] = HostOf[u]
        <5>1. \A u \in Line : thread[u].bucket \in 0..n
          BY <1>0, <1>1 DEF ThreadType, ThreadRecord
        <5>2. \A u \in Line : thread[u].bucket # 0 => own[thread[u].bucket] = HostOf[u]
          BY <2>3 DEF Owned
        <5> QED BY <2>2, <3>2, <4>1, <4>2, <5>1, <5>2
      <4>5. \A b \in 1..Len(bucket'), u \in Line : Probe(u) \in bucket'[b].conns => next[b] = HostOf[u]
        BY <2>3, <3>2, <4>1, <4>2 DEF Owned, Empty
      <4>6. Owned(next)'
        BY <4>3, <4>4, <4>5 DEF Owned
      <4> QED BY <3>2, <4>2, <4>6 DEF OwnerInv
    <3> QED BY <2>1, <2>6, <3>1, <3>2, GetBucketOwner
  <2>7. CASE Register(t) /\ At(t, "append") /\ AppendTo(t, "conns", Probe(t), "sftp")
    <3>1. thread[t].bucket \in 1..Len(bucket)
      BY <1>1, <2>1, <2>7 DEF ThreadType, ThreadRecord, At
    <3>2. bucket' = [bucket EXCEPT ![thread[t].bucket].conns = @ \cup {Probe(t)}] /\ registry' = registry
          /\ Goto(t, "sftp")
      BY <2>7 DEF AppendTo
    <3>3. /\ Len(bucket') = Len(bucket)
          /\ \A b \in 1..Len(bucket), c \in Conn :
               c \in bucket'[b].conns => c \in bucket[b].conns \/ (b = thread[t].bucket /\ c = Probe(t))
      BY <1>0, <1>1, <3>1, <3>2, PutConnGrows
    <3>4. thread'[t].bucket = thread[t].bucket
      BY <1>1, <2>1, <3>2, GotoOnly
    <3>5. \A b \in 1..Len(bucket'), u \in Line : Probe(u) \in bucket'[b].conns => own[b] = HostOf[u]
      BY <1>0, <2>3, <3>1, <3>3, ConnOfLine DEF Owned
    <3>6. Owned(own)'
      BY <2>2, <2>3, <3>2, <3>4, <3>5 DEF Owned
    <3> QED BY <3>3, <3>6 DEF OwnerInv
  <2>8. CASE CloseHost(t)
    <3>1. CloseConnections(t, "done")
      BY <2>8 DEF CloseHost
    <3>2. thread'[t].bucket \in {0, thread[t].bucket, registry[HostOf[t]]}
      BY <2>1, <3>1, CloseConnectionsHolds
    <3>3. UNCHANGED bucket /\ \A h \in Host : registry'[h] \in {0, registry[h]}
      <4>1. UNCHANGED bucket
        BY <2>1, <3>1, CloseConnectionsType DEF Typed
      <4> QED BY <1>0, <1>1, <2>1, <3>1, <4>1, CloseConnectionsTable DEF TableType
    <3>4. Owned(own)'
      BY <1>0, <2>2, <2>3, <3>2, <3>3 DEF Owned
    <3> QED BY <3>3, <3>4 DEF OwnerInv
  <2> QED BY <1>2, <2>5, <2>6, <2>7, <2>8 DEF ProbeStep, Register
<1>3. ASSUME NEW t \in Line, WorkStep(t) PROVE OwnerInv'
  BY <1>3, WorkOnly DEF mainVars, OwnerInv
<1>4. CASE CleanStep
  BY <1>4, CleanOnly DEF mainVars, OwnerInv
<1>5. CASE BuildPlan \/ Probed \/ PlanFails \/ Planned \/ Exit \/ RegisterCleanups \/ Signal
  BY <1>5 DEF BuildPlan, Probed, LeaveProbing, PlanFails, Planned, Exit, RegisterCleanups, Signal, OwnerInv
<1>6. CASE UNCHANGED vars
  BY <1>6 DEF vars, OwnerInv, Owned
<1> QED
  BY <1>2, <1>3, <1>4, <1>5, <1>6 DEF Next, MainStep, CleanStep

-----------------------------------------------------------------------------
(* The probes' verdicts                                                    *)

\* Every step keeps ServedInv.
LEMMA ServedStep ==
  ASSUME Typed, PhaseInv, OwnerInv, ServedInv, [Next]_vars
  PROVE  ServedInv'
<1>0. \A t \in Line : t \in Thread /\ HostOf[t] \in Host /\ Probe(t) \in Conn
  BY ConnOfLine
<1>1. ThreadType /\ TableType /\ LinkType /\ verdict \in [Line -> {"none", "ok", "ssh", "sftp"}]
  BY DEF Typed, MainType
<1>2. ASSUME NEW t \in Line, ProbeStep(t) PROVE ServedInv'
  <2>1. phase = "probe" /\ phase' = "probe" /\ Only(t) /\ t \in Thread /\ thread[t].host = HostOf[t]
    BY <1>0, <1>2, ProbeOnly DEF mainVars, PhaseInv
  <2>2. \A u \in Line : u # t => thread'[u] = thread[u]
    BY <1>0, <2>1 DEF Only
  <2> DEFINE Early == {"idle", "lookup", "append", "sftp"}
             Owns(u) == \A v \in Line : Probe(v) \in thread[u].todo => HostOf[v] = HostOf[u]
             Cut(u) == verdict[u] # "none" \/ conn[Probe(u)] = "closed"
  <2>3. \A u \in Line :
          /\ Owns(u) /\ (thread[u].at \in {"lookup", "append", "sftp"} => conn[Probe(u)] # "none")
          /\ thread[u].at \in Early <=> verdict[u] = "none"
          /\ HostOf[u] \in Accepting /\ Cut(u) => Served(HostOf[u])
    BY <2>1 DEF ServedInv
  <2>4. ASSUME \A u \in Line : u # t => verdict'[u] = verdict[u],
               verdict[t] # "none" => verdict'[t] = verdict[t],
               \A v \in Line : Probe(v) \in thread'[t].todo => HostOf[v] = HostOf[t],
               \A u \in Line : conn[Probe(u)] # "none" => conn'[Probe(u)] # "none",
               thread'[t].at \in {"lookup", "append", "sftp"} => conn'[Probe(t)] # "none",
               thread'[t].at \in Early <=> verdict'[t] = "none",
               \A u \in Line : HostOf[u] \in Accepting /\ Cut(u)' => Cut(u) \/ Served(HostOf[u])'
        PROVE  ServedInv'
    <3>1. \A h : Served(h) => Served(h)'
      BY <2>4 DEF Served, Reachable
    <3>2. \A u \in Line : HostOf[u] \in Accepting /\ Cut(u)' => Served(HostOf[u])'
      BY <2>3, <2>4, <3>1
    <3> QED BY <2>1, <2>2, <2>3, <2>4, <3>2 DEF ServedInv, HostServed
  <2>5. CASE Connect(t)
    <3>1. At(t, "idle") /\ thread'[t].todo = thread[t].todo
          /\ \/ conn' = [conn EXCEPT ![Probe(t)] = "open"] /\ thread'[t].at = "lookup" /\ UNCHANGED verdict
             \/ /\ HostOf[t] \notin Accepting /\ verdict' = [verdict EXCEPT ![t] = "ssh"]
                /\ thread'[t].at = "find" /\ UNCHANGED conn
      BY <1>1, <2>1, <2>5, GotoOnly DEF Connect, MayFail
    <3>2. \A u \in Line : /\ conn'[Probe(u)] = conn[Probe(u)] \/ conn'[Probe(u)] = "open"
                          /\ u # t => verdict'[u] = verdict[u]
                          /\ thread'[t].at = "lookup" => conn'[Probe(t)] = "open" /\ verdict'[u] = verdict[u]
                          /\ thread'[t].at = "find" => verdict'[t] = "ssh"
      BY <1>0, <1>1, <3>1 DEF LinkType
    <3> QED BY <2>3, <2>4, <3>1, <3>2 DEF At
  <2>6. CASE Register(t)
    <3>1. /\ UNCHANGED <<verdict, conn>> /\ thread'[t].todo = thread[t].todo
          /\ thread[t].at \in {"lookup", "append"} /\ thread'[t].at \in {"append", "sftp"}
      BY <1>1, <2>1, <2>6, GotoOnly, GetBucketOnly DEF Register, AppendTo, At, linkVars
    <3> QED BY <2>3, <2>4, <3>1
  <2>7. CASE OpenSftp(t)
    <3>1. At(t, "sftp") /\ thread'[t].at = "own" /\ thread'[t].todo = thread[t].todo /\ UNCHANGED conn
          /\ \/ verdict' = [verdict EXCEPT ![t] = "ok"]
             \/ verdict' = [verdict EXCEPT ![t] = "sftp"]
                /\ (conn[Probe(t)] # "open" \/ HostOf[t] \notin Accepting)
      BY <1>1, <2>1, <2>7, GotoOnly DEF OpenSftp, MayFail
    <3>2. conn[Probe(t)] # "open" => conn[Probe(t)] = "closed"
      BY <1>0, <1>1, <2>3, <3>1 DEF LinkType, LinkState, At
    <3>3. \A u \in Line : u # t => verdict'[u] = verdict[u]
      BY <1>1, <3>1
    <3>4. HostOf[t] \in Accepting => Cut(t) \/ Served(HostOf[t])'
      <4>1. CASE verdict' = [verdict EXCEPT ![t] = "ok"]
        BY <1>1, <4>1 DEF Served, Reachable
      <4>2. CASE conn[Probe(t)] # "open" \/ HostOf[t] \notin Accepting
        BY <3>2, <4>2
      <4> QED BY <3>1, <4>1, <4>2
    <3>5. verdict'[t] # "none" /\ verdict[t] = "none"
      BY <1>1, <2>3, <3>1 DEF At
    <3> QED BY <2>3, <2>4, <3>1, <3>3, <3>4, <3>5
  <2>8. CASE CloseOwn(t)
    <3>1. /\ At(t, "own") /\ thread'[t].at = "find" /\ thread'[t].todo = thread[t].todo /\ UNCHANGED verdict
          /\ conn' = ShutLink(conn, {Probe(t)})
      BY <1>1, <2>1, <2>8, GotoOnly DEF CloseOwn
    <3>2. \A u \in Line : conn'[Probe(u)] = conn[Probe(u)] \/ (u = t /\ conn'[Probe(u)] = "closed")
      BY <1>0, <1>1, <3>1, ShutLinkType, ConnOfLine DEF LinkType
    <3> QED BY <2>3, <2>4, <3>1, <3>2 DEF At
  <2>9. CASE CloseHost(t)
    <3>1. CloseConnections(t, "done") /\ UNCHANGED verdict
      BY <2>9 DEF CloseHost
    <3>2. thread[t].at \in {"find", "sftps", "conns", "pop"} /\ thread'[t].at \in {"sftps", "conns", "pop", "done"}
      BY <1>1, <2>1, <3>1, CloseConnectionsOnly
    <3>3. \A v \in Line : Probe(v) \in thread'[t].todo => HostOf[v] = HostOf[t]
      <4>1. CASE thread'[t].todo \subseteq thread[t].todo
        BY <2>3, <4>1
      <4>2. CASE At(t, "sftps") /\ thread'[t].todo = bucket[thread[t].bucket].conns
        <5>1. thread[t].bucket \in 1..Len(bucket) /\ thread[t].bucket # 0
          BY <1>1, <2>1, <4>2 DEF ThreadType, ThreadRecord, At, TableType
        <5>2. PICK own \in [1..Len(bucket) -> Host] : Owned(own)
          BY <2>1 DEF OwnerInv
        <5> QED BY <4>2, <5>1, <5>2 DEF Owned
      <4> QED BY <2>1, <3>1, <4>1, <4>2, CloseConnectionsHolds
    <3>4. \A u \in Line : conn'[Probe(u)] = conn[Probe(u)] \/ (conn'[Probe(u)] = "closed" /\ HostOf[u] = HostOf[t])
      BY <1>0, <2>1, <2>3, <3>1, CloseConnectionsLinks
    <3>5. verdict[t] # "none"
      BY <2>3, <3>2
    <3>6. \A u \in Line : HostOf[u] \in Accepting /\ Cut(u)' => Cut(u) \/ Served(HostOf[u])'
      <4>1. HostOf[t] \in Accepting => Served(HostOf[t])'
        BY <2>3, <3>1, <3>5 DEF Served, Reachable
      <4> QED BY <3>1, <3>4, <4>1
    <3> QED BY <2>3, <2>4, <3>1, <3>2, <3>3, <3>4, <3>5, <3>6
  <2> QED BY <1>2, <2>5, <2>6, <2>7, <2>8, <2>9 DEF ProbeStep
<1>3. ASSUME NEW t \in Line, WorkStep(t) PROVE ServedInv'
  <2>1. phase = "run" /\ UNCHANGED <<phase, verdict>>
    BY <1>3, WorkOnly DEF mainVars
  <2> QED BY <2>1 DEF ServedInv, HostServed, Reachable
<1>4. CASE CleanStep
  <2>1. phase = "run" /\ UNCHANGED <<phase, verdict>>
    BY <1>4, CleanOnly DEF mainVars
  <2> QED BY <2>1 DEF ServedInv, HostServed, Reachable
<1>5. CASE Probed
  <2>1. \A t \in Line : HostOf[t] \in Accepting => Served(HostOf[t])
    BY <1>5 DEF Probed, ServedInv, At
  <2>2. phase' # "probe" /\ UNCHANGED verdict
    BY <1>5 DEF Probed, LeaveProbing
  <2> QED BY <2>1, <2>2 DEF ServedInv, HostServed, Served, Reachable
<1>6. CASE BuildPlan \/ PlanFails \/ Planned \/ Exit \/ RegisterCleanups \/ Signal
  <2>1. phase # "probe" /\ phase' # "probe" /\ UNCHANGED verdict
    BY <1>6 DEF BuildPlan, PlanFails, Planned, Exit, RegisterCleanups, Signal
  <2> QED BY <2>1 DEF ServedInv, HostServed, Reachable
<1>7. CASE UNCHANGED vars
  BY <1>7 DEF vars, ServedInv, HostServed, Served, Reachable, At
<1> QED
  BY <1>2, <1>3, <1>4, <1>5, <1>6, <1>7 DEF Next, MainStep, CleanStep

-----------------------------------------------------------------------------
(* The clean-up                                                            *)

\* A worker may add to the registry, and never takes from it.
LEMMA WorkTable ==
  ASSUME Typed, PhaseInv, NEW t \in Line, WorkStep(t)
  PROVE  BucketsGrow /\ \A h \in Host : registry[h] # 0 => registry'[h] = registry[h]
<1>1. ThreadType /\ TableType /\ MainType /\ t \in Thread /\ thread[t].host \in Host
  BY ConnOfLine DEF Typed, ThreadType, ThreadRecord
<1>2. CASE StartWork(t) \/ EndWork(t)
  BY <1>1, <1>2, SameTable DEF StartWork, EndWork, tableVars
<1>3. CASE \E l \in {"append", "appendSftp"} : GetBucket(t, l)
  <2>1. BucketsGrow
    BY <1>1, <1>3, GetBucketType
  <2>2. \A h \in Host : registry[h] # 0 => registry'[h] = registry[h]
    BY <1>1, <1>3 DEF GetBucket, TableType
  <2> QED BY <2>1, <2>2
<1>4. CASE RegisterSession(t) /\ \E f \in {"conns", "sftps"}, l \in {"lookupSftp", "work"} :
             thread[t].at \in {"append", "appendSftp"} /\ AppendTo(t, f, session[HostOf[t]], l)
  <2>1. thread[t].bucket # 0 /\ session[HostOf[t]] \in Conn
    BY <1>1, <1>4, WorkerSession DEF RegisterSession, ThreadType, At
  <2>2. PICK f \in {"conns", "sftps"}, l \in {"lookupSftp", "work"} :
           AppendTo(t, f, session[HostOf[t]], l)
    BY <1>4
  <2>3. BucketsGrow BY <1>1, <2>1, <2>2, AppendToType
  <2>4. UNCHANGED registry BY <2>2 DEF AppendTo
  <2> QED BY <2>3, <2>4
<1> QED
  BY <1>2, <1>3, <1>4 DEF WorkStep, RegisterSession, At

\* What can be found stays so while its host stays registered.
LEMMA FindableStays ==
  ASSUME Typed, NEW t \in Line, BucketsGrow, registry'[HostOf[t]] = registry[HostOf[t]], Findable(t)
  PROVE  Findable(t)'
<1>1. registry[HostOf[t]] \in 1..Len(bucket)
  BY ConnOfLine DEF Findable, Typed, TableType
<1> QED
  BY <1>1 DEF Findable, BucketsGrow

\* Every step keeps CloseInv.
LEMMA CloseStep ==
  ASSUME Typed, PhaseInv, LinkInv, CloseInv, [Next]_vars
  PROVE  CloseInv'
<1>0. /\ Main \in Thread /\ \A t \in Line : t \in Thread \ {Main} /\ HostOf[t] \in Host /\ Work(t) \in Conn
      /\ planned \subseteq Line
  BY ConnOfLine DEF Thread, Typed, MainType, Reachable
<1>1. ThreadType /\ TableType /\ LinkType /\ MainType /\ bucket \in Seq(Bucket)
  BY DEF Typed, TableType
<1>2. ASSUME NEW t \in Line, ProbeStep(t) PROVE CloseInv'
  <2>1. phase = "probe" /\ phase' = "probe" /\ Only(t)
    BY <1>2, ProbeOnly DEF mainVars
  <2>2. thread'[Main] = thread[Main] /\ At(Main, "idle")
    BY <1>0, <2>1 DEF Only, PhaseInv
  <2> QED BY <2>1, <2>2 DEF CloseInv, SessionsFindable, At
<1>3. ASSUME NEW t \in Line, WorkStep(t) PROVE CloseInv'
  <2>1. phase = "run" /\ UNCHANGED <<phase, planned, conn>> /\ Only(t)
    BY <1>3, WorkOnly DEF mainVars, linkVars
  <2>2. thread'[Main] = thread[Main]
    BY <1>0, <2>1 DEF Only
  <2>3. BucketsGrow /\ \A h \in Host : registry[h] # 0 => registry'[h] = registry[h]
    BY <1>3, WorkTable
  <2>4. \A u \in Line : Findable(u) => Findable(u)'
    BY <1>0, <2>3, FindableStays DEF Findable
  <2>5. \A u \in Line : Pending(u) => Pending(u)'
    <3>1. ASSUME At(Main, "sftps") PROVE bucket[thread[Main].bucket].conns \subseteq bucket'[thread[Main].bucket].conns
      <4>1. thread[Main].bucket \in 1..Len(bucket)
        BY <1>0, <1>1, <3>1 DEF ThreadType, ThreadRecord, At
      <4> QED BY <2>3, <4>1 DEF BucketsGrow
    <3> QED BY <2>2, <2>4, <3>1 DEF Pending, At
  <2>6. SessionsFindable'
    BY <1>0, <2>1, <2>2, <2>4 DEF CloseInv, SessionsFindable, Findable, At
  <2> QED BY <1>0, <2>1, <2>2, <2>5, <2>6 DEF CloseInv, At
<1>4. CASE CleanStep
  <2>1. /\ phase = "run" /\ UNCHANGED <<phase, planned>> /\ ~At(Main, "idle")'
    BY <1>4, CleanOnly DEF mainVars, At
  <2>2. ASSUME \A t \in planned : conn'[Work(t)] = "open" => conn[Work(t)] = "open" /\ Pending(t)',
               thread'[Main].at \in {"find", "sftps", "conns", "pop"} => thread'[Main].host \notin thread'[Main].hosts,
               thread'[Main].at = "done" => thread'[Main].hosts = {}
        PROVE  CloseInv'
    BY <2>1, <2>2 DEF CloseInv, SessionsFindable, At
  <2>3. CASE CloseAll
    <3>1. /\ At(Main, "idle") /\ UNCHANGED <<conn, tableVars>>
          /\ thread' = [thread EXCEPT ![Main].at = "next", ![Main].hosts = {h \in Host : registry[h] # 0}]
      BY <2>3 DEF CloseAll, linkVars
    <3>2. thread'[Main].at = "next" /\ thread'[Main].hosts = {h \in Host : registry[h] # 0}
      BY <1>0, <1>1, <3>1 DEF ThreadType, ThreadRecord
    <3>3. \A t \in planned : Findable(t)
      BY <2>1, <3>1 DEF CloseInv, SessionsFindable, Findable
    <3>4. \A t \in planned : Pending(t)'
      BY <1>0, <3>1, <3>2, <3>3 DEF Pending, Findable, tableVars
    <3> QED BY <2>2, <3>1, <3>2, <3>4
  <2>4. CASE NextHost
    <3>1. At(Main, "next") /\ UNCHANGED <<conn, tableVars>>
      BY <2>4 DEF NextHost, linkVars
    <3>2. \A t \in planned : conn[Work(t)] = "open" => HostOf[t] \in thread[Main].hosts /\ Findable(t)
      BY <3>1 DEF CloseInv, Pending, At
    <3>3. CASE thread[Main].hosts = {} /\ Goto(Main, "done")
      BY <1>0, <1>1, <2>2, <3>1, <3>2, <3>3, GotoOnly DEF Only
    <3>4. CASE \E h \in thread[Main].hosts :
              thread' = [thread EXCEPT ![Main].at = "find", ![Main].host = h, ![Main].hosts = @ \ {h}]
      <4>1. PICK h \in thread[Main].hosts :
              thread' = [thread EXCEPT ![Main].at = "find", ![Main].host = h, ![Main].hosts = @ \ {h}]
        BY <3>4
      <4>2. thread'[Main].at = "find" /\ thread'[Main].host = h /\ thread'[Main].hosts = thread[Main].hosts \ {h}
        BY <1>0, <1>1, <4>1 DEF ThreadType, ThreadRecord
      <4>3. \A t \in planned : conn[Work(t)] = "open" => Pending(t)'
        BY <3>1, <3>2, <4>2 DEF Pending, Findable, tableVars, At
      <4> QED BY <2>2, <3>1, <4>2, <4>3
    <3> QED BY <2>4, <3>3, <3>4 DEF NextHost
  <2>5. CASE CloseNextHost
    <3>1. /\ Only(Main) /\ thread[Main].at \in {"find", "sftps", "conns", "pop"} /\ UNCHANGED bucket
          /\ thread'[Main].at # "done"
          /\ CloseConnections(Main, "next")
      BY <1>0, <1>1, <2>5, CloseConnectionsOnly, CloseConnectionsType DEF CloseNextHost
    <3>2. thread'[Main].host = thread[Main].host /\ thread'[Main].hosts = thread[Main].hosts
          /\ thread[Main].host \notin thread[Main].hosts
      BY <3>1 DEF Only, CloseInv
    <3>3. \A t \in planned : conn[Work(t)] = "open" => Pending(t)
      BY <3>1 DEF CloseInv, At
    <3>4. \A t \in planned : conn'[Work(t)] = "open" => conn[Work(t)] = "open"
      BY <1>0, <3>1, CloseConnectionsLinks
    <3>5. \A t \in planned : HostOf[t] \in thread[Main].hosts /\ Findable(t) =>
            HostOf[t] \in thread'[Main].hosts /\ Findable(t)'
      BY <1>0, <1>1, <3>1, <3>2, CloseConnectionsTable DEF Findable, TableType
    <3>6. \A t \in planned : conn'[Work(t)] = "open" => Pending(t)'
      <4>1. CASE FindBucket(Main, "next")
        <5>1. At(Main, "find") /\ UNCHANGED <<conn, registry>>
              /\ (registry[thread[Main].host] # 0 =>
                    thread'[Main].at = "sftps" /\ thread'[Main].bucket = registry[thread[Main].host])
          BY <1>0, <1>1, <4>1 DEF FindBucket, linkVars, tableVars, ThreadType, ThreadRecord
        <5> QED BY <3>1, <3>2, <3>3, <3>5, <5>1 DEF Pending, Findable, At
      <4>2. CASE CloseSftps(Main)
        <5>1. At(Main, "sftps") /\ UNCHANGED conn /\ thread'[Main].at = "conns"
              /\ thread'[Main].todo = bucket[thread[Main].bucket].conns
          BY <1>0, <1>1, <4>2 DEF CloseSftps, ThreadType, ThreadRecord
        <5> QED BY <3>2, <3>3, <3>5, <5>1 DEF Pending, At
      <4>3. CASE CloseConn(Main)
        <5>1. At(Main, "conns")
          BY <4>3 DEF CloseConn
        <5>2. CASE thread[Main].todo = {} /\ UNCHANGED linkVars
          BY <3>2, <3>3, <3>5, <5>1, <5>2 DEF Pending, At, linkVars
        <5>3. CASE \E c \in thread[Main].todo :
                     conn' = ShutLink(conn, {c}) /\ thread' = [thread EXCEPT ![Main].todo = @ \ {c}]
          <6>1. PICK c \in thread[Main].todo :
                     conn' = ShutLink(conn, {c}) /\ thread' = [thread EXCEPT ![Main].todo = @ \ {c}]
            BY <5>3
          <6>2. thread'[Main].at = "conns" /\ thread'[Main].todo = thread[Main].todo \ {c}
            BY <1>0, <1>1, <5>1, <6>1 DEF ThreadType, ThreadRecord, At
          <6>3. \A t \in planned : conn'[Work(t)] = "open" => Work(t) # c
            BY <1>0, <1>1, <6>1, ShutLinkType DEF LinkType
          <6> QED BY <3>2, <3>3, <3>4, <3>5, <5>1, <6>2, <6>3 DEF Pending, At
        <5> QED BY <4>3, <5>2, <5>3 DEF CloseConn
      <4>4. CASE Pop(Main, "next")
        <5>1. At(Main, "pop")
          BY <4>4 DEF Pop
        <5> QED BY <3>2, <3>3, <3>4, <3>5, <5>1 DEF Pending, At
      <4> QED BY <3>1, <4>1, <4>2, <4>3, <4>4 DEF CloseConnections
    <3> QED BY <2>2, <3>1, <3>2, <3>4, <3>6
  <2> QED BY <1>4, <2>3, <2>4, <2>5 DEF CleanStep
<1>5. CASE BuildPlan
  <2>1. PICK t \in Reachable \ planned, b \in Nat : phase = "plan" /\ BuildsPlan(t, b)
    BY <1>1, <1>5, BuildPlanBuilds
  <2>2. /\ b = IF registry[HostOf[t]] # 0 THEN registry[HostOf[t]] ELSE Len(bucket) + 1
        /\ registry' = [registry EXCEPT ![HostOf[t]] = b] /\ planned' = planned \cup {t}
        /\ BucketsGrow /\ b \in 1..Len(bucket') /\ Work(t) \in bucket'[b].conns
        /\ UNCHANGED <<phase, thread>> /\ t \in Line
    BY <2>1 DEF BuildsPlan, Reachable
  <2>3. At(Main, "idle") /\ At(Main, "idle")'
    BY <2>1, <2>2 DEF PhaseInv, At
  <2>4. Findable(t)'
    BY <1>0, <1>1, <2>2 DEF Findable, TableType
  <2>5. \A u \in planned : Findable(u)'
    <3>1. \A h \in Host : registry[h] # 0 => registry'[h] = registry[h]
      BY <1>0, <1>1, <2>2 DEF TableType
    <3> QED BY <1>0, <2>1, <2>2, <2>3, <3>1, FindableStays DEF CloseInv, SessionsFindable, Findable
  <2> QED BY <2>2, <2>3, <2>4, <2>5 DEF CloseInv, SessionsFindable, Findable, At
<1>6. CASE Planned
  <2>1. phase = "plan" /\ UNCHANGED <<conn, tableVars, planned>> /\ At(Main, "idle")
    BY <1>6 DEF Planned, PhaseInv, linkVars
  <2>2. thread'[Main].at = "idle"
    <3>1. CASE UNCHANGED thread
      BY <2>1, <3>1 DEF At
    <3>2. CASE thread' = [x \in Thread |-> Idle(x)]
      BY <1>0, <3>2 DEF Idle
    <3> QED BY <1>6, <3>1, <3>2 DEF Planned
  <2> QED BY <2>1, <2>2 DEF CloseInv, SessionsFindable, At, tableVars
<1>7. CASE Probed \/ PlanFails \/ Exit
  <2>1. UNCHANGED <<conn, tableVars, planned, thread>>
    BY <1>7 DEF Probed, PlanFails, Exit, linkVars
  <2>2. phase' = "end" \/ planned = {}
    BY <1>7 DEF Probed, PlanFails, Exit, LeaveProbing, PhaseInv
  <2>3. \A t \in planned : Pending(t) => Pending(t)'
    BY <2>1 DEF Pending, Findable, tableVars, At
  <2> QED BY <2>1, <2>2, <2>3 DEF CloseInv, SessionsFindable, At
<1>8. CASE RegisterCleanups \/ Signal \/ UNCHANGED vars
  <2>1. UNCHANGED <<conn, tableVars, planned, thread, phase>>
    BY <1>8 DEF RegisterCleanups, Signal, vars, linkVars, tableVars
  <2>2. \A t \in planned : Pending(t) => Pending(t)'
    BY <2>1 DEF Pending, Findable, tableVars, At
  <2> QED BY <2>1, <2>2 DEF CloseInv, SessionsFindable, At, tableVars
<1> QED
  BY <1>2, <1>3, <1>4, <1>5, <1>6, <1>7, <1>8 DEF Next, MainStep, CleanStep

-----------------------------------------------------------------------------
(* The theorems                                                            *)

LEMMA InitInv == ASSUME Init PROVE IInv
<1>0. \A t \in Line : t \in Thread /\ t # Main /\ HostOf[t] \in Host /\ Probe(t) \in Conn /\ Work(t) \in Conn
  BY ConnOfLine
<1>1. \A x \in Thread : thread[x] = Idle(x) /\ thread[x].at = "idle" /\ thread[x].bucket = 0 /\ thread[x].todo = {}
  BY DEF Init, Idle
<1>2. TypeOK
  <2>1. \A x \in Thread : Idle(x) \in ThreadRecord(0)
    BY <1>0, SessionAssumption DEF Idle, ThreadRecord, Labels, Thread, Line
  <2>2. bucket \in Seq(Bucket) /\ Len(bucket) = 0
    BY DEF Init
  <2>3. ThreadType
    BY <1>1, <2>1, <2>2 DEF ThreadType, Init
  <2>4. TableType
    BY <2>2 DEF TableType, Init
  <2>5. LinkType /\ MainType
    BY DEF LinkType, LinkState, MainType, Init
  <2> QED BY <2>3, <2>4, <2>5, TypeParts DEF Typed
<1>3. PhaseInv
  BY <1>0, <1>1, ConnOfLine DEF PhaseInv, Init, Idle, At, ProbeLabels, Thread
<1>4. LinkInv /\ ProbeInv
  BY <1>0 DEF LinkInv, ProbeInv, Init
<1>5. OwnerInv
  <2>1. PICK own \in [1..Len(bucket) -> Host] : TRUE
    <3>1. [b \in 1..Len(bucket) |-> HostOf[1]] \in [1..Len(bucket) -> Host]
      BY SessionAssumption
    <3> QED BY <3>1
  <2>2. Len(bucket) = 0
    BY DEF Init
  <2>3. Owned(own)
    BY <1>0, <1>1, <2>2 DEF Owned, Init
  <2> QED BY <2>3 DEF OwnerInv
<1>6. ServedInv
  BY <1>0, <1>1 DEF ServedInv, HostServed, Init
<1>7. CloseInv
  BY <1>1, ConnOfLine DEF CloseInv, SessionsFindable, Init, At, Thread
<1> QED
  BY <1>2, <1>3, <1>4, <1>5, <1>6, <1>7 DEF IInv

LEMMA Invariance == Spec => []IInv
<1>1. Init => IInv
  BY InitInv
<1>2. IInv /\ [Next]_vars => IInv'
  BY TypeStep, PhaseStep, LinkStep, ProbeInvStep, OwnerStep, ServedStep, CloseStep, TypeParts DEF IInv
<1> QED
  BY <1>1, <1>2, PTL DEF Spec

\* The registry, the connections and the threads keep their types: a bucket is only held
\* under a number that _get_bucket() gave out.
THEOREM TypeCorrect == Spec => []TypeOK
<1>1. IInv => TypeOK
  BY DEF IInv
<1> QED
  BY <1>1, Invariance, PTL

\* Whatever the threads of the pool do to each other's connections, a host that accepts
\* connections has a line that main() goes on with.
THEOREM AcceptingHostServed == Spec => []HostServed
<1>1. IInv => HostServed
  BY DEF IInv, ServedInv
<1> QED
  BY <1>1, Invariance, PTL

\* The probes close what they opened, and leave no bucket for the sessions to share.
THEOREM ProbesLeaveNothing == Spec => []ProbesClosed
<1>1. ASSUME IInv PROVE ProbesClosed
  <2>1. \A t \in Line : Probe(t) \in Conn
    BY ConnOfLine
  <2> QED BY <1>1, <2>1 DEF IInv, LinkInv, ProbeInv, ProbesClosed
<1> QED
  BY <1>1, Invariance, PTL

\* close_all() would find each session in the registry until it starts.
THEOREM SessionsRegistered == Spec => []SessionsFindable
<1>1. IInv => SessionsFindable
  BY DEF IInv, CloseInv
<1> QED
  BY <1>1, Invariance, PTL

\* execute() ends with the clean-up done, or passed over by a signal that came too early.
ExitInv ==
  /\ closing = "missed" => stop
  /\ exit = "ran" => phase = "end" /\ (CleanedUp \/ closing = "missed")

LEMMA ExitStep == ASSUME IInv, ExitInv, [Next]_vars PROVE ExitInv'
<1>0. Typed /\ PhaseInv BY TypeParts DEF IInv
<1>1. ASSUME NEW t \in Line, ProbeStep(t) PROVE ExitInv'
  BY <1>0, <1>1, ProbeOnly DEF ExitInv, mainVars
<1>2. ASSUME NEW t \in Line, WorkStep(t) PROVE ExitInv'
  BY <1>0, <1>2, WorkOnly DEF ExitInv, mainVars
<1>3. CASE CleanStep
  BY <1>0, <1>3, CleanOnly DEF ExitInv, mainVars
<1>4. CASE Probed \/ BuildPlan \/ PlanFails \/ Planned
  <2>1. phase # "end" /\ UNCHANGED <<stop, closing>> /\ exit' \in {exit, "no hosts", "dry run", "raised"}
    BY <1>4 DEF Probed, LeaveProbing, BuildPlan, PlanFails, Planned
  <2> QED BY <2>1 DEF ExitInv
<1>5. CASE RegisterCleanups \/ Signal
  BY <1>5 DEF RegisterCleanups, Signal, ExitInv
<1>6. CASE Exit
  BY <1>6 DEF Exit, ExitInv, CleanedUp, At
<1>7. CASE UNCHANGED vars
  BY <1>7 DEF vars, ExitInv, CleanedUp, At
<1> QED
  BY <1>1, <1>2, <1>3, <1>4, <1>5, <1>6, <1>7 DEF Next, MainStep, CleanStep

\* When the clean-up has ended, nothing is open, whatever the workers registered meanwhile;
\* and when execute() has, unless a signal came before it had registered close_all().
THEOREM AllSessionsClosed == Spec => []SessionsClosed
<1>1. ASSUME IInv, CleanedUp PROVE \A c \in Conn : conn[c] # "open" /\ sftp[c] # "open"
  <2>1. At(Main, "done") /\ phase # "probe"
    BY <1>1 DEF CleanedUp, IInv, PhaseInv, At
  <2>2. \A t \in Line : conn[Probe(t)] # "open"
    BY <1>1, <2>1 DEF IInv, LinkInv
  <2>3. \A t \in Line : conn[Work(t)] # "open"
    BY <1>1, <2>1 DEF IInv, LinkInv, CloseInv, Pending, At
  <2>4. \A c \in Conn : \E t \in Line : c = Probe(t) \/ c = Work(t)
    <3> SUFFICES ASSUME NEW c \in Conn PROVE \E t \in Line : c = Probe(t) \/ c = Work(t)
      OBVIOUS
    <3>1. CASE c <= NumLines
      BY <3>1, SessionAssumption DEF Conn, Line, Probe
    <3>2. CASE c > NumLines
      <4>1. c - NumLines \in Line /\ Work(c - NumLines) = c
        BY <3>2, SessionAssumption DEF Conn, Line, Work
      <4> QED BY <4>1
    <3> QED BY <3>1, <3>2, SessionAssumption DEF Conn
  <2> QED BY <1>1, <2>2, <2>3, <2>4 DEF IInv, LinkInv
<1>2. IInv /\ ExitInv => SessionsClosed
  BY <1>1 DEF SessionsClosed, AllClosed, ExitInv
<1>3. Init => ExitInv
  BY DEF Init, ExitInv
<1> QED
  BY <1>2, <1>3, ExitStep, Invariance, PTL DEF Spec

\* A session is only closed by the clean-up: after a signal, or with every worker done.
THEOREM SessionsStay == Spec => SessionsKept
<1> DEFINE Kept == \A t \in Line : conn[Work(t)] = "open" /\ conn'[Work(t)] # "open" => stop \/ WorkersDone
<1>1. ASSUME IInv, [Next]_vars PROVE Kept
  <2>0. Typed /\ PhaseInv /\ LinkInv /\ Main \in Thread /\ \A t \in Line : t \in Thread /\ Work(t) \in Conn
    BY <1>1, TypeParts, ConnOfLine DEF IInv, Thread
  <2>1. ASSUME NEW t \in Line, ProbeStep(t) PROVE Kept
    <3>1. phase = "probe"
      BY <2>0, <2>1, ProbeOnly
    <3>2. \A u \in Line : conn[Work(u)] = "none"
      BY <2>0, <3>1 DEF PhaseInv, LinkInv
    <3> QED BY <3>2
  <2>2. ASSUME NEW t \in Line, WorkStep(t) PROVE Kept
    BY <2>0, <2>2, WorkOnly DEF linkVars
  <2>3. CASE CleanStep
    <3>1. CASE CloseNextHost
      <4>1. ~At(Main, "idle")
        BY <2>0, <3>1, CloseConnectionsOnly DEF CloseNextHost, At, Typed
      <4> QED BY <2>0, <4>1 DEF PhaseInv
    <3>2. CASE CloseAll \/ NextHost
      BY <3>2 DEF CloseAll, NextHost, linkVars
    <3> QED BY <2>3, <3>1, <3>2 DEF CleanStep
  <2>4. CASE BuildPlan
    <3>1. PICK t \in Reachable \ planned, b \in Nat : BuildsPlan(t, b)
      BY <2>0, <2>4, BuildPlanBuilds DEF Typed
    <3> QED BY <2>0, <3>1 DEF BuildsPlan, Typed, LinkType
  <2>5. CASE Probed \/ PlanFails \/ Planned \/ Exit \/ RegisterCleanups \/ Signal \/ UNCHANGED vars
    BY <2>5 DEF Probed, PlanFails, Planned, Exit, RegisterCleanups, Signal, vars, linkVars
  <2> QED BY <1>1, <2>1, <2>2, <2>3, <2>4, <2>5 DEF Next, MainStep, CleanStep
<1>2. IInv /\ [Next]_vars => [Kept]_vars
  BY <1>1
<1> QED
  BY <1>2, Invariance, PTL DEF Spec, SessionsKept
=============================================================================
