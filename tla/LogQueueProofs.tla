--------------------------- MODULE LogQueueProofs ---------------------------
(***************************************************************************)
(* Theorems about LogQueue, for every number of worker threads and every   *)
(* number of records that each thread logs.                                *)
(***************************************************************************)
EXTENDS LogQueue, TLAPS, SequenceTheorems, FiniteSetTheorems

Emitting == {"out", "assert", "log", "put"}
Init1 == {"queue", "handler", "reset", "add", "listen", "start", "set"}
Labels == Emitting \cup {"init"} \cup Init1
Stops == {"before", "join", "listener", "q", "logger", "done"}
Line == Record \cup {Sentinel}

\* The types of TypeOK, and what the types of a step's results rest on.
NumberType == /\ q \in 0..Len(queues) /\ listener \in 0..Len(queues)
              /\ mine \in [Thread -> 0..Len(queues)]
              /\ handlers \in Seq(Nat) /\ \A i \in DOMAIN handlers : handlers[i] \in 0..Len(queues)
              /\ threads \in Seq([queue : Nat, on : BOOLEAN])
              /\ \A n \in DOMAIN threads : threads[n].queue \in DOMAIN queues
ThreadType == /\ pc \in [Thread -> Labels]
              /\ left \in [Thread -> Nat] /\ \A t \in Thread : left[t] <= Records[t]
              /\ \A t \in Thread : pc[t] # "out" => left[t] > 0
FlagType == logger \in BOOLEAN /\ verbose \in BOOLEAN /\ raced \in BOOLEAN /\ stop \in Stops
RecordType == /\ queues \in Seq(Seq(Line))
              /\ written \in [Record -> Nat]
              /\ early \subseteq Record /\ late \subseteq Record /\ raised \subseteq Record
Typed == NumberType /\ ThreadType /\ FlagType /\ RecordType

\* Until the shutdown is over there is one queue and nobody initialises; from then on there
\* is a queue and a listener at the labels that use them.
PhaseInv ==
  /\ stop # "done" => /\ logger /\ ~raced /\ late = {}
                      /\ \A t \in Thread : pc[t] \in Emitting
                      /\ handlers = <<1>> /\ Len(queues) = 1 /\ Len(threads) = 1
  /\ stop \in {"before", "join", "listener"} => listener = 1
  /\ stop \in {"q", "logger"} => listener = 0
  /\ stop = "logger" => q = 0
  /\ Len(queues) >= 1 /\ Len(threads) >= 1 /\ threads[1].queue = 1
  /\ stop = "before" => threads[1].on
  /\ stop \notin {"before", "join"} => ~threads[1].on
  /\ \A t \in Thread : pc[t] \in Init1 \ {"queue"} => q # 0
  /\ \A t \in Thread : pc[t] \in {"start", "set"} => listener # 0

\* A record is counted down when it has been put on the queues: no thread logs it again.
On(r, s) == \E j \in DOMAIN s : s[j] = r
Passed(r) == r[2] > left[r[1]]
QueuedPassed == \A r \in Record : \A i \in DOMAIN queues : On(r, queues[i]) => Passed(r)
WrittenPassed == \A r \in Record : written[r] > 0 => Passed(r)
DonePassed == \A r \in early \cup raised : Passed(r)
LatePassed == \A r \in late : Passed(r) \/ (r = Of(r[1]) /\ pc[r[1]] # "out")
PassedInv == QueuedPassed /\ WrittenPassed /\ DonePassed /\ LatePassed

\* A record that was there before the shutdown waits in the first queue, ahead of the
\* sentinel, or has been written.
OnceAt(r, s, k) == k \in DOMAIN s /\ s[k] = r /\ \A j \in DOMAIN s : s[j] = r => j = k
Ahead(s, k) == \A j \in DOMAIN s : j < k => s[j] # Sentinel
Nowhere(r) == \A i \in DOMAIN queues : ~On(r, queues[i])
EarlyInv ==
  /\ stop = "before" => ~On(Sentinel, queues[1])
  /\ \A i \in DOMAIN queues : i # 1 => ~On(Sentinel, queues[i])
  /\ \A r \in early :
       \/ written[r] = 1 /\ Nowhere(r)
       \/ /\ written[r] = 0 /\ threads[1].on
          /\ \E k \in DOMAIN queues[1] : OnceAt(r, queues[1], k) /\ Ahead(queues[1], k)

\* After the shutdown, while no two threads have initialised at the same time: nobody has yet,
\* one thread is in the middle of it, or there is one listener again.
Fresh ==
  /\ \A t \in Thread : ~Initialising(t)
  /\ ~logger /\ q = 0 /\ listener = 0 /\ handlers = <<1>> /\ Len(queues) = 1 /\ Len(threads) = 1
Halfway(t) ==
  /\ Initialising(t) /\ ~logger
  /\ \A u \in Thread : Initialising(u) => u = t
  /\ IF pc[t] = "queue" THEN Len(queues) = 1 ELSE Len(queues) = 2 /\ q = 2
  /\ pc[t] \notin {"queue", "handler"} => mine[t] = 2
  /\ pc[t] = "add" => handlers = << >>
  /\ pc[t] \in {"listen", "start", "set"} => handlers = <<2>>
  /\ listener = IF pc[t] \in {"start", "set"} THEN 2 ELSE 0
  /\ IF pc[t] = "set" THEN Len(threads) = 2 /\ threads[2] = [queue |-> 2, on |-> TRUE]
                      ELSE Len(threads) = 1
Ready ==
  /\ \A t \in Thread : ~Initialising(t)
  /\ logger /\ q = 2 /\ listener = 2 /\ handlers = <<2>> /\ Len(queues) = 2
  /\ Len(threads) = 2 /\ threads[2] = [queue |-> 2, on |-> TRUE]
Single == Fresh \/ (\E t \in Thread : Halfway(t)) \/ Ready

\* What is logged after the shutdown waits for the new listener, or has been written.
LateOnce(r) ==
  \/ written[r] = 1 /\ Nowhere(r)
  \/ /\ written[r] = 0 /\ Ready /\ ~On(r, queues[1])
     /\ \E k \in DOMAIN queues[2] : OnceAt(r, queues[2], k)
  \/ written[r] = 0 /\ Nowhere(r) /\ (r[1] = "main" => ~Passed(r))
LateInv ==
  stop = "done" /\ ~raced =>
    /\ Single
    /\ raised \cap late = {}
    /\ \A t \in Thread : pc[t] \in {"assert", "log", "put"} /\ Of(t) \in late => Ready
    /\ \A r \in late : LateOnce(r)

IInv == Typed /\ PhaseInv /\ PassedInv /\ EarlyInv /\ LateInv

-----------------------------------------------------------------------------
(* Records, and lines of them                                              *)

LEMMA OfThread ==
  ASSUME NEW t \in Thread, ThreadType
  PROVE  /\ Of(t)[1] = t /\ Of(t)[2] = left[t] /\ Of(t) # Sentinel /\ ~Passed(Of(t))
         /\ left[t] > 0 => Of(t) \in Record
<1>1. Of(t)[1] = t /\ Of(t)[2] = left[t] /\ Of(t) # Sentinel BY DEF Of, Sentinel
<1>2. ~Passed(Of(t)) BY <1>1 DEF Passed, ThreadType
<1>3. ASSUME left[t] > 0 PROVE Of(t) \in Record
  <2>1. Records[t] \in Nat /\ left[t] \in 1..Records[t] BY <1>3, LogAssumption DEF ThreadType
  <2>2. Of(t) \in {t} \X (1..Records[t]) BY <2>1 DEF Of
  <2> QED BY <2>2 DEF Record
<1> QED BY <1>1, <1>2, <1>3

LEMMA RecordParts ==
  ASSUME NEW r \in Record
  PROVE  r # Sentinel /\ r[1] \in Thread /\ r[2] \in 1..Records[r[1]] /\ r = <<r[1], r[2]>>
<1>1. PICK t \in Thread : r \in {t} \X (1..Records[t]) BY DEF Record
<1> QED BY <1>1 DEF Sentinel

\* A line with nothing but r added at its end.
Extends(s, new, r) ==
  /\ Len(s) <= Len(new)
  /\ \A j \in DOMAIN s : new[j] = s[j]
  /\ \A j \in DOMAIN new : j \in DOMAIN s \/ new[j] = r

LEMMA ExtendsLine ==
  ASSUME NEW s \in Seq(Line), NEW r \in Line, NEW n \in Nat
  PROVE  /\ s \o [h \in 1..n |-> r] \in Seq(Line)
         /\ Extends(s, s \o [h \in 1..n |-> r], r)
<1> DEFINE more == [h \in 1..n |-> r]
<1>1. more \in Seq(Line) /\ Len(more) = n /\ \A h \in 1..n : more[h] = r
  <2>1. more \in [1..n -> Line] OBVIOUS
  <2> QED BY <2>1
<1> HIDE DEF more
<1>2. /\ s \o more \in Seq(Line) /\ Len(s \o more) = Len(s) + Len(more)
      /\ \A i \in 1..(Len(s) + Len(more)) :
           (s \o more)[i] = IF i <= Len(s) THEN s[i] ELSE more[i - Len(s)]
  BY <1>1, ConcatProperties
<1>3. /\ DOMAIN s = 1..Len(s) /\ DOMAIN (s \o more) = 1..(Len(s) + n) /\ Len(s) \in Nat
  BY <1>1, <1>2
<1>4. \A j \in DOMAIN s : (s \o more)[j] = s[j] BY <1>1, <1>2, <1>3
<1>5. ASSUME NEW j \in DOMAIN (s \o more), j \notin DOMAIN s PROVE (s \o more)[j] = r
  <2>1. j - Len(s) \in 1..n /\ ~(j <= Len(s)) BY <1>3, <1>5
  <2> QED BY <1>1, <1>2, <1>3, <2>1
<1>6. Len(s) <= Len(s \o more) BY <1>1, <1>2, <1>3
<1>7. Extends(s, s \o more, r) BY <1>4, <1>5, <1>6 DEF Extends
<1> QED BY <1>2, <1>7 DEF more

\* What Put does to the queues.
LEMMA CopiesNat == ASSUME handlers \in Seq(Nat), NEW t, NEW i PROVE Copies(t, i) \in Nat
<1>1. IsFiniteSet(DOMAIN handlers) BY FS_Interval
<1>2. IsFiniteSet({h \in DOMAIN handlers : handlers[h] = i}) BY <1>1, FS_Subset
<1> QED BY <1>2, FS_CardinalityType DEF Copies

PutsOn(t) ==
  /\ queues' \in Seq(Seq(Line)) /\ Len(queues') = Len(queues)
  /\ \A i \in DOMAIN queues : Extends(queues[i], queues'[i], Of(t))

LEMMA PutLines ==
  ASSUME Typed, NEW t \in Thread, Put(t)
  PROVE  PutsOn(t)
<1>1. queues \in Seq(Seq(Line)) /\ handlers \in Seq(Nat) /\ Of(t) \in Line
  BY OfThread DEF Typed, RecordType, NumberType, ThreadType, Put, At, Line
<1>2. \A i \in DOMAIN queues : Copies(t, i) \in Nat BY <1>1, CopiesNat
<1>3. queues' = [i \in DOMAIN queues |-> queues[i] \o [h \in 1..Copies(t, i) |-> Of(t)]] BY DEF Put
<1>4. \A i \in DOMAIN queues :
        queues'[i] \in Seq(Line) /\ Extends(queues[i], queues'[i], Of(t))
  <2> TAKE i \in DOMAIN queues
  <2>1. queues[i] \in Seq(Line) BY <1>1
  <2>2. queues'[i] = queues[i] \o [h \in 1..Copies(t, i) |-> Of(t)] BY <1>3
  <2> QED BY <1>1, <1>2, <2>1, <2>2, ExtendsLine
<1>5. DOMAIN queues = 1..Len(queues) /\ Len(queues) \in Nat BY <1>1
<1>6. DOMAIN queues' = 1..Len(queues) BY <1>3, <1>5
<1>7. queues' = [i \in 1..Len(queues) |-> queues'[i]] BY <1>3, <1>5
<1>8. queues' \in [1..Len(queues) -> Seq(Line)] BY <1>4, <1>5, <1>7
<1>9. queues' \in Seq(Seq(Line)) BY <1>5, <1>8
<1>10. Len(queues') = Len(queues) BY <1>5, <1>6, <1>9
<1> QED BY <1>4, <1>9, <1>10 DEF PutsOn

LEMMA PutOneLine ==
  ASSUME Typed, NEW t \in Thread, Put(t), NEW x \in Nat, handlers = <<x>>
  PROVE  \A i \in DOMAIN queues :
           /\ i = x /\ Taken(t) => queues'[i] = Append(queues[i], Of(t))
           /\ ~(i = x /\ Taken(t)) => queues'[i] = queues[i]
<1> TAKE i \in DOMAIN queues
<1>1. queues \in Seq(Seq(Line)) /\ queues[i] \in Seq(Line) BY DEF Typed, RecordType
<1>2. queues'[i] = queues[i] \o [h \in 1..Copies(t, i) |-> Of(t)] BY DEF Put
<1>3. DOMAIN handlers = {1} /\ handlers[1] = x OBVIOUS
<1>4. CASE i = x /\ Taken(t)
  <2>1. {h \in DOMAIN handlers : handlers[h] = i} = {1} BY <1>3, <1>4
  <2>2. Copies(t, i) = 1 BY <1>4, <2>1, FS_Singleton DEF Copies
  <2>3. [h \in 1..1 |-> Of(t)] = <<Of(t)>> OBVIOUS
  <2>4. Append(queues[i], Of(t)) = queues[i] \o <<Of(t)>> BY <1>1
  <2>5. queues'[i] = queues[i] \o [h \in 1..1 |-> Of(t)] BY <1>2, <2>2
  <2>6. queues'[i] = Append(queues[i], Of(t)) BY <2>3, <2>4, <2>5
  <2> QED BY <1>4, <2>6
<1>5. CASE ~(i = x /\ Taken(t))
  <2>1. ASSUME Taken(t) PROVE Cardinality({h \in DOMAIN handlers : handlers[h] = i}) = 0
    <3>1. {h \in DOMAIN handlers : handlers[h] = i} = {} BY <1>3, <1>5, <2>1
    <3> QED BY <3>1, FS_EmptySet
  <2>2. Copies(t, i) = 0 BY <2>1 DEF Copies
  <2>3. [h \in 1..0 |-> Of(t)] = << >> OBVIOUS
  <2> QED BY <1>1, <1>2, <1>5, <2>2, <2>3, ConcatEmptySeq
<1> QED BY <1>4, <1>5

\* What Write does: it takes the head of one line.
WriteParts(n, w) ==
  /\ w \in DOMAIN queues /\ queues[w] # << >> /\ threads[n].on /\ threads[n].queue = w
  /\ queues' \in Seq(Seq(Line)) /\ Len(queues') = Len(queues)
  /\ queues'[w] = Tail(queues[w])
  /\ \A i \in DOMAIN queues : i # w => queues'[i] = queues[i]
  /\ Head(queues[w]) = Sentinel =>
       threads' = [threads EXCEPT ![n].on = FALSE] /\ written' = written
  /\ Head(queues[w]) # Sentinel =>
       /\ Head(queues[w]) \in Record /\ threads' = threads
       /\ written' = [written EXCEPT ![Head(queues[w])] = @ + 1]

LEMMA WriteLines ==
  ASSUME Typed, NEW n \in DOMAIN threads, Write(n)
  PROVE  WriteParts(n, threads[n].queue)
<1> DEFINE w == threads[n].queue
<1>1. w \in DOMAIN queues /\ queues \in Seq(Seq(Line)) BY DEF Typed, NumberType, RecordType
<1>2. /\ threads[n].on /\ queues[w] # << >>
      /\ queues' = [queues EXCEPT ![w] = Tail(queues[w])]
      /\ IF Head(queues[w]) = Sentinel
         THEN threads' = [threads EXCEPT ![n].on = FALSE] /\ UNCHANGED written
         ELSE written' = [written EXCEPT ![Head(queues[w])] = @ + 1] /\ UNCHANGED threads
  BY DEF Write
<1> HIDE DEF w
<1>3. queues[w] \in Seq(Line) BY <1>1
<1>4. Head(queues[w]) \in Line /\ Tail(queues[w]) \in Seq(Line) BY <1>2, <1>3, HeadTailProperties
<1>5. queues' \in Seq(Seq(Line)) /\ Len(queues') = Len(queues) BY <1>1, <1>2, <1>4, ExceptSeq
<1>6. queues'[w] = Tail(queues[w]) BY <1>1, <1>2
<1>7. \A i \in DOMAIN queues : i # w => queues'[i] = queues[i] BY <1>1, <1>2
<1>8. WriteParts(n, w) BY <1>1, <1>2, <1>4, <1>5, <1>6, <1>7 DEF WriteParts, Line, w
<1> QED BY <1>8 DEF w

-----------------------------------------------------------------------------
(* Types                                                                   *)

LEMMA GotoThread ==
  ASSUME ThreadType, NEW t \in Thread, NEW l \in Labels, Goto(t, l), left' = left,
         l # "out" => left[t] > 0
  PROVE  ThreadType'
BY DEF ThreadType, Goto

LEMMA BackThread ==
  ASSUME ThreadType, NEW t \in Thread, Goto(t, "out"), NEW n \in Nat, n <= left[t],
         left' = [left EXCEPT ![t] = n]
  PROVE  ThreadType'
<1>1. pc' \in [Thread -> Labels] BY DEF ThreadType, Goto, Labels, Emitting
<1>2. left' \in [Thread -> Nat] BY DEF ThreadType
<1>3. \A u \in Thread : left'[u] <= left[u] BY DEF ThreadType
<1>4. \A u \in Thread : left[u] \in Nat /\ left'[u] \in Nat /\ Records[u] \in Nat /\ left[u] <= Records[u]
  BY <1>2, LogAssumption DEF ThreadType
<1>5. \A u \in Thread : left'[u] <= Records[u] BY <1>3, <1>4
<1>6. \A u \in Thread : pc'[u] # "out" => left'[u] > 0 BY DEF ThreadType, Goto
<1> QED BY <1>1, <1>2, <1>5, <1>6 DEF ThreadType

\* A thread that is done with a record counts it down, or drops those that are left.
Down(t) == \E n \in Nat : n < left[t] /\ left' = [left EXCEPT ![t] = n]

LEMMA Downward ==
  ASSUME ThreadType, NEW t \in Thread, left[t] > 0, Put(t) \/ Raise(t)
  PROVE  Down(t) /\ Goto(t, "out")
<1>1. left[t] \in Nat /\ left[t] - 1 \in Nat /\ left[t] - 1 < left[t] /\ 0 < left[t] BY DEF ThreadType
<1>2. CASE Put(t) BY <1>1, <1>2 DEF Put, Returned, Down
<1>3. CASE Raise(t)
  <2>1. left' \in {[left EXCEPT ![t] = n] : n \in {0, left[t] - 1}} BY <1>3 DEF Raise
  <2>2. PICK n \in {0, left[t] - 1} : left' = [left EXCEPT ![t] = n] BY <2>1
  <2> QED BY <1>1, <1>3, <2>2 DEF Raise, Down
<1> QED BY <1>2, <1>3

LEMMA ThreadStep ==
  ASSUME Typed, [Next]_vars
  PROVE  ThreadType'
<1> ThreadType BY DEF Typed
<1>1. ASSUME pc' = pc, left' = left PROVE ThreadType' BY <1>1 DEF ThreadType
<1>2. ASSUME NEW t \in Thread, left[t] > 0, Put(t) \/ Raise(t) PROVE ThreadType'
  <2>1. PICK n \in Nat : n < left[t] /\ left' = [left EXCEPT ![t] = n] BY <1>2, Downward DEF Down
  <2>2. n <= left[t] BY <2>1 DEF ThreadType
  <2> QED BY <1>2, <2>1, <2>2, BackThread, Downward
<1>3. ASSUME NEW t \in Thread, Emit(t) PROVE ThreadType'
  <2>1. PICK l \in Labels : Goto(t, l) BY <1>3 DEF Emit, Labels, Emitting
  <2> QED BY <1>3, <2>1, GotoThread DEF Emit
<1>4. ASSUME NEW t \in Thread, AssertLogger(t) PROVE ThreadType'
  <2>1. left[t] > 0 BY <1>4 DEF AssertLogger, At, ThreadType
  <2>2. Raise(t) \/ (Goto(t, "log") /\ left' = left) BY <1>4 DEF AssertLogger
  <2> QED BY <1>2, <2>1, <2>2, GotoThread DEF Labels, Emitting
<1>5. ASSUME NEW t \in Thread, Log(t) PROVE ThreadType'
  <2>1. left[t] > 0 BY <1>5 DEF Log, At, ThreadType
  <2>2. Raise(t) \/ (Goto(t, "put") /\ left' = left) BY <1>5 DEF Log
  <2> QED BY <1>2, <2>1, <2>2, GotoThread DEF Labels, Emitting
<1>6. ASSUME NEW t \in Thread, Put(t) PROVE ThreadType'
  <2>1. left[t] > 0 BY <1>6 DEF Put, At, ThreadType
  <2> QED BY <1>2, <1>6, <2>1
<1>7. ASSUME NEW t \in Thread, Initialise(t) PROVE ThreadType'
  <2>1. pc[t] # "out" /\ left' = left
    BY <1>7 DEF Initialise, InitLogging, NewQueue, MakeHandler, ResetHandlers, AddHandler,
                MakeListener, StartListener, SetLogger, At
  <2>2. PICK l \in Labels : Goto(t, l)
    BY <1>7 DEF Initialise, InitLogging, NewQueue, MakeHandler, ResetHandlers, AddHandler,
                MakeListener, StartListener, SetLogger, Labels, Emitting, Init1
  <2> QED BY <2>1, <2>2, GotoThread DEF ThreadType
<1>8. ASSUME Shutdown PROVE ThreadType'
  BY <1>1, <1>8 DEF Shutdown, StopListener, Join, ForgetListener, ForgetQueue, ForgetLogger
<1>9. ASSUME NEW n \in DOMAIN threads, Write(n) PROVE ThreadType' BY <1>1, <1>9 DEF Write
<1>10. ASSUME UNCHANGED vars PROVE ThreadType' BY <1>1, <1>10 DEF vars
<1> QED BY <1>3, <1>4, <1>5, <1>6, <1>7, <1>8, <1>9, <1>10 DEF Next

LEMMA FlagStep ==
  ASSUME Typed, [Next]_vars
  PROVE  FlagType'
<1>1. logger \in BOOLEAN /\ verbose \in BOOLEAN /\ raced \in BOOLEAN /\ stop \in Stops BY DEF Typed, FlagType
<1>2. ASSUME NEW t \in Thread, Emit(t) \/ AssertLogger(t) \/ Log(t) \/ Put(t) PROVE FlagType'
  <2>1. UNCHANGED <<logger, verbose, raced, stop>>
    BY <1>2 DEF Emit, AssertLogger, Log, Put, Raise, globals, history
  <2> QED BY <1>1, <2>1 DEF FlagType
<1>3. ASSUME NEW t \in Thread, InitLogging(t) PROVE FlagType'
  <2>1. UNCHANGED <<logger, verbose, stop>> /\ raced' = (raced \/ \E u \in Thread \ {t} : Initialising(u))
    BY <1>3 DEF InitLogging, globals
  <2>2. raced' \in BOOLEAN BY <2>1
  <2> QED BY <1>1, <2>1, <2>2 DEF FlagType
<1>4. ASSUME NEW t \in Thread, Initialise(t), ~InitLogging(t) PROVE FlagType'
  <2>1. UNCHANGED <<raced, stop>> /\ logger' \in {logger, TRUE} /\ verbose' \in {verbose, FALSE}
    BY <1>4 DEF Initialise, NewQueue, MakeHandler, ResetHandlers, AddHandler, MakeListener,
                StartListener, SetLogger, globals, history
  <2> QED BY <1>1, <2>1 DEF FlagType
<1>5. ASSUME Shutdown PROVE FlagType'
  <2>1. UNCHANGED <<raced, verbose>> /\ logger' \in {logger, FALSE} /\ stop' \in Stops
    BY <1>5 DEF Shutdown, StopListener, Join, ForgetListener, ForgetQueue, ForgetLogger,
                globals, history, Stops
  <2> QED BY <1>1, <2>1 DEF FlagType
<1>6. ASSUME NEW n \in DOMAIN threads, Write(n) PROVE FlagType'
  <2>1. UNCHANGED <<logger, verbose, raced, stop>> BY <1>6 DEF Write, globals, history
  <2> QED BY <1>1, <2>1 DEF FlagType
<1>7. ASSUME UNCHANGED vars PROVE FlagType' BY <1>1, <1>7 DEF vars, globals, history, FlagType
<1> QED BY <1>2, <1>3, <1>4, <1>5, <1>6, <1>7 DEF Next

\* Steps of one kind each, for the parts they leave alone.
Logs(t) == Emit(t) \/ AssertLogger(t) \/ Log(t)

LEMMA NumberQuiet ==
  ASSUME NumberType, RecordType, UNCHANGED <<q, listener, mine, handlers, threads>>,
         queues' \in Seq(Seq(Line)), Len(queues') = Len(queues)
  PROVE  NumberType'
<1>1. DOMAIN queues = 1..Len(queues) /\ DOMAIN queues' = 1..Len(queues') BY DEF RecordType
<1> QED BY <1>1 DEF NumberType

LEMMA NumberStep ==
  ASSUME Typed, PhaseInv, [Next]_vars
  PROVE  NumberType'
<1>1. NumberType /\ RecordType /\ queues \in Seq(Seq(Line)) BY DEF Typed, RecordType
<1>2. DOMAIN queues = 1..Len(queues) /\ Len(queues) \in Nat BY <1>1
<1>3. ASSUME NEW t \in Thread, Logs(t) PROVE NumberType'
  <2>1. UNCHANGED <<q, listener, mine, handlers, threads, queues>>
    BY <1>3 DEF Logs, Emit, AssertLogger, Log, Raise, globals
  <2> QED BY <1>1, <2>1, NumberQuiet
<1>4. ASSUME NEW t \in Thread, Put(t) PROVE NumberType'
  <2>1. UNCHANGED <<q, listener, mine, handlers, threads>> BY <1>4 DEF Put, globals
  <2> QED BY <1>1, <1>4, <2>1, PutLines, NumberQuiet DEF PutsOn
<1>5. ASSUME NEW t \in Thread, InitLogging(t) PROVE NumberType'
  <2>1. UNCHANGED <<q, listener, mine, handlers, threads, queues>> BY <1>5 DEF InitLogging, globals
  <2> QED BY <1>1, <2>1, NumberQuiet
<1>6. ASSUME NEW t \in Thread, NewQueue(t) PROVE NumberType'
  <2>1. /\ UNCHANGED <<listener, mine, handlers, threads>> /\ q' = Len(queues')
        /\ queues' = Append(queues, << >>)
    BY <1>6 DEF NewQueue
  <2>2. queues' \in Seq(Seq(Line)) /\ Len(queues') = Len(queues) + 1
    BY <1>1, <2>1, AppendProperties
  <2>3. DOMAIN queues' = 1..(Len(queues) + 1) BY <2>2
  <2>4. q' \in 0..Len(queues') /\ listener' \in 0..Len(queues')
    BY <1>1, <1>2, <2>1, <2>2 DEF NumberType
  <2>5. mine' \in [Thread -> 0..Len(queues')] BY <1>1, <1>2, <2>1, <2>2 DEF NumberType
  <2>6. handlers' \in Seq(Nat) /\ \A i \in DOMAIN handlers' : handlers'[i] \in 0..Len(queues')
    BY <1>1, <1>2, <2>1, <2>2 DEF NumberType
  <2>7. /\ threads' \in Seq([queue : Nat, on : BOOLEAN])
        /\ \A n \in DOMAIN threads' : threads'[n].queue \in DOMAIN queues'
    BY <1>1, <1>2, <2>1, <2>3 DEF NumberType
  <2> QED BY <2>4, <2>5, <2>6, <2>7 DEF NumberType
<1>7. ASSUME NEW t \in Thread, MakeHandler(t) PROVE NumberType'
  <2>1. UNCHANGED <<q, listener, handlers, threads, queues>> /\ mine' = [mine EXCEPT ![t] = q]
    BY <1>7 DEF MakeHandler
  <2>2. mine' \in [Thread -> 0..Len(queues)] BY <1>1, <2>1 DEF NumberType
  <2> QED BY <1>1, <2>1, <2>2 DEF NumberType
<1>8. ASSUME NEW t \in Thread, ResetHandlers(t) PROVE NumberType'
  <2>1. UNCHANGED <<q, listener, mine, threads, queues>> /\ handlers' = << >>
    BY <1>8 DEF ResetHandlers
  <2>2. handlers' \in Seq(Nat) /\ DOMAIN handlers' = {} BY <2>1
  <2> QED BY <1>1, <2>1, <2>2 DEF NumberType
<1>9. ASSUME NEW t \in Thread, AddHandler(t) PROVE NumberType'
  <2>1. UNCHANGED <<q, listener, mine, threads, queues>> /\ handlers' = Append(handlers, mine[t])
    BY <1>9 DEF AddHandler
  <2>2. mine[t] \in 0..Len(queues) /\ mine[t] \in Nat /\ handlers \in Seq(Nat) BY <1>1, <1>2 DEF NumberType
  <2>3. handlers' \in Seq(Nat) BY <2>1, <2>2, AppendProperties
  <2>4. \A i \in DOMAIN handlers' : handlers'[i] \in 0..Len(queues')
    BY <1>1, <2>1, <2>2 DEF NumberType
  <2> QED BY <1>1, <2>1, <2>3, <2>4 DEF NumberType
<1>10. ASSUME NEW t \in Thread, MakeListener(t) PROVE NumberType'
  <2>1. UNCHANGED <<q, mine, handlers, threads, queues>> /\ listener' = q
    BY <1>10 DEF MakeListener
  <2> QED BY <1>1, <2>1 DEF NumberType
<1>11. ASSUME NEW t \in Thread, StartListener(t) PROVE NumberType'
  <2>1. /\ UNCHANGED <<q, listener, mine, handlers, queues>>
        /\ threads' = Append(threads, [queue |-> listener, on |-> TRUE])
    BY <1>11 DEF StartListener, globals
  <2>2. listener \in DOMAIN queues
    <3>1. listener # 0 BY <1>11 DEF StartListener, At, PhaseInv
    <3> QED BY <1>1, <1>2, <3>1 DEF NumberType
  <2> DEFINE new == [queue |-> listener, on |-> TRUE]
  <2>3. new \in [queue : Nat, on : BOOLEAN] /\ new.queue = listener BY <1>2, <2>2
  <2> HIDE DEF new
  <2>4. threads \in Seq([queue : Nat, on : BOOLEAN]) BY <1>1 DEF NumberType
  <2>5. threads' = Append(threads, new) BY <2>1 DEF new
  <2>6. threads' \in Seq([queue : Nat, on : BOOLEAN]) BY <2>3, <2>4, <2>5, AppendProperties
  <2>7. \A n \in DOMAIN threads' : threads'[n].queue \in DOMAIN queues
    <3> TAKE n \in DOMAIN threads'
    <3>1. (n \in DOMAIN threads /\ threads'[n] = threads[n]) \/ threads'[n] = new
      BY <2>3, <2>4, <2>5, AppendProperties
    <3> QED BY <1>1, <2>2, <2>3, <3>1 DEF NumberType
  <2> QED BY <1>1, <2>1, <2>6, <2>7 DEF NumberType
<1>12. ASSUME NEW t \in Thread, SetLogger(t) PROVE NumberType'
  <2>1. UNCHANGED <<q, listener, mine, handlers, threads, queues>> BY <1>12 DEF SetLogger
  <2> QED BY <1>1, <2>1, NumberQuiet
<1>13. ASSUME StopListener PROVE NumberType'
  <2>1. /\ UNCHANGED <<q, listener, mine, handlers, threads>>
        /\ queues' = [queues EXCEPT ![listener] = Append(@, Sentinel)]
    BY <1>13 DEF StopListener, globals
  <2>2. listener \in DOMAIN queues BY <1>2, <1>13 DEF StopListener, PhaseInv
  <2>3. Append(queues[listener], Sentinel) \in Seq(Line)
    BY <1>1, <2>2, AppendProperties DEF Line
  <2>4. queues' \in Seq(Seq(Line)) /\ Len(queues') = Len(queues)
    BY <1>1, <2>1, <2>2, <2>3, ExceptSeq
  <2> QED BY <1>1, <2>1, <2>4, NumberQuiet
<1>14. ASSUME Join \/ ForgetLogger PROVE NumberType'
  <2>1. UNCHANGED <<q, listener, mine, handlers, threads, queues>>
    BY <1>14 DEF Join, ForgetLogger, globals
  <2> QED BY <1>1, <2>1, NumberQuiet
<1>15. ASSUME ForgetListener \/ ForgetQueue PROVE NumberType'
  <2>1. UNCHANGED <<mine, handlers, threads, queues>> /\ q' \in {q, 0} /\ listener' \in {listener, 0}
    BY <1>15 DEF ForgetListener, ForgetQueue
  <2> QED BY <1>1, <1>2, <2>1 DEF NumberType
<1>16. ASSUME NEW n \in DOMAIN threads, Write(n) PROVE NumberType'
  <2>1. UNCHANGED <<q, listener, mine, handlers>> BY <1>16 DEF Write, globals
  <2>2. queues' \in Seq(Seq(Line)) /\ Len(queues') = Len(queues)
    BY <1>16, WriteLines DEF WriteParts
  <2>3. CASE threads' = threads BY <1>1, <2>1, <2>2, <2>3, NumberQuiet
  <2>4. CASE threads' = [threads EXCEPT ![n].on = FALSE]
    <3>1. threads \in Seq([queue : Nat, on : BOOLEAN]) BY <1>1 DEF NumberType
    <3> DEFINE r == [threads[n] EXCEPT !.on = FALSE]
    <3>2. threads[n] \in [queue : Nat, on : BOOLEAN]
      <4>1. n \in 1..Len(threads) BY <1>16, <3>1
      <4> QED BY <3>1, <4>1, ElementOfSeq
    <3>3. r \in [queue : Nat, on : BOOLEAN] /\ r.queue = threads[n].queue BY <3>2
    <3>4. threads' = [threads EXCEPT ![n] = r] BY <2>4
    <3> HIDE DEF r
    <3>5. threads' \in Seq([queue : Nat, on : BOOLEAN]) BY <1>16, <3>1, <3>3, <3>4, ExceptSeq
    <3>6. DOMAIN threads' = DOMAIN threads /\ \A i \in DOMAIN threads : threads'[i].queue = threads[i].queue
      BY <3>3, <3>4
    <3>7. DOMAIN queues' = DOMAIN queues BY <1>2, <2>2
    <3> QED BY <1>1, <2>1, <2>2, <3>5, <3>6, <3>7 DEF NumberType
  <2> QED BY <1>16, <2>3, <2>4, WriteLines DEF WriteParts
<1>17. ASSUME UNCHANGED vars PROVE NumberType'
  <2>1. UNCHANGED <<q, listener, mine, handlers, threads, queues>> BY <1>17 DEF vars, globals
  <2> QED BY <1>1, <2>1, NumberQuiet
<1> QED BY <1>3, <1>4, <1>5, <1>6, <1>7, <1>8, <1>9, <1>10, <1>11, <1>12, <1>13, <1>14, <1>15,
           <1>16, <1>17 DEF Next, Initialise, Shutdown, Logs

LEMMA RecordQuiet ==
  ASSUME RecordType, UNCHANGED <<written, early, late, raised>>, queues' \in Seq(Seq(Line))
  PROVE  RecordType'
BY DEF RecordType

LEMMA RecordStep ==
  ASSUME Typed, PhaseInv, [Next]_vars
  PROVE  RecordType'
<1>1. RecordType /\ queues \in Seq(Seq(Line)) BY DEF Typed, RecordType
<1>2. \A t \in Thread : left[t] > 0 => Of(t) \in Record BY OfThread DEF Typed
<1>3. ASSUME NEW t \in Thread, Logs(t) PROVE RecordType'
  <2>1. UNCHANGED <<queues, written, early>> BY <1>3 DEF Logs, Emit, AssertLogger, Log, Raise, history
  <2>2. Of(t) \in Record BY <1>2, <1>3 DEF Logs, Emit, AssertLogger, Log, At, Typed, ThreadType
  <2>3. late' \in {late, late \cup {Of(t)}} /\ raised' \in {raised, raised \cup {Of(t)}}
    BY <1>3 DEF Logs, Emit, AssertLogger, Log, Raise, history
  <2> QED BY <1>1, <2>1, <2>2, <2>3 DEF RecordType
<1>4. ASSUME NEW t \in Thread, Put(t) PROVE RecordType'
  <2>1. UNCHANGED <<written, late, raised>> /\ early' \in {early, early \cup {Of(t)}} BY <1>4 DEF Put
  <2>2. Of(t) \in Record BY <1>2, <1>4 DEF Put, At, Typed, ThreadType
  <2>3. queues' \in Seq(Seq(Line)) BY <1>4, PutLines DEF PutsOn
  <2> QED BY <1>1, <2>1, <2>2, <2>3 DEF RecordType
<1>5. ASSUME NEW t \in Thread, NewQueue(t) PROVE RecordType'
  <2>1. UNCHANGED <<written, early, late, raised>> /\ queues' = Append(queues, << >>)
    BY <1>5 DEF NewQueue, history
  <2>2. queues' \in Seq(Seq(Line)) BY <1>1, <2>1, AppendProperties
  <2> QED BY <1>1, <2>1, <2>2, RecordQuiet
<1>6. ASSUME NEW t \in Thread, Initialise(t), ~NewQueue(t) PROVE RecordType'
  <2>1. UNCHANGED <<queues, written, early, late, raised>>
    BY <1>6 DEF Initialise, InitLogging, MakeHandler, ResetHandlers, AddHandler, MakeListener,
                StartListener, SetLogger, globals, history
  <2> QED BY <1>1, <2>1, RecordQuiet
<1>7. ASSUME StopListener PROVE RecordType'
  <2>1. /\ UNCHANGED <<written, early, late, raised>>
        /\ queues' = [queues EXCEPT ![listener] = Append(@, Sentinel)]
    BY <1>7 DEF StopListener, history
  <2>2. listener \in DOMAIN queues BY <1>1, <1>7 DEF StopListener, PhaseInv
  <2>3. Append(queues[listener], Sentinel) \in Seq(Line) BY <1>1, <2>2, AppendProperties DEF Line
  <2>4. queues' \in Seq(Seq(Line)) BY <1>1, <2>1, <2>2, <2>3, ExceptSeq
  <2> QED BY <1>1, <2>1, <2>4, RecordQuiet
<1>8. ASSUME Shutdown, ~StopListener PROVE RecordType'
  <2>1. UNCHANGED <<queues, written, early, late, raised>>
    BY <1>8 DEF Shutdown, Join, ForgetListener, ForgetQueue, ForgetLogger, globals, history
  <2> QED BY <1>1, <2>1, RecordQuiet
<1>9. ASSUME NEW n \in DOMAIN threads, Write(n) PROVE RecordType'
  <2>1. WriteParts(n, threads[n].queue) /\ UNCHANGED <<early, late, raised>>
    BY <1>9, WriteLines DEF Write, history
  <2>2. written' \in [Record -> Nat]
    <3> DEFINE h == Head(queues[threads[n].queue])
    <3>1. CASE h = Sentinel BY <1>1, <2>1, <3>1 DEF WriteParts, RecordType
    <3>2. CASE h # Sentinel
      <4>1. h \in Record /\ written' = [written EXCEPT ![h] = @ + 1] BY <2>1, <3>2 DEF WriteParts
      <4> HIDE DEF h
      <4> QED BY <1>1, <4>1 DEF RecordType
    <3> QED BY <3>1, <3>2
  <2> QED BY <1>1, <2>1, <2>2 DEF RecordType, WriteParts
<1>10. ASSUME UNCHANGED vars PROVE RecordType'
  <2>1. UNCHANGED <<queues, written, early, late, raised>> BY <1>10 DEF vars, history
  <2> QED BY <1>1, <2>1, RecordQuiet
<1> QED BY <1>3, <1>4, <1>5, <1>6, <1>7, <1>8, <1>9, <1>10 DEF Next, Logs

LEMMA TypedStep ==
  ASSUME Typed, PhaseInv, [Next]_vars
  PROVE  Typed'
BY NumberStep, ThreadStep, FlagStep, RecordStep DEF Typed

-----------------------------------------------------------------------------
(* The phases of the shutdown                                              *)

LEMMA PhaseStep ==
  ASSUME Typed, PhaseInv, EarlyInv, [Next]_vars
  PROVE  PhaseInv'
<1>1. queues \in Seq(Seq(Line)) /\ threads \in Seq([queue : Nat, on : BOOLEAN]) /\ stop \in Stops
  BY DEF Typed, RecordType, NumberType, FlagType
<1>2. \A t \in Thread : pc[t] \in Labels BY DEF Typed, ThreadType
<1>3. Len(queues) \in Nat /\ Len(threads) \in Nat BY <1>1
<1> DEFINE Still == UNCHANGED <<q, listener, logger, raced, handlers, threads, stop>>
<1>4. ASSUME Still, UNCHANGED <<pc, late>>, Len(queues') = Len(queues) PROVE PhaseInv'
  BY <1>4 DEF PhaseInv
<1>5. ASSUME Still, NEW t \in Thread, NEW l \in Emitting, Goto(t, l), Len(queues') = Len(queues),
             stop # "done" => late' = late
      PROVE  PhaseInv'
  <2>1. \A u \in Thread : pc'[u] \in {pc[u], l} /\ (pc'[u] = l \/ pc'[u] = pc[u])
    BY <1>5 DEF Goto, Typed, ThreadType
  <2>2. l \notin Init1 BY <1>5 DEF Emitting, Init1
  <2>3. stop # "done" => \A u \in Thread : pc'[u] \in Emitting BY <1>5, <2>1 DEF PhaseInv
  <2>4. \A u \in Thread : pc'[u] \in Init1 => pc'[u] = pc[u] BY <2>1, <2>2
  <2>5. {"start", "set"} \subseteq Init1 BY DEF Init1
  <2>6. \A u \in Thread : pc'[u] \in Init1 \ {"queue"} => q # 0 BY <2>4 DEF PhaseInv
  <2>7. \A u \in Thread : pc'[u] \in {"start", "set"} => listener # 0 BY <2>4, <2>5 DEF PhaseInv
  <2> QED BY <1>5, <2>3, <2>6, <2>7 DEF PhaseInv
<1>6. ASSUME NEW t \in Thread, Raise(t) PROVE PhaseInv'
  <2>1. Still /\ Goto(t, "out") /\ queues' = queues /\ late' = late BY <1>6 DEF Raise, globals
  <2> QED BY <1>5, <2>1 DEF Emitting
<1>7. ASSUME NEW t \in Thread, Emit(t) PROVE PhaseInv'
  <2>1. Still /\ queues' = queues /\ (stop # "done" => late' = late)
    BY <1>7 DEF Emit, globals
  <2>2. CASE logger
    <3>1. Goto(t, "assert") BY <1>7, <2>2 DEF Emit
    <3> QED BY <1>5, <2>1, <3>1 DEF Emitting
  <2>3. CASE ~logger
    <3>1. Goto(t, "init") /\ stop = "done" BY <1>7, <2>3 DEF Emit, PhaseInv
    <3>2. \A u \in Thread : pc'[u] \in {pc[u], "init"} BY <3>1 DEF Goto, Typed, ThreadType
    <3> QED BY <2>1, <3>1, <3>2 DEF PhaseInv, Init1
  <2> QED BY <2>2, <2>3
<1>8. ASSUME NEW t \in Thread, AssertLogger(t) PROVE PhaseInv'
  <2>1. CASE Raise(t) BY <1>6, <2>1
  <2>2. CASE Goto(t, "log") /\ UNCHANGED <<left, mine, globals, queues, threads, stop, written, history>>
    <3>1. Still /\ queues' = queues /\ late' = late BY <2>2 DEF globals, history
    <3> QED BY <1>5, <2>2, <3>1 DEF Emitting
  <2> QED BY <1>8, <2>1, <2>2 DEF AssertLogger
<1>9. ASSUME NEW t \in Thread, Log(t) PROVE PhaseInv'
  <2>1. CASE Raise(t) BY <1>6, <2>1
  <2>2. CASE Goto(t, "put") /\ UNCHANGED <<left, mine, globals, queues, threads, stop, written, history>>
    <3>1. Still /\ queues' = queues /\ late' = late BY <2>2 DEF globals, history
    <3> QED BY <1>5, <2>2, <3>1 DEF Emitting
  <2> QED BY <1>9, <2>1, <2>2 DEF Log
<1>10. ASSUME NEW t \in Thread, Put(t) PROVE PhaseInv'
  <2>1. Still /\ late' = late BY <1>10 DEF Put, globals
  <2>2. Len(queues') = Len(queues) BY <1>10, PutLines DEF PutsOn
  <2>3. Goto(t, "out") BY <1>10 DEF Put, Returned
  <2> QED BY <1>5, <2>1, <2>2, <2>3 DEF Emitting
<1>11. ASSUME NEW t \in Thread, Initialise(t) PROVE PhaseInv'
  <2>1. pc[t] \notin Emitting
    BY <1>11 DEF Initialise, InitLogging, NewQueue, MakeHandler, ResetHandlers, AddHandler,
                 MakeListener, StartListener, SetLogger, At, Emitting
  <2>2. stop = "done" BY <2>1 DEF PhaseInv
  <2>3. stop' = "done"
    BY <1>11, <2>2 DEF Initialise, InitLogging, NewQueue, MakeHandler, ResetHandlers, AddHandler,
                 MakeListener, StartListener, SetLogger
  <2>4. Len(queues') >= 1
    <3>1. CASE NewQueue(t) BY <1>1, <1>3, <3>1, AppendProperties DEF NewQueue, PhaseInv
    <3>2. CASE ~NewQueue(t)
      <4>1. queues' = queues
        BY <1>11, <3>2 DEF Initialise, InitLogging, MakeHandler, ResetHandlers, AddHandler,
                 MakeListener, StartListener, SetLogger
      <4> QED BY <4>1 DEF PhaseInv
    <3> QED BY <3>1, <3>2
  <2>5. Len(threads') >= 1 /\ threads'[1] = threads[1]
    <3>1. CASE StartListener(t)
      <4> DEFINE new == [queue |-> listener, on |-> TRUE]
      <4>1. threads' = Append(threads, new) BY <3>1 DEF StartListener
      <4> HIDE DEF new
      <4>2. Len(threads) >= 1 BY DEF PhaseInv
      <4>3. Len(threads') = Len(threads) + 1 BY <1>1, <4>1
      <4>4. 1 \in 1..Len(threads) BY <1>3, <4>2
      <4>5. threads'[1] = threads[1] BY <1>1, <4>1, <4>4
      <4> QED BY <1>3, <4>2, <4>3, <4>5
    <3>2. CASE ~StartListener(t)
      <4>1. threads' = threads
        BY <1>11, <3>2 DEF Initialise, InitLogging, NewQueue, MakeHandler, ResetHandlers, AddHandler,
                 MakeListener, SetLogger
      <4> QED BY <4>1 DEF PhaseInv
    <3> QED BY <3>1, <3>2
  <2>6. q # 0 => q' # 0
    <3>1. CASE NewQueue(t) BY <1>1, <1>3, <3>1, AppendProperties DEF NewQueue
    <3>2. CASE ~NewQueue(t)
      BY <1>11, <3>2 DEF Initialise, InitLogging, MakeHandler, ResetHandlers, AddHandler,
                 MakeListener, StartListener, SetLogger, globals
    <3> QED BY <3>1, <3>2
  <2>7. \A u \in Thread \ {t} : pc'[u] = pc[u]
    BY <1>11 DEF Initialise, InitLogging, NewQueue, MakeHandler, ResetHandlers, AddHandler,
                 MakeListener, StartListener, SetLogger, Goto, Typed, ThreadType
  <2>8. pc'[t] \in Init1 \ {"queue"} => q' # 0
    <3>1. CASE NewQueue(t)
      <4>1. Len(queues') = Len(queues) + 1 /\ q' = Len(queues')
        BY <1>1, <3>1, AppendProperties DEF NewQueue
      <4> QED BY <1>3, <4>1
    <3>2. CASE InitLogging(t)
      <4>1. pc'[t] \in {"assert", "queue"} BY <3>2 DEF InitLogging, Goto, Typed, ThreadType
      <4> QED BY <4>1 DEF Init1
    <3>3. CASE ~NewQueue(t) /\ ~InitLogging(t)
      <4>1. pc[t] \in Init1 \ {"queue"}
        BY <1>11, <3>3 DEF Initialise, MakeHandler, ResetHandlers, AddHandler,
                 MakeListener, StartListener, SetLogger, At, Init1
      <4> QED BY <2>6, <4>1 DEF PhaseInv
    <3> QED BY <3>1, <3>2, <3>3
  <2>9. listener # 0 => listener' # 0
    <3>1. CASE MakeListener(t)
      <4>1. pc[t] \in Init1 \ {"queue"} /\ listener' = q BY <3>1 DEF MakeListener, At, Init1
      <4> QED BY <4>1 DEF PhaseInv
    <3>2. CASE ~MakeListener(t)
      BY <1>11, <3>2 DEF Initialise, InitLogging, NewQueue, MakeHandler, ResetHandlers, AddHandler,
                 StartListener, SetLogger, globals
    <3> QED BY <3>1, <3>2
  <2>10. pc'[t] \in {"start", "set"} => listener' # 0
    <3>1. CASE MakeListener(t)
      <4>1. pc[t] \in Init1 \ {"queue"} /\ listener' = q BY <3>1 DEF MakeListener, At, Init1
      <4> QED BY <4>1 DEF PhaseInv
    <3>2. CASE StartListener(t)
      <4>1. pc[t] = "start" BY <3>2 DEF StartListener, At
      <4> QED BY <2>9, <4>1 DEF PhaseInv
    <3>3. CASE ~MakeListener(t) /\ ~StartListener(t)
      <4>1. pc'[t] \in {"queue", "handler", "reset", "add", "listen", "assert"}
        BY <1>11, <3>3 DEF Initialise, InitLogging, NewQueue, MakeHandler, ResetHandlers, AddHandler,
                 SetLogger, Goto, Typed, ThreadType
      <4> QED BY <4>1
    <3> QED BY <3>1, <3>2, <3>3
  <2>11. \A u \in Thread : pc'[u] \in Init1 \ {"queue"} => q' # 0 BY <2>6, <2>7, <2>8 DEF PhaseInv
  <2>12. \A u \in Thread : pc'[u] \in {"start", "set"} => listener' # 0
    BY <2>7, <2>9, <2>10 DEF PhaseInv
  <2> QED BY <2>2, <2>3, <2>4, <2>5, <2>11, <2>12 DEF PhaseInv
<1>12. ASSUME StopListener PROVE PhaseInv'
  <2>1. /\ UNCHANGED <<pc, q, listener, logger, raced, handlers, threads, late>>
        /\ stop = "before" /\ stop' = "join"
        /\ queues' = [queues EXCEPT ![listener] = Append(@, Sentinel)]
    BY <1>12 DEF StopListener, globals, history
  <2>2. Len(queues') = Len(queues) BY <1>1, <2>1
  <2> QED BY <2>1, <2>2 DEF PhaseInv
<1>13. ASSUME Join PROVE PhaseInv'
  <2>1. /\ UNCHANGED <<pc, q, listener, logger, raced, handlers, threads, late, queues>>
        /\ stop = "join" /\ stop' = "listener" /\ ~threads[1].on
    BY <1>13 DEF Join, globals, history
  <2> QED BY <2>1 DEF PhaseInv
<1>14. ASSUME ForgetListener PROVE PhaseInv'
  <2>1. /\ UNCHANGED <<pc, q, logger, raced, handlers, threads, late, queues>>
        /\ stop = "listener" /\ stop' = "q" /\ listener' = 0
    BY <1>14 DEF ForgetListener, history
  <2>2. \A t \in Thread : pc[t] \notin Init1
    <3>1. \A t \in Thread : pc[t] \in Emitting BY <2>1 DEF PhaseInv
    <3> QED BY <3>1 DEF Emitting, Init1
  <2> QED BY <2>1, <2>2 DEF PhaseInv, Init1
<1>15. ASSUME ForgetQueue PROVE PhaseInv'
  <2>1. /\ UNCHANGED <<pc, listener, logger, raced, handlers, threads, late, queues>>
        /\ stop = "q" /\ stop' = "logger" /\ q' = 0
    BY <1>15 DEF ForgetQueue, history
  <2>2. \A t \in Thread : pc[t] \notin Init1
    <3>1. \A t \in Thread : pc[t] \in Emitting BY <2>1 DEF PhaseInv
    <3> QED BY <3>1 DEF Emitting, Init1
  <2> QED BY <2>1, <2>2 DEF PhaseInv, Init1
<1>16. ASSUME ForgetLogger PROVE PhaseInv'
  <2>1. /\ UNCHANGED <<pc, q, listener, raced, handlers, threads, late, queues>>
        /\ stop = "logger" /\ stop' = "done"
    BY <1>16 DEF ForgetLogger, history
  <2> QED BY <2>1 DEF PhaseInv
<1>17. ASSUME NEW n \in DOMAIN threads, Write(n) PROVE PhaseInv'
  <2>1. UNCHANGED <<pc, q, listener, logger, raced, handlers, late, stop>>
    BY <1>17 DEF Write, globals, history
  <2>2. WriteParts(n, threads[n].queue) BY <1>17, WriteLines
  <2>3. CASE threads' = threads BY <1>4, <2>1, <2>2, <2>3 DEF WriteParts
  <2>4. CASE threads' = [threads EXCEPT ![n].on = FALSE] /\ threads' # threads
    <3>1. Len(threads') = Len(threads) /\ threads'[1].queue = threads[1].queue BY <1>1, <1>17, <2>4
    <3>2. threads'[1].on => threads[1].on BY <1>1, <1>17, <2>4
    <3>3. stop = "before" => n # 1
      <4> DEFINE line == queues[threads[n].queue]
      <4>1. line # << >> /\ line \in Seq(Line) BY <1>1, <2>2 DEF WriteParts
      <4>2. Head(line) = Sentinel BY <2>2, <2>4 DEF WriteParts
      <4>3. 1 \in DOMAIN line /\ line[1] = Sentinel BY <4>1, <4>2
      <4>4. On(Sentinel, line) BY <4>3 DEF On
      <4> HIDE DEF line
      <4>5. n = 1 => line = queues[1] BY DEF PhaseInv, line
      <4> QED BY <4>4, <4>5 DEF EarlyInv
    <3> QED BY <2>1, <2>2, <2>4, <3>1, <3>2, <3>3 DEF PhaseInv, WriteParts
  <2> QED BY <2>2, <2>3, <2>4 DEF WriteParts
<1>18. ASSUME UNCHANGED vars PROVE PhaseInv'
  <2>1. Still /\ UNCHANGED <<pc, late, queues>> BY <1>18 DEF vars, globals, history
  <2> QED BY <1>4, <2>1
<1> QED BY <1>7, <1>8, <1>9, <1>10, <1>11, <1>12, <1>13, <1>14, <1>15, <1>16, <1>17, <1>18
        DEF Next, Shutdown

-----------------------------------------------------------------------------
(* Where the records are                                                   *)

LEMMA Longer ==
  ASSUME NEW s \in Seq(Line), NEW new \in Seq(Line), NEW x, Extends(s, new, x), NEW r, r # x
  PROVE  /\ On(r, new) => On(r, s)
         /\ \A k : OnceAt(r, s, k) => OnceAt(r, new, k)
         /\ \A k \in DOMAIN s : Ahead(s, k) => Ahead(new, k)
<1>1. DOMAIN s = 1..Len(s) /\ DOMAIN new = 1..Len(new) /\ Len(s) \in Nat /\ Len(new) \in Nat OBVIOUS
<1>2. Len(s) <= Len(new) BY DEF Extends
<1>3. DOMAIN s \subseteq DOMAIN new BY <1>1, <1>2
<1>4. \A j \in DOMAIN s : new[j] = s[j] BY DEF Extends
<1>5. \A j \in DOMAIN new : j \in DOMAIN s \/ new[j] = x BY DEF Extends
<1>6. On(r, new) => On(r, s) BY <1>4, <1>5 DEF On
<1>7. \A k : OnceAt(r, s, k) => OnceAt(r, new, k) BY <1>3, <1>4, <1>5 DEF OnceAt
<1>8. ASSUME NEW k \in DOMAIN s, Ahead(s, k) PROVE Ahead(new, k)
  <2>1. \A j \in DOMAIN new : j < k => j \in DOMAIN s BY <1>1, <1>8
  <2> QED BY <1>4, <1>8, <2>1 DEF Ahead
<1> QED BY <1>6, <1>7, <1>8

LEMMA Appended ==
  ASSUME NEW s \in Seq(Line), NEW x \in Line
  PROVE  /\ Append(s, x) \in Seq(Line) /\ Extends(s, Append(s, x), x)
         /\ On(x, Append(s, x))
         /\ ~On(x, s) => OnceAt(x, Append(s, x), Len(s) + 1)
         /\ ~On(Sentinel, s) => Ahead(Append(s, x), Len(s) + 1)
<1> DEFINE new == Append(s, x)
<1>1. new \in Seq(Line) /\ Len(new) = Len(s) + 1 /\ Len(s) \in Nat BY AppendProperties
<1>2. DOMAIN s = 1..Len(s) /\ DOMAIN new = 1..(Len(s) + 1) BY <1>1
<1>3. (\A j \in DOMAIN s : new[j] = s[j]) /\ new[Len(s) + 1] = x BY AppendProperties
<1> HIDE DEF new
<1>4. \A j \in DOMAIN new : j \in DOMAIN s \/ j = Len(s) + 1 BY <1>1, <1>2
<1>5. Extends(s, new, x) BY <1>1, <1>3, <1>4 DEF Extends
<1>6. Len(s) + 1 \in DOMAIN new BY <1>1, <1>2
<1>7. On(x, new) BY <1>3, <1>6 DEF On
<1>8. ~On(x, s) => OnceAt(x, new, Len(s) + 1) BY <1>3, <1>4, <1>6 DEF On, OnceAt
<1>9. ~On(Sentinel, s) => Ahead(new, Len(s) + 1)
  <2>1. \A j \in DOMAIN new : j < Len(s) + 1 => j \in DOMAIN s BY <1>1, <1>2
  <2> QED BY <1>3, <2>1 DEF On, Ahead
<1>10. new \in Seq(Line) /\ Extends(s, new, x) /\ On(x, new) BY <1>1, <1>5, <1>7
<1> QED BY <1>8, <1>9, <1>10 DEF new

LEMMA Shorter ==
  ASSUME NEW s \in Seq(Line), s # << >>
  PROVE  /\ On(Head(s), s) /\ 1 \in DOMAIN s
         /\ \A r : On(r, Tail(s)) => On(r, s)
         /\ \A r : OnceAt(r, s, 1) => r = Head(s) /\ ~On(r, Tail(s))
         /\ \A r, k : OnceAt(r, s, k) /\ k # 1 => r # Head(s) /\ OnceAt(r, Tail(s), k - 1)
         /\ \A k \in DOMAIN s : Ahead(s, k) => Ahead(Tail(s), k - 1)
<1> DEFINE new == Tail(s)
<1>1. /\ new \in Seq(Line) /\ Len(new) = Len(s) - 1 /\ Head(s) = s[1]
      /\ \A i \in 1..Len(new) : new[i] = s[i + 1]
  BY HeadTailProperties
<1>2. Len(s) \in Nat /\ Len(s) >= 1 BY EmptySeq
<1> HIDE DEF new
<1>3. DOMAIN s = 1..Len(s) /\ DOMAIN new = 1..(Len(s) - 1) BY <1>1
<1>4. \A i \in DOMAIN new : i + 1 \in DOMAIN s /\ i + 1 # 1 /\ new[i] = s[i + 1] BY <1>1, <1>2, <1>3
<1>5. 1 \in DOMAIN s BY <1>2, <1>3
<1>6. On(Head(s), s) BY <1>1, <1>5 DEF On
<1>7. \A r : On(r, new) => On(r, s) BY <1>4 DEF On
<1>8. \A r : OnceAt(r, s, 1) => r = Head(s) /\ ~On(r, new) BY <1>1, <1>4 DEF OnceAt, On
<1>9. ASSUME NEW r, NEW k, OnceAt(r, s, k), k # 1 PROVE r # Head(s) /\ OnceAt(r, new, k - 1)
  <2>1. k \in DOMAIN s /\ s[k] = r /\ \A j \in DOMAIN s : s[j] = r => j = k BY <1>9 DEF OnceAt
  <2>2. r # Head(s) BY <1>1, <1>5, <1>9, <2>1
  <2>3. k - 1 \in DOMAIN new /\ (k - 1) + 1 = k BY <1>2, <1>3, <1>9, <2>1
  <2>4. new[k - 1] = r BY <1>4, <2>1, <2>3
  <2>5. ASSUME NEW j \in DOMAIN new, new[j] = r PROVE j = k - 1
    <3>1. j + 1 = k BY <1>4, <2>1, <2>5
    <3> QED BY <1>2, <1>3, <3>1
  <2> QED BY <2>2, <2>3, <2>4, <2>5 DEF OnceAt
<1>10. ASSUME NEW k \in DOMAIN s, Ahead(s, k) PROVE Ahead(new, k - 1)
  <2> SUFFICES ASSUME NEW j \in DOMAIN new, j < k - 1 PROVE new[j] # Sentinel BY DEF Ahead
  <2>1. j + 1 \in DOMAIN s /\ j + 1 < k /\ new[j] = s[j + 1] BY <1>2, <1>3, <1>4
  <2> QED BY <1>10, <2>1 DEF Ahead
<1> QED BY <1>5, <1>6, <1>7, <1>8, <1>9, <1>10 DEF new

\* Every step but these leaves the queues alone.
LEMMA SameQueues ==
  ASSUME [Next]_vars
  PROVE  \/ \E t \in Thread : Put(t) \/ NewQueue(t)
         \/ StopListener
         \/ \E n \in DOMAIN threads : Write(n)
         \/ queues' = queues /\ written' = written
<1>1. ASSUME NEW t \in Thread, Logs(t) PROVE queues' = queues /\ written' = written
  BY <1>1 DEF Logs, Emit, AssertLogger, Log, Raise
<1>2. ASSUME NEW t \in Thread, Initialise(t), ~NewQueue(t) PROVE queues' = queues /\ written' = written
  BY <1>2 DEF Initialise, InitLogging, MakeHandler, ResetHandlers, AddHandler, MakeListener,
              StartListener, SetLogger
<1>3. ASSUME Shutdown, ~StopListener PROVE queues' = queues /\ written' = written
  BY <1>3 DEF Shutdown, Join, ForgetListener, ForgetQueue, ForgetLogger
<1>4. ASSUME UNCHANGED vars PROVE queues' = queues /\ written' = written BY <1>4 DEF vars
<1>5. CASE \E t \in Thread : Logs(t) \/ Put(t) \/ Initialise(t) BY <1>1, <1>2, <1>5
<1>6. CASE Shutdown BY <1>3, <1>6
<1> QED BY <1>4, <1>5, <1>6 DEF Next, Logs

\* A record comes on a queue only by Put.
LEMMA QueueStep ==
  ASSUME Typed, PhaseInv, [Next]_vars, NEW r \in Record,
         \A t \in Thread : Put(t) => r # Of(t)
  PROVE  /\ DOMAIN queues \subseteq DOMAIN queues'
         /\ \A i \in DOMAIN queues' : On(r, queues'[i]) => i \in DOMAIN queues /\ On(r, queues[i])
<1>1. queues \in Seq(Seq(Line)) /\ DOMAIN queues = 1..Len(queues) /\ Len(queues) \in Nat
  BY DEF Typed, RecordType
<1>2. r # Sentinel BY RecordParts
<1>3. CASE \E t \in Thread : Put(t)
  <2>1. PICK t \in Thread : Put(t) BY <1>3
  <2>2. PutsOn(t) BY <2>1, PutLines
  <2>3. DOMAIN queues' = DOMAIN queues BY <1>1, <2>2 DEF PutsOn
  <2>4. ASSUME NEW i \in DOMAIN queues, On(r, queues'[i]) PROVE On(r, queues[i])
    <3>1. queues[i] \in Seq(Line) /\ queues'[i] \in Seq(Line) BY <1>1, <2>2, <2>3 DEF PutsOn
    <3>2. Extends(queues[i], queues'[i], Of(t)) BY <2>2 DEF PutsOn
    <3> QED BY <2>1, <2>4, <3>1, <3>2, Longer
  <2> QED BY <2>3, <2>4
<1>4. CASE \E t \in Thread : NewQueue(t)
  <2>1. queues' = Append(queues, << >>) BY <1>4 DEF NewQueue
  <2>2. DOMAIN queues' = 1..(Len(queues) + 1) BY <1>1, <2>1
  <2>3. \A i \in DOMAIN queues : queues'[i] = queues[i] BY <1>1, <2>1
  <2>4. queues'[Len(queues) + 1] = << >> BY <1>1, <2>1
  <2>5. ~On(r, << >>) BY DEF On
  <2>6. \A i \in DOMAIN queues' : i \in DOMAIN queues \/ i = Len(queues) + 1 BY <1>1, <2>2
  <2> QED BY <1>1, <2>2, <2>3, <2>4, <2>5, <2>6
<1>5. CASE StopListener
  <2>1. queues' = [queues EXCEPT ![1] = Append(@, Sentinel)] /\ 1 \in DOMAIN queues
    BY <1>1, <1>5 DEF StopListener, PhaseInv
  <2>2. queues[1] \in Seq(Line) /\ Sentinel \in Line BY <1>1, <2>1 DEF Line
  <2>3. On(r, Append(queues[1], Sentinel)) => On(r, queues[1]) BY <1>2, <2>2, Appended, Longer
  <2> QED BY <2>1, <2>3
<1>6. CASE \E n \in DOMAIN threads : Write(n)
  <2>1. PICK n \in DOMAIN threads : Write(n) BY <1>6
  <2> DEFINE w == threads[n].queue
  <2>2. WriteParts(n, w) BY <2>1, WriteLines
  <2> HIDE DEF w
  <2>3. queues[w] \in Seq(Line) /\ queues[w] # << >> BY <1>1, <2>2 DEF WriteParts
  <2>4. On(r, Tail(queues[w])) => On(r, queues[w]) BY <2>3, Shorter
  <2>5. DOMAIN queues' = DOMAIN queues BY <1>1, <2>2 DEF WriteParts
  <2> QED BY <2>2, <2>4, <2>5 DEF WriteParts
<1>7. CASE queues' = queues /\ written' = written BY <1>7
<1> QED BY <1>3, <1>4, <1>5, <1>6, <1>7, SameQueues

\* A record is written only from the head of a queue.
LEMMA WrittenStep ==
  ASSUME Typed, [Next]_vars, NEW r \in Record
  PROVE  \/ written'[r] = written[r]
         \/ /\ written'[r] = written[r] + 1
            /\ \E n \in DOMAIN threads :
                 Write(n) /\ WriteParts(n, threads[n].queue) /\ r = Head(queues[threads[n].queue])
<1>1. CASE \E n \in DOMAIN threads : Write(n)
  <2>1. PICK n \in DOMAIN threads : Write(n) BY <1>1
  <2>2. WriteParts(n, threads[n].queue) BY <2>1, WriteLines
  <2>3. CASE r = Head(queues[threads[n].queue])
    <3>1. r # Sentinel BY RecordParts
    <3>2. written' = [written EXCEPT ![r] = @ + 1] BY <2>2, <2>3, <3>1 DEF WriteParts
    <3>3. written'[r] = written[r] + 1 BY <3>2 DEF Typed, RecordType
    <3> QED BY <2>1, <2>2, <2>3, <3>3
  <2>4. CASE r # Head(queues[threads[n].queue])
    <3> DEFINE h == Head(queues[threads[n].queue])
    <3>1. written' = written \/ written' = [written EXCEPT ![h] = @ + 1] BY <2>2 DEF WriteParts
    <3> HIDE DEF h
    <3> QED BY <2>4, <3>1 DEF h, Typed, RecordType
  <2> QED BY <2>3, <2>4
<1>2. CASE \E t \in Thread : Put(t) \/ NewQueue(t) BY <1>2 DEF Put, NewQueue
<1>3. CASE StopListener BY <1>3 DEF StopListener
<1> QED BY <1>1, <1>2, <1>3, SameQueues

LEMMA NowhereStays ==
  ASSUME Typed, PhaseInv, [Next]_vars, NEW r \in Record, Nowhere(r)
  PROVE  /\ written'[r] = written[r]
         /\ (\A t \in Thread : Put(t) => r # Of(t)) => \A i \in DOMAIN queues' : ~On(r, queues'[i])
<1>1. (\A t \in Thread : Put(t) => r # Of(t)) => \A i \in DOMAIN queues' : ~On(r, queues'[i])
  BY QueueStep DEF Nowhere
<1>2. ASSUME NEW n \in DOMAIN threads, WriteParts(n, threads[n].queue)
      PROVE  r # Head(queues[threads[n].queue])
  <2> DEFINE w == threads[n].queue
  <2>1. WriteParts(n, w) BY <1>2
  <2> HIDE DEF w
  <2>2. w \in DOMAIN queues /\ queues[w] # << >> BY <2>1 DEF WriteParts
  <2>3. queues[w] \in Seq(Line) BY <2>2 DEF Typed, RecordType
  <2>4. On(Head(queues[w]), queues[w]) BY <2>2, <2>3, Shorter
  <2>5. r # Head(queues[w]) BY <2>2, <2>4 DEF Nowhere
  <2> QED BY <2>5 DEF w
<1> QED BY <1>1, <1>2, WrittenStep

\* The threads count down, and a record is passed when its thread is through with it.
LEMMA LeftStep ==
  ASSUME Typed, [Next]_vars
  PROVE  /\ \A t \in Thread : left[t] \in Nat /\ left'[t] \in Nat /\ left'[t] <= left[t]
         /\ \A t \in Thread : left'[t] # left[t] => Put(t) \/ (Logs(t) /\ Raise(t))
<1>1. left \in [Thread -> Nat] /\ ThreadType BY DEF Typed, ThreadType
<1>2. ASSUME NEW t \in Thread, left[t] > 0, Put(t) \/ Raise(t)
      PROVE  \A u \in Thread : left'[u] \in Nat /\ left'[u] <= left[u] /\ (left'[u] # left[u] => u = t)
  <2>1. PICK n \in Nat : n < left[t] /\ left' = [left EXCEPT ![t] = n] BY <1>1, <1>2, Downward DEF Down
  <2> QED BY <1>1, <2>1
<1>3. ASSUME left' = left PROVE \A u \in Thread : left'[u] \in Nat /\ left'[u] <= left[u] /\ left'[u] = left[u]
  BY <1>1, <1>3
<1>4. ASSUME NEW t \in Thread, Logs(t), ~Raise(t) PROVE left' = left
  BY <1>4 DEF Logs, Emit, AssertLogger, Log
<1>5. ASSUME NEW t \in Thread, Initialise(t) PROVE left' = left
  BY <1>5 DEF Initialise, InitLogging, NewQueue, MakeHandler, ResetHandlers, AddHandler,
              MakeListener, StartListener, SetLogger
<1>6. ASSUME Shutdown \/ (\E n \in DOMAIN threads : Write(n)) \/ UNCHANGED vars PROVE left' = left
  BY <1>6 DEF Shutdown, StopListener, Join, ForgetListener, ForgetQueue, ForgetLogger, Write, vars
<1>7. ASSUME NEW t \in Thread, Put(t) \/ (Logs(t) /\ Raise(t)) PROVE left[t] > 0
  <2>1. Put(t) \/ Logs(t) BY <1>7
  <2> QED BY <2>1 DEF Put, Logs, Emit, AssertLogger, Log, At, Typed, ThreadType
<1>8. CASE left' = left BY <1>1, <1>3, <1>8
<1>9. CASE \E t \in Thread : Put(t) \/ (Logs(t) /\ Raise(t))
  <2>1. PICK t \in Thread : Put(t) \/ (Logs(t) /\ Raise(t)) BY <1>9
  <2> QED BY <1>1, <1>2, <1>7, <2>1
<1> QED BY <1>4, <1>5, <1>6, <1>8, <1>9 DEF Next, Logs

LEMMA PassedStays ==
  ASSUME Typed, [Next]_vars, NEW r \in Record, Passed(r)
  PROVE  Passed(r)'
<1>1. r[1] \in Thread /\ r[2] \in Nat BY RecordParts, LogAssumption
<1>2. left[r[1]] \in Nat /\ left'[r[1]] \in Nat /\ left'[r[1]] <= left[r[1]] BY <1>1, LeftStep
<1> QED BY <1>1, <1>2 DEF Passed

LEMMA NowPassed ==
  ASSUME Typed, NEW t \in Thread, left[t] > 0, Put(t) \/ Raise(t), NEW r, r = Of(t)
  PROVE  r \in Record /\ Passed(r)'
<1>1. ThreadType BY DEF Typed
<1>2. r[1] = t /\ r[2] = left[t] /\ r \in Record BY <1>1, OfThread
<1>3. PICK n \in Nat : n < left[t] /\ left' = [left EXCEPT ![t] = n] BY <1>1, Downward DEF Down
<1>4. left'[t] = n BY <1>1, <1>3 DEF ThreadType
<1>5. r[2] > left'[r[1]] BY <1>1, <1>2, <1>3, <1>4 DEF ThreadType
<1> QED BY <1>2, <1>5 DEF Passed

\* The record that a thread is logging, or will log next, is nowhere yet.
LEMMA Unlogged ==
  ASSUME Typed, PassedInv, NEW t \in Thread, pc[t] # "out" \/ left[t] > 0
  PROVE  /\ Of(t) \in Record /\ ~Passed(Of(t)) /\ written[Of(t)] = 0 /\ Nowhere(Of(t))
         /\ Of(t) \notin early \cup raised /\ left[t] > 0
<1>1. left[t] > 0 /\ ThreadType BY DEF Typed, ThreadType
<1>2. Of(t) \in Record /\ ~Passed(Of(t)) BY <1>1, OfThread
<1> DEFINE r == Of(t)
<1>3. r \in Record /\ ~Passed(r) BY <1>2
<1> HIDE DEF r
<1>4. written[r] \in Nat BY <1>3 DEF Typed, RecordType
<1>5. written[r] = 0 BY <1>3, <1>4 DEF PassedInv, WrittenPassed
<1>6. Nowhere(r) BY <1>3 DEF PassedInv, QueuedPassed, Nowhere
<1>7. r \notin early \cup raised BY <1>3 DEF PassedInv, DonePassed
<1> QED BY <1>1, <1>3, <1>5, <1>6, <1>7 DEF r

LEMMA PassedStep ==
  ASSUME Typed, PhaseInv, PassedInv, [Next]_vars
  PROVE  PassedInv'
<1>1. ASSUME NEW t \in Thread, Put(t) PROVE left[t] > 0
  BY <1>1 DEF Put, At, Typed, ThreadType
<1>2. ASSUME NEW r \in Record, NEW t \in Thread, Put(t), r = Of(t) PROVE Passed(r)'
  BY <1>1, <1>2, NowPassed
<1>3. QueuedPassed'
  <2> SUFFICES ASSUME NEW r \in Record, NEW i \in DOMAIN queues', On(r, queues'[i]) PROVE Passed(r)'
    BY DEF QueuedPassed, On, Passed
  <2>1. CASE \E t \in Thread : Put(t) /\ r = Of(t) BY <1>2, <2>1
  <2>2. CASE \A t \in Thread : Put(t) => r # Of(t)
    <3>1. i \in DOMAIN queues /\ On(r, queues[i]) BY <2>2, QueueStep
    <3> QED BY <3>1, PassedStays DEF PassedInv, QueuedPassed
  <2> QED BY <2>1, <2>2
<1>4. WrittenPassed'
  <2> SUFFICES ASSUME NEW r \in Record, written'[r] > 0 PROVE Passed(r)'
    BY DEF WrittenPassed, Passed
  <2>1. CASE written'[r] = written[r] BY <2>1, PassedStays DEF PassedInv, WrittenPassed
  <2>2. CASE \E n \in DOMAIN threads : WriteParts(n, threads[n].queue) /\ r = Head(queues[threads[n].queue])
    <3>1. PICK n \in DOMAIN threads :
            WriteParts(n, threads[n].queue) /\ r = Head(queues[threads[n].queue])
      BY <2>2
    <3> DEFINE w == threads[n].queue
    <3>2. w \in DOMAIN queues /\ queues[w] # << >> /\ r = Head(queues[w]) BY <3>1 DEF WriteParts
    <3> HIDE DEF w
    <3>3. queues[w] \in Seq(Line) BY <3>2 DEF Typed, RecordType
    <3>4. On(r, queues[w]) BY <3>2, <3>3, Shorter
    <3> QED BY <3>2, <3>4, PassedStays DEF PassedInv, QueuedPassed
  <2> QED BY <2>1, <2>2, WrittenStep
<1>5. DonePassed'
  <2> SUFFICES ASSUME NEW r \in early' \cup raised' PROVE Passed(r)'
    BY DEF DonePassed, Passed
  <2>1. r \in Record /\ early \subseteq Record /\ raised \subseteq Record
    BY RecordStep DEF RecordType, Typed
  <2>2. CASE r \in early \cup raised BY <2>1, <2>2, PassedStays DEF PassedInv, DonePassed
  <2>3. CASE \E t \in Thread : (Put(t) \/ Raise(t)) /\ left[t] > 0 /\ r = Of(t)
    BY <2>3, NowPassed
  <2>4. ASSUME NEW t \in Thread, Logs(t) \/ Put(t), r \notin early \cup raised
        PROVE  (Put(t) \/ Raise(t)) /\ left[t] > 0 /\ r = Of(t)
    <3>1. left[t] > 0 BY <2>4 DEF Logs, Put, Emit, AssertLogger, Log, At, Typed, ThreadType
    <3>2. CASE Put(t) BY <2>4, <3>1, <3>2 DEF Put
    <3>3. CASE Logs(t)
      <4>1. CASE Raise(t) BY <2>4, <3>1, <4>1 DEF Raise
      <4>2. CASE ~Raise(t)
        <5>1. UNCHANGED <<early, raised>> BY <3>3, <4>2 DEF Logs, Emit, AssertLogger, Log, history
        <5> QED BY <2>4, <5>1
      <4> QED BY <4>1, <4>2
    <3> QED BY <2>4, <3>2, <3>3
  <2>5. ASSUME NEW t \in Thread, Initialise(t) PROVE UNCHANGED <<early, raised>>
    BY <2>5 DEF Initialise, InitLogging, NewQueue, MakeHandler, ResetHandlers, AddHandler,
                MakeListener, StartListener, SetLogger, history
  <2>6. ASSUME Shutdown \/ (\E n \in DOMAIN threads : Write(n)) \/ UNCHANGED vars
        PROVE  UNCHANGED <<early, raised>>
    BY <2>6 DEF Shutdown, StopListener, Join, ForgetListener, ForgetQueue, ForgetLogger, Write,
                vars, history
  <2>7. CASE r \notin early \cup raised
    <3>1. PICK t \in Thread : Logs(t) \/ Put(t) BY <2>5, <2>6, <2>7 DEF Next, Logs
    <3> QED BY <2>3, <2>4, <2>7, <3>1
  <2> QED BY <2>2, <2>7
<1>6. LatePassed'
  <2> SUFFICES ASSUME NEW r \in late' PROVE Passed(r)' \/ (r = <<r[1], left'[r[1]]>> /\ pc'[r[1]] # "out")
    BY DEF LatePassed, Passed, Of
  <2>1. r \in Record /\ late \subseteq Record /\ r[1] \in Thread
    BY RecordStep, RecordParts DEF RecordType, Typed
  <2>2. ASSUME NEW t \in Thread, pc[t] # "out" \/ left[t] > 0, r = Of(t), Put(t) \/ Raise(t)
        PROVE  Passed(r)'
    BY <2>2, Unlogged, NowPassed
  <2>3. ASSUME NEW t \in Thread, pc[t] # "out", ~Raise(t), ~Put(t), pc'[t] = "out" PROVE FALSE
    <3>1. ASSUME NEW u \in Thread, Logs(u) PROVE FALSE
      <4>1. u = t BY <2>3, <3>1 DEF Logs, Emit, AssertLogger, Log, Raise, Goto, Typed, ThreadType
      <4> QED BY <2>3, <3>1, <4>1 DEF Logs, Emit, AssertLogger, Log, Goto, Typed, ThreadType
    <3>2. ASSUME NEW u \in Thread, Put(u) PROVE FALSE
      BY <2>3, <3>2 DEF Put, Returned, Goto, Typed, ThreadType
    <3>3. ASSUME NEW u \in Thread, Initialise(u) PROVE FALSE
      BY <2>3, <3>3 DEF Initialise, InitLogging, NewQueue, MakeHandler, ResetHandlers, AddHandler,
                MakeListener, StartListener, SetLogger, Goto, Typed, ThreadType
    <3>4. ASSUME Shutdown \/ (\E n \in DOMAIN threads : Write(n)) \/ UNCHANGED vars PROVE FALSE
      BY <2>3, <3>4 DEF Shutdown, StopListener, Join, ForgetListener, ForgetQueue, ForgetLogger,
                Write, vars
    <3> QED BY <3>1, <3>2, <3>3, <3>4 DEF Next, Logs
  <2>4. CASE r \in late /\ Passed(r) BY <2>1, <2>4, PassedStays
  <2>5. CASE r \in late /\ ~Passed(r)
    <3> DEFINE t == r[1]
    <3>1. t \in Thread /\ r = Of(t) /\ pc[t] # "out" BY <2>1, <2>5 DEF PassedInv, LatePassed
    <3> HIDE DEF t
    <3>2. CASE Put(t) \/ Raise(t) BY <2>2, <3>1, <3>2
    <3>3. CASE ~Put(t) /\ ~Raise(t)
      <4>1. left'[t] = left[t] BY <3>1, <3>3, LeftStep
      <4>2. pc'[t] # "out" BY <2>3, <3>1, <3>3
      <4> QED BY <3>1, <4>1, <4>2 DEF Of, t
    <3> QED BY <3>2, <3>3
  <2>6. CASE r \notin late
    <3>1. ASSUME NEW t \in Thread, Emit(t) PROVE r = Of(t) /\ left' = left /\ pc'[t] # "out"
      BY <2>6, <3>1 DEF Emit, Goto, Typed, ThreadType
    <3>2. ASSUME NEW t \in Thread, Put(t) \/ AssertLogger(t) \/ Log(t) PROVE FALSE
      BY <2>6, <3>2 DEF Put, AssertLogger, Log, Raise, history
    <3>3. ASSUME NEW t \in Thread, Initialise(t) PROVE FALSE
      BY <2>6, <3>3 DEF Initialise, InitLogging, NewQueue, MakeHandler, ResetHandlers, AddHandler,
                MakeListener, StartListener, SetLogger, history
    <3>4. ASSUME Shutdown \/ (\E n \in DOMAIN threads : Write(n)) \/ UNCHANGED vars PROVE FALSE
      BY <2>6, <3>4 DEF Shutdown, StopListener, Join, ForgetListener, ForgetQueue, ForgetLogger,
                Write, vars, history
    <3>5. PICK t \in Thread : Emit(t) BY <3>2, <3>3, <3>4 DEF Next
    <3>6. r = Of(t) /\ left' = left /\ pc'[t] # "out" BY <3>1, <3>5
    <3>7. r[1] = t BY <3>6, OfThread DEF Typed
    <3> QED BY <3>6, <3>7 DEF Of
  <2> QED BY <2>4, <2>5, <2>6
<1> QED BY <1>3, <1>4, <1>5, <1>6 DEF PassedInv

-----------------------------------------------------------------------------
(* The records that were there before the shutdown                         *)

\* One record of EarlyInv.
EarlyOnce(r) ==
  \/ written[r] = 1 /\ Nowhere(r)
  \/ /\ written[r] = 0 /\ threads[1].on
     /\ \E k \in DOMAIN queues[1] : OnceAt(r, queues[1], k) /\ Ahead(queues[1], k)
SentinelLast ==
  /\ stop = "before" => ~On(Sentinel, queues[1])
  /\ \A i \in DOMAIN queues : i # 1 => ~On(Sentinel, queues[i])

LEMMA EarlyParts == EarlyInv <=> SentinelLast /\ \A r \in early : EarlyOnce(r)
BY DEF EarlyInv, EarlyOnce, SentinelLast

LEMMA SentinelStep ==
  ASSUME Typed, PhaseInv, EarlyInv, [Next]_vars
  PROVE  SentinelLast'
<1>1. queues \in Seq(Seq(Line)) /\ DOMAIN queues = 1..Len(queues) /\ Len(queues) \in Nat
  BY DEF Typed, RecordType
<1>2. 1 \in DOMAIN queues /\ SentinelLast BY <1>1, EarlyParts DEF PhaseInv
<1>3. stop' = "before" => stop = "before"
  <2>1. ASSUME NEW t \in Thread, Logs(t) \/ Put(t) \/ Initialise(t) PROVE stop' = stop
    BY <2>1 DEF Logs, Emit, AssertLogger, Log, Raise, Put, Initialise, InitLogging, NewQueue,
                MakeHandler, ResetHandlers, AddHandler, MakeListener, StartListener, SetLogger
  <2>2. ASSUME Shutdown PROVE stop' # "before"
    BY <2>2 DEF Shutdown, StopListener, Join, ForgetListener, ForgetQueue, ForgetLogger
  <2>3. ASSUME (\E n \in DOMAIN threads : Write(n)) \/ UNCHANGED vars PROVE stop' = stop
    BY <2>3 DEF Write, vars
  <2> QED BY <2>1, <2>2, <2>3 DEF Next, Logs
<1>4. ASSUME \A i \in DOMAIN queues : On(Sentinel, queues'[i]) => On(Sentinel, queues[i]),
             DOMAIN queues' = DOMAIN queues
      PROVE  SentinelLast'
  BY <1>2, <1>3, <1>4 DEF SentinelLast, On, Sentinel
<1>5. CASE \E t \in Thread : Put(t)
  <2>1. PICK t \in Thread : Put(t) BY <1>5
  <2>2. PutsOn(t) BY <2>1, PutLines
  <2>3. DOMAIN queues' = DOMAIN queues BY <1>1, <2>2 DEF PutsOn
  <2>4. Of(t) # Sentinel BY OfThread DEF Typed
  <2>5. ASSUME NEW i \in DOMAIN queues, On(Sentinel, queues'[i]) PROVE On(Sentinel, queues[i])
    <3>1. queues[i] \in Seq(Line) /\ queues'[i] \in Seq(Line) BY <1>1, <2>2, <2>3 DEF PutsOn
    <3>2. Extends(queues[i], queues'[i], Of(t)) BY <2>2 DEF PutsOn
    <3> QED BY <2>4, <2>5, <3>1, <3>2, Longer
  <2> QED BY <1>4, <2>3, <2>5
<1>6. CASE \E t \in Thread : NewQueue(t)
  <2>1. queues' = Append(queues, << >>) BY <1>6 DEF NewQueue
  <2>2. DOMAIN queues' = 1..(Len(queues) + 1) BY <1>1, <2>1
  <2>3. \A i \in DOMAIN queues : queues'[i] = queues[i] BY <1>1, <2>1
  <2>4. queues'[Len(queues) + 1] = << >> BY <1>1, <2>1
  <2>5. \A i \in DOMAIN queues' : i \in DOMAIN queues \/ i = Len(queues) + 1 BY <1>1, <2>2
  <2>6. ASSUME NEW i \in DOMAIN queues', i # 1 PROVE ~On(Sentinel, queues'[i])
    <3>1. CASE i \in DOMAIN queues BY <1>2, <2>3, <2>6, <3>1 DEF SentinelLast
    <3>2. CASE i = Len(queues) + 1 BY <2>4, <3>2 DEF On
    <3> QED BY <2>5, <3>1, <3>2
  <2>7. stop' = "before" => ~On(Sentinel, queues'[1]) BY <1>2, <1>3, <2>3 DEF SentinelLast
  <2> QED BY <2>6, <2>7 DEF SentinelLast, On, Sentinel
<1>7. CASE StopListener
  <2>1. /\ queues' = [queues EXCEPT ![1] = Append(@, Sentinel)] /\ stop' = "join"
    BY <1>7 DEF StopListener, PhaseInv
  <2>2. \A i \in DOMAIN queues' : i # 1 => i \in DOMAIN queues /\ queues'[i] = queues[i] BY <1>1, <2>1
  <2> QED BY <1>2, <2>1, <2>2 DEF SentinelLast, On, Sentinel
<1>8. CASE \E n \in DOMAIN threads : Write(n)
  <2>1. PICK n \in DOMAIN threads : Write(n) BY <1>8
  <2> DEFINE w == threads[n].queue
  <2>2. WriteParts(n, w) BY <2>1, WriteLines
  <2> HIDE DEF w
  <2>3. queues[w] \in Seq(Line) /\ queues[w] # << >> BY <1>1, <2>2 DEF WriteParts
  <2>4. On(Sentinel, Tail(queues[w])) => On(Sentinel, queues[w]) BY <2>3, Shorter
  <2>5. DOMAIN queues' = DOMAIN queues BY <1>1, <2>2 DEF WriteParts
  <2>6. \A i \in DOMAIN queues : On(Sentinel, queues'[i]) => On(Sentinel, queues[i])
    BY <2>2, <2>4 DEF WriteParts
  <2> QED BY <1>4, <2>5, <2>6
<1>9. CASE queues' = queues /\ written' = written BY <1>4, <1>9
<1> QED BY <1>5, <1>6, <1>7, <1>8, <1>9, SameQueues

\* The records that were there stay there, until they are written.
LEMMA EarlyStays ==
  ASSUME Typed, PhaseInv, PassedInv, EarlyInv, [Next]_vars, NEW r \in early
  PROVE  EarlyOnce(r)'
<1>1. queues \in Seq(Seq(Line)) /\ DOMAIN queues = 1..Len(queues) /\ Len(queues) \in Nat
  BY DEF Typed, RecordType
<1>2. 1 \in DOMAIN queues /\ SentinelLast /\ EarlyOnce(r) BY <1>1, EarlyParts DEF PhaseInv
<1>3. r \in Record /\ r # Sentinel BY RecordParts DEF Typed, RecordType
<1>4. \A t \in Thread : Put(t) => r # Of(t) BY Unlogged DEF Put, At
<1>5. CASE written[r] = 1 /\ Nowhere(r)
  <2>1. written'[r] = written[r] /\ \A i \in DOMAIN queues' : ~On(r, queues'[i])
    BY <1>3, <1>4, <1>5, NowhereStays
  <2> QED BY <1>5, <2>1 DEF EarlyOnce, Nowhere, On
<1>6. CASE /\ written[r] = 0 /\ threads[1].on
           /\ \E k \in DOMAIN queues[1] : OnceAt(r, queues[1], k) /\ Ahead(queues[1], k)
  <2>1. PICK k \in DOMAIN queues[1] : OnceAt(r, queues[1], k) /\ Ahead(queues[1], k) BY <1>6
  <2>2. queues[1] \in Seq(Line) BY <1>1, <1>2
  <2>3. stop # "done" /\ Len(queues) = 1 /\ \A i \in DOMAIN queues : i = 1
    <3>1. stop # "done" BY <1>6 DEF PhaseInv
    <3>2. Len(queues) = 1 BY <3>1 DEF PhaseInv
    <3> QED BY <1>1, <3>1, <3>2
  <2>4. ASSUME written'[r] = 0, threads'[1].on, NEW m, OnceAt(r, queues'[1], m), Ahead(queues'[1], m)
        PROVE  EarlyOnce(r)'
    <3>1. m \in DOMAIN queues'[1] BY <2>4 DEF OnceAt
    <3> QED BY <2>4, <3>1 DEF EarlyOnce, OnceAt, Ahead, Sentinel
  <2>5. CASE \E n \in DOMAIN threads : Write(n)
    <3>1. PICK n \in DOMAIN threads : Write(n) BY <2>5
    <3> DEFINE w == threads[n].queue
    <3>2. WriteParts(n, w) BY <3>1, WriteLines
    <3> HIDE DEF w
    <3>3. w = 1 /\ queues[1] # << >> BY <2>3, <3>2 DEF WriteParts
    <3> DEFINE h == Head(queues[1])
    <3>4. /\ queues'[1] = Tail(queues[1]) /\ Len(queues') = 1 /\ queues' \in Seq(Seq(Line))
          /\ h # Sentinel => threads' = threads /\ written' = [written EXCEPT ![h] = @ + 1]
      BY <2>3, <3>2, <3>3 DEF WriteParts
    <3>5. CASE k = 1
      <4>1. r = h /\ ~On(r, Tail(queues[1])) BY <2>1, <2>2, <3>3, <3>5, Shorter
      <4>2. written' = [written EXCEPT ![r] = @ + 1] BY <1>3, <3>4, <4>1
      <4>3. written'[r] = 1 BY <1>3, <1>6, <4>2 DEF Typed, RecordType
      <4>4. \A i \in DOMAIN queues' : i = 1 BY <3>4
      <4>5. \A i \in DOMAIN queues' : ~On(r, queues'[i]) BY <3>4, <4>1, <4>4
      <4> QED BY <4>3, <4>5 DEF EarlyOnce, Nowhere, On
    <3>6. CASE k # 1
      <4>1. r # h /\ OnceAt(r, Tail(queues[1]), k - 1) BY <2>1, <2>2, <3>3, <3>6, Shorter
      <4>2. Ahead(Tail(queues[1]), k - 1) BY <2>1, <2>2, <3>3, Shorter
      <4>3. h # Sentinel
        <5>1. h = queues[1][1] /\ 1 \in DOMAIN queues[1] BY <2>2, <3>3, HeadTailProperties, Shorter
        <5>2. 1 < k BY <2>1, <2>2, <3>6
        <5> QED BY <2>1, <5>1, <5>2 DEF Ahead
      <4> HIDE DEF h
      <4>4. threads' = threads /\ written'[r] = 0
        BY <1>3, <1>6, <3>4, <4>1, <4>3 DEF Typed, RecordType
      <4> QED BY <1>6, <2>4, <3>4, <4>1, <4>2, <4>4
    <3> QED BY <3>5, <3>6
  <2>6. CASE \E t \in Thread : Put(t)
    <3>1. PICK t \in Thread : Put(t) BY <2>6
    <3>2. PutsOn(t) /\ r # Of(t) /\ written' = written /\ threads' = threads
      BY <1>4, <3>1, PutLines DEF Put
    <3>3. queues'[1] \in Seq(Line) /\ Extends(queues[1], queues'[1], Of(t))
      <4>1. queues' \in Seq(Seq(Line)) /\ Len(queues') = 1 BY <2>3, <3>2 DEF PutsOn
      <4>2. queues'[1] \in Seq(Line) BY <4>1
      <4> QED BY <1>2, <3>2, <4>2 DEF PutsOn
    <3>4. OnceAt(r, queues'[1], k) /\ Ahead(queues'[1], k) BY <2>1, <2>2, <3>2, <3>3, Longer
    <3> QED BY <1>6, <2>4, <3>2, <3>4
  <2>7. CASE StopListener
    <3>1. /\ queues' = [queues EXCEPT ![1] = Append(@, Sentinel)]
          /\ written' = written /\ threads' = threads
      BY <2>7 DEF StopListener, PhaseInv
    <3>2. queues'[1] = Append(queues[1], Sentinel) BY <1>2, <3>1
    <3>3. Sentinel \in Line BY DEF Line
    <3>4. queues'[1] \in Seq(Line) /\ Extends(queues[1], queues'[1], Sentinel)
      BY <2>2, <3>2, <3>3, Appended
    <3>5. OnceAt(r, queues'[1], k) /\ Ahead(queues'[1], k) BY <1>3, <2>1, <2>2, <3>4, Longer
    <3> QED BY <1>6, <2>4, <3>1, <3>5
  <2>8. CASE \E t \in Thread : NewQueue(t)
    BY <2>3, <2>8 DEF NewQueue, At, PhaseInv, Emitting
  <2>9. CASE queues' = queues /\ written' = written /\ threads' = threads
    BY <1>6, <2>1, <2>4, <2>9
  <2>10. CASE /\ queues' = queues /\ written' = written /\ threads' # threads
             /\ ~\E n \in DOMAIN threads : Write(n)
    <3>1. PICK t \in Thread : StartListener(t)
      <4>1. ASSUME NEW t \in Thread, Logs(t) \/ Put(t) PROVE threads' = threads
        BY <4>1 DEF Logs, Emit, AssertLogger, Log, Raise, Put
      <4>2. ASSUME NEW t \in Thread, Initialise(t), ~StartListener(t) PROVE threads' = threads
        BY <4>2 DEF Initialise, InitLogging, NewQueue, MakeHandler, ResetHandlers, AddHandler,
                    MakeListener, SetLogger
      <4>3. ASSUME Shutdown \/ UNCHANGED vars PROVE threads' = threads
        BY <4>3 DEF Shutdown, StopListener, Join, ForgetListener, ForgetQueue, ForgetLogger, vars
      <4> QED BY <2>10, <4>1, <4>2, <4>3 DEF Next, Logs
    <3> QED BY <2>3, <3>1 DEF StartListener, At, PhaseInv, Emitting
  <2> QED BY <2>5, <2>6, <2>7, <2>8, <2>9, <2>10, SameQueues
<1> QED BY <1>2, <1>5, <1>6 DEF EarlyOnce

LEMMA EarlyStep ==
  ASSUME Typed, PhaseInv, PassedInv, EarlyInv, [Next]_vars
  PROVE  EarlyInv'
<1>1. queues \in Seq(Seq(Line)) /\ DOMAIN queues = 1..Len(queues) /\ Len(queues) \in Nat
  BY DEF Typed, RecordType
<1>2. SentinelLast BY EarlyParts
<1>3. ASSUME NEW r \in early' PROVE EarlyOnce(r)'
  <2>1. CASE r \in early BY <2>1, EarlyStays
  <2>2. CASE r \notin early
    <3>1. ASSUME NEW t \in Thread, Logs(t) \/ Initialise(t) PROVE early' = early
      BY <3>1 DEF Logs, Emit, AssertLogger, Log, Raise, Initialise, InitLogging, NewQueue,
                MakeHandler, ResetHandlers, AddHandler, MakeListener, StartListener, SetLogger, history
    <3>2. ASSUME Shutdown \/ (\E n \in DOMAIN threads : Write(n)) \/ UNCHANGED vars PROVE early' = early
      BY <3>2 DEF Shutdown, StopListener, Join, ForgetListener, ForgetQueue, ForgetLogger, Write,
                vars, history
    <3>3. PICK t \in Thread : Put(t) BY <1>3, <2>2, <3>1, <3>2 DEF Next, Logs
    <3>4. Taken(t) /\ stop = "before" /\ r = Of(t) /\ written' = written /\ threads' = threads
      BY <1>3, <2>2, <3>3 DEF Put
    <3>5. handlers = <<1>> /\ Len(queues) = 1 /\ threads[1].on BY <3>4 DEF PhaseInv
    <3>6. 1 \in DOMAIN queues /\ queues[1] \in Seq(Line) BY <1>1, <3>5
    <3>7. r \in Record /\ written[r] = 0 /\ Nowhere(r) BY <3>3, <3>4, Unlogged DEF Put, At
    <3>8. ~On(r, queues[1]) /\ ~On(Sentinel, queues[1])
      BY <1>2, <3>4, <3>6, <3>7 DEF Nowhere, SentinelLast
    <3>9. queues'[1] = Append(queues[1], r) BY <3>3, <3>4, <3>5, <3>6, PutOneLine
    <3> DEFINE k == Len(queues[1]) + 1
    <3>10. OnceAt(r, queues'[1], k) /\ Ahead(queues'[1], k)
      BY <3>6, <3>7, <3>8, <3>9, Appended DEF Line
    <3> HIDE DEF k
    <3>11. k \in DOMAIN queues'[1] BY <3>10 DEF OnceAt
    <3> QED BY <3>4, <3>5, <3>7, <3>10, <3>11 DEF EarlyOnce, OnceAt, Ahead, Sentinel
  <2> QED BY <2>1, <2>2
<1>4. SentinelLast' BY SentinelStep
<1> QED BY <1>3, <1>4 DEF EarlyInv, EarlyOnce, SentinelLast

-----------------------------------------------------------------------------
(* What is logged after the shutdown                                       *)

\* Where LateInv says something: the phase in which it does.
After == stop = "done" /\ ~raced

LEMMA LateParts ==
  LateInv <=> (After => /\ Single /\ raised \cap late = {} /\ (\A r \in late : LateOnce(r))
                        /\ \A t \in Thread : pc[t] \in {"assert", "log", "put"} /\ Of(t) \in late => Ready)
BY DEF LateInv, After

LEMMA SingleQuiet ==
  ASSUME UNCHANGED <<logger, q, listener, handlers, mine, threads>>, Len(queues') = Len(queues),
         \A u \in Thread : pc'[u] = pc[u] \/ (pc[u] \notin Init1 /\ pc'[u] \notin Init1)
  PROVE  (Single => Single') /\ (Ready => Ready')
<1>1. \A u \in Thread : Initialising(u)' <=> Initialising(u) BY DEF Initialising, Init1
<1>2. \A u \in Thread : Initialising(u) => pc'[u] = pc[u] BY DEF Initialising, Init1
<1>3. Fresh => Fresh' BY <1>1 DEF Fresh
<1>4. Ready => Ready' BY <1>1 DEF Ready
<1>5. ASSUME NEW t \in Thread, Halfway(t) PROVE Halfway(t)'
  <2>1. pc'[t] = pc[t] BY <1>2, <1>5 DEF Halfway
  <2> QED BY <1>1, <1>5, <2>1 DEF Halfway
<1> QED BY <1>3, <1>4, <1>5 DEF Single

\* Only a thread that found the logger set, and finds it gone, raises.
LEMMA RaiseParts ==
  ASSUME Typed, NEW t \in Thread, Logs(t), Raise(t)
  PROVE  ~logger /\ pc[t] \in {"assert", "log"}
<1>1. Goto(t, "out") /\ pc'[t] = "out" BY DEF Raise, Goto, Typed, ThreadType
<1>2. CASE Emit(t) BY <1>1, <1>2 DEF Emit, Goto, Typed, ThreadType
<1>3. CASE AssertLogger(t) BY <1>1, <1>3 DEF AssertLogger, At, Goto, Typed, ThreadType
<1>4. CASE Log(t) BY <1>1, <1>4 DEF Log, At, Goto, Typed, ThreadType
<1> QED BY <1>2, <1>3, <1>4 DEF Logs

\* After the shutdown the first listener is gone, and only the new one writes.
LEMMA WriterAfter ==
  ASSUME Typed, PhaseInv, EarlyInv, Single, stop = "done", NEW n \in DOMAIN threads, Write(n)
  PROVE  /\ n = 2 /\ WriteParts(n, 2) /\ threads' = threads
         /\ Len(queues) = 2
<1>1. ~threads[1].on BY DEF PhaseInv
<1>2. n # 1 /\ threads[n].on BY <1>1 DEF Write
<1>3. threads \in Seq([queue : Nat, on : BOOLEAN]) BY DEF Typed, NumberType
<1>4. Len(threads) \in {1, 2} BY DEF Single, Fresh, Halfway, Ready
<1>5. n = 2 /\ Len(threads) = 2 BY <1>2, <1>3, <1>4
<1>6. threads[2].queue = 2 /\ Len(queues) = 2
  <2>1. CASE Ready BY <2>1 DEF Ready
  <2>2. CASE Fresh BY <1>5, <2>2 DEF Fresh
  <2>3. CASE \E t \in Thread : Halfway(t)
    <3>1. PICK t \in Thread : Halfway(t) BY <2>3
    <3>2. pc[t] = "set" BY <1>5, <3>1 DEF Halfway
    <3> QED BY <3>1, <3>2 DEF Halfway
  <2> QED BY <2>1, <2>2, <2>3 DEF Single
<1>7. WriteParts(n, 2) BY <1>5, <1>6, WriteLines
<1>8. queues[2] \in Seq(Line) /\ queues[2] # << >> /\ 2 \in DOMAIN queues
  BY <1>7 DEF WriteParts, Typed, RecordType
<1>9. Head(queues[2]) # Sentinel
  <2>1. On(Head(queues[2]), queues[2]) BY <1>8, Shorter
  <2>2. ~On(Sentinel, queues[2]) BY <1>8 DEF EarlyInv
  <2> QED BY <2>1, <2>2
<1> QED BY <1>5, <1>6, <1>7, <1>9 DEF WriteParts

\* A thread that initialises is the only one that does.
LEMMA OnlyOne ==
  ASSUME Single, NEW t \in Thread, pc[t] \in Init1
  PROVE  Halfway(t)
<1>1. Initialising(t) BY DEF Initialising, Init1
<1> QED BY <1>1 DEF Single, Fresh, Halfway, Ready

LEMMA SingleStep ==
  ASSUME Typed, PhaseInv, EarlyInv, Single, [Next]_vars, stop = "done", ~raced, After'
  PROVE  Single' /\ (Ready => Ready')
<1>1. queues \in Seq(Seq(Line)) BY DEF Typed, RecordType
<1>17. threads \in Seq([queue : Nat, on : BOOLEAN]) BY DEF Typed, NumberType
<1>2. pc \in [Thread -> Labels] /\ mine \in [Thread -> 0..Len(queues)]
  BY DEF Typed, ThreadType, NumberType
<1>3. ASSUME NEW t \in Thread, Logs(t) PROVE Single' /\ (Ready => Ready')
  <2>1. UNCHANGED <<logger, q, listener, handlers, mine, threads, queues>>
    BY <1>3 DEF Logs, Emit, AssertLogger, Log, Raise, globals
  <2>2. pc[t] \notin Init1 /\ \E l \in Labels \ Init1 : Goto(t, l)
    <3>1. CASE Emit(t)
      <4>1. pc[t] \notin Init1 BY <3>1 DEF Emit, At, Init1
      <4>2. Goto(t, "assert") \/ Goto(t, "init") BY <3>1 DEF Emit
      <4> QED BY <4>1, <4>2 DEF Labels, Emitting, Init1
    <3>2. CASE AssertLogger(t) \/ Log(t)
      <4>1. pc[t] \notin Init1 BY <3>2 DEF AssertLogger, Log, At, Init1
      <4>2. Goto(t, "log") \/ Goto(t, "put") \/ Goto(t, "out") BY <3>2 DEF AssertLogger, Log, Raise
      <4> QED BY <4>1, <4>2 DEF Labels, Emitting, Init1
    <3> QED BY <1>3, <3>1, <3>2 DEF Logs
  <2>3. PICK l \in Labels \ Init1 : Goto(t, l) BY <2>2
  <2>4. \A u \in Thread : pc'[u] = pc[u] \/ (pc[u] \notin Init1 /\ pc'[u] \notin Init1)
    BY <1>2, <2>2, <2>3 DEF Goto
  <2> QED BY <2>1, <2>4, SingleQuiet
<1>4. ASSUME NEW t \in Thread, Put(t) PROVE Single' /\ (Ready => Ready')
  <2>1. UNCHANGED <<logger, q, listener, handlers, mine, threads>> BY <1>4 DEF Put, globals
  <2>2. Len(queues') = Len(queues) BY <1>4, PutLines DEF PutsOn
  <2>3. \A u \in Thread : pc'[u] = pc[u] \/ (pc[u] \notin Init1 /\ pc'[u] \notin Init1)
    BY <1>2, <1>4 DEF Put, At, Returned, Goto, Init1
  <2> QED BY <2>1, <2>2, <2>3, SingleQuiet
<1>5. ASSUME NEW t \in Thread, InitLogging(t) PROVE Single' /\ (Ready => Ready')
  <2>1. UNCHANGED <<logger, q, listener, handlers, mine, threads, queues>> /\ pc[t] = "init"
    BY <1>5 DEF InitLogging, At, globals
  <2>2. \A u \in Thread : ~Initialising(u)
    <3>1. \A u \in Thread \ {t} : ~Initialising(u) BY <1>5 DEF InitLogging, After
    <3> QED BY <2>1, <3>1 DEF Initialising
  <2>3. CASE Fresh
    <3>1. Goto(t, "queue") BY <1>5, <2>3 DEF InitLogging, Fresh
    <3>2. pc'[t] = "queue" /\ \A u \in Thread : u # t => pc'[u] = pc[u] BY <1>2, <3>1 DEF Goto
    <3>3. Initialising(t)' /\ \A u \in Thread : Initialising(u)' => u = t
      BY <2>2, <3>2 DEF Initialising
    <3>4. Halfway(t)' BY <2>1, <2>3, <3>2, <3>3 DEF Halfway, Fresh
    <3> QED BY <2>3, <3>4 DEF Single, Fresh, Ready
  <2>4. CASE Ready
    <3>1. Goto(t, "assert") BY <1>5, <2>4 DEF InitLogging, Ready
    <3>2. \A u \in Thread : pc'[u] = pc[u] \/ (pc[u] \notin Init1 /\ pc'[u] \notin Init1)
      BY <1>2, <2>1, <3>1 DEF Goto, Init1
    <3> QED BY <2>1, <3>2, SingleQuiet
  <2> QED BY <2>2, <2>3, <2>4 DEF Single, Halfway
\* From one step of the initialisation to the next.
<1>6. ASSUME NEW t \in Thread, Halfway(t), NEW l \in Init1, Goto(t, l)
      PROVE  /\ pc'[t] = l /\ Initialising(t)' /\ \A u \in Thread : Initialising(u)' => u = t
  BY <1>2, <1>6 DEF Halfway, Goto, Initialising, Init1
<1>7. ASSUME NEW t \in Thread, NewQueue(t) PROVE Single' /\ ~Ready
  <2>1. Halfway(t) /\ pc[t] = "queue" BY <1>7, OnlyOne DEF NewQueue, At, Init1
  <2>2. pc'[t] = "handler" /\ Initialising(t)' /\ \A u \in Thread : Initialising(u)' => u = t
    BY <1>6, <1>7, <2>1 DEF NewQueue, Init1
  <2>3. Len(queues') = 2 /\ q' = 2
    <3>1. queues' = Append(queues, << >>) /\ q' = Len(queues') /\ Len(queues) = 1
      BY <1>7, <2>1 DEF NewQueue, Halfway
    <3>2. << >> \in Seq(Line) OBVIOUS
    <3>3. Len(queues') = Len(queues) + 1 BY <1>1, <3>1, <3>2, AppendProperties
    <3> QED BY <3>1, <3>3
  <2>4. UNCHANGED <<mine, listener, logger, handlers, threads>> BY <1>7 DEF NewQueue
  <2>5. Halfway(t)' BY <2>1, <2>2, <2>3, <2>4 DEF Halfway
  <2> QED BY <2>1, <2>5 DEF Single, Halfway, Ready
<1>8. ASSUME NEW t \in Thread, MakeHandler(t) PROVE Single' /\ ~Ready
  <2>1. Halfway(t) /\ pc[t] = "handler" BY <1>8, OnlyOne DEF MakeHandler, At, Init1
  <2>2. pc'[t] = "reset" /\ Initialising(t)' /\ \A u \in Thread : Initialising(u)' => u = t
    BY <1>6, <1>8, <2>1 DEF MakeHandler, Init1
  <2>3. UNCHANGED <<q, listener, logger, handlers, queues, threads>> /\ mine' = [mine EXCEPT ![t] = q]
    BY <1>8 DEF MakeHandler
  <2>4. mine'[t] = q BY <1>2, <2>3
  <2>5. Halfway(t)' BY <2>1, <2>2, <2>3, <2>4 DEF Halfway
  <2> QED BY <2>1, <2>5 DEF Single, Halfway, Ready
<1>9. ASSUME NEW t \in Thread, ResetHandlers(t) PROVE Single' /\ ~Ready
  <2>1. Halfway(t) /\ pc[t] = "reset" BY <1>9, OnlyOne DEF ResetHandlers, At, Init1
  <2>2. pc'[t] = "add" /\ Initialising(t)' /\ \A u \in Thread : Initialising(u)' => u = t
    BY <1>6, <1>9, <2>1 DEF ResetHandlers, Init1
  <2>3. UNCHANGED <<mine, q, listener, logger, queues, threads>> /\ handlers' = << >>
    BY <1>9 DEF ResetHandlers
  <2>4. Halfway(t)' BY <2>1, <2>2, <2>3 DEF Halfway
  <2> QED BY <2>1, <2>4 DEF Single, Halfway, Ready
<1>10. ASSUME NEW t \in Thread, AddHandler(t) PROVE Single' /\ ~Ready
  <2>1. Halfway(t) /\ pc[t] = "add" BY <1>10, OnlyOne DEF AddHandler, At, Init1
  <2>2. pc'[t] = "listen" /\ Initialising(t)' /\ \A u \in Thread : Initialising(u)' => u = t
    BY <1>6, <1>10, <2>1 DEF AddHandler, Init1
  <2>3. UNCHANGED <<mine, q, listener, logger, queues, threads>> /\ handlers' = Append(handlers, mine[t])
    BY <1>10 DEF AddHandler
  <2>4. handlers = << >> /\ mine[t] = 2 BY <2>1 DEF Halfway
  <2>5. handlers' = <<2>> BY <2>3, <2>4
  <2>6. Halfway(t)' BY <2>1, <2>2, <2>3, <2>5 DEF Halfway
  <2> QED BY <2>1, <2>6 DEF Single, Halfway, Ready
<1>11. ASSUME NEW t \in Thread, MakeListener(t) PROVE Single' /\ ~Ready
  <2>1. Halfway(t) /\ pc[t] = "listen" BY <1>11, OnlyOne DEF MakeListener, At, Init1
  <2>2. pc'[t] = "start" /\ Initialising(t)' /\ \A u \in Thread : Initialising(u)' => u = t
    BY <1>6, <1>11, <2>1 DEF MakeListener, Init1
  <2>3. UNCHANGED <<mine, q, logger, handlers, queues, threads>> /\ listener' = q
    BY <1>11 DEF MakeListener
  <2>4. Halfway(t)' BY <2>1, <2>2, <2>3 DEF Halfway
  <2> QED BY <2>1, <2>4 DEF Single, Halfway, Ready
<1>12. ASSUME NEW t \in Thread, StartListener(t) PROVE Single' /\ ~Ready
  <2>1. Halfway(t) /\ pc[t] = "start" BY <1>12, OnlyOne DEF StartListener, At, Init1
  <2>2. pc'[t] = "set" /\ Initialising(t)' /\ \A u \in Thread : Initialising(u)' => u = t
    BY <1>6, <1>12, <2>1 DEF StartListener, Init1
  <2>3. /\ UNCHANGED <<mine, q, listener, logger, handlers, queues>>
        /\ threads' = Append(threads, [queue |-> listener, on |-> TRUE])
    BY <1>12 DEF StartListener, globals
  <2>4. listener = 2 /\ Len(threads) = 1 BY <2>1 DEF Halfway
  <2> DEFINE new == [queue |-> 2, on |-> TRUE]
  <2>5. threads' = Append(threads, new) /\ new \in [queue : Nat, on : BOOLEAN] BY <2>3, <2>4
  <2> HIDE DEF new
  <2>6. Len(threads') = 2 /\ threads'[2] = new
    <3>1. Len(threads') = Len(threads) + 1 /\ threads'[Len(threads) + 1] = new
      BY <1>17, <2>5, AppendProperties
    <3> QED BY <2>4, <3>1
  <2>7. Halfway(t)' BY <2>1, <2>2, <2>3, <2>6 DEF Halfway, new
  <2> QED BY <2>1, <2>7 DEF Single, Halfway, Ready
<1>13. ASSUME NEW t \in Thread, SetLogger(t) PROVE Single' /\ Ready' /\ ~Ready
  <2>1. Halfway(t) /\ pc[t] = "set" BY <1>13, OnlyOne DEF SetLogger, At, Init1
  <2>2. UNCHANGED <<mine, q, listener, handlers, queues, threads>> /\ logger' = TRUE /\ Goto(t, "assert")
    BY <1>13 DEF SetLogger
  <2>3. \A u \in Thread : ~Initialising(u)' BY <1>2, <2>1, <2>2 DEF Halfway, Goto, Initialising
  <2>4. Ready' BY <2>1, <2>2, <2>3 DEF Halfway, Ready
  <2> QED BY <2>1, <2>4 DEF Single, Halfway, Ready
<1>14. ASSUME Shutdown PROVE FALSE
  BY <1>14 DEF Shutdown, StopListener, Join, ForgetListener, ForgetQueue, ForgetLogger
<1>15. ASSUME NEW n \in DOMAIN threads, Write(n) PROVE Single' /\ (Ready => Ready')
  <2>1. UNCHANGED <<logger, q, listener, handlers, mine, pc>> BY <1>15 DEF Write, globals
  <2>2. threads' = threads /\ Len(queues') = Len(queues) BY <1>15, WriterAfter DEF WriteParts
  <2> QED BY <2>1, <2>2, SingleQuiet
<1>16. ASSUME UNCHANGED vars PROVE Single' /\ (Ready => Ready')
  <2>1. UNCHANGED <<logger, q, listener, handlers, mine, threads, pc, queues>> BY <1>16 DEF vars, globals
  <2> QED BY <2>1, SingleQuiet
<1> QED BY <1>3, <1>4, <1>5, <1>7, <1>8, <1>9, <1>10, <1>11, <1>12, <1>13, <1>14, <1>15, <1>16
        DEF Next, Initialise, Logs

\* A record logged after the shutdown: once its thread has it on the queue, it stays there
\* until it is written.
LEMMA LateStays ==
  ASSUME Typed, PhaseInv, PassedInv, EarlyInv, LateInv, [Next]_vars, stop = "done", ~raced, After',
         NEW r \in late
  PROVE  LateOnce(r)'
<1>1. queues \in Seq(Seq(Line)) /\ DOMAIN queues = 1..Len(queues) /\ Len(queues) \in Nat
  BY DEF Typed, RecordType
<1>2. Single /\ raised \cap late = {} /\ LateOnce(r) BY LateParts DEF After
<1>3. r \in Record /\ r # Sentinel /\ r[1] \in Thread BY RecordParts DEF Typed, RecordType
<1>4. \A t \in Thread : Put(t) /\ r = Of(t) => written[r] = 0 /\ Nowhere(r) BY Unlogged DEF Put, At
<1>5. Ready => Ready' BY <1>2, SingleStep
<1>6. CASE written[r] = 1 /\ Nowhere(r)
  <2>1. \A t \in Thread : Put(t) => r # Of(t) BY <1>4, <1>6
  <2>2. written'[r] = written[r] /\ \A i \in DOMAIN queues' : ~On(r, queues'[i])
    BY <1>3, <1>6, <2>1, NowhereStays
  <2> QED BY <1>6, <2>2 DEF LateOnce, Nowhere, On
<1>7. CASE /\ written[r] = 0 /\ Ready /\ ~On(r, queues[1])
           /\ \E k \in DOMAIN queues[2] : OnceAt(r, queues[2], k)
  <2>1. PICK k \in DOMAIN queues[2] : OnceAt(r, queues[2], k) BY <1>7
  <2>2. Len(queues) = 2 /\ queues[2] \in Seq(Line) /\ 2 \in DOMAIN queues /\ 1 \in DOMAIN queues
    <3>1. Len(queues) = 2 BY <1>7 DEF Ready
    <3>2. 1 \in 1..Len(queues) /\ 2 \in 1..Len(queues) BY <3>1
    <3> QED BY <1>1, <3>1, <3>2, ElementOfSeq
  <2>3. On(r, queues[2]) BY <2>1 DEF On, OnceAt
  <2>4. \A t \in Thread : Put(t) => r # Of(t) BY <1>4, <2>2, <2>3 DEF Nowhere
  <2>5. Ready' /\ ~On(r, queues'[1])
    <3>1. DOMAIN queues \subseteq DOMAIN queues' BY <1>3, <2>4, QueueStep
    <3>2. On(r, queues'[1]) => On(r, queues[1]) BY <1>3, <2>2, <2>4, <3>1, QueueStep
    <3> QED BY <1>5, <1>7, <3>2
  <2>6. ASSUME written'[r] = 0, NEW m, OnceAt(r, queues'[2], m) PROVE LateOnce(r)'
    <3>1. m \in DOMAIN queues'[2] BY <2>6 DEF OnceAt
    <3> QED BY <2>5, <2>6, <3>1 DEF LateOnce, OnceAt, On
  <2>7. CASE \E n \in DOMAIN threads : Write(n)
    <3>1. WriteParts(2, 2) BY <1>2, <2>7, WriterAfter
    <3>2. queues[2] # << >> /\ queues'[2] = Tail(queues[2]) /\ queues'[1] = queues[1]
      BY <2>2, <3>1 DEF WriteParts
    <3> DEFINE h == Head(queues[2])
    <3>3. /\ queues' \in Seq(Seq(Line)) /\ Len(queues') = 2
          /\ h # Sentinel => written' = [written EXCEPT ![h] = @ + 1]
          /\ h = Sentinel => written' = written
      BY <2>2, <3>1 DEF WriteParts
    <3>4. CASE k = 1
      <4>1. r = h /\ ~On(r, Tail(queues[2])) BY <2>1, <2>2, <3>2, <3>4, Shorter
      <4>2. written' = [written EXCEPT ![r] = @ + 1] BY <1>3, <3>3, <4>1
      <4>3. written'[r] = 1 BY <1>3, <1>7, <4>2 DEF Typed, RecordType
      <4>4. \A i \in DOMAIN queues' : i \in {1, 2} BY <3>3
      <4>5. \A i \in DOMAIN queues' : ~On(r, queues'[i]) BY <1>7, <3>2, <4>1, <4>4
      <4> QED BY <4>3, <4>5 DEF LateOnce, Nowhere, On
    <3>5. CASE k # 1
      <4>1. r # h /\ OnceAt(r, Tail(queues[2]), k - 1) BY <2>1, <2>2, <3>2, <3>5, Shorter
      <4> HIDE DEF h
      <4>2. written'[r] = 0 BY <1>3, <1>7, <3>3, <4>1 DEF Typed, RecordType
      <4> QED BY <2>6, <3>2, <4>1, <4>2
    <3> QED BY <3>4, <3>5
  <2>8. CASE \E t \in Thread : Put(t)
    <3>1. PICK t \in Thread : Put(t) BY <2>8
    <3>2. PutsOn(t) /\ r # Of(t) /\ written' = written BY <2>4, <3>1, PutLines DEF Put
    <3>3. queues' \in Seq(Seq(Line)) /\ Len(queues') = 2 BY <2>2, <3>2 DEF PutsOn
    <3>4. queues'[2] \in Seq(Line)
      <4>1. 2 \in 1..Len(queues') BY <3>3
      <4> QED BY <3>3, <4>1, ElementOfSeq
    <3>5. Extends(queues[2], queues'[2], Of(t)) BY <2>2, <3>2 DEF PutsOn
    <3>6. OnceAt(r, queues'[2], k) BY <2>1, <2>2, <3>2, <3>4, <3>5, Longer
    <3> QED BY <1>7, <2>6, <3>2, <3>6
  <2>9. CASE \E t \in Thread : NewQueue(t)
    BY <1>7, <2>9 DEF NewQueue, At, Ready, Initialising
  <2>10. CASE StopListener BY <2>10 DEF StopListener
  <2>11. CASE queues' = queues /\ written' = written BY <1>7, <2>1, <2>6, <2>11
  <2> QED BY <2>7, <2>8, <2>9, <2>10, <2>11, SameQueues
<1>8. CASE written[r] = 0 /\ Nowhere(r) /\ (r[1] = "main" => ~Passed(r))
  <2>1. written'[r] = 0 BY <1>3, <1>8, NowhereStays
  <2>2. CASE \E t \in Thread : Put(t) /\ r = Of(t)
    <3>1. PICK t \in Thread : Put(t) /\ r = Of(t) BY <2>2
    <3>2. Ready BY <3>1, LateParts DEF Put, At, After
    <3>3. handlers = <<2>> /\ Len(queues) = 2 BY <3>2 DEF Ready
    <3>4. DOMAIN queues = {1, 2} /\ queues[2] \in Seq(Line) BY <1>1, <3>3
    <3>5. ~On(r, queues[1]) /\ ~On(r, queues[2]) BY <1>8, <3>4 DEF Nowhere
    <3>6. queues'[1] = queues[1] BY <3>1, <3>3, <3>4, PutOneLine
    <3>7. CASE Taken(t)
      <4>1. queues'[2] = Append(queues[2], r) BY <3>1, <3>3, <3>4, <3>7, PutOneLine
      <4> DEFINE k == Len(queues[2]) + 1
      <4>2. OnceAt(r, queues'[2], k) BY <1>3, <3>4, <3>5, <4>1, Appended DEF Line
      <4> HIDE DEF k
      <4>3. k \in DOMAIN queues'[2] BY <4>2 DEF OnceAt
      <4> QED BY <1>5, <2>1, <3>2, <3>5, <3>6, <4>2, <4>3 DEF LateOnce, OnceAt, On
    <3>8. CASE ~Taken(t)
      <4>1. r[1] # "main" BY <3>1, <3>8, OfThread DEF Taken, Typed
      <4>2. queues'[2] = queues[2] BY <3>1, <3>3, <3>4, <3>8, PutOneLine
      <4>3. DOMAIN queues' = {1, 2}
        <5>1. queues' \in Seq(Seq(Line)) /\ Len(queues') = 2 BY <3>1, <3>3, PutLines DEF PutsOn
        <5> QED BY <5>1
      <4> QED BY <2>1, <3>5, <3>6, <4>1, <4>2, <4>3 DEF LateOnce, Nowhere, On
    <3> QED BY <3>7, <3>8
  <2>3. CASE \A t \in Thread : Put(t) => r # Of(t)
    <3>1. \A i \in DOMAIN queues' : ~On(r, queues'[i]) BY <1>3, <1>8, <2>3, NowhereStays
    <3>2. r[1] = "main" => left'["main"] = left["main"]
      <4> SUFFICES ASSUME r[1] = "main", left'["main"] # left["main"] PROVE FALSE OBVIOUS
      <4>1. r = Of("main") /\ "main" \in Thread BY <1>3, <1>8 DEF PassedInv, LatePassed
      <4>2. Logs("main") /\ Raise("main") BY <2>3, <4>1, LeftStep
      <4>3. ~logger /\ pc["main"] \in {"assert", "log"} BY <4>1, <4>2, RaiseParts
      <4>4. Ready BY <4>1, <4>3, LateParts DEF After
      <4> QED BY <4>3, <4>4 DEF Ready
    <3>3. r[1] = "main" => ~(r[2] > left'[r[1]]) BY <1>8, <3>2 DEF Passed
    <3> QED BY <2>1, <3>1, <3>3 DEF LateOnce, Nowhere, On, Passed
  <2> QED BY <2>2, <2>3
<1> QED BY <1>2, <1>6, <1>7, <1>8 DEF LateOnce

LEMMA LateStep ==
  ASSUME Typed, PhaseInv, PassedInv, EarlyInv, LateInv, [Next]_vars
  PROVE  LateInv'
<1> SUFFICES ASSUME After'
             PROVE  /\ Single' /\ raised' \cap late' = {} /\ \A r \in late' : LateOnce(r)'
                    /\ \A t \in Thread : pc'[t] \in {"assert", "log", "put"} /\ <<t, left'[t]>> \in late'
                                           => Ready'
  BY DEF LateInv, After, LateOnce, Nowhere, On, OnceAt, Of, Passed
<1>1. CASE stop # "done"
  <2>1. ForgetLogger
    <3>1. ASSUME NEW t \in Thread, Logs(t) \/ Put(t) \/ Initialise(t) PROVE stop' = stop
      BY <3>1 DEF Logs, Emit, AssertLogger, Log, Raise, Put, Initialise, InitLogging, NewQueue,
                MakeHandler, ResetHandlers, AddHandler, MakeListener, StartListener, SetLogger
    <3>2. ASSUME Shutdown, ~ForgetLogger PROVE stop' # "done"
      BY <3>2 DEF Shutdown, StopListener, Join, ForgetListener, ForgetQueue
    <3>3. ASSUME (\E n \in DOMAIN threads : Write(n)) \/ UNCHANGED vars PROVE stop' = stop
      BY <3>3 DEF Write, vars
    <3> QED BY <1>1, <3>1, <3>2, <3>3 DEF Next, Logs, After
  <2>2. /\ UNCHANGED <<pc, q, listener, handlers, queues, threads, late, raised>>
        /\ logger' = FALSE /\ stop = "logger"
    BY <2>1 DEF ForgetLogger, history
  <2>3. late' = {} BY <2>2 DEF PhaseInv
  <2>4. Fresh' BY <2>2 DEF PhaseInv, Fresh, Initialising, Emitting
  <2> QED BY <2>3, <2>4 DEF Single
<1>2. CASE stop = "done"
  <2>1. ~raced
    <3>1. ASSUME NEW t \in Thread, Logs(t) \/ Put(t) PROVE raced' = raced
      BY <3>1 DEF Logs, Emit, AssertLogger, Log, Raise, Put, history
    <3>2. ASSUME NEW t \in Thread, Initialise(t) PROVE raced => raced'
      BY <3>2 DEF Initialise, InitLogging, NewQueue, MakeHandler, ResetHandlers, AddHandler,
                  MakeListener, StartListener, SetLogger, history
    <3>3. ASSUME Shutdown \/ (\E n \in DOMAIN threads : Write(n)) \/ UNCHANGED vars PROVE raced' = raced
      BY <3>3 DEF Shutdown, StopListener, Join, ForgetListener, ForgetQueue, ForgetLogger, Write,
                  vars, history
    <3> QED BY <3>1, <3>2, <3>3 DEF Next, Logs, After
  <2>2. /\ Single /\ raised \cap late = {}
        /\ \A t \in Thread : pc[t] \in {"assert", "log", "put"} /\ Of(t) \in late => Ready
    BY <1>2, <2>1, LateParts DEF After
  <2>3. Single' /\ (Ready => Ready') BY <1>2, <2>1, <2>2, SingleStep
  <2>4. logger => Ready BY <2>2 DEF Single, Fresh, Halfway
  <2>5. pc \in [Thread -> Labels] BY DEF Typed, ThreadType
  <2>6. ASSUME NEW t \in Thread, Logs(t), Raise(t) PROVE Of(t) \notin late
    BY <2>2, <2>6, RaiseParts DEF Ready
  \* One more record is late when its thread begins to log it.
  <2>7. ASSUME NEW r \in late', r \notin late
        PROVE  \E t \in Thread : Emit(t) /\ r = Of(t)
    <3>1. ASSUME NEW t \in Thread, Emit(t) PROVE r = Of(t) BY <2>7, <3>1 DEF Emit
    <3>2. ASSUME NEW t \in Thread, Put(t) \/ AssertLogger(t) \/ Log(t) PROVE late' = late
      BY <3>2 DEF Put, AssertLogger, Log, Raise, history
    <3>3. ASSUME NEW t \in Thread, Initialise(t) PROVE late' = late
      BY <3>3 DEF Initialise, InitLogging, NewQueue, MakeHandler, ResetHandlers, AddHandler,
                MakeListener, StartListener, SetLogger, history
    <3>4. ASSUME Shutdown \/ (\E n \in DOMAIN threads : Write(n)) \/ UNCHANGED vars PROVE late' = late
      BY <3>4 DEF Shutdown, StopListener, Join, ForgetListener, ForgetQueue, ForgetLogger, Write,
                vars, history
    <3> QED BY <2>7, <3>1, <3>2, <3>3, <3>4 DEF Next
  <2>8. raised' \cap late' = {}
    <3> SUFFICES ASSUME NEW r \in raised', r \in late' PROVE FALSE OBVIOUS
    <3>1. CASE r \notin late
      <4>1. PICK t \in Thread : Emit(t) /\ r = Of(t) BY <2>7, <3>1
      <4>2. raised' = raised BY <4>1 DEF Emit
      <4> QED BY <4>1, <4>2, Unlogged DEF Emit
    <3>2. CASE r \in late
      <4>1. r \notin raised BY <2>2, <3>2
      <4>2. ASSUME NEW t \in Thread, Logs(t), Raise(t) PROVE FALSE
        BY <2>6, <3>2, <4>1, <4>2 DEF Raise
      <4>3. ASSUME NEW t \in Thread, Logs(t), ~Raise(t) PROVE raised' = raised
        BY <4>3 DEF Logs, Emit, AssertLogger, Log, history
      <4>4. ASSUME NEW t \in Thread, Put(t) \/ Initialise(t) PROVE raised' = raised
        BY <4>4 DEF Put, Initialise, InitLogging, NewQueue, MakeHandler, ResetHandlers, AddHandler,
                MakeListener, StartListener, SetLogger, history
      <4>5. ASSUME Shutdown \/ (\E n \in DOMAIN threads : Write(n)) \/ UNCHANGED vars PROVE raised' = raised
        BY <4>5 DEF Shutdown, StopListener, Join, ForgetListener, ForgetQueue, ForgetLogger, Write,
                vars, history
      <4> QED BY <4>1, <4>2, <4>3, <4>4, <4>5 DEF Next, Logs
    <3> QED BY <3>1, <3>2
  <2>9. ASSUME NEW r \in late' PROVE LateOnce(r)'
    <3>1. CASE r \in late BY <1>2, <2>1, <3>1, LateStays
    <3>2. CASE r \notin late
      <4>1. PICK t \in Thread : Emit(t) /\ r = Of(t) BY <2>7, <2>9, <3>2
      <4>2. written[r] = 0 /\ Nowhere(r) /\ ~Passed(r) BY <4>1, Unlogged DEF Emit
      <4>3. UNCHANGED <<written, queues, left>> BY <4>1 DEF Emit
      <4> QED BY <4>2, <4>3 DEF LateOnce, Nowhere, On, Passed
    <3> QED BY <3>1, <3>2
  <2>10. ASSUME NEW t \in Thread, pc'[t] \in {"assert", "log", "put"}, <<t, left'[t]>> \in late'
         PROVE  Ready'
    <3>1. CASE pc'[t] = pc[t] /\ left'[t] = left[t]
      <4>1. <<t, left[t]>> = Of(t) BY DEF Of
      <4>2. CASE Of(t) \in late BY <2>2, <2>3, <2>10, <3>1, <4>2
      <4>3. CASE Of(t) \notin late
        <5>1. PICK u \in Thread : Emit(u) /\ Of(t) = Of(u) BY <2>7, <2>10, <3>1, <4>1, <4>3
        <5>2. u = t BY <5>1, OfThread DEF Typed
        <5>3. pc[t] = "out" BY <5>1, <5>2 DEF Emit, At
        <5> QED BY <2>10, <3>1, <5>3
      <4> QED BY <4>2, <4>3
    <3>2. ASSUME NEW u \in Thread, Emit(u) PROVE Ready'
      <4>1. left' = left BY <3>2 DEF Emit
      <4>2. CASE u # t
        <5>1. pc'[t] = pc[t] BY <2>5, <3>2, <4>2 DEF Emit, Goto
        <5> QED BY <3>1, <4>1, <5>1
      <4>3. CASE u = t
        <5>1. logger BY <2>5, <2>10, <3>2, <4>3 DEF Emit, Goto
        <5> QED BY <2>3, <2>4, <5>1
      <4> QED BY <4>2, <4>3
    <3>3. ASSUME NEW u \in Thread, AssertLogger(u) \/ Log(u) PROVE Ready'
      <4>1. CASE u # t
        <5>1. pc'[t] = pc[t] BY <2>5, <3>3, <4>1 DEF AssertLogger, Log, Raise, Goto
        <5>2. left'[t] = left[t]
          <6>1. ASSUME left'[t] # left[t] PROVE Put(t) \/ (Logs(t) /\ Raise(t)) BY <6>1, LeftStep
          <6>2. pc[t] = "put" /\ pc'[t] = "out" => FALSE BY <2>10, <5>1
          <6>3. Put(t) => FALSE BY <2>5, <6>2 DEF Put, At, Returned, Goto
          <6>4. Raise(t) => FALSE BY <2>5, <2>10 DEF Raise, Goto
          <6> QED BY <6>1, <6>3, <6>4
        <5> QED BY <3>1, <5>1, <5>2
      <4>2. CASE u = t
        <5>1. ~Raise(t) BY <2>5, <2>10 DEF Raise, Goto
        <5>2. logger BY <3>3, <4>2, <5>1 DEF AssertLogger, Log
        <5> QED BY <2>3, <2>4, <5>2
      <4> QED BY <4>1, <4>2
    <3>4. ASSUME NEW u \in Thread, Put(u) PROVE Ready'
      <4>1. u # t BY <2>5, <2>10, <3>4 DEF Put, Returned, Goto
      <4>2. pc'[t] = pc[t] /\ left'[t] = left[t]
        BY <2>5, <3>4, <4>1 DEF Put, Returned, Goto, Typed, ThreadType
      <4> QED BY <3>1, <4>2
    <3>5. ASSUME NEW u \in Thread, Initialise(u) PROVE Ready'
      <4>1. left' = left
        BY <3>5 DEF Initialise, InitLogging, NewQueue, MakeHandler, ResetHandlers, AddHandler,
                MakeListener, StartListener, SetLogger
      <4>2. CASE u # t
        <5>1. pc'[t] = pc[t]
          BY <2>5, <3>5, <4>2 DEF Initialise, InitLogging, NewQueue, MakeHandler, ResetHandlers,
                AddHandler, MakeListener, StartListener, SetLogger, Goto
        <5> QED BY <3>1, <4>1, <5>1
      <4>3. CASE u = t /\ InitLogging(t)
        <5>1. listener # 0 BY <2>5, <2>10, <4>3 DEF InitLogging, Goto
        <5>2. \A w \in Thread : ~Initialising(w)
          <6>1. \A w \in Thread \ {t} : ~Initialising(w) BY <4>3 DEF InitLogging, After
          <6>2. ~Initialising(t) BY <4>3 DEF InitLogging, At, Initialising
          <6> QED BY <6>1, <6>2
        <5>3. Ready BY <2>2, <5>1, <5>2 DEF Single, Fresh, Halfway
        <5> QED BY <2>3, <5>3
      <4>4. CASE u = t /\ SetLogger(t)
        <5>1. logger' = TRUE BY <4>4 DEF SetLogger
        <5> QED BY <2>3, <5>1 DEF Single, Fresh, Halfway
      <4>5. CASE u = t /\ ~InitLogging(t) /\ ~SetLogger(t)
        <5>1. pc'[t] \in Init1
          BY <2>5, <3>5, <4>5 DEF Initialise, NewQueue, MakeHandler, ResetHandlers, AddHandler,
                MakeListener, StartListener, Goto, Init1
        <5> QED BY <2>10, <5>1 DEF Init1
      <4> QED BY <4>2, <4>3, <4>4, <4>5
    <3>6. ASSUME Shutdown PROVE FALSE
      BY <1>2, <3>6 DEF Shutdown, StopListener, Join, ForgetListener, ForgetQueue, ForgetLogger
    <3>7. ASSUME (\E n \in DOMAIN threads : Write(n)) \/ UNCHANGED vars PROVE pc' = pc /\ left' = left
      BY <3>7 DEF Write, vars
    <3> QED BY <3>1, <3>2, <3>3, <3>4, <3>5, <3>6, <3>7 DEF Next
  <2> QED BY <2>3, <2>8, <2>9, <2>10
<1> QED BY <1>1, <1>2

-----------------------------------------------------------------------------
(* The theorems                                                            *)

LEMMA InitInv == Init => IInv
<1> SUFFICES ASSUME Init PROVE IInv OBVIOUS
<1>1. queues = << << >> >> /\ handlers = <<1>> /\ Len(queues) = 1 /\ DOMAIN queues = {1}
      /\ queues[1] = << >> /\ DOMAIN handlers = {1} /\ handlers[1] = 1
  BY DEF Init
<1> DEFINE first == [queue |-> 1, on |-> TRUE]
<1>2. threads = <<first>> /\ first \in [queue : Nat, on : BOOLEAN] /\ first.queue = 1 /\ first.on
  BY DEF Init
<1> HIDE DEF first
<1>3. /\ threads \in Seq([queue : Nat, on : BOOLEAN]) /\ Len(threads) = 1 /\ DOMAIN threads = {1}
      /\ threads[1] = first
  BY <1>2
<1>4. NumberType
  <2>1. handlers \in Seq(Nat) BY <1>1
  <2>2. mine \in [Thread -> 0..1] /\ q \in 0..1 /\ listener \in 0..1 BY DEF Init
  <2> QED BY <1>1, <1>2, <1>3, <2>1, <2>2 DEF NumberType
<1>5. ThreadType
  <2>1. pc = [t \in Thread |-> "out"] /\ left = Records /\ Records \in [Thread -> Nat]
    BY LogAssumption DEF Init
  <2> QED BY <2>1 DEF ThreadType, Labels, Emitting
<1>6. FlagType BY DEF Init, FlagType, Stops
<1>7. RecordType
  <2>1. queues \in Seq(Seq(Line)) BY <1>1
  <2>2. written \in [Record -> Nat] BY DEF Init
  <2> QED BY <2>1, <2>2 DEF Init, RecordType
<1>8. PhaseInv
  <2>1. \A t \in Thread : pc[t] = "out" BY DEF Init
  <2>2. /\ logger = TRUE /\ raced = FALSE /\ late = {} /\ stop = "before" /\ q = 1 /\ listener = 1
    BY DEF Init
  <2> QED BY <1>1, <1>2, <1>3, <2>1, <2>2 DEF PhaseInv, Emitting, Init1
<1>9. PassedInv
  <2>1. \A r : ~On(r, queues[1]) BY <1>1 DEF On
  <2>2. QueuedPassed BY <1>1, <2>1 DEF QueuedPassed
  <2>3. \A r \in Record : written[r] = 0 BY DEF Init
  <2>4. early = {} /\ late = {} /\ raised = {} BY DEF Init
  <2> QED BY <2>2, <2>3, <2>4 DEF PassedInv, WrittenPassed, DonePassed, LatePassed
<1>10. EarlyInv
  <2>1. \A r : ~On(r, queues[1]) BY <1>1 DEF On
  <2> QED BY <1>1, <2>1 DEF Init, EarlyInv
<1>11. LateInv BY DEF Init, LateInv
<1> QED BY <1>4, <1>5, <1>6, <1>7, <1>8, <1>9, <1>10, <1>11 DEF IInv, Typed

LEMMA Invariance == Spec => []IInv
<1>1. IInv /\ [Next]_vars => IInv' BY TypedStep, PhaseStep, PassedStep, EarlyStep, LateStep DEF IInv
<1> QED BY InitInv, <1>1, PTL DEF Spec

LEMMA TypeParts == Typed => TypeOK
<1> SUFFICES ASSUME Typed PROVE TypeOK OBVIOUS
<1>1. pc \in [Thread -> Labels] /\ \A t \in Thread : left[t] \in 0..Records[t]
  BY LogAssumption DEF Typed, ThreadType
<1>2. {q, listener} \cup ToSet(handlers) \cup {mine[t] : t \in Thread} \subseteq 0..Len(queues)
  BY DEF Typed, NumberType, ToSet
<1>3. {logger, verbose, raced} \subseteq BOOLEAN /\ stop \in Stops BY DEF Typed, FlagType
<1>4. \A i \in DOMAIN queues : ToSet(queues[i]) \subseteq Record \cup {Sentinel}
  <2> TAKE i \in DOMAIN queues
  <2>1. queues[i] \in Seq(Line) BY DEF Typed, RecordType
  <2>2. \A j \in DOMAIN queues[i] : queues[i][j] \in Line BY <2>1
  <2> QED BY <2>2 DEF ToSet, Line
<1>5. \A n \in DOMAIN threads : threads[n].queue \in DOMAIN queues /\ threads[n].on \in BOOLEAN
  <2> TAKE n \in DOMAIN threads
  <2>1. threads \in Seq([queue : Nat, on : BOOLEAN]) BY DEF Typed, NumberType
  <2>2. n \in 1..Len(threads) BY <2>1
  <2>3. threads[n] \in [queue : Nat, on : BOOLEAN] BY <2>1, <2>2, ElementOfSeq
  <2> QED BY <2>3 DEF Typed, NumberType
<1>6. written \in [Record -> Nat] /\ early \cup late \cup raised \subseteq Record
  BY DEF Typed, RecordType
<1> QED BY <1>1, <1>2, <1>3, <1>4, <1>5, <1>6
        DEF TypeOK, Labels, Emitting, Init1, Stops

\* Every variable of the log queue keeps its type, however many threads log and initialise.
THEOREM TypeCorrect == Spec => []TypeOK
BY Invariance, TypeParts, PTL DEF IInv

\* shutdown_logging() loses nothing that was on the queue before it was called, and the
\* listener writes none of it twice, whoever logs meanwhile.
THEOREM FlushedAtStop == Spec => []Flushed
<1>1. IInv => Flushed
  <2> SUFFICES ASSUME IInv PROVE Flushed OBVIOUS
  <2>1. \A r \in early : EarlyOnce(r) BY EarlyParts DEF IInv
  <2>2. \A r \in early : written[r] <= 1 BY <2>1 DEF EarlyOnce
  <2>3. ASSUME stop = "done", NEW r \in early PROVE written[r] = 1
    <3>1. ~threads[1].on BY <2>3 DEF IInv, PhaseInv
    <3> QED BY <2>1, <3>1 DEF EarlyOnce
  <2> QED BY <2>2, <2>3 DEF Flushed
<1> QED BY Invariance, <1>1, PTL

LEMMA ReadyInUse ==
  ASSUME Typed, PhaseInv, Ready, stop = "done"
  PROVE  {n \in DOMAIN threads : InUse(n)} = {2} /\ Contains(handlers, 2)
<1>1. threads \in Seq([queue : Nat, on : BOOLEAN]) /\ Len(threads) = 2 BY DEF Typed, NumberType, Ready
<1>2. DOMAIN threads = {1, 2} BY <1>1
<1>3. handlers = <<2>> /\ DOMAIN handlers = {1} BY DEF Ready
<1>4. threads[2].queue = 2 /\ threads[2].on BY DEF Ready
<1>5. Contains(handlers, 2) BY <1>3 DEF Contains
<1>6. InUse(2) BY <1>4, <1>5 DEF InUse
<1>7. ~InUse(1) BY DEF PhaseInv, InUse
<1> QED BY <1>2, <1>5, <1>6, <1>7

\* What is logged after the shutdown finds or makes one working queue and listener, and is
\* written once or waits to be, if no two threads initialise at the same time.
THEOREM ReinitialisedAfterStop == Spec => []Reinitialised
<1>1. IInv => Reinitialised
  <2> SUFFICES ASSUME IInv, stop = "done", ~raced PROVE Reinitialised BY DEF Reinitialised
  <2>1. Typed /\ PhaseInv BY DEF IInv
  <2>2. Single /\ raised \cap late = {} /\ \A r \in late : LateOnce(r)
    BY LateParts DEF IInv, After
  <2>3. \A r \in late : written[r] <= 1 BY <2>2 DEF LateOnce
  <2>4. ASSUME logger
        PROVE  /\ handlers = <<q>> /\ listener = q
               /\ Cardinality({n \in DOMAIN threads : InUse(n)}) = 1
    <3>1. Ready BY <2>2, <2>4 DEF Single, Fresh, Halfway
    <3>2. Cardinality({n \in DOMAIN threads : InUse(n)}) = 1 BY <2>1, <3>1, ReadyInUse, FS_Singleton
    <3> QED BY <3>1, <3>2 DEF Ready
  <2>5. ASSUME NEW r \in late, r[1] = "main", r[2] > left["main"]
        PROVE  \/ written[r] = 1
               \/ \E n \in DOMAIN threads : InUse(n) /\ Contains(queues[threads[n].queue], r)
    <3>1. Passed(r) BY <2>5 DEF Passed
    <3>2. CASE written[r] = 1 BY <3>2
    <3>3. CASE Ready /\ \E k \in DOMAIN queues[2] : OnceAt(r, queues[2], k)
      <4>1. 2 \in {n \in DOMAIN threads : InUse(n)} BY <2>1, <3>3, ReadyInUse
      <4>2. threads[2].queue = 2 BY <3>3 DEF Ready
      <4>3. Contains(queues[2], r) BY <3>3 DEF Contains, OnceAt
      <4> QED BY <4>1, <4>2, <4>3
    <3> QED BY <2>2, <2>5, <3>1, <3>2, <3>3 DEF LateOnce
  <2> QED BY <2>2, <2>3, <2>4, <2>5 DEF Reinitialised
<1> QED BY Invariance, <1>1, PTL
=============================================================================
