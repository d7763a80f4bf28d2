------------------------- MODULE RedisPromiseProofs -------------------------
(***************************************************************************)
(* What RedisQueue promises beyond forgetting nothing: the resume key and  *)
(* the processing stream agree, the end of a level is declared only when   *)
(* its processing is over, nothing is written twice without a reason, and  *)
(* queue() as a whole implements LevelTransfer.                            *)
(***************************************************************************)
EXTENDS RedisQueueProofs

\* The producer keys' values are told apart.
LEMMA FourDiffer ==
    ASSUME NEW a, NEW b, NEW c, NEW d, Cardinality({a, b, c, d}) = 4
    PROVE  a # b /\ a # c /\ a # d /\ b # c /\ b # d /\ c # d
<1>1. ASSUME NEW x, NEW y, NEW z
      PROVE  Cardinality({x, y, z}) # 4
  <2>1. IsFiniteSet({x}) /\ Cardinality({x}) = 1
    BY FS_Singleton
  <2>2. /\ IsFiniteSet({x} \cup {y})
        /\ Cardinality({x} \cup {y}) \in {1, 2}
    BY <2>1, FS_AddElement
  <2>3. Cardinality(({x} \cup {y}) \cup {z}) \in {1, 2, 3}
    <3>. DEFINE S == {x} \cup {y}
    <3>1. IsFiniteSet(S) /\ Cardinality(S) \in {1, 2}
      BY <2>2
    <3>. HIDE DEF S
    <3>2. Cardinality(S \cup {z}) = IF z \in S THEN Cardinality(S) ELSE Cardinality(S) + 1
      BY <3>1, FS_AddElement
    <3>3. Cardinality(S \cup {z}) \in {1, 2, 3}
      BY <3>1, <3>2
    <3>. QED
      BY <3>3 DEF S
  <2>4. ({x} \cup {y}) \cup {z} = {x, y, z}
    OBVIOUS
  <2>. QED
    BY <2>3, <2>4
<1>2. a = b => {a, b, c, d} = {a, c, d}
  OBVIOUS
<1>3. a = c => {a, b, c, d} = {a, b, d}
  OBVIOUS
<1>4. a = d \/ b = d \/ c = d => {a, b, c, d} = {a, b, c}
  OBVIOUS
<1>5. b = c => {a, b, c, d} = {a, b, d}
  OBVIOUS
<1>. QED
  BY <1>1, <1>2, <1>3, <1>4, <1>5

LEMMA KeysDiffer ==
    /\ NoKey # INITIALIZING /\ NoKey # JOB_ENDED /\ NoKey # Payload
    /\ INITIALIZING # JOB_ENDED /\ INITIALIZING # Payload /\ JOB_ENDED # Payload
    /\ NoKey \notin Msgs /\ INITIALIZING \notin Msgs /\ JOB_ENDED \notin Msgs
<1>1. \A m \in Msgs : m \in Nat
  BY DEF Msgs
<1>2. NoKey \notin Nat /\ INITIALIZING \notin Nat /\ JOB_ENDED \notin Nat
  BY ConstantsAssumption
<1>3. Cardinality({NoKey, INITIALIZING, JOB_ENDED, Payload}) = 4
  BY ConstantsAssumption
<1>. QED
  BY <1>1, <1>2, <1>3, FourDiffer
-----------------------------------------------------------------------------
(* The resume key and the processing stream *)

\* How much of the input the resume key says is enqueued.
Count == IF lastMessage \in Msgs THEN lastMessage
         ELSE IF lastMessage = JOB_ENDED THEN N ELSE 0

\* The enqueuer goes on where the key says, and closes before any check.
FeedOK ==
    /\ main = "down" => feed = "open"
    /\ main = "run" /\ feed = "open" => next = Count + 1
    /\ main \in {"checkProcess", "checkInsert", "confirm", "clear", "aborted"}
            => feed = "closed"
    /\ main # "returned" /\ feed = "closed" => lastMessage = JOB_ENDED
    /\ main \notin {"down", "returned"} => lastMessage # NoKey

PrefixInv == FeedOK /\ EnqueuedPrefix

LEMMA CountFacts ==
    ASSUME TypeOK
    PROVE  /\ Count \in 0 .. N
           /\ N \in Nat
           /\ lastMessage = JOB_ENDED => Count = N
           /\ lastMessage \in Msgs => Count = lastMessage
           /\ lastMessage \in {NoKey, INITIALIZING} => Count = 0
BY KeysDiffer, ConstantsAssumption DEF TypeOK, Count, Msgs

LEMMA PrefixMeans ==
    EnqueuedPrefix <=>
        (main # "returned" => streams["process"].log = [i \in 1 .. Count |-> i])
BY DEF EnqueuedPrefix, Count

\* The steps that leave the streams alone.
LEMMA SameStreams ==
    ASSUME \/ Queue \/ CloseEnqueuer \/ AwaitAll \/ CheckProcess \/ CheckInsert
           \/ Healthcheck \/ ConfirmRestart \/ DeclineRestart \/ Quit \/ Crash
           \/ \E w \in AllWorkers : LoseConnection(w)
           \/ Finished
           \/ \E h \in Handlers :
                \/ OnMessage(h)
                \/ ReceiveInit(h) \/ Connect(h) \/ LoadContext(h)
                \/ ReadPending(h) \/ ReadNothing(h) \/ Insert(h)
                \/ CheckProducer(h) \/ CheckLag(h) \/ EndJob(h)
                \/ CommandError(h) \/ Exit(h)
    PROVE  streams' = streams
<1>1. ASSUME NEW h \in Handlers, OnMessage(h)
      PROVE  streams' = streams
  BY <1>1 DEF OnMessage, Die, redis
<1>2. ASSUME NEW h \in Handlers,
             \/ ReceiveInit(h) \/ Connect(h) \/ LoadContext(h)
             \/ ReadPending(h) \/ ReadNothing(h) \/ Insert(h)
             \/ CheckProducer(h) \/ CheckLag(h) \/ EndJob(h)
             \/ CommandError(h) \/ Exit(h)
      PROVE  streams' = streams
  BY <1>2 DEF ReceiveInit, Connect, LoadContext, Die, ReadPending, ReadNothing,
              Insert, CheckProducer, CheckLag, EndJob, CommandError, Exit, redis
<1>3. ASSUME \/ Queue \/ CloseEnqueuer \/ AwaitAll \/ CheckProcess \/ CheckInsert
             \/ Healthcheck \/ ConfirmRestart \/ DeclineRestart \/ Quit \/ Crash
             \/ \E w \in AllWorkers : LoseConnection(w)
             \/ Finished
      PROVE  streams' = streams
  BY <1>3 DEF Queue, CloseEnqueuer, AwaitAll, CheckProcess, CheckInsert, Healthcheck,
              ConfirmRestart, DeclineRestart, Quit, Crash, LoseConnection, Finished,
              Die, redis, vars
<1>. QED
  BY <1>1, <1>2, <1>3

\* Only the enqueuer adds to the processing stream.
LEMMA ProcessLog ==
    ASSUME IInv, main # "returned", Next, ~EnqueueBatch, ~ClearPersisted
    PROVE  streams'["process"].log = streams["process"].log
<1>1. CASE \E h \in Handlers : AutoClaim(h) \/ ReadNew(h) \/ Acknowledge(h)
  <2>1. PICK h \in Handlers : AutoClaim(h) \/ ReadNew(h) \/ Acknowledge(h)
    BY <1>1
  <2>2. /\ Source(h) \in Streams /\ WorkerOf(h) \in AllWorkers
        /\ streams \in [Streams -> Stream(Msgs, AllWorkers)]
        /\ streams[Source(h)] \in Stream(Msgs, AllWorkers)
        /\ batch[h] \in Seq(Nat)
    BY HandlerFacts DEF IInv, TypeOK
  <2>3. CASE AutoClaim(h)
    <3>1. PICK ids \in SUBSET Pending(streams[Source(h)]) :
            streams' = [streams EXCEPT ![Source(h)] =
                            Claim(streams[Source(h)], WorkerOf(h), ids)]
      BY <2>3 DEF AutoClaim
    <3>2. ids \in SUBSET Nat
      BY <3>1, ReadableType DEF IInv
    <3>3. Claim(streams[Source(h)], WorkerOf(h), ids).log = streams[Source(h)].log
      BY <2>2, <3>2, GroupFacts
    <3>. QED
      BY <2>2, <3>1, <3>3 DEF Streams
  <2>4. CASE ReadNew(h)
    <3>1. PICK ids \in Oldest(Undelivered(streams[Source(h)]), ReadCount) :
            streams' = [streams EXCEPT ![Source(h)] =
                            Deliver(streams[Source(h)], WorkerOf(h), ids)]
      BY <2>4 DEF ReadNew
    <3>2. ids \in Seq(Nat)
      BY <3>1, OldestType, ReadableType, ConstantsAssumption DEF ReadCount, IInv
    <3>3. Deliver(streams[Source(h)], WorkerOf(h), ids).log = streams[Source(h)].log
      BY <2>2, <3>2, GroupFacts
    <3>. QED
      BY <2>2, <3>1, <3>3 DEF Streams
  <2>5. CASE Acknowledge(h)
    <3>1. streams' = [streams EXCEPT ![Source(h)] =
                            XAck(streams[Source(h)], batch[h])]
      BY <2>5 DEF Acknowledge
    <3>2. XAck(streams[Source(h)], batch[h]).log = streams[Source(h)].log
      BY <2>2, GroupFacts
    <3>. QED
      BY <2>2, <3>1, <3>2 DEF Streams
  <2>. QED
    BY <2>1, <2>3, <2>4, <2>5
<1>2. CASE \E h \in Handlers : Push(h)
  BY <1>2 DEF Push, Forwarded, IInv, TypeOK, Streams
<1>3. CASE \E h \in Handlers : Fail(h)
  <2>1. PICK h \in Handlers : Fail(h)
    BY <1>3
  <2>2. /\ Source(h) \in Streams /\ DlqOf(WorkerOf(h)) \in Streams \ {"process"}
        /\ WorkerOf(h) \in AllWorkers
        /\ streams \in [Streams -> Stream(Msgs, AllWorkers)]
        /\ streams[Source(h)] \in Stream(Msgs, AllWorkers)
        /\ batch[h] \in Seq(Nat)
    BY HandlerFacts DEF IInv, TypeOK, DlqOf
  <2>. DEFINE acked == [streams EXCEPT ![Source(h)] = XAck(streams[Source(h)], batch[h])]
  <2>3. acked["process"].log = streams["process"].log
    BY <2>2, GroupFacts DEF Streams
  <2>4. \/ streams' = acked
        \/ streams' = [acked EXCEPT ![DlqOf(WorkerOf(h))] =
                            XAdd(acked[DlqOf(WorkerOf(h))], BatchMsgs(h))]
    BY <2>1 DEF Fail, DeadLettered
  <2>5. DOMAIN acked = Streams
    BY <2>2
  <2>. HIDE DEF acked
  <2>6. streams'["process"] = acked["process"]
    <3>1. "process" # DlqOf(WorkerOf(h)) /\ "process" \in DOMAIN acked
      BY <2>2, <2>5 DEF Streams
    <3>. QED
      BY <2>4, <3>1
  <2>. QED
    BY <2>3, <2>6
<1>4. CASE streams' = streams
  BY <1>4
<1>. QED
  BY <1>1, <1>2, <1>3, <1>4, SameStreams, Zenon DEF Next, MainStep, HandlerStep

LEMMA Continued ==
    ASSUME NEW p \in Nat, NEW q \in Nat, p <= q
    PROVE  [i \in 1 .. p |-> i] \o [i \in 1 .. q - p |-> p + i] = [i \in 1 .. q |-> i]
<1>. DEFINE a == [i \in 1 .. p |-> i]
            n == q - p
            b == [i \in 1 .. n |-> p + i]
<1>1. n \in Nat /\ p + n = q
  OBVIOUS
<1>. HIDE DEF n
<1>2. a \in Seq(Nat) /\ Len(a) = p /\ \A i \in 1 .. p : a[i] = i
  OBVIOUS
<1>3. b \in Seq(Nat) /\ Len(b) = n /\ \A i \in 1 .. n : b[i] = p + i
  BY <1>1
<1>. HIDE DEF a, b
<1>4. /\ a \o b \in Seq(Nat) /\ Len(a \o b) = q
      /\ \A i \in 1 .. q : (a \o b)[i] = IF i <= p THEN a[i] ELSE b[i - p]
  BY <1>1, <1>2, <1>3
<1>5. \A i \in 1 .. q : (a \o b)[i] = i
  <2>. SUFFICES ASSUME NEW i \in 1 .. q PROVE (a \o b)[i] = i
    OBVIOUS
  <2>1. CASE i <= p
    BY <1>2, <1>4, <2>1
  <2>2. CASE i > p
    <3>1. i - p \in 1 .. n /\ p + (i - p) = i
      BY <1>1, <2>2
    <3>. QED
      BY <1>3, <1>4, <2>2, <3>1
  <2>3. i <= p \/ i > p
    OBVIOUS
  <2>. QED
    BY <2>1, <2>2, <2>3, Zenon
<1>6. ASSUME NEW s \in Seq(Nat), Len(s) = q, \A i \in 1 .. q : s[i] = i
      PROVE  s = [i \in 1 .. q |-> i]
  <2>1. DOMAIN s = 1 .. q /\ s = [i \in DOMAIN s |-> s[i]]
    BY <1>6
  <2>. QED
    BY <1>6, <2>1
<1>7. a \o b = [i \in 1 .. q |-> i]
  BY <1>4, <1>5, <1>6
<1>. QED
  BY <1>7 DEF a, b, n

\* What the enqueuer's batch adds.
LEMMA EnqueuedBatch ==
    ASSUME IInv, PrefixInv, EnqueueBatch
    PROVE  /\ next = Count + 1 /\ next <= N
           /\ LastOfBatch \in Msgs /\ LastOfBatch >= next
           /\ lastMessage' = LastOfBatch /\ next' = LastOfBatch + 1
           /\ streams'["process"].log = [i \in 1 .. LastOfBatch |-> i]
<1>. DEFINE new == [i \in 1 .. LastOfBatch - next + 1 |-> next + i - 1]
            old == streams["process"].log
            last == LastOfBatch
<1>1. /\ main = "run" /\ feed = "open" /\ next <= N
      /\ streams' = [streams EXCEPT !["process"] = XAdd(streams["process"], new)]
      /\ lastMessage' = LastOfBatch /\ next' = LastOfBatch + 1
  BY DEF EnqueueBatch
<1>2. /\ LastOfBatch \in Msgs /\ new \in Seq(Msgs)
  BY <1>1, NextBatch DEF IInv
<1>3. /\ next = Count + 1 /\ Count \in 0 .. N /\ N \in Nat
  BY <1>1, CountFacts DEF IInv, PrefixInv, FeedOK
<1>4. LastOfBatch >= next /\ LastOfBatch \in Nat
  BY <1>1, <1>2, <1>3, ConstantsAssumption DEF LastOfBatch, Msgs
<1>5. old = [i \in 1 .. Count |-> i]
  BY <1>1, PrefixMeans DEF PrefixInv
<1>6. "process" \in Streams /\ streams["process"] \in Stream(Msgs, AllWorkers)
  BY DEF IInv, TypeOK, Streams
<1>7. streams'["process"].log = old \o new
  <2>. HIDE DEF new
  <2>1. XAdd(streams["process"], new).log = old \o new
    BY <1>2, <1>6, XAddFacts
  <2>. QED
    BY <1>1, <1>6, <2>1 DEF IInv, TypeOK
<1>. HIDE DEF last
<1>8. old \o new = [i \in 1 .. last |-> i]
  <2>1. last \in Nat /\ Count \in Nat /\ Count <= last
    BY <1>3, <1>4 DEF last
  <2>2. new = [i \in 1 .. last - Count |-> Count + i]
    <3>1. last - next + 1 = last - Count
      BY <1>3, <1>4 DEF last
    <3>2. \A i \in 1 .. last - Count : next + i - 1 = Count + i
      BY <1>3, <2>1
    <3>. QED
      BY <3>1, <3>2 DEF last
  <2>. QED
    BY <1>5, <2>1, <2>2, Continued
<1>. QED
  BY <1>1, <1>2, <1>3, <1>4, <1>7, <1>8 DEF last

LEMMA PrefixInit ==
    ASSUME Init PROVE PrefixInv
<1>1. Count = 0
  BY CountFacts, TypeInit DEF Init
<1>2. streams["process"].log = <<>>
  BY EmptyStreamFacts DEF Init, Streams
<1>3. [i \in 1 .. 0 |-> i] = <<>>
  OBVIOUS
<1>4. EnqueuedPrefix
  BY <1>1, <1>2, <1>3, PrefixMeans
<1>. QED
  BY <1>4 DEF PrefixInv, FeedOK, Init

\* A step that neither feeds the stream nor moves the key.
LEMMA PrefixQuiet ==
    ASSUME PrefixInv, main # "returned",
           streams'["process"].log = streams["process"].log,
           lastMessage' = lastMessage, FeedOK'
    PROVE  PrefixInv'
BY DEF PrefixInv, EnqueuedPrefix

\* Nothing happens any more once queue() has returned.
LEMMA ReturnedStays ==
    ASSUME Next, main = "returned"
    PROVE  main' = main
BY DEF Next, MainStep, HandlerStep, Queue, EnqueueBatch, CloseEnqueuer, AwaitAll,
       CheckProcess, CheckInsert, ClearPersisted, Healthcheck, ConfirmRestart,
       DeclineRestart, Quit, Crash, ReceiveInit, Connect, LoadContext, AutoClaim,
       ReadNew, ReadPending, ReadNothing, Insert, Acknowledge, Push, CheckProducer,
       CheckLag, EndJob, CommandError, Exit, Fail, OnMessage, LoseConnection,
       Finished, Up, vars

LEMMA PrefixKeeps ==
    ASSUME IInv, PrefixInv, [Next]_vars
    PROVE  PrefixInv'
<1>1. CASE UNCHANGED vars
  BY <1>1 DEF vars, PrefixInv, EnqueuedPrefix, FeedOK, Count
<1>2. CASE Next /\ main = "returned"
  <2>1. main' = main
    BY <1>2, ReturnedStays
  <2>. QED
    BY <1>2, <2>1 DEF PrefixInv, EnqueuedPrefix, FeedOK
<1>3. ASSUME Next, main # "returned", ~EnqueueBatch, ~ClearPersisted
      PROVE  streams'["process"].log = streams["process"].log
  BY <1>3, ProcessLog
<1>4. CASE EnqueueBatch
  <2>1. /\ lastMessage' = LastOfBatch /\ next' = LastOfBatch + 1
        /\ streams'["process"].log = [i \in 1 .. LastOfBatch |-> i]
        /\ LastOfBatch \in Msgs
        /\ main = "run" /\ feed = "open" /\ UNCHANGED <<main, feed>>
    BY <1>4, EnqueuedBatch DEF EnqueueBatch
  <2>2. Count' = LastOfBatch
    BY <2>1 DEF Count
  <2>3. lastMessage' # NoKey
    BY <2>1, KeysDiffer
  <2>. QED
    BY <2>1, <2>2, <2>3 DEF PrefixInv, EnqueuedPrefix, FeedOK, Count
<1>5. CASE ClearPersisted
  <2>1. main' = "returned"
    BY <1>5 DEF ClearPersisted
  <2>. QED
    BY <2>1 DEF PrefixInv, EnqueuedPrefix, FeedOK
<1>6. CASE CloseEnqueuer
  <2>1. /\ main = "run" /\ main' = main /\ feed = "open" /\ feed' = "closed"
        /\ next > N /\ next = Count + 1 /\ lastMessage' = JOB_ENDED
        /\ streams' = streams
    BY <1>6 DEF CloseEnqueuer, PrefixInv, FeedOK
  <2>2. Count = N /\ Count' = N
    <3>1. Count \in 0 .. N /\ N \in Nat
      BY CountFacts DEF IInv
    <3>2. Count' = N
      BY <2>1, KeysDiffer DEF Count
    <3>. QED
      BY <2>1, <3>1, <3>2
  <2>3. EnqueuedPrefix'
    BY <2>1, <2>2 DEF PrefixInv, EnqueuedPrefix, Count
  <2>. QED
    BY <2>1, <2>3, KeysDiffer DEF PrefixInv, FeedOK
<1>7. CASE Queue
  <2>1. /\ main = "down" /\ main' = "run" /\ feed = "open" /\ feed' = feed
        /\ lastMessage' = IF lastMessage = NoKey THEN INITIALIZING ELSE lastMessage
        /\ next' = ResumePoint /\ streams' = streams
    BY <1>7 DEF Queue, PrefixInv, FeedOK
  <2>2. Count' = Count
    BY <2>1, KeysDiffer DEF Count
  <2>3. ResumePoint = Count + 1
    BY KeysDiffer, ConstantsAssumption DEF ResumePoint, Count, IInv, TypeOK
  <2>4. EnqueuedPrefix'
    BY <2>1, <2>2 DEF PrefixInv, EnqueuedPrefix, Count
  <2>. QED
    BY <2>1, <2>2, <2>3, <2>4, KeysDiffer DEF PrefixInv, FeedOK
<1>8. CASE Die /\ main # "returned" /\ Next
  <2>1. /\ main' = "down" /\ feed' = "open" /\ lastMessage' = lastMessage
        /\ streams' = streams
    BY <1>8 DEF Die, redis
  <2>. QED
    BY <1>8, <2>1, PrefixQuiet DEF FeedOK
<1>9. CASE /\ \/ AwaitAll \/ CheckProcess \/ CheckInsert \/ DeclineRestart
              \/ ConfirmRestart \/ Healthcheck
           /\ main # "returned"
  <2>1. /\ lastMessage' = lastMessage /\ streams' = streams /\ feed' = feed
        /\ next' = next
        /\ main' # "down"
        /\ main = "run" /\ main' # "run" => feed = "closed"
        /\ main # "run" => main \in {"checkProcess", "checkInsert", "confirm"}
    BY <1>9 DEF AwaitAll, CheckProcess, CheckInsert, DeclineRestart, ConfirmRestart,
                Healthcheck, redis
  <2>2. FeedOK'
    BY <2>1 DEF PrefixInv, FeedOK, Count
  <2>. QED
    BY <1>9, <2>1, <2>2, PrefixQuiet
<1>10. ASSUME NEW h \in Handlers, main # "returned", Next, ~Die,
              HandlerStep(h) \/ Fail(h) \/ OnMessage(h)
       PROVE  PrefixInv'
  <2>1. UNCHANGED <<main, feed, next, lastMessage>>
    BY <1>10 DEF HandlerStep, ReceiveInit, Connect,
         LoadContext, AutoClaim, ReadNew, ReadPending, ReadNothing, Insert,
         Acknowledge, Push, CheckProducer, CheckLag, EndJob, CommandError, Exit,
         Fail, OnMessage, redis, control
  <2>2. ~EnqueueBatch /\ ~ClearPersisted
    <3>1. EnqueueBatch => next' > next
      BY EnqueuedBatch, CountFacts DEF IInv, Msgs
    <3>2. ClearPersisted => main' # main
      BY DEF ClearPersisted
    <3>. QED
      BY <2>1, <3>1, <3>2, CountFacts DEF IInv, TypeOK
  <2>3. FeedOK'
    BY <2>1 DEF PrefixInv, FeedOK, Count
  <2>. QED
    BY <1>3, <1>10, <2>1, <2>2, <2>3, PrefixQuiet
<1>11. CASE \E w \in AllWorkers : LoseConnection(w) /\ main # "returned"
  <2>1. UNCHANGED <<main, feed, next, lastMessage, streams>>
    BY <1>11 DEF LoseConnection, redis, control
  <2>2. FeedOK'
    BY <2>1 DEF PrefixInv, FeedOK, Count
  <2>. QED
    BY <1>11, <2>1, <2>2, PrefixQuiet
<1>12. Quit \/ Crash => Die
  BY DEF Quit, Crash
<1>13. CASE Finished
  BY <1>1, <1>13 DEF Finished
<1>. QED
  BY <1>1, <1>2, <1>4, <1>5, <1>6, <1>7, <1>8, <1>9, <1>10, <1>11, <1>12, <1>13, Zenon
     DEF Next, MainStep

\* The strengthening: the enqueuer goes on right after the persisted key, and is
\* closed before any check.
THEOREM PrefixInvariance == Spec => []PrefixInv
<1>1. Init => PrefixInv
  BY PrefixInit
<1>2. IInv /\ PrefixInv /\ [Next]_vars => PrefixInv'
  BY PrefixKeeps
<1>. QED
  BY <1>1, <1>2, Invariance, PTL DEF Spec

\* The resume point and the stream agree at every instant, across crashes and
\* resumed runs: enqueue and key move in one script, and queue() goes on right
\* after the last persisted message.
THEOREM PrefixEnqueued == Spec => []EnqueuedPrefix
<1>1. PrefixInv => EnqueuedPrefix
  BY DEF PrefixInv
<1>. QED
  BY <1>1, PrefixInvariance, PTL
-----------------------------------------------------------------------------
(* The end of a level *)

\* A handler that left its polling loop has seen why it may.
PastPolling(h) ==
    /\ pc[h] \in {"producer", "lag", "ended"} => phase[h] = "poll"
    /\ pc[h] \in {"lag", "ended"} /\ WorkerOf(h) # Inserter => lastMessage = JOB_ENDED
    /\ pc[h] = "ended" =>
        /\ WorkerOf(h) # Inserter
        /\ Connected(h) => ~HasActivity(streams["process"])

EndInv == main # "returned" => \A h \in Handlers : PastPolling(h)

\* Once the key says that the input has ended, it goes on saying so.
LEMMA KeyStays ==
    ASSUME IInv, PrefixInv, Next, main # "returned", ~ClearPersisted,
           lastMessage = JOB_ENDED
    PROVE  lastMessage' = JOB_ENDED /\ ~EnqueueBatch
<1>1. ~EnqueueBatch
  BY EnqueuedBatch, CountFacts DEF IInv
<1>2. ASSUME NEW h \in Handlers, OnMessage(h) \/ HandlerStep(h) \/ Fail(h)
      PROVE  lastMessage' = lastMessage
  BY <1>2 DEF OnMessage, Die, redis, HandlerStep, ReceiveInit, Connect, LoadContext,
     AutoClaim, ReadNew, ReadPending, ReadNothing, Insert, Acknowledge, Push,
     CheckProducer, CheckLag, EndJob, CommandError, Exit, Fail
<1>3. ASSUME \/ CloseEnqueuer \/ AwaitAll \/ CheckProcess \/ CheckInsert
             \/ Healthcheck \/ ConfirmRestart \/ DeclineRestart \/ Quit \/ Crash
             \/ \E w \in AllWorkers : LoseConnection(w)
             \/ Finished \/ Queue
      PROVE  lastMessage' = JOB_ENDED
  BY <1>3, KeysDiffer DEF Queue, CloseEnqueuer, AwaitAll, CheckProcess, CheckInsert,
     Healthcheck, ConfirmRestart, DeclineRestart, Quit, Crash, LoseConnection,
     Finished, Die, redis, vars
<1>. QED
  BY <1>1, <1>2, <1>3, Zenon DEF Next, MainStep

\* Reading and acknowledging do not wake a stream that is over.
LEMMA GroupOver ==
    ASSUME NEW E, NEW C, NEW st \in Stream(E, C), NEW c \in C, ~HasActivity(st)
    PROVE  /\ \A ids \in SUBSET Pending(st) : ~HasActivity(Claim(st, c, ids))
           /\ \A ids : ~HasActivity(XAck(st, ids))
           /\ \A count : \A ids \in Oldest(Undelivered(st), count) : ids = <<>>
<1>1. /\ st.log \in Seq(E) /\ st.read \in Nat /\ st.pel \in [C -> SUBSET Nat]
      /\ DOMAIN st.pel = C
      /\ Undelivered(st) = {} /\ Pending(st) = {}
  BY DEF Stream, HasActivity
<1>2. ASSUME NEW ids \in SUBSET Pending(st)
      PROVE  ~HasActivity(Claim(st, c, ids))
  <2>. DEFINE nst == Claim(st, c, ids)
  <2>1. /\ nst.log = st.log /\ nst.read = st.read
        /\ nst.pel = [d \in C |-> IF d = c THEN st.pel[d] \cup ids
                                           ELSE st.pel[d] \ ids]
    BY <1>1 DEF Claim, Stream
  <2>2. ids = {}
    BY <1>1
  <2>. HIDE DEF nst
  <2>3. DOMAIN nst.pel = C /\ \A d \in C : nst.pel[d] \subseteq st.pel[d]
    BY <2>1, <2>2
  <2>4. Undelivered(nst) = {} /\ Pending(nst) = {}
    BY <1>1, <2>1, <2>3 DEF Undelivered, Pending
  <2>. QED
    BY <2>4 DEF HasActivity, nst
<1>3. ASSUME NEW ids
      PROVE  ~HasActivity(XAck(st, ids))
  <2>. DEFINE nst == XAck(st, ids)
  <2>1. /\ nst.log = st.log /\ nst.read = st.read
        /\ nst.pel = [d \in C |-> st.pel[d] \ {ids[i] : i \in DOMAIN ids}]
    BY <1>1 DEF XAck, Stream
  <2>. HIDE DEF nst
  <2>2. DOMAIN nst.pel = C /\ \A d \in C : nst.pel[d] \subseteq st.pel[d]
    BY <2>1
  <2>3. Undelivered(nst) = {} /\ Pending(nst) = {}
    BY <1>1, <2>1, <2>2 DEF Undelivered, Pending
  <2>. QED
    BY <2>3 DEF HasActivity, nst
<1>4. ASSUME NEW count, NEW ids \in Oldest(Undelivered(st), count)
      PROVE  ids = <<>>
  <2>1. PICK k \in 0 .. count : ids \in [1 .. k -> {}]
    BY <1>1 DEF Oldest
  <2>2. 1 .. k = {}
    BY <2>1
  <2>. QED
    BY <2>1, <2>2
<1>. QED
  BY <1>2, <1>3, <1>4

\* A processing stream that is over stays so, unless the enqueuer adds to it.
LEMMA StaysOver ==
    ASSUME IInv, main # "returned", Next, ~EnqueueBatch, ~ClearPersisted,
           ~HasActivity(streams["process"])
    PROVE  ~HasActivity(streams'["process"])
<1>1. /\ "process" \in Streams
      /\ streams \in [Streams -> Stream(Msgs, AllWorkers)]
      /\ streams["process"] \in Stream(Msgs, AllWorkers)
  BY DEF IInv, TypeOK, Streams
<1>2. ASSUME NEW h \in Handlers, AutoClaim(h) \/ ReadNew(h) \/ Acknowledge(h)
      PROVE  ~HasActivity(streams'["process"])
  <2>1. WorkerOf(h) \in AllWorkers /\ Source(h) \in Streams
    BY HandlerFacts
  <2>2. CASE Source(h) = "process" /\ AutoClaim(h)
    <3>1. PICK ids \in SUBSET Pending(streams["process"]) :
            streams' = [streams EXCEPT !["process"] =
                            Claim(streams["process"], WorkerOf(h), ids)]
      BY <2>2 DEF AutoClaim
    <3>2. ~HasActivity(Claim(streams["process"], WorkerOf(h), ids))
      BY <1>1, <2>1, <3>1, GroupOver
    <3>. QED
      BY <1>1, <3>1, <3>2
  <2>3. CASE Source(h) = "process" /\ Acknowledge(h)
    <3>1. ~HasActivity(XAck(streams["process"], batch[h]))
      BY <1>1, <2>1, GroupOver
    <3>. QED
      BY <1>1, <2>3, <3>1 DEF Acknowledge
  <2>4. CASE Source(h) = "process" /\ ReadNew(h)
    <3>1. PICK ids \in Oldest(Undelivered(streams["process"]), ReadCount) : ids # <<>>
      BY <2>4 DEF ReadNew
    <3>. QED
      BY <1>1, <2>1, <3>1, GroupOver
  <2>5. CASE Source(h) # "process"
    <3>1. streams'["process"] = streams["process"]
      BY <1>1, <1>2, <2>5 DEF AutoClaim, ReadNew, Acknowledge
    <3>. QED
      BY <3>1
  <2>. QED
    BY <1>2, <2>2, <2>3, <2>4, <2>5
<1>3. ASSUME NEW h \in Handlers, Push(h)
      PROVE  ~HasActivity(streams'["process"])
  BY <1>1, <1>3 DEF Push, Forwarded
<1>4. ASSUME NEW h \in Handlers, Fail(h)
      PROVE  ~HasActivity(streams'["process"])
  <2>1. /\ WorkerOf(h) \in AllWorkers /\ Source(h) \in Streams
        /\ DlqOf(WorkerOf(h)) # "process"
    BY HandlerFacts DEF DlqOf
  <2>. DEFINE acked == [streams EXCEPT ![Source(h)] = XAck(streams[Source(h)], batch[h])]
  <2>2. /\ DOMAIN acked = Streams
        /\ acked["process"] = streams["process"]
            \/ acked["process"] = XAck(streams["process"], batch[h])
    BY <1>1, <2>1
  <2>3. \/ streams' = acked
        \/ streams' = [acked EXCEPT ![DlqOf(WorkerOf(h))] =
                            XAdd(acked[DlqOf(WorkerOf(h))], BatchMsgs(h))]
    BY <1>4 DEF Fail, DeadLettered
  <2>. HIDE DEF acked
  <2>4. streams'["process"] = acked["process"]
    BY <1>1, <2>1, <2>2, <2>3
  <2>5. ~HasActivity(XAck(streams["process"], batch[h]))
    BY <1>1, <2>1, GroupOver
  <2>. QED
    BY <2>2, <2>4, <2>5
<1>5. CASE streams' = streams
  BY <1>5
<1>. QED
  BY <1>2, <1>3, <1>4, <1>5, SameStreams, Zenon DEF Next, MainStep, HandlerStep

\* What a step has to respect for the invariant to survive it.
LEMMA EndStep ==
    ASSUME EndInv, main # "returned",
           lastMessage = JOB_ENDED => lastMessage' = JOB_ENDED,
           lastMessage = JOB_ENDED /\ ~HasActivity(streams["process"])
                => ~HasActivity(streams'["process"]),
           \A h \in Handlers :
               \/ /\ pc'[h] = pc[h] /\ phase'[h] = phase[h]
                  /\ pc[h] = "ended" /\ Connected(h)' => Connected(h)
               \/ PastPolling(h)'
    PROVE  EndInv'
<1>1. ASSUME NEW h \in Handlers,
             pc'[h] = pc[h], phase'[h] = phase[h],
             pc[h] = "ended" /\ Connected(h)' => Connected(h)
      PROVE  PastPolling(h)'
  <2>1. PastPolling(h)
    BY DEF EndInv
  <2>2. WorkerOf(h)' = WorkerOf(h)
    BY DEF WorkerOf
  <2>. QED
    BY <1>1, <2>1, <2>2 DEF PastPolling
<1>. QED
  BY <1>1 DEF EndInv

\* A handler at work elsewhere has nothing to show.
LEMMA NotPast ==
    ASSUME NEW h \in Handlers, pc'[h] \notin {"producer", "lag", "ended"}
    PROVE  PastPolling(h)'
BY DEF PastPolling

LEMMA EndKeeps ==
    ASSUME IInv, PrefixInv, EndInv, [Next]_vars
    PROVE  EndInv'
<1>1. CASE UNCHANGED vars
  BY <1>1 DEF vars, EndInv, PastPolling, Connected
<1>2. CASE main = "returned" \/ main' = "returned"
  <2>1. Next /\ main = "returned" => main' = main
    BY ReturnedStays
  <2>. QED
    BY <1>1, <1>2, <2>1 DEF EndInv, vars
<1>. SUFFICES ASSUME Next, main # "returned", ~ClearPersisted
              PROVE  EndInv'
  <2>1. ClearPersisted => main' = "returned"
    BY DEF ClearPersisted
  <2>. QED
    BY <1>1, <1>2, <2>1
<1>3. lastMessage = JOB_ENDED => lastMessage' = JOB_ENDED /\ ~EnqueueBatch
  BY KeyStays
<1>4. lastMessage = JOB_ENDED /\ ~HasActivity(streams["process"])
            => ~HasActivity(streams'["process"])
  BY <1>3, StaysOver
<1>5. CASE Die
  <2>1. \A h \in Handlers : PastPolling(h)'
    BY <1>5, NotPast DEF Die
  <2>. QED
    BY <2>1 DEF EndInv
<1>6. CASE /\ phase' = phase /\ conn' = conn
           /\ \A h \in Handlers : pc'[h] = pc[h] \/ PastPolling(h)'
  <2>1. \A h \in Handlers : Connected(h)' => Connected(h)
    BY <1>6 DEF Connected, WorkerOf
  <2>. QED
    BY <1>3, <1>4, <1>6, <2>1, EndStep
<1>7. ASSUME phase' = phase, conn' = conn, pc' = pc \/ \E ws : pc' = Started(ws)
      PROVE  EndInv'
  <2>1. \A h \in Handlers : pc'[h] # pc[h] => pc'[h] = "init"
    BY <1>7, StartedType DEF IInv
  <2>. QED
    BY <1>6, <1>7, <2>1, NotPast
<1>8. ASSUME \/ Queue \/ EnqueueBatch \/ CloseEnqueuer \/ AwaitAll
             \/ CheckProcess \/ CheckInsert \/ Healthcheck \/ ConfirmRestart
             \/ DeclineRestart
      PROVE  EndInv'
  <2>1. /\ phase' = phase /\ conn' = conn
        /\ pc' = pc \/ \E ws : pc' = Started(ws)
    BY <1>8 DEF Queue, EnqueueBatch, CloseEnqueuer, AwaitAll, CheckProcess,
       CheckInsert, Healthcheck, ConfirmRestart, DeclineRestart, threads
  <2>. QED
    BY <1>7, <2>1
<1>9. ASSUME NEW h \in Handlers, OnMessage(h)
      PROVE  EndInv'
  <2>1. CASE ~Die
    <3>1. /\ phase' = phase /\ conn' = conn
          /\ pc' = pc \/ pc' = Started({Inserter})
      BY <1>9, <2>1 DEF OnMessage, OnDone, OnFinished, InitInsertIfIdle
    <3>. QED
      BY <1>7, <3>1
  <2>. QED
    BY <1>5, <2>1
<1>10. ASSUME NEW w \in AllWorkers, LoseConnection(w)
       PROVE  EndInv'
  <2>1. phase' = phase /\ pc' = pc /\ conn' = [conn EXCEPT ![w] = 0]
    BY <1>10 DEF LoseConnection
  <2>2. \A h \in Handlers : Connected(h)' => Connected(h)
    <3>1. \A h \in Handlers : WorkerOf(h) \in AllWorkers /\ h[2] # 0
      BY HandlerFacts DEF Slots
    <3>. QED
      BY <2>1, <3>1 DEF Connected, WorkerOf, IInv, TypeOK
  <2>. QED
    BY <1>3, <1>4, <2>1, <2>2, EndStep
<1>11. Quit \/ Crash => Die
  BY DEF Quit, Crash
<1>12. ASSUME NEW h \in Handlers, HandlerStep(h) \/ Fail(h)
       PROVE  EndInv'
  <2>. DEFINE Moves(label) == /\ pc' = [pc EXCEPT ![h] = label]
                              /\ PastPolling(h)'
  <2>1. ASSUME NEW label, Moves(label),
               phase' = phase \/ \E p : phase' = [phase EXCEPT ![h] = p],
               conn' = conn \/ conn' = [conn EXCEPT ![WorkerOf(h)] = 0]
                            \/ conn' = [conn EXCEPT ![WorkerOf(h)] = h[2]]
        PROVE  EndInv'
    <3>1. ASSUME NEW g \in Handlers, g # h
          PROVE  /\ pc'[g] = pc[g] /\ phase'[g] = phase[g]
                 /\ Connected(g)' => Connected(g)
      <4>1. pc'[g] = pc[g] /\ phase'[g] = phase[g]
        BY <2>1, <3>1 DEF IInv, TypeOK
      <4>2. WorkerOf(g) = WorkerOf(h) => g[2] # h[2]
        BY <3>1 DEF Handlers, WorkerOf
      <4>3. g[2] # 0
        BY DEF Handlers, Slots
      <4>4. Connected(g)' => Connected(g)
        BY <2>1, <4>2, <4>3, HandlerFacts DEF Connected, WorkerOf, IInv, TypeOK
      <4>. QED
        BY <4>1, <4>4
    <3>2. PastPolling(h)'
      BY <2>1
    <3>. QED
      BY <1>3, <1>4, <3>1, <3>2, EndStep
  <2>. HIDE DEF Moves
  <2>2. ASSUME NEW label, pc' = [pc EXCEPT ![h] = label],
               label \notin {"producer", "lag", "ended"}
        PROVE  Moves(label)
    <3>1. pc'[h] = label
      BY <2>2 DEF IInv, TypeOK
    <3>. QED
      BY <2>2, <3>1, NotPast DEF Moves
  <2>3. ASSUME NEW label, pc' = [pc EXCEPT ![h] = label], phase'[h] = "poll",
               label = "lag" /\ WorkerOf(h) # Inserter => lastMessage' = JOB_ENDED,
               label # "ended"
        PROVE  Moves(label)
    <3>1. pc'[h] = label /\ WorkerOf(h)' = WorkerOf(h)
      BY <2>3 DEF IInv, TypeOK, WorkerOf
    <3>. QED
      BY <2>3, <3>1 DEF Moves, PastPolling
  <2>4. CASE \/ ReceiveInit(h) \/ Connect(h) \/ AutoClaim(h)
             \/ ReadNew(h) \/ ReadPending(h) \/ Insert(h) \/ EndJob(h)
             \/ CommandError(h) \/ Exit(h)
    <3>1. \E label \in {"connect", "context", "read", "exec", "ack", "exit", "off"} :
            pc' = [pc EXCEPT ![h] = label]
      BY <2>4 DEF ReceiveInit, Connect, AutoClaim, ReadNew, ReadPending, Insert,
                  EndJob, CommandError, Exit, Goto
    <3>2. /\ phase' = phase \/ \E p : phase' = [phase EXCEPT ![h] = p]
          /\ conn' = conn \/ conn' = [conn EXCEPT ![WorkerOf(h)] = 0]
                          \/ conn' = [conn EXCEPT ![WorkerOf(h)] = h[2]]
      BY <2>4 DEF ReceiveInit, Connect, AutoClaim, ReadNew, ReadPending, Insert,
                  EndJob, CommandError, Exit
    <3>. QED
      BY <2>1, <2>2, <3>1, <3>2
  <2>5. CASE LoadContext(h)
    BY <1>5, <2>1, <2>2, <2>5 DEF LoadContext, Goto
  <2>6. CASE ReadNothing(h)
    <3>1. conn' = conn
      BY <2>6 DEF ReadNothing
    <3>2. CASE phase[h] = "poll"
      <4>1. pc' = [pc EXCEPT ![h] = "producer"] /\ phase' = phase
        BY <2>6, <3>2 DEF ReadNothing, Goto
      <4>. QED
        BY <2>1, <2>3, <3>1, <3>2, <4>1
    <3>3. CASE phase[h] # "poll"
      <4>1. phase[h] \in {"dlq", "pending"}
        BY <3>3 DEF IInv, TypeOK, Phases
      <4>2. /\ \E label \in {"claim", "read"} : pc' = [pc EXCEPT ![h] = label]
            /\ \E p : phase' = [phase EXCEPT ![h] = p]
        BY <2>6, <4>1 DEF ReadNothing, Goto
      <4>. QED
        BY <2>1, <2>2, <3>1, <4>2
    <3>. QED
      BY <3>2, <3>3
  <2>7. CASE Acknowledge(h) \/ Push(h) \/ Fail(h)
    <3>1. /\ conn' = conn /\ phase' = phase
          /\ pc' = [pc EXCEPT ![h] = "push"] \/ pc' = [pc EXCEPT ![h] = Resume(h)]
      BY <2>7 DEF Acknowledge, Push, Fail, Goto
    <3>2. CASE pc' = [pc EXCEPT ![h] = "push"]
      BY <2>1, <2>2, <3>1, <3>2
    <3>3. CASE pc' = [pc EXCEPT ![h] = Resume(h)] /\ phase[h] = "poll"
      <4>1. Resume(h) = "producer"
        BY <3>3 DEF Resume
      <4>. QED
        BY <2>1, <2>3, <3>1, <3>3, <4>1
    <3>4. CASE pc' = [pc EXCEPT ![h] = Resume(h)] /\ phase[h] # "poll"
      <4>1. Resume(h) = "claim"
        BY <3>4 DEF Resume
      <4>. QED
        BY <2>1, <2>2, <3>1, <3>4, <4>1
    <3>. QED
      BY <3>1, <3>2, <3>3, <3>4
  <2>8. CASE CheckProducer(h)
    <3>1. /\ conn' = conn /\ phase' = phase /\ lastMessage' = lastMessage
          /\ Up /\ pc[h] = "producer" /\ phase[h] = "poll"
      BY <2>8 DEF CheckProducer, redis, EndInv, PastPolling
    <3>2. lastMessage # NoKey
      BY <3>1 DEF Up, PrefixInv, FeedOK
    <3>3. CASE pc' = [pc EXCEPT ![h] = "read"]
      BY <2>1, <2>2, <3>1, <3>3
    <3>4. CASE pc' = [pc EXCEPT ![h] = "lag"]
      <4>1. WorkerOf(h) # Inserter => pc' = [pc EXCEPT ![h] =
                IF lastMessage \in {NoKey, JOB_ENDED} THEN "lag" ELSE "read"]
        BY <2>8 DEF CheckProducer, Goto
      <4>2. WorkerOf(h) # Inserter => lastMessage = JOB_ENDED
        BY <3>2, <3>4, <4>1 DEF IInv, TypeOK
      <4>. QED
        BY <2>1, <2>3, <3>1, <3>4, <4>2
    <3>. QED
      BY <2>8, <3>3, <3>4 DEF CheckProducer, Goto
  <2>9. CASE CheckLag(h)
    <3>1. /\ conn' = conn /\ phase' = phase /\ lastMessage' = lastMessage
          /\ streams' = streams /\ pc[h] = "lag" /\ phase[h] = "poll"
          /\ WorkerOf(h) # Inserter => lastMessage = JOB_ENDED
      BY <2>9 DEF CheckLag, redis, EndInv, PastPolling
    <3>2. CASE pc' = [pc EXCEPT ![h] = "read"] \/ pc' = [pc EXCEPT ![h] = "exit"]
      BY <2>1, <2>2, <3>1, <3>2
    <3>3. CASE pc' = [pc EXCEPT ![h] = "ended"]
      <4>1. /\ WorkerOf(h) # Inserter
            /\ Connected(h) => ~MoreToRead(h)
        BY <2>9, <3>3 DEF CheckLag, Goto, IInv, TypeOK
      <4>2. Source(h) = "process"
        BY <3>1, <4>1 DEF Source, StreamOf
      <4>3. pc'[h] = "ended" /\ WorkerOf(h)' = WorkerOf(h)
            /\ (Connected(h)' <=> Connected(h))
        BY <3>1, <3>3 DEF IInv, TypeOK, WorkerOf, Connected
      <4>4. PastPolling(h)'
        BY <3>1, <4>1, <4>2, <4>3 DEF PastPolling, MoreToRead
      <4>. QED
        BY <2>1, <3>1, <3>3, <4>4 DEF Moves
    <3>. QED
      BY <2>9, <3>2, <3>3 DEF CheckLag, Goto
  <2>. QED
    BY <1>12, <2>4, <2>5, <2>6, <2>7, <2>8, <2>9, Zenon DEF HandlerStep
<1>13. CASE Finished
  BY <1>1, <1>13 DEF Finished
<1>. QED
  BY <1>5, <1>8, <1>9, <1>10, <1>11, <1>12, <1>13, Zenon DEF Next, MainStep

\* A processing worker about to declare the end is right about it, although it
\* read the producer key and the stream in two commands, for any number of
\* workers, handlers, slow batches, failures and lost connections.
THEOREM DeclaredLast == Spec => []EndIsDeclaredLast
<1>1. Init => EndInv
  BY NotPast DEF Init, EndInv, PastPolling
<1>2. IInv /\ PrefixInv /\ EndInv /\ [Next]_vars => EndInv'
  BY EndKeeps
<1>3. EndInv => EndIsDeclaredLast
  BY DEF EndInv, PastPolling, EndIsDeclaredLast
<1>. QED
  BY <1>1, <1>2, <1>3, Invariance, PrefixInvariance, PTL DEF Spec
-----------------------------------------------------------------------------
(* A queue without failures *)

\* As long as no batch has failed all its attempts and no connection was lost,
\* a round knows which of its workers are at work.
First(w) == <<w, 1>>

\* An execution's port brings one DONE, after everything else, when the handler
\* is through.
PortOK(h) ==
    \A i \in DOMAIN port[h] :
        /\ port[h][i] \in {"FINISHED", "DONE"}
        /\ port[h][i] = "DONE" => i = Len(port[h]) /\ pc[h] = "off"

\* A worker has one handler at most, alive as long as its execution runs.
CalmWorker(w) ==
    /\ \A k \in Slots \ {1} : pc[<<w, k>>] = "off" /\ port[<<w, k>>] = <<>>
    /\ status[w] \in {"idle", "running", "stopped"}
    /\ w \in crew => status[w] # "idle"
    /\ status[w] # "idle" => w \in crew \cup {Inserter}
    /\ PortOK(First(w))
    /\ status[w] = "running" /\ pc[First(w)] = "off" =>
            port[First(w)] # <<>> /\ port[First(w)][Len(port[First(w)])] = "DONE"
    /\ status[w] # "running" => pc[First(w)] = "off" /\ port[First(w)] = <<>>
    /\ pc[First(w)] \notin {"off", "init", "connect"} => conn[w] = 1

Stopped == {w \in crew : status[w] = "stopped"}
AllStopped == \A w \in crew \cup {Inserter} : status[w] = "stopped"

\* The main thread's count and stage follow from the executions' states.
Calm ==
    /\ \A w \in AllWorkers : CalmWorker(w)
    /\ orphans = {}
    /\ crew \subseteq Workers
    /\ doneCount = Cardinality(Stopped)
    /\ main = "down" => \A w \in AllWorkers : status[w] = "idle"
    /\ main \in {"checkProcess", "checkInsert", "confirm", "clear", "aborted"}
            => AllStopped
    /\ main \in {"checkInsert", "clear"} => ~Activity("process", "processDlq")
    /\ main = "clear" => ~Activity("insert", "insertDlq")

CalmInv == main # "returned" /\ failures = 0 => Calm

\* The handlers, one by one.
LEMMA FirstFacts ==
    /\ 1 \in Slots
    /\ \A w \in AllWorkers : First(w) \in Handlers /\ WorkerOf(First(w)) = w
    /\ \A h \in Handlers : h[2] = 1 => h = First(WorkerOf(h))
    /\ \A h \in Handlers : h = <<WorkerOf(h), h[2]>> /\ h[2] \in Slots
<1>1. 1 \in Slots
  BY ConstantsAssumption DEF Slots
<1>2. \A h \in Handlers : h = <<WorkerOf(h), h[2]>> /\ h[2] \in Slots
  BY DEF Handlers, WorkerOf
<1>3. \A w \in AllWorkers : First(w) \in Handlers /\ WorkerOf(First(w)) = w
  BY <1>1 DEF First, Handlers, WorkerOf
<1>. QED
  BY <1>1, <1>2, <1>3 DEF First

\* A handler that does something, or whose posts have not all arrived, is the
\* first one of a running worker, in a round.
LEMMA CalmHandler ==
    ASSUME TypeOK, Calm, NEW h \in Handlers, pc[h] # "off" \/ port[h] # <<>>
    PROVE  /\ h = First(WorkerOf(h)) /\ h[2] = 1
           /\ status[WorkerOf(h)] = "running"
           /\ WorkerOf(h) \in crew \cup {Inserter}
           /\ pc[h] \notin {"off", "init", "connect"} => Connected(h)
           /\ main \in {"run", "returned"}
<1>. DEFINE w == WorkerOf(h)
<1>1. w \in AllWorkers /\ h = <<w, h[2]>> /\ h[2] \in Slots
  BY FirstFacts, HandlerFacts
<1>2. CalmWorker(w)
  BY <1>1 DEF Calm
<1>3. h[2] = 1
  BY <1>1, <1>2 DEF CalmWorker
<1>4. h = First(w)
  BY <1>1, <1>3 DEF First
<1>5. status[w] = "running" /\ w \in crew \cup {Inserter}
  BY <1>2, <1>4 DEF CalmWorker
<1>6. pc[h] \notin {"off", "init", "connect"} => Connected(h)
  BY <1>2, <1>3, <1>4 DEF CalmWorker, Connected
<1>7. main # "down" /\ ~AllStopped
  BY <1>1, <1>5 DEF Calm, AllStopped
<1>8. main \in {"run", "returned"}
  BY <1>7 DEF Calm, TypeOK, Stages
<1>. QED
  BY <1>3, <1>4, <1>5, <1>6, <1>8

\* Only idle and stopped workers are started, each in its first slot.
LEMMA CalmStarted ==
    ASSUME TypeOK, Calm, NEW ws \in SUBSET AllWorkers,
           \A w \in ws : pc[First(w)] = "off" /\ port[First(w)] = <<>>
    PROVE  Started(ws) = [h \in Handlers |->
                IF WorkerOf(h) \in ws /\ h[2] = 1 THEN "init" ELSE pc[h]]
<1>1. ASSUME NEW h \in Handlers, WorkerOf(h) \in ws
      PROVE  IsFirstFree(h) <=> h[2] = 1
  <2>1. CalmWorker(WorkerOf(h))
    BY <1>1 DEF Calm
  <2>2. FreeSlots(WorkerOf(h)) = Slots
    BY <1>1, <2>1 DEF CalmWorker, FreeSlots, First
  <2>3. \A k \in Slots : k \in Nat /\ 1 <= k
    BY DEF Slots
  <2>. QED
    BY <2>2, <2>3, FirstFacts DEF IsFirstFree
<1>. QED
  BY <1>1, Zenon DEF Started

\* What a handler's step has to keep.
LEMMA CalmStep ==
    ASSUME TypeOK, TypeOK', Calm, main = "run", main' = main,
           UNCHANGED <<crew, status, doneCount, orphans>>,
           NEW h \in Handlers, pc[h] # "off",
           NEW label, pc' = [pc EXCEPT ![h] = label],
           \A g \in Handlers : g # h => port'[g] = port[g],
           \A v \in AllWorkers : v # WorkerOf(h) => conn'[v] = conn[v],
           PortOK(h)',
           label = "off" => port'[h] # <<>> /\ port'[h][Len(port'[h])] = "DONE",
           label \notin {"off", "init", "connect"} => conn'[WorkerOf(h)] = 1
    PROVE  Calm'
<1>. DEFINE w == WorkerOf(h)
<1>1. /\ w \in AllWorkers /\ h = First(w) /\ status[w] = "running"
      /\ CalmWorker(w)
  BY CalmHandler, HandlerFacts DEF Calm
<1>2. pc'[h] = label /\ \A g \in Handlers : g # h => pc'[g] = pc[g]
  BY DEF TypeOK
<1>3. ASSUME NEW v \in AllWorkers, v # w
      PROVE  CalmWorker(v)'
  <2>1. CalmWorker(v) /\ conn'[v] = conn[v]
    BY <1>3 DEF Calm
  <2>2. \A k \in Slots : <<v, k>> \in Handlers /\ <<v, k>> # h
    BY <1>1, <1>3 DEF Handlers, First
  <2>3. \A k \in Slots : pc'[<<v, k>>] = pc[<<v, k>>] /\ port'[<<v, k>>] = port[<<v, k>>]
    BY <1>2, <2>2
  <2>4. pc'[First(v)] = pc[First(v)] /\ port'[First(v)] = port[First(v)]
    BY <2>3, FirstFacts DEF First
  <2>. QED
    BY <2>1, <2>3, <2>4 DEF CalmWorker, PortOK, First
<1>4. CalmWorker(w)'
  <2>1. \A k \in Slots \ {1} : <<w, k>> \in Handlers /\ <<w, k>> # h
    BY <1>1 DEF Handlers, First
  <2>2. \A k \in Slots \ {1} : pc'[<<w, k>>] = pc[<<w, k>>] /\ port'[<<w, k>>] = port[<<w, k>>]
    BY <1>2, <2>1
  <2>3. PortOK(First(w))'
    BY <1>1 DEF PortOK, First
  <2>. QED
    BY <1>1, <1>2, <2>2, <2>3 DEF CalmWorker
<1>5. \A v \in AllWorkers : CalmWorker(v)'
  BY <1>3, <1>4
<1>6. Stopped' = Stopped
  BY DEF Stopped
<1>. QED
  BY <1>5, <1>6 DEF Calm

\* A post arrives after those before it.
LEMMA Appended ==
    ASSUME NEW S, NEW s \in Seq(S), NEW e \in S, NEW t, t = Append(s, e)
    PROVE  /\ Len(t) = Len(s) + 1 /\ t[Len(t)] = e /\ t # <<>>
           /\ \A i \in DOMAIN t : i = Len(t) \/ (i \in DOMAIN s /\ t[i] = s[i])
<1>1. /\ t \in Seq(S) /\ Len(t) = Len(s) + 1 /\ t[Len(s) + 1] = e
      /\ \A i \in 1 .. Len(s) : t[i] = s[i]
  OBVIOUS
<1>2. DOMAIN t = 1 .. Len(s) + 1 /\ DOMAIN s = 1 .. Len(s) /\ Len(s) \in Nat
  BY <1>1
<1>3. t # <<>>
  BY <1>1, <1>2
<1>4. \A i \in DOMAIN t : i = Len(t) \/ i \in 1 .. Len(s)
  BY <1>1, <1>2
<1>. QED
  BY <1>1, <1>2, <1>3, <1>4

LEMMA PostedEvents == "DONE" \in PortEvents /\ "FINISHED" \in PortEvents
BY DEF PortEvents

LEMMA CalmHandlerStep ==
    ASSUME TypeOK, TypeOK', Calm, main # "returned", NEW h \in Handlers, HandlerStep(h)
    PROVE  Calm'
<1>. DEFINE w == WorkerOf(h)
<1>1. /\ pc[h] # "off"
      /\ LoadContext(h) \/ CommandError(h) => pc[h] \notin {"off", "init", "connect"}
  BY DEF HandlerStep, ReceiveInit, Connect, LoadContext, AutoClaim, ReadNew,
     ReadPending, ReadNothing, Insert, Acknowledge, Push, CheckProducer,
     CheckLag, EndJob, CommandError, Commanding, Exit
<1>2. /\ h = First(w) /\ h[2] = 1 /\ status[w] = "running" /\ main = "run"
      /\ pc[h] \notin {"off", "init", "connect"} => Connected(h)
  BY <1>1, CalmHandler
<1>3. w \in AllWorkers /\ CalmWorker(w) /\ PortOK(h)
  BY <1>2, HandlerFacts DEF Calm, CalmWorker
<1>4. \A i \in DOMAIN port[h] : port[h][i] = "FINISHED"
  BY <1>1, <1>3 DEF PortOK
<1>5. /\ ~CommandError(h)
      /\ LoadContext(h) => /\ Goto(h, "claim")
                           /\ UNCHANGED <<redis, control, phase, batch, conn, dropped>>
  BY <1>1, <1>2 DEF CommandError, LoadContext
<1>6. orphans = {} /\ main' = main /\ UNCHANGED <<crew, status, doneCount>>
  BY <1>2, <1>5 DEF Calm, HandlerStep, ReceiveInit, Connect, LoadContext, AutoClaim,
     ReadNew, ReadPending, ReadNothing, Insert, Acknowledge, Push, CheckProducer,
     CheckLag, EndJob, Exit, control
<1>7. CASE Exit(h)
  <2>1. /\ pc' = [pc EXCEPT ![h] = "off"] /\ conn' = [conn EXCEPT ![w] = 0]
        /\ port' = [port EXCEPT ![h] = Append(@, "DONE")] /\ orphans' = orphans
    BY <1>6, <1>7 DEF Exit, Goto, Post
  <2>2. /\ port'[h] = Append(port[h], "DONE") /\ pc'[h] = "off"
        /\ port[h] \in Seq(PortEvents)
    BY <2>1 DEF TypeOK
  <2>3. /\ Len(port'[h]) = Len(port[h]) + 1 /\ port'[h][Len(port'[h])] = "DONE"
        /\ \A i \in DOMAIN port'[h] :
                i = Len(port'[h]) \/ (i \in DOMAIN port[h] /\ port'[h][i] = port[h][i])
    BY <2>2, PostedEvents, Appended
  <2>4. PortOK(h)' /\ port'[h] # <<>>
    BY <1>4, <2>2, <2>3 DEF PortOK
  <2>. QED
    BY <1>1, <1>2, <1>6, <2>1, <2>3, <2>4, CalmStep DEF TypeOK
<1>8. CASE Push(h)
  <2>1. \E label \in {"producer", "claim"} : pc' = [pc EXCEPT ![h] = label]
    BY <1>8 DEF Push, Goto, Resume
  <2>2. /\ port' = [port EXCEPT ![h] = Append(@, "FINISHED")]
        /\ UNCHANGED <<conn, orphans>> /\ pc[h] = "push"
    BY <1>6, <1>8 DEF Push, Post
  <2>3. /\ port'[h] = Append(port[h], "FINISHED") /\ port[h] \in Seq(PortEvents)
    BY <2>2 DEF TypeOK
  <2>4. \A i \in DOMAIN port'[h] : port'[h][i] = "FINISHED"
    <3>1. /\ port'[h][Len(port'[h])] = "FINISHED"
          /\ \A i \in DOMAIN port'[h] :
                i = Len(port'[h]) \/ (i \in DOMAIN port[h] /\ port'[h][i] = port[h][i])
      BY <2>3, PostedEvents, Appended
    <3>. QED
      BY <1>4, <3>1
  <2>5. PortOK(h)'
    BY <2>4 DEF PortOK
  <2>6. conn[w] = 1
    BY <1>2, <2>2 DEF Connected
  <2>. QED
    BY <1>1, <1>2, <1>6, <2>1, <2>2, <2>5, <2>6, CalmStep DEF TypeOK
<1>9. CASE ReceiveInit(h) \/ Connect(h)
  <2>1. /\ UNCHANGED <<port, orphans>>
        /\ \/ pc' = [pc EXCEPT ![h] = "connect"] /\ conn' = [conn EXCEPT ![w] = 0]
           \/ pc' = [pc EXCEPT ![h] = "context"] /\ conn' = [conn EXCEPT ![w] = 1]
    BY <1>2, <1>9 DEF ReceiveInit, Connect, Goto, control
  <2>2. PortOK(h)'
    BY <1>4, <2>1 DEF PortOK
  <2>3. CASE pc' = [pc EXCEPT ![h] = "connect"] /\ conn' = [conn EXCEPT ![w] = 0]
    BY <1>1, <1>2, <1>6, <2>1, <2>2, <2>3, CalmStep DEF TypeOK
  <2>4. CASE pc' = [pc EXCEPT ![h] = "context"] /\ conn' = [conn EXCEPT ![w] = 1]
    <3>1. conn'[w] = 1
      BY <1>3, <2>4 DEF TypeOK
    <3>. QED
      BY <1>1, <1>2, <1>6, <2>1, <2>2, <2>4, <3>1, CalmStep DEF TypeOK
  <2>. QED
    BY <2>1, <2>3, <2>4
<1>10. CASE \/ LoadContext(h) \/ AutoClaim(h) \/ ReadNew(h) \/ ReadPending(h)
            \/ ReadNothing(h) \/ Insert(h) \/ Acknowledge(h) \/ CheckProducer(h)
            \/ CheckLag(h) \/ EndJob(h)
  <2>1. UNCHANGED <<port, orphans, conn>>
    BY <1>5, <1>10 DEF LoadContext, AutoClaim, ReadNew, ReadPending, ReadNothing,
       Insert, Acknowledge, CheckProducer, CheckLag, EndJob, control
  <2>5. \E label \in Pcs \ {"off"} : pc' = [pc EXCEPT ![h] = label]
    <3>1. phase[h] \in {"dlq", "pending", "poll"}
      BY DEF TypeOK, Phases
    <3>2. CASE LoadContext(h) \/ AutoClaim(h) \/ ReadNew(h) \/ ReadPending(h) \/ Insert(h)
      BY <1>5, <3>2 DEF LoadContext, AutoClaim, ReadNew, ReadPending, Insert, Goto, Pcs
    <3>3. CASE ReadNothing(h)
      BY <3>1, <3>3 DEF ReadNothing, Goto, Pcs
    <3>4. CASE Acknowledge(h)
      BY <3>4 DEF Acknowledge, Goto, Pcs, Resume
    <3>5. CASE CheckProducer(h) \/ CheckLag(h) \/ EndJob(h)
      BY <3>5 DEF CheckProducer, CheckLag, EndJob, Goto, Pcs
    <3>. QED
      BY <1>10, <3>2, <3>3, <3>4, <3>5
  <2>2. pc[h] \notin {"off", "init", "connect"}
    BY <1>10 DEF LoadContext, AutoClaim, ReadNew, ReadPending, ReadNothing,
       Insert, Acknowledge, CheckProducer, CheckLag, EndJob
  <2>3. conn[w] = 1
    BY <1>2, <2>2 DEF Connected
  <2>4. PortOK(h)'
    BY <1>4, <2>1 DEF PortOK
  <2>. QED
    BY <1>1, <1>2, <1>6, <2>1, <2>3, <2>4, <2>5, CalmStep DEF TypeOK
<1>. QED
  BY <1>5, <1>7, <1>8, <1>9, <1>10 DEF HandlerStep

\* What the arrival of a post has to keep: the insert worker may be started by
\* it, nobody else.
LEMMA CalmArrival ==
    ASSUME TypeOK, TypeOK', Calm, main = "run",
           UNCHANGED <<main, crew, orphans, conn>>,
           NEW w \in AllWorkers, status[w] = "running",
           NEW stat \in [AllWorkers -> Statuses],
           NEW e \in {"running", "stopped"}, stat = [status EXCEPT ![w] = e],
           InitInsertIfIdle(stat) \/ (status' = stat /\ UNCHANGED pc),
           \A g \in Handlers : g # First(w) => port'[g] = port[g],
           \A i \in DOMAIN port'[First(w)] :
                /\ port'[First(w)][i] \in {"FINISHED", "DONE"}
                /\ port'[First(w)][i] = "DONE" => i = Len(port'[First(w)]) /\ pc[First(w)] = "off",
           e = "stopped" => pc[First(w)] = "off" /\ port'[First(w)] = <<>>,
           e = "running" /\ pc[First(w)] = "off" =>
                port'[First(w)] # <<>> /\ port'[First(w)][Len(port'[First(w)])] = "DONE",
           doneCount' = Cardinality({v \in crew : stat[v] = "stopped"})
    PROVE  Calm'
<1>1. /\ stat[w] = e /\ \A v \in AllWorkers : v # w => stat[v] = status[v]
      /\ Inserter \in AllWorkers /\ crew \subseteq Workers /\ crew \subseteq AllWorkers
      /\ Inserter \notin crew
  BY ConstantsAssumption DEF TypeOK, AllWorkers
<1>2. \A v \in AllWorkers : CalmWorker(v)
  BY DEF Calm
<1>3. stat[Inserter] = "idle" =>
        /\ Inserter # w
        /\ pc[First(Inserter)] = "off" /\ port[First(Inserter)] = <<>>
  BY <1>1, <1>2 DEF CalmWorker
<1>4. Started({Inserter}) = [h \in Handlers |->
            IF WorkerOf(h) \in {Inserter} /\ h[2] = 1 THEN "init" ELSE pc[h]]
        \/ stat[Inserter] # "idle"
  BY <1>1, <1>3, CalmStarted
<1>5. \A v \in AllWorkers : \A k \in Slots :
        /\ <<v, k>> \in Handlers /\ WorkerOf(<<v, k>>) = v /\ <<v, k>>[2] = k
        /\ First(v) = <<v, 1>>
  BY DEF Handlers, WorkerOf, First
<1>6. 1 \in Slots
  BY FirstFacts
<1>7. \A v \in AllWorkers : \A k \in Slots \ {1} :
        pc'[<<v, k>>] = pc[<<v, k>>] /\ port'[<<v, k>>] = port[<<v, k>>]
  <2>1. ASSUME NEW v \in AllWorkers, NEW k \in Slots \ {1}
        PROVE  pc'[<<v, k>>] = pc[<<v, k>>] /\ port'[<<v, k>>] = port[<<v, k>>]
    <3>1. <<v, k>> # First(w)
      BY <2>1 DEF First
    <3>2. <<v, k>> \in Handlers /\ <<v, k>>[2] # 1
      BY <1>5, <2>1
    <3>4. pc'[<<v, k>>] = pc[<<v, k>>]
      <4>1. CASE stat[Inserter] # "idle" \/ UNCHANGED pc
        BY <4>1 DEF InitInsertIfIdle
      <4>2. CASE stat[Inserter] = "idle" /\ pc' = Started({Inserter})
        BY <1>4, <3>2, <4>2
      <4>. QED
        BY <4>1, <4>2 DEF InitInsertIfIdle
    <3>. QED
      BY <3>1, <3>2, <3>4
  <2>. QED
    BY <2>1
<1>8. ASSUME NEW v \in AllWorkers
      PROVE  \/ /\ v = Inserter /\ v # w /\ status[v] = "idle" /\ status'[v] = "running"
                /\ pc'[First(v)] = "init"
             \/ status'[v] = stat[v] /\ pc'[First(v)] = pc[First(v)]
  <2>1. CASE status' = stat /\ UNCHANGED pc
    BY <2>1
  <2>2. CASE InitInsertIfIdle(stat) /\ stat[Inserter] = "idle"
    <3>1. /\ status' = [stat EXCEPT ![Inserter] = "running"]
          /\ pc' = [h \in Handlers |->
            IF WorkerOf(h) \in {Inserter} /\ h[2] = 1 THEN "init" ELSE pc[h]]
      BY <1>4, <2>2 DEF InitInsertIfIdle
    <3>4. First(v) \in Handlers /\ WorkerOf(First(v)) = v /\ First(v)[2] = 1
      BY FirstFacts, Zenon DEF First
    <3>2. pc'[First(v)] = IF v = Inserter THEN "init" ELSE pc[First(v)]
      BY <3>1, <3>4
    <3>3. status'[v] = IF v = Inserter THEN "running" ELSE stat[v]
      BY <1>1, <1>8, <3>1
    <3>. QED
      BY <1>1, <1>3, <2>2, <3>2, <3>3
  <2>3. CASE InitInsertIfIdle(stat) /\ stat[Inserter] # "idle"
    BY <2>3 DEF InitInsertIfIdle
  <2>. QED
    BY <2>1, <2>2, <2>3
<1>9. ASSUME NEW v \in AllWorkers, v # w
      PROVE  CalmWorker(v)'
  <2>1. CalmWorker(v) /\ stat[v] = status[v] /\ port'[First(v)] = port[First(v)]
    <3>1. First(v) \in Handlers /\ First(v) # First(w)
      BY <1>9, FirstFacts
    <3>. QED
      BY <1>1, <1>2, <1>9, <3>1
  <2>2. \A k \in Slots \ {1} :
        pc'[<<v, k>>] = pc[<<v, k>>] /\ port'[<<v, k>>] = port[<<v, k>>]
    BY <1>7
  <2>3. CASE status'[v] = stat[v] /\ pc'[First(v)] = pc[First(v)]
    BY <2>1, <2>2, <2>3 DEF CalmWorker, PortOK, First
  <2>4. CASE /\ v = Inserter /\ status[v] = "idle" /\ status'[v] = "running"
             /\ pc'[First(v)] = "init"
    <3>1. port'[First(v)] = <<>>
      BY <2>1, <2>4 DEF CalmWorker
    <3>2. PortOK(First(v))'
      BY <3>1 DEF PortOK, First
    <3>. QED
      BY <1>1, <2>1, <2>2, <2>4, <3>1, <3>2 DEF CalmWorker, First
  <2>. QED
    BY <1>8, <1>9, <2>3, <2>4
<1>10. CalmWorker(w)'
  <2>1. CalmWorker(w) /\ status'[w] = e /\ pc'[First(w)] = pc[First(w)]
    BY <1>1, <1>2, <1>8
  <2>2. \A k \in Slots \ {1} :
        pc'[<<w, k>>] = pc[<<w, k>>] /\ port'[<<w, k>>] = port[<<w, k>>]
    BY <1>7
  <2>3. PortOK(First(w))'
    BY <2>1 DEF PortOK, First
  <2>. QED
    BY <2>1, <2>2, <2>3 DEF CalmWorker, First
<1>11. \A v \in crew : status'[v] = stat[v]
  BY <1>1, <1>8
<1>12. Stopped' = {v \in crew : stat[v] = "stopped"}
  BY <1>11 DEF Stopped
<1>. QED
  BY <1>1, <1>9, <1>10, <1>12 DEF Calm

\* The workers of a round are counted one by one.
LEMMA StoppedCount ==
    ASSUME TypeOK, Calm
    PROVE  /\ IsFiniteSet(crew) /\ IsFiniteSet(Stopped)
           /\ Cardinality(Stopped) <= Cardinality(crew)
           /\ Cardinality(crew) \in Nat
           /\ Cardinality(Stopped) = Cardinality(crew) => Stopped = crew
           /\ \A w \in crew \ Stopped :
                Cardinality(Stopped \cup {w}) = Cardinality(Stopped) + 1
<1>1. IsFiniteSet(crew) /\ Stopped \subseteq crew
  BY ConstantsAssumption, FS_Subset DEF Calm, Stopped
<1>2. IsFiniteSet(Stopped) /\ Cardinality(Stopped) <= Cardinality(crew)
      /\ (Cardinality(Stopped) = Cardinality(crew) => Stopped = crew)
  BY <1>1, FS_Subset
<1>3. \A w \in crew \ Stopped : Cardinality(Stopped \cup {w}) = Cardinality(Stopped) + 1
  BY <1>2, FS_AddElement
<1>. QED
  BY <1>1, <1>2, <1>3, FS_CardinalityType

LEMMA CalmOnMessage ==
    ASSUME TypeOK, TypeOK', Calm, main # "returned", NEW h \in Handlers, OnMessage(h)
    PROVE  Calm'
<1>. DEFINE w == WorkerOf(h)
<1>1. /\ h = First(w) /\ status[w] = "running" /\ w \in crew \cup {Inserter}
      /\ main = "run" /\ w \in AllWorkers /\ port[h] # <<>>
  BY CalmHandler, HandlerFacts DEF OnMessage
<1>2. CalmWorker(w) /\ PortOK(h)
  BY <1>1 DEF Calm, CalmWorker
<1>3. port[h] \in Seq(PortEvents) /\ 1 \in DOMAIN port[h] /\ Head(port[h]) = port[h][1]
  BY <1>1 DEF TypeOK
<1>4. /\ Head(port[h]) \in {"FINISHED", "DONE"}
      /\ Head(port[h]) = "DONE" => Len(port[h]) = 1 /\ pc[h] = "off"
  BY <1>2, <1>3 DEF PortOK
<1>5. /\ IF Head(port[h]) = "DONE" THEN OnDone(w) ELSE OnFinished(w)
      /\ port' = [port EXCEPT ![h] = Tail(@)]
      /\ UNCHANGED <<main, crew, orphans, conn>>
  BY <1>4 DEF OnMessage
<1>6. port'[h] = Tail(port[h]) /\ \A g \in Handlers : g # h => port'[g] = port[g]
  BY <1>5 DEF TypeOK
<1>7. /\ Len(Tail(port[h])) = Len(port[h]) - 1
      /\ \A i \in DOMAIN Tail(port[h]) : i + 1 \in DOMAIN port[h] /\ Tail(port[h])[i] = port[h][i + 1]
      /\ Tail(port[h]) \in Seq(PortEvents)
  BY <1>1, <1>3
<1>8. \A i \in DOMAIN port'[h] :
            /\ port'[h][i] \in {"FINISHED", "DONE"}
            /\ port'[h][i] = "DONE" => i = Len(port'[h]) /\ pc[h] = "off"
  BY <1>2, <1>6, <1>7 DEF PortOK
<1>9. crew \subseteq Workers /\ Inserter \notin crew /\ doneCount = Cardinality(Stopped)
  BY ConstantsAssumption DEF Calm
<1>10. CASE Head(port[h]) # "DONE"
  <2>1. /\ InitInsertIfIdle(status) /\ doneCount' = doneCount
        /\ status = [status EXCEPT ![w] = "running"]
    BY <1>1, <1>5, <1>10 DEF OnFinished, TypeOK
  <2>2. pc[h] = "off" => port'[h] # <<>> /\ port'[h][Len(port'[h])] = "DONE"
    <3>1. pc[h] = "off" => port[h][Len(port[h])] = "DONE"
      BY <1>1, <1>2 DEF CalmWorker
    <3>2. pc[h] = "off" => Len(port[h]) # 1
      BY <1>3, <1>10, <3>1
    <3>7. Len(port[h]) \in Nat /\ DOMAIN port[h] = 1 .. Len(port[h])
      BY <1>3
    <3>5. Len(port[h]) \in Nat \ {0} /\ DOMAIN Tail(port[h]) = 1 .. Len(port[h]) - 1
      BY <1>3, <1>7, <3>7
    <3>6. pc[h] = "off" => Len(port[h]) - 1 \in DOMAIN Tail(port[h])
      <4>1. \A n \in Nat \ {0} : n # 1 => n - 1 \in 1 .. n - 1
        OBVIOUS
      <4>. QED
        BY <3>2, <3>5, <4>1
    <3>3. pc[h] = "off" => Tail(port[h])[Len(port[h]) - 1] = port[h][Len(port[h])]
      <4>1. Len(port[h]) - 1 + 1 = Len(port[h])
        BY <3>5
      <4>. QED
        BY <1>7, <3>6, <4>1
    <3>4. pc[h] = "off" => Tail(port[h]) # <<>>
      <4>1. DOMAIN <<>> = {}
        OBVIOUS
      <4>. QED
        BY <3>6, <4>1, Zenon
    <3>. QED
      BY <1>6, <1>7, <3>1, <3>3, <3>4, Zenon
  <2>3. \E e \in {"running", "stopped"} : e = "running"
    OBVIOUS
  <2>4. status \in [AllWorkers -> Statuses]
    BY DEF TypeOK
  <2>5. doneCount' = Cardinality({v \in crew : status[v] = "stopped"})
    BY <1>9, <2>1 DEF Stopped
  <2>. QED
    BY <1>1, <1>5, <1>6, <1>8, <2>1, <2>2, <2>4, <2>5, CalmArrival
<1>11. CASE Head(port[h]) = "DONE"
  <2>. DEFINE stat == [status EXCEPT ![w] = "stopped"]
              still == {v \in crew : stat[v] = "stopped"}
  <2>1. OnDone(w) /\ stat \in [AllWorkers -> Statuses]
    BY <1>1, <1>5, <1>11 DEF TypeOK, Statuses
  <2>2. pc[h] = "off" /\ port'[h] = <<>>
    BY <1>4, <1>6, <1>7, <1>11
  <2>3. /\ InitInsertIfIdle(stat) \/ (status' = stat /\ UNCHANGED pc)
        /\ doneCount' = Cardinality(still)
    <3>1. CASE w = Inserter
      <4>1. still = Stopped
        BY <1>9, <3>1 DEF Stopped, TypeOK, AllWorkers
      <4>. QED
        BY <1>9, <2>1, <3>1, <4>1 DEF OnDone
    <3>2. CASE w # Inserter
      <4>1. still = Stopped \cup {w} /\ w \in crew \ Stopped
        <5>1. w \in crew /\ w \notin Stopped /\ stat[w] = "stopped"
          BY <1>1, <3>2 DEF Stopped, TypeOK
        <5>2. \A v \in crew : v # w => stat[v] = status[v]
          BY <1>9 DEF TypeOK, AllWorkers
        <5>. QED
          BY <5>1, <5>2 DEF Stopped
      <4>2. Cardinality(still) = doneCount + 1 /\ doneCount <= Cardinality(crew)
            /\ doneCount \in Nat /\ Cardinality(crew) \in Nat
        BY <1>9, <4>1, StoppedCount DEF TypeOK
      <4>3. doneCount' = doneCount + 1
            /\ (InitInsertIfIdle(stat) \/ (status' = stat /\ UNCHANGED pc))
        <5>. HIDE DEF still
        <5>. QED
          BY <2>1, <3>2, <4>2 DEF OnDone
      <4>. QED
        BY <4>2, <4>3
    <3>. QED
      BY <3>1, <3>2
  <2>. HIDE DEF stat
  <2>4. stat = [status EXCEPT ![w] = "stopped"]
    BY DEF stat
  <2>5. /\ \A i \in DOMAIN port'[First(w)] :
            /\ port'[First(w)][i] \in {"FINISHED", "DONE"}
            /\ port'[First(w)][i] = "DONE" => i = Len(port'[First(w)]) /\ pc[First(w)] = "off"
        /\ pc[First(w)] = "off" /\ port'[First(w)] = <<>>
        /\ \A g \in Handlers : g # First(w) => port'[g] = port[g]
    BY <1>1, <1>6, <1>8, <2>2, Zenon
  <2>6. doneCount' = Cardinality({v \in crew : stat[v] = "stopped"})
    BY <2>3
  <2>. HIDE DEF w
  <2>. QED
    BY <1>1, <1>5, <2>1, <2>3, <2>4, <2>5, <2>6, CalmArrival
<1>. QED
  BY <1>10, <1>11

\* Failures are counted.
LEMMA NoFailure ==
    ASSUME Next, \A h \in Handlers : ~Fail(h), \A w \in AllWorkers : ~LoseConnection(w)
    PROVE  failures' = failures
<1>1. \A h \in Handlers : HandlerStep(h) \/ OnMessage(h) => failures' = failures
  BY DEF HandlerStep, ReceiveInit, Connect, LoadContext, AutoClaim, ReadNew,
     ReadPending, ReadNothing, Insert, Acknowledge, Push, CheckProducer,
     CheckLag, EndJob, CommandError, Exit, OnMessage, bounds
<1>2. Queue \/ MainStep \/ Healthcheck \/ ConfirmRestart \/ DeclineRestart \/ Quit
        \/ Crash \/ Finished => failures' = failures
  BY DEF Queue, MainStep, EnqueueBatch, CloseEnqueuer, AwaitAll, CheckProcess,
     CheckInsert, ClearPersisted, Healthcheck, ConfirmRestart, DeclineRestart,
     Quit, Crash, Finished, vars, bounds
<1>. QED
  BY <1>1, <1>2, Zenon DEF Next

LEMMA FailuresCounted ==
    ASSUME TypeOK, Next
    PROVE  /\ failures' = 0 => failures = 0
           /\ failures' = 0 => \A h \in Handlers : ~Fail(h)
           /\ failures' = 0 => \A w \in AllWorkers : ~LoseConnection(w)
<1>1. failures \in Nat
  BY DEF TypeOK
<1>2. \A h \in Handlers : Fail(h) => failures' = failures + 1
  BY DEF Fail
<1>3. \A w \in AllWorkers : LoseConnection(w) => failures' = failures + 1
  BY DEF LoseConnection
<1>. QED
  BY <1>1, <1>2, <1>3, NoFailure

\* A round begins: the workers of ws are started, all others are at rest.
LEMMA CalmRound ==
    ASSUME TypeOK, TypeOK', Calm, NEW ws \in SUBSET Workers,
           \A w \in AllWorkers : pc[First(w)] = "off" /\ port[First(w)] = <<>>,
           main' = "run", crew' = ws, pc' = Started(ws),
           status' = [w \in AllWorkers |-> IF w \in ws THEN "running" ELSE "idle"],
           doneCount' = 0, orphans' = {}, UNCHANGED conn,
           \A h \in Handlers : port'[h] = <<>>
    PROVE  Calm'
<1>1. Started(ws) = [h \in Handlers |->
            IF WorkerOf(h) \in ws /\ h[2] = 1 THEN "init" ELSE pc[h]]
  BY CalmStarted DEF AllWorkers
<1>2. ASSUME NEW w \in AllWorkers
      PROVE  CalmWorker(w)'
  <2>1. CalmWorker(w)
    BY DEF Calm
  <2>2. \A k \in Slots : <<w, k>> \in Handlers /\ WorkerOf(<<w, k>>) = w /\ <<w, k>>[2] = k
    BY DEF Handlers, WorkerOf
  <2>3. \A k \in Slots \ {1} : pc'[<<w, k>>] = "off" /\ port'[<<w, k>>] = <<>>
    BY <1>1, <2>1, <2>2 DEF CalmWorker
  <2>4. First(w) \in Handlers /\ WorkerOf(First(w)) = w /\ First(w)[2] = 1
    BY FirstFacts, Zenon DEF First
  <2>5. /\ pc'[First(w)] = IF w \in ws THEN "init" ELSE "off"
        /\ port'[First(w)] = <<>>
    BY <1>1, <2>4
  <2>6. PortOK(First(w))'
    BY <2>5 DEF PortOK, First
  <2>7. status'[w] = IF w \in ws THEN "running" ELSE "idle"
    OBVIOUS
  <2>. QED
    BY <2>3, <2>5, <2>6, <2>7 DEF CalmWorker, First
<1>3. Stopped' = {}
  BY DEF Stopped, AllWorkers
<1>4. Cardinality(Stopped') = 0
  BY <1>3, FS_EmptySet
<1>. QED
  BY <1>2, <1>4 DEF Calm

LEMMA CalmDie ==
    ASSUME Die
    PROVE  Calm'
<1>1. \A w \in AllWorkers : CalmWorker(w)'
  <2>1. ASSUME NEW w \in AllWorkers
        PROVE  CalmWorker(w)'
    <3>1. \A k \in Slots : <<w, k>> \in Handlers
      BY <2>1 DEF Handlers
    <3>2. \A k \in Slots : pc'[<<w, k>>] = "off" /\ port'[<<w, k>>] = <<>>
      BY <3>1 DEF Die
    <3>3. pc'[First(w)] = "off" /\ port'[First(w)] = <<>>
      BY <3>2, FirstFacts DEF First
    <3>4. PortOK(First(w))'
      BY <3>3 DEF PortOK, First
    <3>5. status'[w] = "idle" /\ crew' = {}
      BY <2>1 DEF Die
    <3>. QED
      BY <3>2, <3>3, <3>4, <3>5 DEF CalmWorker, First
  <2>. QED
    BY <2>1
<1>2. Stopped' = {}
  BY DEF Die, Stopped
<1>3. Cardinality(Stopped') = 0
  BY <1>2, FS_EmptySet
<1>. QED
  BY <1>1, <1>3 DEF Die, Calm

\* Main thread steps that leave workers, posts and statuses alone.
LEMMA CalmMain ==
    ASSUME Calm, UNCHANGED <<crew, status, doneCount, port, orphans, pc, conn>>,
           main' = "down" => main = "down",
           main' \in {"checkProcess", "checkInsert", "confirm", "clear", "aborted"}
                => AllStopped,
           main' \in {"checkInsert", "clear"} => ~Activity("process", "processDlq")',
           main' = "clear" => ~Activity("insert", "insertDlq")'
    PROVE  Calm'
<1>1. ASSUME NEW w \in AllWorkers
      PROVE  CalmWorker(w)'
  <2>1. CalmWorker(w)
    BY DEF Calm
  <2>2. PortOK(First(w))' <=> PortOK(First(w))
    BY DEF PortOK, First
  <2>. QED
    BY <2>1, <2>2 DEF CalmWorker, First
<1>2. Stopped' = Stopped /\ (AllStopped <=> AllStopped')
  BY DEF Stopped, AllStopped
<1>. QED
  BY <1>1, <1>2 DEF Calm

LEMMA CalmKeeps ==
    ASSUME IInv, CalmInv, [Next]_vars
    PROVE  CalmInv'
<1>1. CASE UNCHANGED vars
  BY <1>1 DEF vars, CalmInv, Calm, CalmWorker, PortOK, First, Stopped, AllStopped, Activity
<1>2. CASE main = "returned" \/ main' = "returned"
  <2>1. Next /\ main = "returned" => main' = main
    BY ReturnedStays
  <2>. QED
    BY <1>1, <1>2, <2>1 DEF CalmInv, vars
<1>. SUFFICES ASSUME Next, main # "returned", main' # "returned", failures' = 0
              PROVE  Calm'
  BY <1>1, <1>2 DEF CalmInv
<1>3. TypeOK /\ TypeOK' /\ Calm
  BY FailuresCounted, Inductive DEF IInv, CalmInv
<1>4. /\ \A h \in Handlers : ~Fail(h)
      /\ \A w \in AllWorkers : ~LoseConnection(w)
      /\ ~ClearPersisted
  BY <1>3, FailuresCounted DEF ClearPersisted
<1>5. \A w \in AllWorkers : CalmWorker(w)
  BY <1>3 DEF Calm
<1>6. Crews \subseteq SUBSET Workers /\ crew \subseteq Workers /\ orphans = {}
  BY <1>3, ConstantsAssumption DEF Calm
<1>7. ASSUME Queue
      PROVE  Calm'
  <2>1. PICK c \in Crews :
            /\ crew' = c /\ pc' = Started(c)
            /\ status' = [w \in AllWorkers |-> IF w \in c THEN "running" ELSE "idle"]
    BY <1>7 DEF Queue
  <2>2. \A w \in AllWorkers : status[w] = "idle"
    BY <1>3, <1>7 DEF Queue, Calm
  <2>3. \A w \in AllWorkers : pc[First(w)] = "off" /\ port[First(w)] = <<>>
    BY <1>5, <2>2 DEF CalmWorker
  <2>4. Stopped = {}
    BY <1>6, <2>2 DEF Stopped, AllWorkers
  <2>5. doneCount' = 0
    BY <1>3, <1>7, <2>4, FS_EmptySet DEF Calm, Queue
  <2>6. \A h \in Handlers : port'[h] = <<>>
    <3>1. \A h \in Handlers : WorkerOf(h) \in AllWorkers
      BY HandlerFacts
    <3>. QED
      BY <1>3, <1>7, <2>2, <3>1, CalmHandler DEF Queue
  <2>. QED
    BY <1>3, <1>6, <1>7, <2>1, <2>3, <2>5, <2>6, CalmRound DEF Queue
<1>8. ASSUME ConfirmRestart
      PROVE  Calm'
  <2>1. main = "confirm" /\ AllStopped
    BY <1>3, <1>8 DEF ConfirmRestart, Calm
  <2>2. \A w \in AllWorkers : status[w] # "running"
    BY <1>5, <2>1 DEF AllStopped, CalmWorker
  <2>3. \A w \in AllWorkers : pc[First(w)] = "off" /\ port[First(w)] = <<>>
    BY <1>5, <2>2 DEF CalmWorker
  <2>4. \A h \in Handlers : pc[h] = "off"
    <3>1. \A h \in Handlers : WorkerOf(h) \in AllWorkers
      BY HandlerFacts
    <3>. QED
      BY <1>3, <2>2, <3>1, CalmHandler
  <2>. QED
    BY <1>3, <1>6, <1>8, <2>3, <2>4, CalmRound DEF ConfirmRestart
<1>9. ASSUME AwaitAll
      PROVE  Calm'
  <2>1. Cardinality(Stopped) = Cardinality(crew)
    BY <1>3, <1>9, StoppedCount, FS_CardinalityType DEF AwaitAll, Calm
  <2>2. AllStopped
    BY <1>3, <1>9, <2>1, StoppedCount DEF AwaitAll, AllStopped, Stopped
  <2>. QED
    BY <1>3, <1>9, <2>2, CalmMain DEF AwaitAll, threads
<1>10. ASSUME EnqueueBatch \/ CloseEnqueuer \/ CheckProcess \/ CheckInsert \/ DeclineRestart
       PROVE  Calm'
  <2>1. UNCHANGED <<crew, status, doneCount, port, orphans, pc, conn>>
    BY <1>10 DEF EnqueueBatch, CloseEnqueuer, CheckProcess, CheckInsert,
                 DeclineRestart, threads
  <2>2. CASE EnqueueBatch \/ CloseEnqueuer
    <3>1. main' = "run"
      BY <2>2 DEF EnqueueBatch, CloseEnqueuer
    <3>. QED
      BY <1>3, <2>1, <3>1, CalmMain
  <2>3. CASE CheckProcess \/ CheckInsert \/ DeclineRestart
    <3>1. AllStopped /\ (main = "checkInsert" => ~Activity("process", "processDlq"))
      BY <1>3, <2>3 DEF CheckProcess, CheckInsert, DeclineRestart, Calm
    <3>2. Activity("process", "processDlq")' <=> Activity("process", "processDlq")
      BY <2>3 DEF CheckProcess, CheckInsert, DeclineRestart, Activity, redis
    <3>3. Activity("insert", "insertDlq")' <=> Activity("insert", "insertDlq")
      BY <2>3 DEF CheckProcess, CheckInsert, DeclineRestart, Activity, redis
    <3>. QED
      BY <1>3, <2>1, <2>3, <3>1, <3>2, <3>3, CalmMain DEF CheckProcess, CheckInsert,
         DeclineRestart
  <2>. QED
    BY <1>10, <2>2, <2>3
<1>11. ~Healthcheck
  <2>1. \A w \in crew : status[w] # "interrupted"
    BY <1>5, <1>6 DEF CalmWorker, AllWorkers
  <2>. QED
    BY <2>1 DEF Healthcheck
<1>12. ASSUME Quit \/ Crash
       PROVE  Calm'
  BY <1>12, CalmDie DEF Quit, Crash
<1>13. ASSUME NEW h \in Handlers, HandlerStep(h) \/ OnMessage(h)
       PROVE  Calm'
  BY <1>3, <1>13, CalmHandlerStep, CalmOnMessage
<1>14. ASSUME Finished
       PROVE  Calm'
  BY <1>1, <1>14 DEF Finished, CalmInv
<1>. QED
  BY <1>4, <1>7, <1>8, <1>9, <1>10, <1>11, <1>12, <1>13, <1>14, Zenon DEF Next, MainStep

\* The rounds of a queue without failures, for all constants.
THEOREM CalmRounds == Spec => []CalmInv
<1>1. Init => CalmInv
  <2>. SUFFICES ASSUME Init PROVE Calm
    BY DEF CalmInv
  <2>1. \A w \in AllWorkers : CalmWorker(w)
    <3>1. ASSUME NEW w \in AllWorkers PROVE CalmWorker(w)
      <4>1. \A k \in Slots : <<w, k>> \in Handlers
        BY DEF Handlers
      <4>2. \A k \in Slots : pc[<<w, k>>] = "off" /\ port[<<w, k>>] = <<>>
        BY <4>1 DEF Init
      <4>. QED
        BY <4>2, FirstFacts DEF Init, CalmWorker, First, PortOK
    <3>. QED
      BY <3>1
  <2>2. Stopped = {}
    BY DEF Init, Stopped
  <2>3. doneCount = Cardinality(Stopped)
    BY <2>2, FS_EmptySet DEF Init
  <2>. QED
    BY <2>1, <2>3 DEF Init, Calm
<1>2. IInv /\ CalmInv /\ [Next]_vars => CalmInv'
  BY CalmKeeps
<1>. QED
  BY <1>1, <1>2, Invariance, PTL DEF Spec

-----------------------------------------------------------------------------
(* A message goes one way *)

\* The ids a handler has in its hands.
Held(h) == {batch[h][i] : i \in DOMAIN batch[h]}

\* Nobody shares a pending entry, and what is pending was delivered.
GroupOK(st) ==
    /\ \A c, d \in AllWorkers : c # d => st.pel[c] \cap st.pel[d] = {}
    /\ \A c \in AllWorkers : st.pel[c] \subseteq 1 .. st.read

\* The entries of the processing stream that were handed on.
Passed == {streams["insert"].log[i] : i \in DOMAIN streams["insert"].log}

\* The processing stream is done with entry i.
Processed(i) ==
    /\ i \in 1 .. streams["process"].read
    /\ \A c \in AllWorkers : i \notin streams["process"].pel[c]

\* What a handler works on is pending for its worker; between XACK and the push
\* it is nowhere else.
HandlerFlow(h) ==
    /\ Ascending(batch[h])
    /\ batch[h] # <<>> => pc[h] \in {"exec", "ack", "push"} /\ phase[h] # "dlq"
    /\ pc[h] \in {"exec", "ack"} => Held(h) \subseteq streams[Source(h)].pel[WorkerOf(h)]
    /\ pc[h] = "push" => /\ WorkerOf(h) # Inserter
                         /\ \A i \in Held(h) : Processed(i) /\ i \notin Passed

\* A row comes of an entry that was delivered; a second one, of an entry that was
\* pending over a crash.
RowsOK ==
    /\ \A m \in Msgs : rows[m] <= crashes + 1
    /\ \A m \in Msgs : rows[m] > 0 =>
            \E i \in 1 .. streams["insert"].read : streams["insert"].log[i] = m
    /\ \A c \in AllWorkers : \A i \in streams["insert"].pel[c] :
            \/ rows[streams["insert"].log[i]] <= crashes
            \/ \E h \in Handlers : pc[h] = "ack" /\ i \in Held(h)

\* An entry has one owner, goes to the insert stream once, and is written there.
Flow ==
    /\ streams["processDlq"].log = <<>> /\ streams["insertDlq"].log = <<>>
    /\ \A s \in Streams : GroupOK(streams[s])
    /\ \A h \in Handlers : HandlerFlow(h)
    /\ \A g, h \in Handlers : g # h /\ pc[g] = "push" /\ pc[h] = "push"
            => Held(g) \cap Held(h) = {}
    /\ \A i, k \in DOMAIN streams["insert"].log :
            streams["insert"].log[i] = streams["insert"].log[k] => i = k
    /\ \A i \in Passed : Processed(i)
    /\ RowsOK

FlowInv == main # "returned" /\ failures = 0 /\ ~SlowBatches => Flow

LEMMA FlowSame ==
    ASSUME NEW g \in Handlers, HandlerFlow(g),
           pc'[g] = pc[g], batch'[g] = batch[g], phase'[g] = phase[g],
           pc[g] \in {"exec", "ack"} =>
                Held(g) \subseteq streams'[Source(g)].pel[WorkerOf(g)],
           pc[g] = "push" => \A i \in Held(g) : Processed(i)' /\ i \notin Passed'
    PROVE  HandlerFlow(g)' /\ Held(g)' = Held(g)
<1>1. Held(g)' = Held(g) /\ Source(g)' = Source(g) /\ WorkerOf(g)' = WorkerOf(g)
  BY DEF Held, Source, WorkerOf
<1>. QED
  BY <1>1 DEF HandlerFlow

LEMMA FlowIdle ==
    ASSUME NEW g \in Handlers, batch'[g] = <<>>, pc'[g] \notin {"exec", "ack", "push"}
    PROVE  HandlerFlow(g)' /\ Held(g)' = {}
BY DEF HandlerFlow, Held, Ascending

\* What is pending in the insert stream is there, and is a message.
LEMMA PendingEntry ==
    ASSUME TypeOK, ReadInside, Flow, NEW s \in Streams,
           NEW c \in AllWorkers, NEW i \in streams[s].pel[c]
    PROVE  /\ i \in 1 .. streams[s].read /\ i \in DOMAIN streams[s].log
           /\ streams[s].log[i] \in Msgs
<1>1. /\ streams[s].log \in Seq(Msgs) /\ streams[s].read \in Nat
      /\ streams[s].read <= Len(streams[s].log)
  BY DEF TypeOK, Stream, ReadInside, WellRead
<1>2. i \in 1 .. streams[s].read
  BY DEF Flow, GroupOK
<1>. QED
  BY <1>1, <1>2

\* Steps that neither move an entry nor write.
LEMMA FlowQuiet ==
    ASSUME TypeOK, ReadInside, Flow, UNCHANGED rows, crashes' \in Nat,
           \A s \in Streams : /\ streams'[s].read = streams[s].read
                              /\ streams'[s].pel = streams[s].pel,
           \A s \in Streams \ {"process"} : streams'[s].log = streams[s].log,
           \A h \in Handlers :
              \/ pc'[h] = pc[h] /\ batch'[h] = batch[h] /\ phase'[h] = phase[h]
              \/ /\ pc'[h] \notin {"exec", "ack", "push"} /\ batch'[h] = <<>>
                 /\ pc[h] # "ack" \/ crashes' > crashes,
           crashes' >= crashes
    PROVE  Flow'
<1>1. {"process", "processDlq", "insert", "insertDlq"} = Streams
  BY DEF Streams
<1>2. Passed' = Passed /\ \A i : Processed(i)' <=> Processed(i)
  BY <1>1 DEF Passed, Processed
<1>3. ASSUME NEW h \in Handlers
      PROVE  /\ HandlerFlow(h)'
             /\ \/ Held(h)' = Held(h) /\ pc'[h] = pc[h]
                \/ Held(h)' = {} /\ (pc[h] # "ack" \/ crashes' > crashes)
  <2>1. Source(h) \in Streams /\ HandlerFlow(h)
    BY HandlerFacts DEF Flow
  <2>2. CASE pc'[h] = pc[h] /\ batch'[h] = batch[h] /\ phase'[h] = phase[h]
    <3>1. pc[h] \in {"exec", "ack"} => Held(h) \subseteq streams'[Source(h)].pel[WorkerOf(h)]
      BY <2>1 DEF HandlerFlow
    <3>2. pc[h] = "push" => \A i \in Held(h) : Processed(i)' /\ i \notin Passed'
      BY <1>2, <2>1 DEF HandlerFlow
    <3>. QED
      BY <2>1, <2>2, <3>1, <3>2, FlowSame
  <2>3. CASE /\ pc'[h] \notin {"exec", "ack", "push"} /\ batch'[h] = <<>>
             /\ pc[h] # "ack" \/ crashes' > crashes
    BY <2>3, FlowIdle
  <2>. QED
    BY <2>2, <2>3
<1>4. \A s \in Streams : GroupOK(streams[s])'
  BY DEF Flow, GroupOK
<1>5. RowsOK'
  <2>1. \A m \in Msgs : rows'[m] = rows[m] /\ rows[m] \in Nat
    BY DEF TypeOK
  <2>2. crashes \in Nat /\ (crashes' = crashes \/ crashes + 1 <= crashes')
    BY DEF TypeOK
  <2>3. \A m \in Msgs : rows'[m] <= crashes' + 1
    BY <2>1, <2>2 DEF Flow, RowsOK
  <2>4. ASSUME NEW c \in AllWorkers, NEW i \in streams'["insert"].pel[c]
        PROVE  \/ rows'[streams'["insert"].log[i]] <= crashes'
               \/ \E h \in Handlers : pc'[h] = "ack" /\ i \in Held(h)'
    <3>1. i \in streams["insert"].pel[c] /\ streams'["insert"].log = streams["insert"].log
      BY <1>1
    <3>2. streams["insert"].log[i] \in Msgs
      BY <1>1, <3>1, PendingEntry
    <3>3. \/ rows[streams["insert"].log[i]] <= crashes
          \/ \E h \in Handlers : pc[h] = "ack" /\ i \in Held(h)
      BY <3>1 DEF Flow, RowsOK
    <3>4. CASE rows[streams["insert"].log[i]] <= crashes
      BY <2>1, <2>2, <3>1, <3>2, <3>4
    <3>5. CASE \E h \in Handlers : pc[h] = "ack" /\ i \in Held(h)
      <4>1. PICK h \in Handlers : pc[h] = "ack" /\ i \in Held(h)
        BY <3>5
      <4>2. CASE crashes' > crashes
        <5>1. rows[streams["insert"].log[i]] <= crashes + 1
          BY <3>2 DEF Flow, RowsOK
        <5>. QED
          BY <2>1, <2>2, <3>1, <3>2, <4>2, <5>1
      <4>3. CASE ~(crashes' > crashes)
        BY <1>3, <4>1, <4>3
      <4>. QED
        BY <4>2, <4>3
    <3>. QED
      BY <3>3, <3>4, <3>5
  <2>5. \A m \in Msgs : rows'[m] > 0 =>
            \E i \in 1 .. streams'["insert"].read : streams'["insert"].log[i] = m
    BY <1>1, <2>1 DEF Flow, RowsOK
  <2>. QED
    BY <2>3, <2>4, <2>5 DEF RowsOK
<1>6. streams'["processDlq"].log = <<>> /\ streams'["insertDlq"].log = <<>>
  BY <1>1 DEF Flow
<1>7. \A i, k \in DOMAIN streams'["insert"].log :
            streams'["insert"].log[i] = streams'["insert"].log[k] => i = k
  BY <1>1 DEF Flow
<1>8. \A i \in Passed' : Processed(i)'
  BY <1>2 DEF Flow
<1>9. ASSUME NEW g \in Handlers, NEW h \in Handlers, g # h, pc'[g] = "push", pc'[h] = "push"
      PROVE  Held(g)' \cap Held(h)' = {}
  <2>1. Held(g)' = {} \/ (Held(g)' = Held(g) /\ pc[g] = "push")
    BY <1>3, <1>9
  <2>2. Held(h)' = {} \/ (Held(h)' = Held(h) /\ pc[h] = "push")
    BY <1>3, <1>9
  <2>. QED
    BY <1>9, <2>1, <2>2 DEF Flow
<1>. QED
  BY <1>3, <1>4, <1>5, <1>6, <1>7, <1>8, <1>9 DEF Flow

\* A handler takes entries of a stream: they are, or become, pending.
LEMMA FlowTaken ==
    ASSUME TypeOK, ReadInside, ReadInside', Flow, UNCHANGED <<rows, crashes>>,
           NEW s \in Streams, NEW st \in Stream(Msgs, AllWorkers),
           streams' = [streams EXCEPT ![s] = st],
           st.log = streams[s].log, streams[s].read <= st.read, GroupOK(st),
           \A c \in AllWorkers : \A i \in st.pel[c] :
                \/ \E d \in AllWorkers : i \in streams[s].pel[d]
                \/ streams[s].read < i,
           NEW h \in Handlers, HandlerFlow(h)', pc'[h] # "push", pc[h] # "ack",
           \A g \in Handlers \ {h} :
              /\ pc'[g] = pc[g] /\ batch'[g] = batch[g] /\ phase'[g] = phase[g]
              /\ Source(g) = s /\ pc[g] \in {"exec", "ack"} =>
                        Held(g) \subseteq st.pel[WorkerOf(g)]
    PROVE  Flow'
<1>1. /\ {"process", "processDlq", "insert", "insertDlq"} = Streams
      /\ streams'[s] = st
      /\ \A t \in Streams : t # s => streams'[t] = streams[t]
      /\ \A t \in Streams : streams'[t].log = streams[t].log
  BY DEF Streams, TypeOK
<1>2. Passed' = Passed
  BY <1>1 DEF Passed
<1>3. ASSUME NEW i, Processed(i)
      PROVE  Processed(i)'
  <2>1. CASE s = "process"
    <3>1. i \in 1 .. streams[s].read /\ i \in 1 .. st.read
      BY <1>3, <2>1 DEF Processed, TypeOK, Stream
    <3>2. \A c \in AllWorkers : i \notin st.pel[c]
      BY <1>3, <2>1, <3>1 DEF Processed, TypeOK, Stream
    <3>. QED
      BY <1>1, <2>1, <3>1, <3>2 DEF Processed
  <2>2. CASE s # "process"
    <3>1. streams'["process"] = streams["process"]
      BY <1>1, <2>2
    <3>. QED
      BY <1>3, <3>1 DEF Processed
  <2>. QED
    BY <2>1, <2>2
<1>4. ASSUME NEW g \in Handlers \ {h}
      PROVE  HandlerFlow(g)' /\ Held(g)' = Held(g)
  <2>1. HandlerFlow(g) /\ Source(g) \in Streams
    BY HandlerFacts DEF Flow
  <2>2. pc[g] \in {"exec", "ack"} => Held(g) \subseteq streams'[Source(g)].pel[WorkerOf(g)]
    BY <1>1, <2>1 DEF HandlerFlow
  <2>3. pc[g] = "push" => \A i \in Held(g) : Processed(i)' /\ i \notin Passed'
    BY <1>2, <1>3, <2>1 DEF HandlerFlow
  <2>. QED
    BY <2>1, <2>2, <2>3, FlowSame
<1>5. \A t \in Streams : GroupOK(streams[t])'
  <2>1. \A t \in Streams : GroupOK(streams'[t])
    BY <1>1 DEF Flow
  <2>. QED
    BY <2>1 DEF GroupOK
<1>6. RowsOK'
  <2>1. /\ \A m \in Msgs : rows'[m] <= crashes' + 1
        /\ streams["insert"].read <= streams'["insert"].read
        /\ streams["insert"].read \in Nat /\ streams'["insert"].read \in Nat
    BY <1>1 DEF Flow, RowsOK, TypeOK, Stream
  <2>2. \A m \in Msgs : rows'[m] > 0 =>
            \E i \in 1 .. streams'["insert"].read : streams'["insert"].log[i] = m
    <3>1. ASSUME NEW m \in Msgs, rows[m] > 0
          PROVE  \E i \in 1 .. streams'["insert"].read : streams'["insert"].log[i] = m
      <4>1. PICK i \in 1 .. streams["insert"].read : streams["insert"].log[i] = m
        BY <3>1 DEF Flow, RowsOK
      <4>2. i \in 1 .. streams'["insert"].read
        BY <2>1
      <4>. QED
        BY <1>1, <4>1, <4>2
    <3>. QED
      BY <3>1
  <2>3. ASSUME NEW c \in AllWorkers, NEW i \in streams'["insert"].pel[c]
        PROVE  \/ rows'[streams'["insert"].log[i]] <= crashes'
               \/ \E g \in Handlers : pc'[g] = "ack" /\ i \in Held(g)'
    <3>1. CASE \E d \in AllWorkers : i \in streams["insert"].pel[d]
      <4>1. \/ rows[streams["insert"].log[i]] <= crashes
            \/ \E g \in Handlers : pc[g] = "ack" /\ i \in Held(g)
        BY <3>1 DEF Flow, RowsOK
      <4>. QED
        BY <1>1, <1>4, <4>1
    <3>2. CASE streams["insert"].read < i /\ s = "insert"
      <4>1. /\ i \in 1 .. streams'["insert"].read
            /\ streams'["insert"].read <= Len(streams["insert"].log)
            /\ streams["insert"].log \in Seq(Msgs)
        <5>1. streams'["insert"].read <= Len(streams'["insert"].log)
          BY <1>1 DEF ReadInside, WellRead
        <5>2. i \in 1 .. streams'["insert"].read
          BY <1>1, <1>5 DEF GroupOK
        <5>. QED
          BY <1>1, <5>1, <5>2 DEF TypeOK, Stream
      <4>2. i \in DOMAIN streams["insert"].log /\ streams["insert"].log[i] \in Msgs
        BY <2>1, <4>1
      <4>3. ~(rows[streams["insert"].log[i]] > 0)
        <5>1. SUFFICES ASSUME rows[streams["insert"].log[i]] > 0 PROVE FALSE
          OBVIOUS
        <5>2. PICK k \in 1 .. streams["insert"].read :
                    streams["insert"].log[k] = streams["insert"].log[i]
          BY <4>2, <5>1 DEF Flow, RowsOK
        <5>3. k \in DOMAIN streams["insert"].log
          BY <1>1, <4>1 DEF ReadInside, WellRead, TypeOK, Stream
        <5>4. k = i
          BY <4>2, <5>2, <5>3 DEF Flow
        <5>. QED
          BY <3>2, <5>2, <5>4, <2>1
      <4>4. rows[streams["insert"].log[i]] \in Nat /\ crashes \in Nat
        BY <4>2 DEF TypeOK
      <4>. QED
        BY <1>1, <4>3, <4>4
    <3>. QED
      BY <1>1, <2>3, <3>1, <3>2
  <2>. QED
    BY <2>1, <2>2, <2>3 DEF RowsOK
<1>7. \A g, k \in Handlers : g # k /\ pc'[g] = "push" /\ pc'[k] = "push"
            => Held(g)' \cap Held(k)' = {}
  BY <1>4 DEF Flow
<1>8. \A i \in Passed' : Processed(i)'
  BY <1>2, <1>3 DEF Flow
<1>9. /\ streams'["processDlq"].log = <<>> /\ streams'["insertDlq"].log = <<>>
      /\ \A i, k \in DOMAIN streams'["insert"].log :
            streams'["insert"].log[i] = streams'["insert"].log[k] => i = k
  BY <1>1 DEF Flow
<1>. QED
  BY <1>4, <1>5, <1>6, <1>7, <1>8, <1>9 DEF Flow

\* XAUTOCLAIM leaves alone what a live handler works on.
LEMMA FlowAutoClaim ==
    ASSUME IInv, IInv', Flow, ~SlowBatches, NEW h \in Handlers, AutoClaim(h)
    PROVE  Flow'
<1>. DEFINE s == Source(h)
            old == streams[s]
            w == WorkerOf(h)
<1>1. PICK ids \in SUBSET (Pending(old) \ InUse(s)) :
        streams' = [streams EXCEPT ![s] = Claim(old, w, ids)]
  BY DEF AutoClaim
<1>. DEFINE st == Claim(old, w, ids)
<1>2. /\ s \in Streams /\ w \in AllWorkers /\ old \in Stream(Msgs, AllWorkers)
      /\ ids \in SUBSET Nat /\ ids \subseteq Pending(old) /\ ids \cap InUse(s) = {}
  BY <1>1, HandlerFacts, ReadableType DEF IInv
<1>3. st \in Stream(Msgs, AllWorkers) /\ st.log = old.log /\ st.read = old.read
  BY <1>2, GroupFacts
<1>4. /\ old.pel \in [AllWorkers -> SUBSET Nat]
      /\ st.pel = [d \in AllWorkers |-> IF d = w THEN old.pel[d] \cup ids
                                                 ELSE old.pel[d] \ ids]
  BY <1>2 DEF Claim, Stream
<1>5. \A i \in ids : \E d \in AllWorkers : i \in old.pel[d]
  BY <1>2, <1>4 DEF Pending
<1>6. \A c \in AllWorkers : \A i \in st.pel[c] : \E d \in AllWorkers : i \in old.pel[d]
  BY <1>4, <1>5
<1>7. GroupOK(st)
  <2>1. GroupOK(old)
    BY <1>2 DEF Flow
  <2>2. \A c \in AllWorkers : st.pel[c] \subseteq 1 .. st.read
    BY <1>3, <1>6, <2>1 DEF GroupOK
  <2>3. \A c, d \in AllWorkers : c # d => st.pel[c] \cap st.pel[d] = {}
    BY <1>4, <2>1 DEF GroupOK
  <2>. QED
    BY <2>2, <2>3 DEF GroupOK
<1>8. /\ pc[h] = "claim" /\ batch' = batch /\ phase' = phase /\ main # "returned"
      /\ pc' = [pc EXCEPT ![h] = "read"] /\ UNCHANGED <<rows, crashes>>
  BY DEF AutoClaim, Up, Goto, bounds
<1>9. /\ batch[h] = <<>> /\ pc'[h] = "read"
      /\ \A g \in Handlers \ {h} : pc'[g] = pc[g]
  BY <1>8, IdleHandler DEF IInv, TypeOK
<1>10. HandlerFlow(h)'
  BY <1>8, <1>9, FlowIdle
<1>11. ASSUME NEW g \in Handlers \ {h}, Source(g) = s, pc[g] \in {"exec", "ack"}
       PROVE  Held(g) \subseteq st.pel[WorkerOf(g)]
  <2>1. Held(g) \subseteq old.pel[WorkerOf(g)] /\ WorkerOf(g) \in AllWorkers
    BY <1>11, HandlerFacts DEF Flow, HandlerFlow
  <2>2. Held(g) \subseteq InUse(s)
    BY <1>11 DEF InUse, Held
  <2>. QED
    BY <1>2, <1>4, <2>1, <2>2
<1>12. old.read <= st.read
  BY <1>2, <1>3 DEF Stream
<1>13. streams' = [streams EXCEPT ![s] = st]
  BY <1>1
<1>14. TypeOK /\ ReadInside /\ ReadInside'
  BY DEF IInv
<1>. HIDE DEF st
<1>. QED
  BY <1>2, <1>3, <1>6, <1>7, <1>8, <1>9, <1>10, <1>11, <1>12, <1>13, <1>14, FlowTaken

\* What the oldest entries of a set are.
LEMMA OldestFacts ==
    ASSUME NEW S \in SUBSET Nat, NEW count \in Nat, NEW ids \in Oldest(S, count), ids # <<>>
    PROVE  /\ ids \in Seq(S) /\ Ascending(ids)
           /\ ids[Len(ids)] \in S
           /\ \A i \in DOMAIN ids : ids[i] \in S /\ ids[i] <= ids[Len(ids)]
<1>1. ids \in Seq(S) /\ Ascending(ids)
  BY OldestType DEF Oldest
<1>2. Len(ids) \in DOMAIN ids /\ \A i \in DOMAIN ids : i \in Nat /\ i <= Len(ids)
  BY <1>1
<1>5. \A i \in DOMAIN ids : ids[i] \in S
  BY <1>1
<1>3. \A i \in DOMAIN ids : ids[i] \in S /\ ids[i] \in Nat
  BY <1>5
<1>4. \A i \in DOMAIN ids : ids[i] <= ids[Len(ids)]
  <2>1. ASSUME NEW i \in DOMAIN ids
        PROVE  ids[i] <= ids[Len(ids)]
    <3>1. CASE i = Len(ids)
      BY <1>3, <3>1
    <3>2. CASE i < Len(ids)
      BY <1>1, <1>2, <1>3, <3>2 DEF Ascending
    <3>. QED
      BY <1>1, <1>2, <3>1, <3>2
  <2>. QED
    BY <2>1
<1>. QED
  BY <1>1, <1>2, <1>3, <1>4

\* XREADGROUP ">" takes what nobody has had, and never from a dead-letter
\* stream: it is empty.
LEMMA FlowReadNew ==
    ASSUME IInv, IInv', Flow, NEW h \in Handlers, ReadNew(h)
    PROVE  Flow'
<1>. DEFINE s == Source(h)
            old == streams[s]
            w == WorkerOf(h)
<1>1. PICK ids \in Oldest(Undelivered(old), ReadCount) :
        /\ ids # <<>> /\ batch' = [batch EXCEPT ![h] = ids]
        /\ streams' = [streams EXCEPT ![s] = Deliver(old, w, ids)]
  BY DEF ReadNew
<1>. DEFINE st == Deliver(old, w, ids)
            last == ids[Len(ids)]
<1>2. /\ s \in Streams /\ w \in AllWorkers /\ old \in Stream(Msgs, AllWorkers)
      /\ Undelivered(old) \in SUBSET Nat /\ ReadCount \in Nat
  BY HandlerFacts, ReadableType, ConstantsAssumption DEF IInv, ReadCount
<1>3. /\ ids \in Seq(Undelivered(old)) /\ Ascending(ids) /\ last \in Undelivered(old)
      /\ \A i \in DOMAIN ids : ids[i] \in Undelivered(old) /\ ids[i] <= last
  BY <1>1, <1>2, OldestFacts
<1>4. /\ last \in Nat /\ old.read \in Nat /\ old.read < last
      /\ \A i \in DOMAIN ids : ids[i] \in Nat /\ old.read < ids[i]
      /\ ids \in Seq(Nat) /\ old.log # <<>>
  BY <1>2, <1>3 DEF Undelivered, Stream
<1>5. st \in Stream(Msgs, AllWorkers) /\ st.log = old.log
  BY <1>2, <1>4, GroupFacts
<1>. DEFINE taken == {ids[i] : i \in DOMAIN ids}
<1>6. /\ old.pel \in [AllWorkers -> SUBSET Nat]
      /\ st.pel = [old.pel EXCEPT ![w] = @ \cup taken]
      /\ st.read = last
  BY <1>1, <1>2 DEF Deliver, Stream
<1>7. \A c \in AllWorkers : st.pel[c] = IF c = w THEN old.pel[c] \cup taken ELSE old.pel[c]
  BY <1>2, <1>6
<1>8. \A i \in taken : i \in Nat /\ old.read < i /\ i <= last
  BY <1>3, <1>4
<1>9. GroupOK(st)
  <2>1. \A c \in AllWorkers : old.pel[c] \subseteq 1 .. old.read
    BY <1>2 DEF Flow, GroupOK
  <2>2. \A c, d \in AllWorkers : c # d => old.pel[c] \cap old.pel[d] = {}
    BY <1>2 DEF Flow, GroupOK
  <2>3. \A c \in AllWorkers : old.pel[c] \cap taken = {}
    BY <1>4, <1>8, <2>1
  <2>4. \A c, d \in AllWorkers : c # d => st.pel[c] \cap st.pel[d] = {}
    BY <1>7, <2>2, <2>3
  <2>5. taken \subseteq 1 .. last /\ 1 .. old.read \subseteq 1 .. last
    BY <1>4, <1>8
  <2>6. \A c \in AllWorkers : st.pel[c] \subseteq 1 .. last
    BY <1>7, <2>1, <2>5
  <2>. QED
    BY <1>6, <2>4, <2>6 DEF GroupOK
<1>10. /\ pc[h] = "read" /\ phase' = phase /\ phase[h] # "pending"
       /\ pc' = [pc EXCEPT ![h] = "exec"] /\ UNCHANGED <<rows, crashes>>
  BY DEF ReadNew, Goto, bounds
<1>11. /\ batch'[h] = ids /\ pc'[h] = "exec"
       /\ \A g \in Handlers \ {h} : pc'[g] = pc[g] /\ batch'[g] = batch[g]
  BY <1>1, <1>10 DEF IInv, TypeOK
<1>12. phase[h] # "dlq"
  <2>1. old.log # <<>>
    BY <1>4
  <2>. QED
    BY <2>1 DEF Flow, Source, DlqOf
<1>13. HandlerFlow(h)'
  <2>1. Held(h)' = taken /\ Source(h)' = s /\ WorkerOf(h)' = w
    BY <1>10, <1>11 DEF Held, Source, WorkerOf
  <2>2. taken \subseteq st.pel[w] /\ streams'[s] = st
    BY <1>1, <1>2, <1>7 DEF IInv, TypeOK
  <2>. QED
    BY <1>3, <1>10, <1>11, <1>12, <2>1, <2>2 DEF HandlerFlow
<1>14. ASSUME NEW g \in Handlers \ {h}, Source(g) = s, pc[g] \in {"exec", "ack"}
       PROVE  Held(g) \subseteq st.pel[WorkerOf(g)]
  <2>1. Held(g) \subseteq old.pel[WorkerOf(g)] /\ WorkerOf(g) \in AllWorkers
    BY <1>14, HandlerFacts DEF Flow, HandlerFlow
  <2>. QED
    BY <1>7, <2>1
<1>15. \A c \in AllWorkers : \A i \in st.pel[c] :
          (\E d \in AllWorkers : i \in old.pel[d]) \/ old.read < i
  BY <1>7, <1>8
<1>16. old.read <= st.read /\ streams' = [streams EXCEPT ![s] = st]
  BY <1>1, <1>4, <1>6
<1>17. TypeOK /\ ReadInside /\ ReadInside'
  BY DEF IInv
<1>18. \A g \in Handlers \ {h} :
          /\ pc'[g] = pc[g] /\ batch'[g] = batch[g] /\ phase'[g] = phase[g]
          /\ Source(g) = s /\ pc[g] \in {"exec", "ack"} =>
                    Held(g) \subseteq st.pel[WorkerOf(g)]
  BY <1>10, <1>11, <1>14
<1>19. pc'[h] # "push" /\ pc[h] # "ack"
  BY <1>10, <1>11
<1>. HIDE DEF st, taken, last
<1>. QED
  BY <1>2, <1>5, <1>9, <1>10, <1>13, <1>15, <1>16, <1>17, <1>18, <1>19, FlowTaken

\* XREADGROUP "0" takes what the worker's name already holds.
LEMMA FlowReadPending ==
    ASSUME IInv, IInv', Flow, NEW h \in Handlers, ReadPending(h)
    PROVE  Flow'
<1>. DEFINE s == Source(h)
            old == streams[s]
            w == WorkerOf(h)
<1>1. PICK ids \in Oldest(Own(h), ReadCount) :
        ids # <<>> /\ batch' = [batch EXCEPT ![h] = ids]
  BY DEF ReadPending
<1>2. /\ s \in Streams /\ w \in AllWorkers /\ old \in Stream(Msgs, AllWorkers)
      /\ Own(h) \in SUBSET Nat /\ ReadCount \in Nat
  BY HandlerFacts, ReadableType, ConstantsAssumption DEF IInv, ReadCount
<1>3. ids \in Seq(Own(h)) /\ Ascending(ids) /\ \A i \in DOMAIN ids : ids[i] \in old.pel[w]
  BY <1>1, <1>2, OldestFacts DEF Own
<1>4. /\ pc[h] = "read" /\ phase' = phase /\ phase[h] = "pending" /\ streams' = streams
      /\ pc' = [pc EXCEPT ![h] = "exec"] /\ UNCHANGED <<rows, crashes>>
  BY DEF ReadPending, Goto, bounds, redis
<1>5. /\ batch'[h] = ids /\ pc'[h] = "exec"
      /\ \A g \in Handlers \ {h} : pc'[g] = pc[g] /\ batch'[g] = batch[g]
  BY <1>1, <1>4 DEF IInv, TypeOK
<1>6. HandlerFlow(h)'
  <2>1. Held(h)' = {ids[i] : i \in DOMAIN ids} /\ Source(h)' = s /\ WorkerOf(h)' = w
    BY <1>4, <1>5 DEF Held, Source, WorkerOf
  <2>. QED
    BY <1>3, <1>4, <1>5, <2>1 DEF HandlerFlow
<1>7. /\ streams' = [streams EXCEPT ![s] = old] /\ old.read <= old.read /\ GroupOK(old)
      /\ \A g \in Handlers : Source(g) = s /\ pc[g] \in {"exec", "ack"} =>
                Held(g) \subseteq old.pel[WorkerOf(g)]
  <2>1. streams' = [streams EXCEPT ![s] = old]
    BY <1>2, <1>4 DEF IInv, TypeOK
  <2>2. old.read <= old.read /\ GroupOK(old)
    BY <1>2 DEF Flow, Stream
  <2>3. \A g \in Handlers : Source(g) = s /\ pc[g] \in {"exec", "ack"} =>
                Held(g) \subseteq old.pel[WorkerOf(g)]
    BY DEF Flow, HandlerFlow
  <2>. QED
    BY <2>1, <2>2, <2>3
<1>8. TypeOK /\ ReadInside /\ ReadInside'
  BY DEF IInv
<1>. QED
  BY <1>2, <1>4, <1>5, <1>6, <1>7, <1>8, FlowTaken

\* An ascending batch names nothing twice.
LEMMA AscendingOnce ==
    ASSUME NEW ids \in Seq(Nat), Ascending(ids),
           NEW i \in DOMAIN ids, NEW k \in DOMAIN ids, ids[i] = ids[k]
    PROVE  i = k
<1>1. i \in Nat /\ k \in Nat /\ ids[i] \in Nat /\ ids[k] \in Nat
  OBVIOUS
<1>2. ~(i < k) /\ ~(k < i)
  BY <1>1 DEF Ascending
<1>. QED
  BY <1>1, <1>2

\* A batch of the main streams, entry by entry.
LEMMA HeldFacts ==
    ASSUME IInv, Flow, main # "returned", NEW h \in Handlers
    PROVE  /\ batch[h] \in Seq(Nat) /\ Ascending(batch[h])
           /\ DOMAIN BatchMsgs(h) = DOMAIN batch[h]
           /\ \A i \in DOMAIN batch[h] :
                /\ Source(h) = StreamOf(WorkerOf(h))
                /\ batch[h][i] \in DOMAIN streams[Source(h)].log
                /\ BatchMsgs(h)[i] = streams[Source(h)].log[batch[h][i]]
                /\ BatchMsgs(h)[i] \in Msgs
<1>1. /\ batch[h] \in Seq(DOMAIN streams[Source(h)].log) /\ batch[h] \in Seq(Nat)
      /\ DOMAIN BatchMsgs(h) = DOMAIN batch[h] /\ BatchMsgs(h) \in Seq(Msgs)
  BY BatchFacts DEF IInv
<1>2. \A i \in DOMAIN batch[h] : BatchMsgs(h)[i] = streams[Source(h)].log[batch[h][i]]
  BY DEF BatchMsgs, Entries
<1>3. HandlerFlow(h)
  BY DEF Flow
<1>4. \A i \in DOMAIN batch[h] : batch[h] # <<>>
  BY <1>1
<1>5. \A i \in DOMAIN batch[h] : Source(h) = StreamOf(WorkerOf(h))
  BY <1>3, <1>4 DEF HandlerFlow, Source
<1>6. \A i \in DOMAIN batch[h] : batch[h][i] \in DOMAIN streams[Source(h)].log
                              /\ BatchMsgs(h)[i] \in Msgs
  BY <1>1
<1>. QED
  BY <1>1, <1>2, <1>3, <1>5, <1>6 DEF HandlerFlow

LEMMA AtMostOne ==
    ASSUME NEW S, \A i \in S : S = {i}
    PROVE  Cardinality(S) = IF S = {} THEN 0 ELSE 1
<1>1. CASE S = {}
  BY <1>1, FS_EmptySet
<1>2. CASE S # {}
  <2>1. PICK i \in S : S = {i}
    BY <1>2
  <2>2. Cardinality({i}) = 1
    BY FS_Singleton
  <2>. QED
    BY <1>2, <2>1, <2>2
<1>. QED
  BY <1>1, <1>2

\* createMany: each message of the batch gets one row more, and had at most one
\* for each crash.
LEMMA FlowInsert ==
    ASSUME IInv, IInv', Flow, Calm, main # "returned", NEW h \in Handlers, Insert(h)
    PROVE  Flow'
<1>. DEFINE log == streams["insert"].log
            pel == streams["insert"].pel
            at(m) == {i \in DOMAIN batch[h] : BatchMsgs(h)[i] = m}
<1>1. /\ pc[h] = "exec" /\ WorkerOf(h) = Inserter /\ Inserter \in AllWorkers
      /\ pc' = [pc EXCEPT ![h] = "ack"]
      /\ UNCHANGED <<streams, batch, phase, crashes>>
      /\ rows' = [m \in Msgs |-> rows[m] + Cardinality(at(m))]
  BY DEF Insert, Goto, bounds, AllWorkers
<1>2. /\ pc'[h] = "ack" /\ \A g \in Handlers : g # h => pc'[g] = pc[g]
      /\ \A m \in Msgs : rows'[m] = rows[m] + Cardinality(at(m)) /\ rows[m] \in Nat
      /\ crashes \in Nat
  BY <1>1 DEF IInv, TypeOK
<1>3. HandlerFlow(h) /\ "insert" \in Streams
  BY DEF Flow, Streams
<1>4. /\ batch[h] \in Seq(Nat) /\ Ascending(batch[h])
      /\ \A i \in DOMAIN batch[h] :
            /\ Source(h) = "insert" /\ batch[h][i] \in DOMAIN log
            /\ BatchMsgs(h)[i] = log[batch[h][i]] /\ log[batch[h][i]] \in Msgs
            /\ batch[h][i] \in pel[Inserter]
  BY <1>1, <1>3, HeldFacts DEF StreamOf, HandlerFlow, Held
<1>5. \A i, k \in DOMAIN log : log[i] = log[k] => i = k
  BY DEF Flow
<1>6. \A i, k \in DOMAIN batch[h] : BatchMsgs(h)[i] = BatchMsgs(h)[k] => i = k
  BY <1>4, <1>5, AscendingOnce
<1>7. \A m : \A i \in at(m) : at(m) = {i}
  BY <1>6
<1>8. \A m : Cardinality(at(m)) = IF at(m) = {} THEN 0 ELSE 1
  BY <1>7, AtMostOne
<1>9. \A g \in Handlers : pc[g] # "ack"
  <2>1. ASSUME NEW g \in Handlers, pc[g] = "ack"
        PROVE  FALSE
    <3>1. WorkerOf(g) = Inserter
      BY <2>1 DEF IInv, AckWritten, AckedIsWritten
    <3>2. g = First(Inserter) /\ h = First(Inserter)
      BY <1>1, <2>1, <3>1, CalmHandler DEF IInv
    <3>. QED
      BY <1>1, <2>1, <3>2
  <2>. QED
    BY <2>1
<1>10. \A i \in DOMAIN batch[h] : rows[log[batch[h][i]]] <= crashes
  BY <1>1, <1>4, <1>9 DEF Flow, RowsOK
<1>. HIDE DEF at
<1>11. \A m \in Msgs : at(m) # {} => rows[m] <= crashes
  BY <1>4, <1>10 DEF at
<1>12. RowsOK'
  <2>1. \A m \in Msgs : rows'[m] <= crashes' + 1
    <3>1. ASSUME NEW m \in Msgs PROVE rows'[m] <= crashes + 1
      <4>1. rows'[m] = rows[m] + Cardinality(at(m)) /\ rows[m] \in Nat /\ crashes \in Nat
            /\ rows[m] <= crashes + 1
        BY <1>2 DEF Flow, RowsOK
      <4>2. CASE at(m) = {}
        BY <1>8, <4>1, <4>2
      <4>3. CASE at(m) # {}
        BY <1>8, <1>11, <4>1, <4>3
      <4>. QED
        BY <4>2, <4>3
    <3>. QED
      BY <1>1, <3>1
  <2>2. ASSUME NEW m \in Msgs, rows'[m] > 0
        PROVE  \E i \in 1 .. streams["insert"].read : log[i] = m
    <3>1. CASE at(m) = {}
      BY <1>2, <1>8, <2>2, <3>1 DEF Flow, RowsOK
    <3>2. CASE at(m) # {}
      <4>1. PICK i \in DOMAIN batch[h] : log[batch[h][i]] = m
        BY <1>4, <3>2 DEF at
      <4>2. batch[h][i] \in 1 .. streams["insert"].read
        BY <1>1, <1>3, <1>4 DEF Flow, GroupOK
      <4>. QED
        BY <4>1, <4>2
    <3>. QED
      BY <3>1, <3>2
  <2>3. ASSUME NEW c \in AllWorkers, NEW i \in pel[c]
        PROVE  rows'[log[i]] <= crashes \/ (pc'[h] = "ack" /\ i \in Held(h)')
    <3>1. i \in DOMAIN log /\ log[i] \in Msgs
      BY <1>3, PendingEntry DEF IInv
    <3>2. CASE at(log[i]) = {}
      <4>1. rows'[log[i]] = rows[log[i]]
        BY <1>2, <1>8, <3>1, <3>2
      <4>. QED
        BY <1>9, <4>1 DEF Flow, RowsOK
    <3>3. CASE at(log[i]) # {}
      <4>1. PICK k \in DOMAIN batch[h] : log[batch[h][k]] = log[i]
        BY <1>4, <3>3 DEF at
      <4>2. batch[h][k] = i
        BY <1>4, <1>5, <3>1, <4>1
      <4>. QED
        BY <1>1, <1>2, <4>2 DEF Held
    <3>. QED
      BY <3>2, <3>3
  <2>. QED
    BY <1>1, <2>1, <2>2, <2>3 DEF RowsOK
<1>13. Passed' = Passed /\ \A i : Processed(i)' <=> Processed(i)
  BY <1>1 DEF Passed, Processed
<1>14. ASSUME NEW g \in Handlers, g # h
       PROVE  HandlerFlow(g)' /\ Held(g)' = Held(g)
  BY <1>1, <1>2, <1>13, <1>14, FlowSame DEF Flow, HandlerFlow
<1>15. HandlerFlow(h)'
  <2>1. Held(h)' = Held(h) /\ Source(h)' = Source(h) /\ WorkerOf(h)' = WorkerOf(h)
    BY <1>1 DEF Held, Source, WorkerOf
  <2>. QED
    BY <1>1, <1>2, <1>3, <2>1 DEF HandlerFlow
<1>16. \A g, k \in Handlers : g # k /\ pc'[g] = "push" /\ pc'[k] = "push"
            => Held(g)' \cap Held(k)' = {}
  BY <1>2, <1>14 DEF Flow
<1>17. /\ \A s \in Streams : GroupOK(streams[s])'
       /\ streams'["processDlq"].log = <<>> /\ streams'["insertDlq"].log = <<>>
       /\ \A i, k \in DOMAIN streams'["insert"].log :
            streams'["insert"].log[i] = streams'["insert"].log[k] => i = k
       /\ \A i \in Passed' : Processed(i)'
  BY <1>1, <1>13 DEF Flow, GroupOK
<1>. QED
  BY <1>12, <1>14, <1>15, <1>16, <1>17 DEF Flow

\* XACK: the batch is nobody's any more.  What a processing worker has
\* acknowledged it alone holds, and nobody has handed it on.
LEMMA FlowAcknowledge ==
    ASSUME IInv, IInv', Flow, Calm, main # "returned", NEW h \in Handlers, Acknowledge(h)
    PROVE  Flow'
<1>. DEFINE s == Source(h)
            old == streams[s]
            st == XAck(old, batch[h])
<1>1. /\ pc[h] = IF WorkerOf(h) = Inserter THEN "ack" ELSE "exec"
      /\ streams' = [streams EXCEPT ![s] = st]
      /\ UNCHANGED <<phase, rows, crashes>>
      /\ \/ /\ WorkerOf(h) = Inserter
            /\ pc' = [pc EXCEPT ![h] = Resume(h)] /\ batch' = [batch EXCEPT ![h] = <<>>]
         \/ /\ WorkerOf(h) # Inserter
            /\ pc' = [pc EXCEPT ![h] = "push"] /\ batch' = batch
  BY DEF Acknowledge, Goto, bounds
<1>2. /\ s \in Streams /\ WorkerOf(h) \in AllWorkers /\ old \in Stream(Msgs, AllWorkers)
      /\ batch[h] \in Seq(Nat) /\ Resume(h) \in {"producer", "claim"}
  BY HandlerFacts DEF IInv, TypeOK, Resume
<1>3. /\ old.pel \in [AllWorkers -> SUBSET Nat] /\ st.log = old.log /\ st.read = old.read
      /\ st.pel = [c \in AllWorkers |-> old.pel[c] \ Held(h)]
  BY <1>2 DEF XAck, Stream, Held
<1>4. /\ \A t \in Streams : t # s => streams'[t] = streams[t]
      /\ streams'[s] = st
      /\ {"process", "processDlq", "insert", "insertDlq"} = Streams
  BY <1>1, <1>2 DEF IInv, TypeOK, Streams
<1>. HIDE DEF st
<1>5. /\ \A t \in Streams : /\ streams'[t].log = streams[t].log
                            /\ streams'[t].read = streams[t].read
      /\ \A t \in Streams : \A c \in AllWorkers :
            streams'[t].pel[c] = IF t = s THEN streams[t].pel[c] \ Held(h)
                                          ELSE streams[t].pel[c]
  BY <1>3, <1>4
<1>6. /\ pc[h] \in {"exec", "ack"} /\ HandlerFlow(h)
      /\ Held(h) \subseteq old.pel[WorkerOf(h)]
  BY <1>1 DEF Flow, HandlerFlow
<1>7. Passed' = Passed /\ \A i : Processed(i) => Processed(i)'
  BY <1>4, <1>5 DEF Passed, Processed
<1>8. \A g \in Handlers : g # h => pc'[g] = pc[g] /\ batch'[g] = batch[g] /\ phase'[g] = phase[g]
  BY <1>1 DEF IInv, TypeOK
<1>9. ASSUME NEW g \in Handlers, g # h
      PROVE  HandlerFlow(g)' /\ Held(g)' = Held(g)
  <2>1. HandlerFlow(g) /\ Source(g) \in Streams /\ WorkerOf(g) \in AllWorkers
    BY HandlerFacts DEF Flow
  <2>2. ASSUME pc[g] \in {"exec", "ack"}
        PROVE  Held(g) \subseteq streams'[Source(g)].pel[WorkerOf(g)]
    <3>1. WorkerOf(g) # WorkerOf(h)
      BY <1>6, <1>9, <2>2, CalmHandler DEF IInv
    <3>2. old.pel[WorkerOf(g)] \cap old.pel[WorkerOf(h)] = {}
      BY <1>2, <2>1, <3>1 DEF Flow, GroupOK
    <3>3. Held(g) \subseteq streams[Source(g)].pel[WorkerOf(g)]
      BY <2>1, <2>2 DEF HandlerFlow
    <3>. QED
      BY <1>5, <1>6, <2>1, <3>2, <3>3
  <2>3. pc[g] = "push" => \A i \in Held(g) : Processed(i)' /\ i \notin Passed'
    BY <1>7, <2>1 DEF HandlerFlow
  <2>. QED
    BY <1>8, <1>9, <2>1, <2>2, <2>3, FlowSame
<1>10. WorkerOf(h) # Inserter => \A i \in Held(h) : Processed(i)' /\ ~Processed(i) /\ i \notin Passed
  <2>1. ASSUME WorkerOf(h) # Inserter, NEW i \in Held(h)
        PROVE  Processed(i)' /\ ~Processed(i) /\ i \notin Passed
    <3>1. s = "process"
      BY <2>1, HeldFacts DEF Held, StreamOf
    <3>2. ~Processed(i)
      BY <1>2, <1>6, <3>1 DEF Processed
    <3>3. i \in 1 .. old.read
      BY <1>2, <1>6 DEF Flow, GroupOK
    <3>4. Processed(i)'
      BY <1>4, <1>5, <3>1, <3>3 DEF Processed
    <3>. QED
      BY <3>2, <3>4 DEF Flow
  <2>. QED
    BY <2>1
<1>13. \A t \in Streams : GroupOK(streams[t])'
  <2>1. ASSUME NEW t \in Streams
        PROVE  GroupOK(streams'[t])
    <3>1. GroupOK(streams[t])
      BY DEF Flow
    <3>2. /\ \A c \in AllWorkers : streams'[t].pel[c] \subseteq streams[t].pel[c]
          /\ streams'[t].read = streams[t].read
      BY <1>5
    <3>3. \A c \in AllWorkers : streams'[t].pel[c] \subseteq 1 .. streams'[t].read
      BY <3>1, <3>2, Zenon DEF GroupOK
    <3>4. \A c, d \in AllWorkers : c # d => streams'[t].pel[c] \cap streams'[t].pel[d] = {}
      BY <3>1, <3>2 DEF GroupOK
    <3>. QED
      BY <3>3, <3>4 DEF GroupOK
  <2>. QED
    BY <2>1 DEF GroupOK
<1>11. CASE WorkerOf(h) = Inserter
  <2>1. pc'[h] = Resume(h) /\ batch'[h] = <<>>
    BY <1>1, <1>11 DEF IInv, TypeOK
  <2>. QED
    <3>1. HandlerFlow(h)' /\ Held(h)' = {} /\ pc'[h] # "push"
      BY <1>2, <2>1, FlowIdle
    <3>2. ASSUME NEW c \in AllWorkers, NEW i \in streams'["insert"].pel[c]
          PROVE  \/ rows'[streams'["insert"].log[i]] <= crashes'
                 \/ \E g \in Handlers : pc'[g] = "ack" /\ i \in Held(g)'
      <4>1. /\ i \in streams["insert"].pel[c]
            /\ s = "insert" => i \notin Held(h)
        BY <1>4, <1>5
      <4>2. i \notin Held(h)
        BY <1>11, <4>1, HeldFacts DEF Held, StreamOf
      <4>3. \/ rows[streams["insert"].log[i]] <= crashes
            \/ \E g \in Handlers : pc[g] = "ack" /\ i \in Held(g)
        BY <4>1 DEF Flow, RowsOK
      <4>. QED
        BY <1>1, <1>4, <1>5, <1>8, <1>9, <4>2, <4>3
    <3>3. RowsOK'
      BY <1>1, <1>4, <1>5, <3>2 DEF Flow, RowsOK
    <3>4. \A g, k \in Handlers : g # k /\ pc'[g] = "push" /\ pc'[k] = "push"
            => Held(g)' \cap Held(k)' = {}
      BY <1>8, <1>9, <3>1 DEF Flow
    <3>. QED
      BY <1>4, <1>5, <1>7, <1>9, <1>13, <3>1, <3>3, <3>4 DEF Flow
<1>12. CASE WorkerOf(h) # Inserter
  <2>1. pc'[h] = "push" /\ batch'[h] = batch[h] /\ pc[h] = "exec"
    BY <1>1, <1>12 DEF IInv, TypeOK
  <2>2. Held(h)' = Held(h) /\ WorkerOf(h)' = WorkerOf(h)
    BY <2>1 DEF Held, WorkerOf
  <2>3. HandlerFlow(h)'
    BY <1>1, <1>6, <1>7, <1>10, <1>12, <2>1, <2>2 DEF HandlerFlow
  <2>4. ASSUME NEW g \in Handlers, g # h, pc'[g] = "push"
        PROVE  Held(g)' \cap Held(h)' = {}
    <3>1. HandlerFlow(g) /\ pc[g] = "push" /\ Held(g)' = Held(g)
      BY <1>8, <1>9, <2>4 DEF Flow
    <3>2. \A i \in Held(g) : Processed(i)
      BY <3>1 DEF HandlerFlow
    <3>. QED
      BY <1>10, <1>12, <2>2, <3>1, <3>2
  <2>5. \A g, k \in Handlers : g # k /\ pc'[g] = "push" /\ pc'[k] = "push"
            => Held(g)' \cap Held(k)' = {}
    BY <1>8, <1>9, <2>4 DEF Flow
  <2>6. ASSUME NEW c \in AllWorkers, NEW i \in streams'["insert"].pel[c]
        PROVE  \/ rows'[streams'["insert"].log[i]] <= crashes'
               \/ \E g \in Handlers : pc'[g] = "ack" /\ i \in Held(g)'
    <3>1. i \in streams["insert"].pel[c]
      BY <1>4, <1>5
    <3>2. \/ rows[streams["insert"].log[i]] <= crashes
          \/ \E g \in Handlers : pc[g] = "ack" /\ i \in Held(g)
      BY <3>1 DEF Flow, RowsOK
    <3>. QED
      BY <1>1, <1>4, <1>5, <1>8, <1>9, <2>1, <3>2
  <2>7. RowsOK'
    BY <1>1, <1>4, <1>5, <2>6 DEF Flow, RowsOK
  <2>. QED
    BY <1>4, <1>5, <1>7, <1>9, <1>13, <2>3, <2>5, <2>7 DEF Flow
<1>. QED
  BY <1>11, <1>12

\* The payloads are those of acknowledged messages nobody else has in hand.
LEMMA FlowPush ==
    ASSUME IInv, IInv', Flow, EnqueuedPrefix, main # "returned",
           NEW h \in Handlers, Push(h)
    PROVE  Flow'
<1>. DEFINE old == streams["insert"]
            new == BatchMsgs(h)
            st == XAdd(old, new)
<1>1. /\ pc[h] = "push" /\ streams' = [streams EXCEPT !["insert"] = st]
      /\ UNCHANGED <<phase, rows, crashes>>
      /\ pc' = [pc EXCEPT ![h] = Resume(h)] /\ batch' = [batch EXCEPT ![h] = <<>>]
  BY DEF Push, Forwarded, Goto, bounds
<1>2. /\ "insert" \in Streams /\ old \in Stream(Msgs, AllWorkers)
      /\ new \in Seq(Msgs) /\ Resume(h) \in {"producer", "claim"} /\ WellRead(old)
  BY BatchFacts DEF Streams, IInv, TypeOK, ReadInside, Resume
<1>3. /\ st.read = old.read /\ st.pel = old.pel /\ st.log = old.log \o new
      /\ DOMAIN old.log \subseteq DOMAIN st.log
      /\ \A i \in DOMAIN old.log : st.log[i] = old.log[i]
      /\ \A i \in DOMAIN new : st.log[Len(old.log) + i] = new[i]
  <2>. HIDE DEF old
  <2>. QED
    BY <1>2, XAddFacts
<1>4. old.log \in Seq(Msgs) /\ st.log \in Seq(Msgs) /\ Len(st.log) = Len(old.log) + Len(new)
  BY <1>2, <1>3 DEF Stream
<1>. HIDE DEF st
<1>5. /\ streams'["insert"] = st /\ \A t \in Streams : t # "insert" => streams'[t] = streams[t]
      /\ {"process", "processDlq", "insert", "insertDlq"} = Streams
  BY <1>1, <1>2 DEF IInv, TypeOK, Streams
<1>6. HandlerFlow(h) /\ WorkerOf(h) # Inserter
      /\ \A i \in Held(h) : Processed(i) /\ i \notin Passed
  BY <1>1 DEF Flow, HandlerFlow
\* A message's position in the processing stream is its number.
<1>7. /\ DOMAIN new = DOMAIN batch[h]
      /\ \A i \in DOMAIN new : new[i] = batch[h][i] /\ new[i] \in Held(h)
      /\ \A i, k \in DOMAIN new : new[i] = new[k] => i = k
  <2>1. streams["process"].log = [i \in 1 .. Count |-> i]
    BY PrefixMeans
  <2>2. /\ batch[h] \in Seq(Nat) /\ Ascending(batch[h]) /\ DOMAIN new = DOMAIN batch[h]
        /\ \A i \in DOMAIN batch[h] :
              /\ Source(h) = "process" /\ batch[h][i] \in DOMAIN streams["process"].log
              /\ new[i] = streams["process"].log[batch[h][i]]
    BY <1>6, HeldFacts DEF StreamOf
  <2>3. \A i \in DOMAIN new : new[i] = batch[h][i]
    BY <2>1, <2>2
  <2>4. \A i, k \in DOMAIN new : new[i] = new[k] => i = k
    BY <2>2, <2>3, AscendingOnce
  <2>. QED
    BY <2>2, <2>3, <2>4 DEF Held
<1>8. \A i \in DOMAIN st.log :
        \/ i \in DOMAIN old.log /\ st.log[i] = old.log[i] /\ st.log[i] \in Passed
        \/ \E k \in DOMAIN new : i = Len(old.log) + k /\ st.log[i] = new[k] /\ st.log[i] \in Held(h)
  <2>1. ASSUME NEW i \in DOMAIN st.log, i \notin DOMAIN old.log
        PROVE  \E k \in DOMAIN new : i = Len(old.log) + k
    <3>1. /\ i \in Nat /\ Len(old.log) \in Nat /\ Len(new) \in Nat
          /\ i > Len(old.log) /\ i <= Len(old.log) + Len(new)
          /\ DOMAIN new = 1 .. Len(new)
      BY <1>2, <1>4, <2>1
    <3>2. i - Len(old.log) \in 1 .. Len(new) /\ i = Len(old.log) + (i - Len(old.log))
      BY <3>1
    <3>. QED
      BY <3>1, <3>2
  <2>2. ASSUME NEW i \in DOMAIN st.log, i \in DOMAIN old.log
        PROVE  st.log[i] = old.log[i] /\ st.log[i] \in Passed
    BY <1>3, <2>2 DEF Passed
  <2>3. ASSUME NEW i \in DOMAIN st.log, NEW k \in DOMAIN new, i = Len(old.log) + k
        PROVE  st.log[i] = new[k] /\ st.log[i] \in Held(h)
    BY <1>3, <1>7, <2>3
  <2>. QED
    BY <2>1, <2>2, <2>3
<1>9. Passed' \subseteq Passed \cup Held(h)
  BY <1>5, <1>8 DEF Passed
<1>10. \A i : Processed(i)' <=> Processed(i)
  BY <1>5 DEF Processed
<1>11. \A i, k \in DOMAIN st.log : st.log[i] = st.log[k] => i = k
  <2>1. ASSUME NEW i \in DOMAIN st.log, NEW k \in DOMAIN st.log, st.log[i] = st.log[k]
        PROVE  i = k
    <3>1. CASE i \in DOMAIN old.log /\ k \in DOMAIN old.log
      BY <1>3, <2>1, <3>1 DEF Flow
    <3>2. CASE i \notin DOMAIN old.log /\ k \notin DOMAIN old.log
      <4>1. PICK a \in DOMAIN new : i = Len(old.log) + a /\ st.log[i] = new[a]
        BY <1>8, <3>2
      <4>2. PICK b \in DOMAIN new : k = Len(old.log) + b /\ st.log[k] = new[b]
        BY <1>8, <3>2
      <4>. QED
        BY <1>7, <2>1, <4>1, <4>2
    <3>3. CASE \/ i \in DOMAIN old.log /\ k \notin DOMAIN old.log
               \/ i \notin DOMAIN old.log /\ k \in DOMAIN old.log
      <4>1. i \in DOMAIN old.log => st.log[i] \in Passed
        BY <1>3 DEF Passed
      <4>2. k \in DOMAIN old.log => st.log[k] \in Passed
        BY <1>3 DEF Passed
      <4>3. i \notin DOMAIN old.log => st.log[i] \in Held(h)
        BY <1>8
      <4>4. k \notin DOMAIN old.log => st.log[k] \in Held(h)
        BY <1>8
      <4>. QED
        BY <1>6, <2>1, <3>3, <4>1, <4>2, <4>3, <4>4
    <3>. QED
      BY <3>1, <3>2, <3>3
  <2>. QED
    BY <2>1
<1>12. /\ pc'[h] = Resume(h) /\ batch'[h] = <<>>
       /\ \A g \in Handlers : g # h =>
            pc'[g] = pc[g] /\ batch'[g] = batch[g] /\ phase'[g] = phase[g]
  BY <1>1 DEF IInv, TypeOK
<1>13. HandlerFlow(h)' /\ Held(h)' = {} /\ pc'[h] \notin {"push", "ack"}
  BY <1>2, <1>12, FlowIdle
<1>14. ASSUME NEW g \in Handlers, g # h
       PROVE  HandlerFlow(g)' /\ Held(g)' = Held(g)
  <2>1. HandlerFlow(g) /\ Source(g) \in Streams
    BY HandlerFacts DEF Flow
  <2>2. pc[g] \in {"exec", "ack"} => Held(g) \subseteq streams'[Source(g)].pel[WorkerOf(g)]
    BY <1>3, <1>5, <2>1 DEF HandlerFlow
  <2>3. pc[g] = "push" => \A i \in Held(g) : Processed(i)' /\ i \notin Passed'
    <3>1. pc[g] = "push" => Held(g) \cap Held(h) = {}
      BY <1>1, <1>14 DEF Flow
    <3>. QED
      BY <1>9, <1>10, <2>1, <3>1 DEF HandlerFlow
  <2>. QED
    BY <1>12, <1>14, <2>1, <2>2, <2>3, FlowSame
<1>15. RowsOK'
  <2>1. \A i \in 1 .. old.read : i \in DOMAIN old.log /\ st.log[i] = old.log[i]
    BY <1>2, <1>3, <1>4 DEF WellRead, Stream
  <2>2. \A m \in Msgs : rows'[m] > 0 =>
            \E i \in 1 .. streams'["insert"].read : streams'["insert"].log[i] = m
    BY <1>1, <1>3, <1>5, <2>1 DEF Flow, RowsOK
  <2>3. ASSUME NEW c \in AllWorkers, NEW i \in streams'["insert"].pel[c]
        PROVE  \/ rows'[streams'["insert"].log[i]] <= crashes'
               \/ \E g \in Handlers : pc'[g] = "ack" /\ i \in Held(g)'
    <3>1. i \in old.pel[c]
      BY <1>3, <1>5
    <3>2. i \in DOMAIN old.log
      BY <1>2, <3>1, PendingEntry DEF IInv
    <3>3. \/ rows[old.log[i]] <= crashes
          \/ \E g \in Handlers : pc[g] = "ack" /\ i \in Held(g)
      BY <3>1 DEF Flow, RowsOK
    <3>. QED
      BY <1>1, <1>3, <1>5, <1>12, <1>14, <3>2, <3>3
  <2>. QED
    BY <1>1, <2>2, <2>3 DEF Flow, RowsOK
<1>16. \A g, k \in Handlers : g # k /\ pc'[g] = "push" /\ pc'[k] = "push"
            => Held(g)' \cap Held(k)' = {}
  BY <1>12, <1>13, <1>14 DEF Flow
<1>17. \A t \in Streams : GroupOK(streams[t])'
  <2>1. \A t \in Streams : GroupOK(streams'[t])
    BY <1>3, <1>5 DEF Flow, GroupOK
  <2>. QED
    BY <2>1 DEF GroupOK
<1>18. \A i \in Passed' : Processed(i)'
  BY <1>6, <1>9, <1>10 DEF Flow
<1>. QED
  BY <1>5, <1>11, <1>13, <1>14, <1>15, <1>16, <1>17, <1>18 DEF Flow

\* No errors without failures.
LEMMA NoErrors ==
    ASSUME TypeOK, Calm, NEW h \in Handlers
    PROVE  /\ ~CommandError(h)
           /\ LoadContext(h) => Connected(h)
           /\ OnMessage(h) => Head(port[h]) # "INTERRUPTED"
<1>1. CommandError(h) \/ LoadContext(h) => pc[h] \notin {"off", "init", "connect"}
  BY DEF CommandError, Commanding, LoadContext
<1>2. CommandError(h) \/ LoadContext(h) => Connected(h)
  BY <1>1, CalmHandler
<1>3. ASSUME OnMessage(h)
      PROVE  Head(port[h]) # "INTERRUPTED"
  <2>1. port[h] # <<>> /\ port[h] \in Seq(PortEvents)
    BY <1>3 DEF OnMessage, TypeOK
  <2>2. h = First(WorkerOf(h)) /\ CalmWorker(WorkerOf(h))
    BY <2>1, CalmHandler, HandlerFacts DEF Calm
  <2>3. PortOK(h)
    BY <2>2 DEF CalmWorker
  <2>4. 1 \in DOMAIN port[h] /\ Head(port[h]) = port[h][1]
    BY <2>1
  <2>. QED
    BY <2>3, <2>4 DEF PortOK
<1>. QED
  BY <1>2, <1>3 DEF CommandError

LEMMA FlowKeeps ==
    ASSUME IInv, PrefixInv, CalmInv, FlowInv, [Next]_vars
    PROVE  FlowInv'
<1>1. CASE UNCHANGED vars
  <2>1. UNCHANGED <<streams, rows, crashes, pc, batch, phase, main, failures>>
    BY <1>1 DEF vars
  <2>2. Flow => Flow'
    BY <2>1, FlowQuiet DEF IInv, TypeOK
  <2>. QED
    BY <2>1, <2>2 DEF FlowInv
<1>2. CASE main = "returned" \/ main' = "returned"
  <2>1. Next /\ main = "returned" => main' = main
    BY ReturnedStays
  <2>. QED
    BY <1>1, <1>2, <2>1 DEF FlowInv, vars
<1>. SUFFICES ASSUME Next, main # "returned", main' # "returned", failures' = 0, ~SlowBatches
              PROVE  Flow'
  BY <1>1, <1>2 DEF FlowInv
<1>3. TypeOK /\ Calm /\ Flow /\ IInv' /\ ReadInside /\ crashes' \in Nat /\ crashes \in Nat
  BY FailuresCounted, Inductive DEF IInv, CalmInv, FlowInv, TypeOK
<1>4. /\ \A h \in Handlers : ~Fail(h)
      /\ \A w \in AllWorkers : ~LoseConnection(w)
      /\ ~ClearPersisted
  BY <1>3, FailuresCounted DEF ClearPersisted
<1>5. "process" \in Streams
  BY DEF Streams
<1>6. \A h \in Handlers : batch[h] # <<>> => pc[h] \in {"exec", "ack", "push"}
  BY <1>3 DEF Flow, HandlerFlow
\* What the main thread does to handlers is to start them.
<1>7. ASSUME UNCHANGED <<rows, batch, phase, crashes>>, pc' = pc \/ \E ws : pc' = Started(ws),
             \A s \in Streams : /\ streams'[s].read = streams[s].read
                                /\ streams'[s].pel = streams[s].pel,
             \A s \in Streams \ {"process"} : streams'[s].log = streams[s].log
      PROVE  Flow'
  <2>1. \A h \in Handlers : \/ pc'[h] = pc[h] /\ batch'[h] = batch[h] /\ phase'[h] = phase[h]
                            \/ /\ pc'[h] \notin {"exec", "ack", "push"} /\ batch'[h] = <<>>
                               /\ pc[h] # "ack" \/ crashes' > crashes
    <3>1. \A h \in Handlers : pc'[h] # pc[h] => pc[h] = "off" /\ pc'[h] = "init"
      BY <1>3, <1>7, StartedType
    <3>. QED
      BY <1>6, <1>7, <3>1
  <2>. QED
    BY <1>3, <1>7, <2>1, FlowQuiet
<1>8. ASSUME \/ Queue \/ CloseEnqueuer \/ AwaitAll \/ CheckProcess \/ CheckInsert
             \/ Healthcheck \/ ConfirmRestart \/ DeclineRestart
      PROVE  Flow'
  <2>1. /\ UNCHANGED <<streams, rows, batch, phase, crashes>>
        /\ pc' = pc \/ \E ws : pc' = Started(ws)
    BY <1>8 DEF Queue, CloseEnqueuer, AwaitAll, CheckProcess, CheckInsert, Healthcheck,
       ConfirmRestart, DeclineRestart, threads, bounds, redis
  <2>. QED
    BY <1>7, <2>1
<1>9. ASSUME EnqueueBatch
      PROVE  Flow'
  <2>. DEFINE new == [i \in 1 .. LastOfBatch - next + 1 |-> next + i - 1]
              st == XAdd(streams["process"], new)
  <2>1. /\ UNCHANGED <<rows, batch, phase, crashes, pc>>
        /\ streams' = [streams EXCEPT !["process"] = st]
    BY <1>9 DEF EnqueueBatch, threads, bounds
  <2>2. st.read = streams["process"].read /\ st.pel = streams["process"].pel
    BY <1>3, <1>5 DEF XAdd, TypeOK, Stream
  <2>. HIDE DEF st
  <2>3. \A s \in Streams : streams'[s] = IF s = "process" THEN st ELSE streams[s]
    BY <1>3, <1>5, <2>1 DEF TypeOK
  <2>. QED
    BY <1>7, <2>1, <2>2, <2>3
<1>10. ASSUME Quit \/ Crash
       PROVE  Flow'
  <2>1. Die
    BY <1>10 DEF Quit, Crash
  <2>2. Quit => \A h \in Handlers : pc[h] = "off"
    BY <1>3, CalmHandler DEF Quit
  <2>3. crashes' >= crashes /\ (Quit \/ crashes' > crashes)
    BY <1>3, <1>10 DEF Quit, Crash, bounds
  <2>4. /\ UNCHANGED <<streams, rows>>
        /\ \A h \in Handlers : pc'[h] = "off" /\ batch'[h] = <<>>
    BY <2>1 DEF Die, redis
  <2>. QED
    BY <1>3, <2>2, <2>3, <2>4, FlowQuiet
<1>11. ASSUME NEW h \in Handlers, OnMessage(h)
       PROVE  Flow'
  <2>1. Head(port[h]) # "INTERRUPTED"
    BY <1>3, <1>11, NoErrors
  <2>2. /\ UNCHANGED <<streams, rows, batch, phase, crashes>>
        /\ pc' = pc \/ pc' = Started({Inserter})
    BY <1>11, <2>1 DEF OnMessage, OnDone, OnFinished, InitInsertIfIdle, bounds, redis
  <2>. QED
    BY <1>7, <2>2
<1>12. ASSUME NEW h \in Handlers,
              \/ ReceiveInit(h) \/ Connect(h) \/ LoadContext(h) \/ ReadNothing(h)
              \/ CheckProducer(h) \/ CheckLag(h) \/ EndJob(h) \/ Exit(h)
       PROVE  Flow'
  <2>1. LoadContext(h) => Connected(h)
    BY <1>3, NoErrors
  <2>2. /\ UNCHANGED <<streams, rows, crashes>>
        /\ pc[h] \notin {"exec", "ack", "push"}
        /\ \E label \in Pcs \ {"exec", "ack", "push"} : pc' = [pc EXCEPT ![h] = label]
        /\ batch' = batch \/ batch' = [batch EXCEPT ![h] = <<>>]
        /\ phase' = phase \/ \E p : phase' = [phase EXCEPT ![h] = p]
    <3>1. CASE ReceiveInit(h) \/ Connect(h) \/ LoadContext(h)
      BY <2>1, <3>1 DEF ReceiveInit, Connect, LoadContext, Goto, Pcs, bounds, redis
    <3>2. CASE ReadNothing(h)
      <4>1. phase[h] \in {"dlq", "pending", "poll"}
        BY <1>3 DEF TypeOK, Phases
      <4>. QED
        BY <3>2, <4>1 DEF ReadNothing, Goto, Pcs, bounds, redis
    <3>3. CASE CheckProducer(h) \/ CheckLag(h) \/ EndJob(h) \/ Exit(h)
      BY <3>3 DEF CheckProducer, CheckLag, EndJob, Exit, Goto, Pcs, bounds, redis
    <3>. QED
      BY <1>12, <3>1, <3>2, <3>3
  <2>3. /\ pc'[h] \notin {"exec", "ack", "push"} /\ batch'[h] = <<>>
        /\ \A g \in Handlers : g # h =>
                pc'[g] = pc[g] /\ batch'[g] = batch[g] /\ phase'[g] = phase[g]
    BY <1>3, <1>6, <2>2 DEF TypeOK
  <2>. QED
    BY <1>3, <2>2, <2>3, FlowQuiet
<1>13. ASSUME NEW h \in Handlers,
              \/ AutoClaim(h) \/ ReadNew(h) \/ ReadPending(h) \/ Insert(h)
              \/ Acknowledge(h) \/ Push(h)
       PROVE  Flow'
  BY <1>3, <1>13, FlowAutoClaim, FlowReadNew, FlowReadPending, FlowInsert,
     FlowAcknowledge, FlowPush DEF PrefixInv
<1>14. ASSUME NEW h \in Handlers, HandlerStep(h)
       PROVE  Flow'
  <2>1. ~CommandError(h)
    BY <1>3, NoErrors
  <2>. QED
    BY <1>12, <1>13, <1>14, <2>1, Zenon DEF HandlerStep
<1>15. ASSUME Finished
       PROVE  Flow'
  BY <1>1, <1>15 DEF Finished, FlowInv
<1>. QED
  BY <1>4, <1>8, <1>9, <1>10, <1>11, <1>14, <1>15, Zenon DEF Next, MainStep

\* queue() returns by clearing what it persisted, and then rests.
LEMMA ReturnedRests ==
    ASSUME Next
    PROVE  /\ main = "returned" => UNCHANGED vars
           /\ main # "returned" /\ main' = "returned" => ClearPersisted
<1>1. ASSUME NEW h \in Handlers, HandlerStep(h) \/ Fail(h) \/ OnMessage(h)
      PROVE  main # "returned" /\ main' # "returned"
  <2>1. HandlerStep(h) \/ Fail(h) =>
            main # "returned" /\ (main' = main \/ main' = "down")
    BY DEF HandlerStep, ReceiveInit, Connect, LoadContext, AutoClaim, ReadNew, ReadPending,
       ReadNothing, Insert, Acknowledge, Push, CheckProducer, CheckLag, EndJob,
       CommandError, Exit, Fail, Die, Up, control
  <2>2. OnMessage(h) => main # "returned" /\ (main' = main \/ main' = "down")
    BY DEF OnMessage, Die
  <2>. QED
    BY <1>1, <2>1, <2>2
<1>2. ASSUME NEW w \in AllWorkers, LoseConnection(w)
      PROVE  main # "returned" /\ main' # "returned"
  BY <1>2 DEF LoseConnection, Up, control
<1>3. ASSUME \/ Queue \/ EnqueueBatch \/ CloseEnqueuer \/ AwaitAll \/ CheckProcess
             \/ CheckInsert \/ Healthcheck \/ ConfirmRestart \/ DeclineRestart
             \/ Quit \/ Crash
      PROVE  main # "returned" /\ main' # "returned"
  BY <1>3 DEF Queue, EnqueueBatch, CloseEnqueuer, AwaitAll, CheckProcess,
     CheckInsert, Healthcheck, ConfirmRestart, DeclineRestart, Quit, Crash, Die, Up
<1>4. ClearPersisted => main # "returned"
  BY DEF ClearPersisted
<1>5. Finished => UNCHANGED vars
  BY DEF Finished
<1>6. UNCHANGED vars => main' = main
  BY DEF vars
<1>. QED
  BY <1>1, <1>2, <1>3, <1>4, <1>5, <1>6, Zenon DEF Next, MainStep

\* Every message goes one way, for all constants.
THEOREM OneWay == Spec => []FlowInv
<1>1. Init => FlowInv
  <2>. SUFFICES ASSUME Init PROVE Flow
    BY DEF FlowInv
  <2>1. /\ \A s \in Streams : streams[s] = EmptyStream(AllWorkers)
        /\ {"process", "processDlq", "insert", "insertDlq"} = Streams
        /\ \A h \in Handlers : pc[h] = "off" /\ batch[h] = <<>>
        /\ crashes = 0 /\ \A m \in Msgs : rows[m] = 0
    BY DEF Init, Streams
  <2>2. \A s \in Streams : /\ streams[s].log = <<>> /\ streams[s].read = 0
                           /\ \A c \in AllWorkers : streams[s].pel[c] = {}
    BY <2>1 DEF EmptyStream
  <2>3. \A s \in Streams : GroupOK(streams[s])
    BY <2>2 DEF GroupOK
  <2>4. \A h \in Handlers : HandlerFlow(h)
    BY <2>1 DEF HandlerFlow, Held, Ascending
  <2>5. RowsOK
    BY <2>1, <2>2 DEF RowsOK
  <2>. QED
    BY <2>1, <2>2, <2>3, <2>4, <2>5 DEF Flow, Passed
<1>2. IInv /\ PrefixInv /\ CalmInv /\ FlowInv /\ [Next]_vars => FlowInv'
  BY FlowKeeps
<1>. QED
  BY <1>1, <1>2, Invariance, PrefixInvariance, CalmRounds, PTL DEF Spec

\* Without failures and slow batches a message is written once, and once more
\* for each crash that fell between createMany and XACK, for any number of
\* workers, messages, runs, rounds and crashes.
THEOREM WrittenOncePerCrash == Spec => []WrittenOnce
<1>1. Init => WrittenOnce
  BY DEF Init, WrittenOnce
<1>2. ASSUME WrittenOnce, FlowInv', IInv', [Next]_vars
      PROVE  WrittenOnce'
  <2>1. CASE UNCHANGED vars \/ ClearPersisted
    <3>1. UNCHANGED <<rows, crashes, failures>>
      BY <2>1 DEF vars, ClearPersisted, bounds
    <3>. QED
      BY <1>2, <3>1 DEF WrittenOnce
  <2>2. CASE main' # "returned"
    <3>1. crashes' \in Nat /\ crashes' + 1 = 1 + crashes'
      BY <1>2 DEF IInv, TypeOK
    <3>. QED
      BY <1>2, <2>2, <3>1 DEF FlowInv, Flow, RowsOK, WrittenOnce
  <2>3. UNCHANGED vars \/ ClearPersisted \/ main' # "returned"
    BY <1>2, ReturnedRests
  <2>. QED
    BY <2>1, <2>2, <2>3
<1>. QED
  BY <1>1, <1>2, OneWay, Invariance, PTL DEF Spec
-----------------------------------------------------------------------------
(* The queue implements LevelTransfer *)

Entered == IF main = "returned" THEN N ELSE Len(streams["process"].log)

LEMMA EnteredFacts ==
    ASSUME TypeOK, EnqueuedPrefix, main # "returned"
    PROVE  /\ Entered = Count /\ Enqueued = 1 .. Count /\ Count \in 0 .. N
           /\ DOMAIN streams["process"].log = 1 .. Count
<1>1. streams["process"].log = [i \in 1 .. Count |-> i] /\ Count \in 0 .. N
  BY PrefixMeans, CountFacts
<1>2. Count \in Nat
  BY <1>1, ConstantsAssumption
<1>3. Len(streams["process"].log) = Count /\ DOMAIN streams["process"].log = 1 .. Count
  BY <1>1, <1>2
<1>. QED
  BY <1>1, <1>3 DEF Entered, Enqueued

\* What is in hand has entered and is not written.
LEMMA HandUnwritten ==
    ASSUME IInv, EnqueuedPrefix, Flow, main # "returned"
    PROVE  /\ AllInHand \subseteq (1 .. Entered) \ Written
           /\ Passed \subseteq 1 .. Entered
<1>1. ASSUME NEW h \in Handlers, NEW m \in InHand(h)
      PROVE  m \in 1 .. Entered /\ m \notin Written
  <2>1. pc[h] = "push" /\ HandlerFlow(h)
    BY <1>1 DEF InHand, Flow
  <2>2. WorkerOf(h) # Inserter /\ \A i \in Held(h) : i \notin Passed
    BY <2>1 DEF HandlerFlow
  <2>3. PICK i \in DOMAIN batch[h] : m = BatchMsgs(h)[i]
    BY <1>1, <2>1 DEF InHand
  <2>4. /\ batch[h][i] \in DOMAIN streams["process"].log
        /\ m = streams["process"].log[batch[h][i]]
    BY <2>2, <2>3, HeldFacts DEF StreamOf
  <2>5. streams["process"].log = [k \in 1 .. Count |-> k] /\ 1 .. Count = 1 .. Entered
    BY EnteredFacts, PrefixMeans DEF IInv
  <2>6. m = batch[h][i] /\ m \in 1 .. Entered
    BY <2>4, <2>5
  <2>7. m \notin Passed
    BY <2>2, <2>3, <2>6 DEF Held
  <2>8. m \notin Written
    <3>1. SUFFICES ASSUME m \in Written PROVE FALSE
      OBVIOUS
    <3>2. PICK k \in 1 .. streams["insert"].read : streams["insert"].log[k] = m
      BY <3>1 DEF Written, Flow, RowsOK
    <3>3. k \in DOMAIN streams["insert"].log
      <4>1. /\ streams["insert"].log \in Seq(Msgs) /\ streams["insert"].read \in Nat
            /\ streams["insert"].read <= Len(streams["insert"].log)
        BY DEF IInv, TypeOK, Stream, Streams, ReadInside, WellRead
      <4>. QED
        BY <4>1
    <3>. QED
      BY <2>7, <3>2, <3>3 DEF Passed
  <2>. QED
    BY <2>6, <2>8
<1>2. Passed \subseteq 1 .. Entered
  <2>1. /\ streams["process"].log \in Seq(Msgs) /\ streams["process"].read \in Nat
        /\ streams["process"].read <= Len(streams["process"].log)
    BY DEF IInv, TypeOK, Stream, Streams, ReadInside, WellRead
  <2>2. 1 .. streams["process"].read \subseteq 1 .. Entered
    BY <2>1 DEF Entered
  <2>. QED
    BY <2>2 DEF Flow, Processed
<1>. QED
  BY <1>1, <1>2 DEF AllInHand

\* A death interrupts what was in hand.
LEMMA PromiseDie ==
    ASSUME IInv, EnqueuedPrefix, Flow, main # "returned", Die
    PROVE  [Level!LevelNext]_Level!transferVars
<1>1. AllInHand \subseteq (1 .. Entered) \ Written
  BY HandUnwritten
<1>2. /\ main' = "down" /\ streams' = streams /\ Written' = Written
      /\ dropped' = dropped \cup AllInHand /\ Entered' = Entered
  BY DEF Die, redis, Written, Entered
<1>3. CASE AllInHand = {}
  BY <1>2, <1>3 DEF Level!transferVars, Entered
<1>4. CASE AllInHand # {}
  BY <1>1, <1>2, <1>4 DEF Level!LevelNext, Level!Interrupt, Entered
<1>. QED
  BY <1>3, <1>4

\* createMany stores what its batch adds to the rows.
LEMMA PromiseInsert ==
    ASSUME IInv, EnqueuedPrefix, Flow, main # "returned", NEW h \in Handlers, Insert(h)
    PROVE  [Level!LevelNext]_Level!transferVars
<1>. DEFINE at(m) == {i \in DOMAIN batch[h] : BatchMsgs(h)[i] = m}
<1>1. /\ WorkerOf(h) = Inserter /\ UNCHANGED <<streams, main, dropped>>
      /\ rows' = [m \in Msgs |-> rows[m] + Cardinality(at(m))]
  BY DEF Insert, control
<1>2. Entered' = Entered /\ main' # "returned"
  BY <1>1 DEF Entered
<1>3. \A m \in Msgs : rows[m] \in Nat /\ rows'[m] = rows[m] + Cardinality(at(m))
  BY <1>1 DEF IInv, TypeOK
<1>4. \A m \in Msgs : at(m) = {} => Cardinality(at(m)) = 0
  BY FS_EmptySet
<1>5. \A m : Cardinality(at(m)) \in Nat
  <2>1. ASSUME NEW m PROVE Cardinality(at(m)) \in Nat
    <3>1. IsFiniteSet(at(m))
      BY PositionsFinite DEF IInv
    <3>. QED
      BY <3>1, FS_CardinalityType
  <2>. QED
    BY <2>1
<1>6. \A m \in Msgs : at(m) # {} => m \in Passed
  BY <1>1, HeldFacts DEF Passed, StreamOf
<1>. HIDE DEF at
<1>7. \A m \in Written : m \in Written'
  <2>1. ASSUME NEW m \in Msgs, rows[m] > 0 PROVE rows'[m] > 0
    BY <1>3, <1>5, <2>1
  <2>. QED
    BY <2>1 DEF Written
<1>8. \A m \in Written' \ Written : m \in Passed
  <2>1. ASSUME NEW m \in Msgs, rows'[m] > 0, ~(rows[m] > 0) PROVE m \in Passed
    BY <1>3, <1>4, <1>6, <2>1
  <2>. QED
    BY <2>1 DEF Written
<1>9. Written' \ Written \subseteq (1 .. Entered) \ Written
  BY <1>8, HandUnwritten
<1>10. Written' = Written \cup (Written' \ Written)
  BY <1>7
<1>11. CASE Written' = Written
  BY <1>1, <1>2, <1>11 DEF Level!transferVars, Entered
<1>12. CASE Written' # Written
  <2>1. Written' \ Written # {}
    BY <1>10, <1>12
  <2>. QED
    BY <1>1, <1>2, <1>9, <1>10, <2>1 DEF Level!LevelNext, Level!Store, Entered
<1>. QED
  BY <1>11, <1>12

\* When queue() returns nothing is left anywhere but in the database.
LEMMA PromiseReturn ==
    ASSUME IInv, PrefixInv, Calm, ClearPersisted
    PROVE  Level!LevelNext
<1>1. /\ main = "clear" /\ main' = "returned" /\ Written' = Written /\ dropped' = dropped
  BY DEF ClearPersisted, Written
<1>2. /\ ~Activity("process", "processDlq") /\ ~Activity("insert", "insertDlq")
      /\ AllStopped
  BY <1>1 DEF Calm
<1>3. \A s \in Streams : Undelivered(streams[s]) = {} /\ Pending(streams[s]) = {}
  BY <1>2 DEF Activity, HasActivity, Streams
<1>4. InStreams = {}
  BY <1>3 DEF InStreams, LiveEntries
<1>5. AllInHand = {}
  <2>1. \A h \in Handlers : pc[h] = "off"
    BY <1>1, CalmHandler DEF IInv
  <2>. QED
    BY <2>1 DEF AllInHand, InHand
<1>6. Enqueued \subseteq Written \cup dropped
  BY <1>1, <1>4, <1>5 DEF IInv, Accounted
<1>7. lastMessage = JOB_ENDED
  BY <1>1 DEF PrefixInv, FeedOK
<1>8. Entered = N /\ Enqueued = 1 .. N
  BY <1>1, <1>7, EnteredFacts, CountFacts DEF IInv, PrefixInv
<1>9. Entered' = N
  BY <1>1 DEF Entered
<1>. QED
  BY <1>1, <1>6, <1>8, <1>9 DEF Level!LevelNext, Level!Return, Entered

\* Every other step is the enqueuer's, or nothing the caller sees.
LEMMA PromiseStep ==
    ASSUME IInv, PrefixInv, CalmInv, FlowInv, failures = 0, ~SlowBatches, MaxFailures = 0,
           [Next]_vars
    PROVE  [Level!LevelNext]_Level!transferVars
<1>1. CASE UNCHANGED vars
  BY <1>1 DEF vars, Level!transferVars, Written
<1>2. CASE Next /\ main = "returned"
  BY <1>1, <1>2, ReturnedRests
<1>. SUFFICES ASSUME Next, main # "returned", ~UNCHANGED vars
              PROVE  [Level!LevelNext]_Level!transferVars
  BY <1>1, <1>2
<1>3. TypeOK /\ Calm /\ Flow /\ EnqueuedPrefix
  BY DEF IInv, CalmInv, FlowInv, PrefixInv
<1>4. CASE ClearPersisted
  BY <1>3, <1>4, PromiseReturn
<1>5. CASE EnqueueBatch
  <2>1. /\ next = Count + 1 /\ LastOfBatch \in Msgs /\ LastOfBatch >= next
        /\ streams'["process"].log = [i \in 1 .. LastOfBatch |-> i]
    BY <1>5, EnqueuedBatch
  <2>2. /\ UNCHANGED <<rows, dropped, main>> /\ Written' = Written
    BY <1>5 DEF EnqueueBatch, Written
  <2>3. LastOfBatch \in Nat /\ LastOfBatch <= N /\ N \in Nat
    BY <2>1, ConstantsAssumption DEF Msgs
  <2>4. Len([i \in 1 .. LastOfBatch |-> i]) = LastOfBatch
    BY <2>3
  <2>5. Entered' = LastOfBatch
    BY <2>1, <2>2, <2>4 DEF Entered
  <2>6. Entered = Count /\ Count \in 0 .. N
    BY <1>3, EnteredFacts
  <2>7. LastOfBatch \in Entered + 1 .. N
    BY <2>1, <2>3, <2>6
  <2>. QED
    BY <2>2, <2>5, <2>7 DEF Level!LevelNext, Level!Enter, Entered
<1>6. CASE Die
  BY <1>3, <1>6, PromiseDie
<1>7. ASSUME NEW h \in Handlers, Insert(h)
      PROVE  [Level!LevelNext]_Level!transferVars
  BY <1>3, <1>7, PromiseInsert
<1>8. ASSUME ~EnqueueBatch, ~ClearPersisted, UNCHANGED <<rows, dropped>>, main' # "returned"
      PROVE  [Level!LevelNext]_Level!transferVars
  <2>1. streams'["process"].log = streams["process"].log
    BY <1>8, ProcessLog
  <2>2. Written' = Written /\ Entered' = Entered
    BY <1>8, <2>1 DEF Written, Entered
  <2>. QED
    BY <1>8, <2>2 DEF Level!transferVars, Entered
<1>9. ~ClearPersisted => main' # "returned"
  BY ReturnedRests
<1>10. \A h \in Handlers : ~Fail(h) /\ ~CommandError(h) /\ (LoadContext(h) => Connected(h))
  BY <1>3, NoErrors DEF Fail
<1>11. \A w \in AllWorkers : ~LoseConnection(w)
  BY DEF LoseConnection
<1>12. ASSUME NEW h \in Handlers, HandlerStep(h) \/ OnMessage(h), ~Insert(h), ~Die
       PROVE  UNCHANGED <<rows, dropped>>
  BY <1>10, <1>12 DEF HandlerStep, ReceiveInit, Connect, LoadContext, AutoClaim, ReadNew,
     ReadPending, ReadNothing, Acknowledge, Push, CheckProducer, CheckLag, EndJob, Exit,
     OnMessage, redis
<1>13. \/ Queue \/ CloseEnqueuer \/ AwaitAll \/ CheckProcess \/ CheckInsert
       \/ Healthcheck \/ ConfirmRestart \/ DeclineRestart
       => UNCHANGED <<rows, dropped>>
  BY DEF Queue, CloseEnqueuer, AwaitAll, CheckProcess, CheckInsert, Healthcheck,
     ConfirmRestart, DeclineRestart, redis
<1>14. Quit \/ Crash => Die
  BY DEF Quit, Crash
<1>15. Finished => UNCHANGED vars
  BY DEF Finished
<1>16. \/ ClearPersisted \/ EnqueueBatch \/ Die \/ \E h \in Handlers : Insert(h)
       \/ UNCHANGED <<rows, dropped>>
  BY <1>10, <1>11, <1>12, <1>13, <1>14, <1>15, Zenon DEF Next, MainStep
<1>. QED
  BY <1>4, <1>5, <1>6, <1>7, <1>8, <1>9, <1>16

\* As long as no batch fails, no connection is lost and no batch is slow, the
\* queue is LevelTransfer: the input enters in order, what is stored had entered,
\* a death takes only what was in hand, and queue() returns only when every
\* message is in the database or counted as lost.  For any crews, sizes, numbers
\* of runs, rounds and crashes.
THEOREM Implements ==
    ASSUME ~SlowBatches, MaxFailures = 0
    PROVE  Spec => KeepsPromise
<1>1. Init => Level!LevelInit
  <2>. SUFFICES ASSUME Init PROVE Level!LevelInit
    OBVIOUS
  <2>1. streams["process"].log = <<>> /\ main = "down" /\ dropped = {}
    BY EmptyStreamFacts DEF Init, Streams
  <2>2. Written = {}
    BY DEF Init, Written
  <2>3. Len(<<>>) = 0
    OBVIOUS
  <2>. QED
    BY <2>1, <2>2, <2>3 DEF Level!LevelInit
<1>2. IInv /\ failures = 0 /\ [Next]_vars => (failures = 0)'
  <2>1. ASSUME Next, failures = 0
        PROVE  failures' = 0
    <3>1. /\ \A h \in Handlers : ~Fail(h)
          /\ \A w \in AllWorkers : ~LoseConnection(w)
      BY <2>1 DEF Fail, LoseConnection
    <3>. QED
      BY <2>1, <3>1, NoFailure
  <2>. QED
    BY <2>1 DEF vars
<1>3. IInv /\ PrefixInv /\ CalmInv /\ FlowInv /\ failures = 0 /\ [Next]_vars
        => [Level!LevelNext]_Level!transferVars
  BY PromiseStep
<1>4. Init => failures = 0
  BY DEF Init
<1>. QED
  BY <1>1, <1>2, <1>3, <1>4, Invariance, PrefixInvariance, CalmRounds, OneWay, PTL
     DEF Spec, KeepsPromise, Level!LevelSpec

=============================================================================
