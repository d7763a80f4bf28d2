----------------------------- MODULE RedisQueue -----------------------------
(***************************************************************************)
(* RedisQueueWorkersMediator.queue(): one administrative level's input is  *)
(* pushed into a Redis stream, a crew of processing workers moves it to    *)
(* the insert stream, one insert worker moves that into the database.      *)
(*                                                                         *)
(* Source: lib/workers-mediators/redis/redis-queue.workers-mediator.ts,    *)
(* with the resume point computed by commands/index.command.ts.            *)
(*                                                                         *)
(* One step of a handler is one awaited Redis command (or one hook of the  *)
(* worker), so that everything else may happen between two of them.  The   *)
(* payload computed from a message is named like the message, and lookups  *)
(* that find no parent are left out: a batch yields one payload a message. *)
(***************************************************************************)
EXTENDS RedisStreams, FiniteSets

CONSTANTS
    Workers,      \* the processing workers' indexes
    Inserter,     \* the insert worker
    Crews,        \* the sets of workers a run may be started with
    N,            \* number of messages in the level's input file
    BatchSize,
    NoKey, INITIALIZING, JOB_ENDED,  \* the producer keys' values beside...
    Payload,      \* ... a message, or any payload: nobody looks at which
    SlowBatches,  \* may a batch outlive pendingMinDurationThreshold?
    MaxHandlers,  \* bound: handlers of one worker alive at once
    MaxRuns,      \* bound: calls of queue()
    MaxRestarts,  \* bound: rounds the user grants after the first
    MaxCrashes,   \* bound: deaths of the whole process
    MaxFailures   \* bound: batches that fail all attempts, lost connections

ASSUME ConstantsAssumption ==
    /\ IsFiniteSet(Workers)
    /\ Inserter \notin Workers
    /\ Crews \subseteq (SUBSET Workers) \ {{}}
    /\ N \in Nat
    /\ BatchSize \in Nat \ {0}
    /\ Cardinality({NoKey, INITIALIZING, JOB_ENDED, Payload}) = 4
    /\ \A v \in {NoKey, INITIALIZING, JOB_ENDED, Payload} : v \notin Nat
    /\ SlowBatches \in BOOLEAN
    /\ MaxHandlers \in Nat \ {0}
    /\ MaxRuns \in Nat
    /\ MaxRestarts \in Nat
    /\ MaxCrashes \in Nat
    /\ MaxFailures \in Nat

Msgs == 1 .. N
AllWorkers == Workers \cup {Inserter}
Slots == 1 .. MaxHandlers

\* A handler is one run of the "message" listener of a worker: every INIT
\* starts one, whether or not an earlier one still runs.
Handlers == AllWorkers \X Slots
WorkerOf(h) == h[1]

Streams == {"process", "processDlq", "insert", "insertDlq"}
StreamOf(w) == IF w = Inserter THEN "insert" ELSE "process"
DlqOf(w) == IF w = Inserter THEN "insertDlq" ELSE "processDlq"

VARIABLES
    (* Redis and the database: survive the process *)
    streams,      \* the four streams with their groups
    lastMessage,  \* persistedLastMessageKey
    lastInsert,   \* persistedLastInsertMessageKey
    rows,         \* how many rows createMany wrote for each message
    (* the main thread *)
    main,         \* where queue() is
    crew,         \* the processing workers of this run
    next, feed,   \* the input's next message; the enqueuer's state
    status,       \* RedisQueueWorkerExecution.status of each execution
    doneCount,    \* workersDoneCount
    port,         \* messages a handler posted and main has not seen
    orphans,      \* handlers that post to a port of an earlier round
    (* the worker threads *)
    pc, phase, batch,
    conn,         \* the handler (its slot) the worker's connection serves
    (* bounds and history *)
    runs, restarts, crashes, failures,
    dropped       \* messages acknowledged and never handed on

redis == <<streams, lastMessage, lastInsert, rows>>
control == <<main, crew, next, feed, status, doneCount, port, orphans>>
threads == <<pc, phase, batch, conn>>
bounds == <<runs, restarts, crashes, failures>>
vars == <<streams, lastMessage, lastInsert, rows, main, crew, next, feed,
          status, doneCount, port, orphans, pc, phase, batch, conn,
          runs, restarts, crashes, failures, dropped>>

Pcs == {"off", "init", "connect", "context", "claim", "read", "exec", "ack",
        "push", "producer", "lag", "ended", "exit"}
Phases == {"dlq", "pending", "poll"}
Stages == {"down", "run", "checkProcess", "checkInsert", "confirm", "clear",
           "returned", "aborted"}
Statuses == {"idle", "running", "interrupted", "stopped"}
PortEvents == {"FINISHED", "INTERRUPTED", "DONE"}

TypeOK ==
    /\ streams \in [Streams -> Stream(Msgs, AllWorkers)]
    /\ lastMessage \in Msgs \cup {NoKey, INITIALIZING, JOB_ENDED}
    /\ lastInsert \in {NoKey, INITIALIZING, Payload, JOB_ENDED}
    /\ rows \in [Msgs -> Nat]
    /\ main \in Stages
    /\ crew \subseteq Workers
    /\ next \in 1 .. N + 1
    /\ feed \in {"open", "closed"}
    /\ status \in [AllWorkers -> Statuses]
    /\ doneCount \in Nat
    /\ port \in [Handlers -> Seq(PortEvents)]
    /\ orphans \subseteq Handlers
    /\ pc \in [Handlers -> Pcs]
    /\ phase \in [Handlers -> Phases]
    /\ batch \in [Handlers -> Seq(Nat)]
    /\ conn \in [AllWorkers -> Slots \cup {0}]
    /\ runs \in Nat /\ restarts \in Nat /\ crashes \in Nat /\ failures \in Nat
    /\ dropped \subseteq Msgs
-----------------------------------------------------------------------------
(* Helpers *)

\* The stream a handler's current phase reads.
Source(h) == IF phase[h] = "dlq" THEN DlqOf(WorkerOf(h))
                                 ELSE StreamOf(WorkerOf(h))

BatchMsgs(h) == Entries(streams[Source(h)], batch[h])

\* A handler's client works as long as nobody closed the worker's singleton
\* connection or replaced it by one of a later handler.
Connected(h) == conn[WorkerOf(h)] = h[2]

\* Acknowledged but not yet handed on, in the memory of the handler only.
InHand(h) == IF pc[h] = "push"
             THEN {BatchMsgs(h)[i] : i \in DOMAIN batch[h]} ELSE {}
AllInHand == UNION {InHand(h) : h \in Handlers}

\* A worker thread runs while its process does; queue() returning ends with
\* the caller terminating the workers.
Up == main \notin {"down", "returned"}

\* The lowest slot without a live handler or an undelivered post of one.
FreeSlots(w) == {k \in Slots : pc[<<w, k>>] = "off" /\ port[<<w, k>>] = <<>>}
IsFirstFree(h) ==
    h[2] \in FreeSlots(WorkerOf(h)) /\ \A k \in FreeSlots(WorkerOf(h)) : h[2] <= k

\* RedisQueueWorkerExecution.init() on each of ws: INIT is posted.
Started(ws) == [h \in Handlers |->
    IF WorkerOf(h) \in ws /\ IsFirstFree(h) THEN "init" ELSE pc[h]]

Post(h, event) == IF h \in orphans THEN port
                  ELSE [port EXCEPT ![h] = Append(@, event)]

\* What processBatch returns to: the drain loop or the polling loop.
Resume(h) == IF phase[h] = "poll" THEN "producer" ELSE "claim"

Goto(h, label) == pc' = [pc EXCEPT ![h] = label]
-----------------------------------------------------------------------------
Init ==
    /\ streams = [s \in Streams |-> EmptyStream(AllWorkers)]
    /\ lastMessage = NoKey
    \* clearPersisted of the previous level leaves this key behind
    /\ lastInsert \in {NoKey, JOB_ENDED}
    /\ rows = [m \in Msgs |-> 0]
    /\ main = "down" /\ crew = {} /\ next = 1 /\ feed = "open"
    /\ status = [w \in AllWorkers |-> "idle"]
    /\ doneCount = 0
    /\ port = [h \in Handlers |-> <<>>]
    /\ orphans = {}
    /\ pc = [h \in Handlers |-> "off"]
    /\ phase = [h \in Handlers |-> "dlq"]
    /\ batch = [h \in Handlers |-> <<>>]
    /\ conn = [w \in AllWorkers |-> 0]
    /\ runs = 0 /\ restarts = 0 /\ crashes = 0 /\ failures = 0
    /\ dropped = {}

\* The process is gone: threads, ports and closures with it.  Redis and the
\* database keep what they have.
Die ==
    /\ main' = "down" /\ crew' = {} /\ next' = 1 /\ feed' = "open"
    /\ status' = [w \in AllWorkers |-> "idle"]
    /\ doneCount' = 0
    /\ port' = [h \in Handlers |-> <<>>]
    /\ orphans' = {}
    /\ pc' = [h \in Handlers |-> "off"]
    /\ phase' = [h \in Handlers |-> "dlq"]
    /\ batch' = [h \in Handlers |-> <<>>]
    /\ conn' = [w \in AllWorkers |-> 0]
    /\ dropped' = dropped \cup AllInHand
    /\ UNCHANGED redis
-----------------------------------------------------------------------------
(* The main thread *)

\* Mutant: the last persisted message is taken again.
ResumeAtLast ==
    IF lastMessage \in Msgs THEN lastMessage
    ELSE IF lastMessage = JOB_ENDED THEN N + 1 ELSE 1

\* Where the input goes on: after the last persisted message, if there is one.
ResumePoint ==
    IF lastMessage \in Msgs THEN lastMessage + 1
    ELSE IF lastMessage = JOB_ENDED THEN N + 1 ELSE 1

\* queue() up to its monitoring loop, and the first round's executions.
Queue ==
    /\ main = "down" /\ runs < MaxRuns
    /\ runs' = runs + 1
    /\ lastMessage' = IF lastMessage = NoKey THEN INITIALIZING ELSE lastMessage
    /\ lastInsert' = IF lastInsert = NoKey THEN INITIALIZING ELSE lastInsert
    /\ next' = ResumePoint
    /\ \E c \in Crews :
        /\ crew' = c
        /\ status' = [w \in AllWorkers |-> IF w \in c THEN "running" ELSE "idle"]
        /\ pc' = Started(c)
    /\ main' = "run"
    /\ UNCHANGED <<streams, rows, feed, doneCount, port, orphans, phase, batch,
                   conn, restarts, crashes, failures, dropped>>

\* Mutant: the last batch is taken to be full.
LastUnclamped == next + BatchSize - 1

\* The batcher: batches are full except the input's last.
LastOfBatch == IF next + BatchSize - 1 <= N THEN next + BatchSize - 1 ELSE N

\* enqueuer.write(): one script adds the batch and moves the resume point.
EnqueueBatch ==
    /\ main = "run" /\ feed = "open" /\ next <= N
    /\ streams' = [streams EXCEPT !["process"] =
            XAdd(@, [i \in 1 .. LastOfBatch - next + 1 |-> next + i - 1])]
    /\ lastMessage' = LastOfBatch
    /\ next' = LastOfBatch + 1
    /\ UNCHANGED <<lastInsert, rows, main, crew, feed, status, doneCount, port,
                   orphans, threads, bounds, dropped>>

\* Mutant: the end of the input is not made known.
CloseSilently ==
    /\ main = "run" /\ feed = "open" /\ next > N
    /\ feed' = "closed"
    /\ UNCHANGED <<streams, lastMessage, lastInsert, rows, main, crew, next,
                   status, doneCount, port, orphans, threads, bounds, dropped>>

\* enqueuer.close()
CloseEnqueuer ==
    /\ main = "run" /\ feed = "open" /\ next > N
    /\ lastMessage' = JOB_ENDED
    /\ feed' = "closed"
    /\ UNCHANGED <<streams, lastInsert, rows, main, crew, next, status,
                   doneCount, port, orphans, threads, bounds, dropped>>

\* The insert execution is initialised once a round, by whoever comes first.
InitInsertIfIdle(stat) ==
    IF stat[Inserter] = "idle"
    THEN /\ status' = [stat EXCEPT ![Inserter] = "running"]
         /\ pc' = Started({Inserter})
    ELSE /\ status' = stat
         /\ UNCHANGED pc

OnFinished(w) ==
    /\ InitInsertIfIdle(status)
    /\ UNCHANGED doneCount

\* A processing worker's DONE counts; the insert worker's resolves its promise.
\* The counter is compared for equality with the crew's size: beyond it, its
\* value no longer matters and stays.
OnDone(w) ==
    LET stat == [status EXCEPT ![w] = "stopped"]
    IN  IF w = Inserter
        THEN status' = stat /\ UNCHANGED <<pc, doneCount>>
        ELSE /\ doneCount' = IF doneCount > Cardinality(crew) THEN doneCount
                             ELSE doneCount + 1
             /\ IF doneCount + 1 = Cardinality(crew)
                THEN InitInsertIfIdle(stat)
                ELSE status' = stat /\ UNCHANGED pc

Interrupts(w) ==
    w = Inserter \/ \A v \in crew : v = w \/ status[v] = "interrupted"

\* port.onmessage of an execution of this round.
OnMessage(h) ==
    LET w == WorkerOf(h)
    IN  /\ main \in {"run", "checkProcess", "checkInsert", "clear"}
        /\ port[h] # <<>>
        /\ \/ /\ Head(port[h]) = "INTERRUPTED" /\ Interrupts(w)
              /\ Die    \* thrown in an event listener: uncaught
           \/ /\ Head(port[h]) = "INTERRUPTED" /\ ~Interrupts(w)
              /\ status' = [status EXCEPT ![w] = "interrupted"]
              /\ port' = [port EXCEPT ![h] = Tail(@)]
              /\ UNCHANGED <<doneCount, pc, redis, main, crew, next, feed,
                             orphans, phase, batch, conn, dropped>>
           \/ /\ Head(port[h]) # "INTERRUPTED"
              /\ IF Head(port[h]) = "DONE" THEN OnDone(w) ELSE OnFinished(w)
              /\ port' = [port EXCEPT ![h] = Tail(@)]
              /\ UNCHANGED <<redis, main, crew, next, feed, orphans, phase,
                             batch, conn, dropped>>
        /\ UNCHANGED bounds

\* The interval re-initialises every interrupted execution, dead or not.
Healthcheck ==
    LET sick == {w \in crew : status[w] = "interrupted"}
    IN  /\ main = "run" /\ sick # {}
        /\ \A w \in sick : FreeSlots(w) # {}
        /\ status' = [w \in AllWorkers |->
                        IF w \in sick THEN "running" ELSE status[w]]
        /\ pc' = Started(sick)
        /\ UNCHANGED <<redis, main, crew, next, feed, doneCount, port, orphans,
                       phase, batch, conn, bounds, dropped>>

\* await Promise.all([pipelineDone, processingDonePromise, insertDonePromise])
AwaitAll ==
    /\ main = "run"
    /\ feed = "closed"
    /\ doneCount >= Cardinality(crew)
    /\ status[Inserter] = "stopped"
    /\ main' = "checkProcess"
    /\ UNCHANGED <<redis, crew, next, feed, status, doneCount, port, orphans,
                   threads, bounds, dropped>>

\* Mutant: only pending entries count.
ActivityPending(s, dlq) ==
    Pending(streams[s]) # {} \/ Pending(streams[dlq]) # {}

\* checkStreamActivity of a stream and its DLQ.
Activity(s, dlq) == HasActivity(streams[s]) \/ HasActivity(streams[dlq])

CheckProcess ==
    /\ main = "checkProcess"
    /\ main' = IF Activity("process", "processDlq") THEN "confirm" ELSE "checkInsert"
    /\ UNCHANGED <<redis, crew, next, feed, status, doneCount, port, orphans,
                   threads, bounds, dropped>>

CheckInsert ==
    /\ main = "checkInsert"
    /\ main' = IF Activity("insert", "insertDlq") THEN "confirm" ELSE "clear"
    /\ UNCHANGED <<redis, crew, next, feed, status, doneCount, port, orphans,
                   threads, bounds, dropped>>

\* The user grants another round: new executions, new ports, same workers.
ConfirmRestart ==
    /\ main = "confirm" /\ restarts < MaxRestarts
    /\ \A w \in crew : FreeSlots(w) # {}
    /\ restarts' = restarts + 1
    /\ main' = "run"
    /\ doneCount' = 0
    /\ status' = [w \in AllWorkers |-> IF w \in crew THEN "running" ELSE "idle"]
    /\ orphans' = {h \in Handlers : pc[h] # "off"}
    /\ port' = [h \in Handlers |-> <<>>]
    /\ pc' = Started(crew)
    /\ UNCHANGED <<redis, crew, next, feed, phase, batch, conn, runs, crashes,
                   failures, dropped>>

\* The user declines: queue() throws, the caller reports and returns, and the
\* workers it never terminates keep the process alive until it is stopped.
DeclineRestart ==
    /\ main = "confirm"
    /\ main' = "aborted"
    /\ UNCHANGED <<redis, crew, next, feed, status, doneCount, port, orphans,
                   threads, bounds, dropped>>

Quit ==
    /\ main = "aborted"
    /\ Die
    /\ UNCHANGED bounds

\* clearPersisted() and stop(): the streams, their groups and the resume point
\* go, the last insert key stays.
ClearPersisted ==
    /\ main = "clear"
    /\ streams' = [s \in Streams |-> EmptyStream(AllWorkers)]
    /\ lastMessage' = NoKey
    /\ main' = "returned"
    /\ port' = [h \in Handlers |-> <<>>]
    /\ UNCHANGED <<lastInsert, rows, crew, next, feed, status, doneCount,
                   orphans, threads, bounds, dropped>>

\* Anything that kills the process: a signal, a power cut, an uncaught error.
Crash ==
    /\ Up /\ crashes < MaxCrashes
    /\ crashes' = crashes + 1
    /\ Die
    /\ UNCHANGED <<runs, restarts, failures>>
-----------------------------------------------------------------------------
(* The worker threads *)

\* The listener runs: connect() closes the connection the worker already has...
ReceiveInit(h) ==
    /\ Up /\ pc[h] = "init"
    /\ conn' = [conn EXCEPT ![WorkerOf(h)] = 0]
    /\ Goto(h, "connect")
    /\ UNCHANGED <<redis, control, phase, batch, bounds, dropped>>

\* ... and opens another.
Connect(h) ==
    /\ Up /\ pc[h] = "connect"
    /\ conn' = [conn EXCEPT ![WorkerOf(h)] = h[2]]
    /\ Goto(h, "context")
    /\ UNCHANGED <<redis, control, phase, batch, bounds, dropped>>

\* Groups, context and init hook come before the try block: an error there is
\* an unhandled rejection of the worker and takes the process down.
LoadContext(h) ==
    /\ Up /\ pc[h] = "context"
    /\ IF Connected(h)
       THEN /\ Goto(h, "claim")
            /\ UNCHANGED <<redis, control, phase, batch, conn, dropped>>
       ELSE Die
    /\ UNCHANGED bounds

\* Mutant: XAUTOCLAIM without a minimum idle time.
InUseByNobody(s) == {}

\* The ids of stream s in the hands of a live handler.
InUse(s) == UNION {{batch[h][i] : i \in DOMAIN batch[h]} :
                    h \in {g \in Handlers : pc[g] # "off" /\ Source(g) = s}}

\* COUNT of every XAUTOCLAIM and XREADGROUP.
ReadCount == BatchSize

\* XAUTOCLAIM with a minimum idle time: whatever is pending may have been idle
\* for long enough, what a live handler works on only if batches can be slow.
AutoClaim(h) ==
    /\ Up /\ pc[h] = "claim" /\ phase[h] # "poll" /\ Connected(h)
    /\ LET s == Source(h)
           idle == Pending(streams[s]) \ (IF SlowBatches THEN {} ELSE InUse(s))
       IN  \E ids \in SUBSET idle :
            /\ Cardinality(ids) <= ReadCount
            /\ streams' = [streams EXCEPT ![s] = Claim(@, WorkerOf(h), ids)]
    /\ Goto(h, "read")
    /\ UNCHANGED <<lastMessage, lastInsert, rows, control, phase, batch, conn,
                   bounds, dropped>>

\* XREADGROUP ">" in the DLQ drain and in the polling loop.
ReadNew(h) ==
    /\ Up /\ pc[h] = "read" /\ phase[h] # "pending" /\ Connected(h)
    /\ \E ids \in Oldest(Undelivered(streams[Source(h)]), ReadCount) :
        /\ ids # <<>>
        /\ streams' = [streams EXCEPT ![Source(h)] =
                            Deliver(@, WorkerOf(h), ids)]
        /\ batch' = [batch EXCEPT ![h] = ids]
    /\ Goto(h, "exec")
    /\ UNCHANGED <<lastMessage, lastInsert, rows, control, phase, conn, bounds,
                   dropped>>

\* The entries pending for the handler's consumer name.
Own(h) == Pending(streams[Source(h)]) \cap streams[Source(h)].pel[WorkerOf(h)]

\* XREADGROUP "0" in the drain of the main stream: the consumer's own PEL.
ReadPending(h) ==
    /\ Up /\ pc[h] = "read" /\ phase[h] = "pending" /\ Connected(h)
    /\ \E ids \in Oldest(Own(h), ReadCount) :
        /\ ids # <<>>
        /\ batch' = [batch EXCEPT ![h] = ids]
    /\ Goto(h, "exec")
    /\ UNCHANGED <<redis, control, phase, conn, bounds, dropped>>

\* A read that finds nothing ends a drain phase, or is a BLOCK that timed out.
ReadNothing(h) ==
    /\ Up /\ pc[h] = "read" /\ Connected(h)
    /\ IF phase[h] = "pending"
       THEN Own(h) = {}
       ELSE Undelivered(streams[Source(h)]) = {}
    /\ CASE phase[h] = "dlq"     -> /\ phase' = [phase EXCEPT ![h] = "pending"]
                                    /\ Goto(h, "claim")
         [] phase[h] = "pending" -> /\ phase' = [phase EXCEPT ![h] = "poll"]
                                    /\ Goto(h, "read")
         [] phase[h] = "poll"    -> /\ Goto(h, "producer")
                                    /\ UNCHANGED phase
    /\ UNCHANGED <<redis, control, batch, conn, bounds, dropped>>

\* The insert worker's execute(): createMany for the batch.
Insert(h) ==
    /\ Up /\ pc[h] = "exec" /\ WorkerOf(h) = Inserter
    /\ rows' = [m \in Msgs |-> rows[m] +
                  Cardinality({i \in DOMAIN batch[h] : BatchMsgs(h)[i] = m})]
    /\ Goto(h, "ack")
    /\ UNCHANGED <<streams, lastMessage, lastInsert, control, phase, batch, conn,
                   bounds, dropped>>

\* execute() succeeded: MULTI XACK ... EXEC.
Acknowledge(h) ==
    /\ Up /\ Connected(h)
    /\ pc[h] = IF WorkerOf(h) = Inserter THEN "ack" ELSE "exec"
    /\ streams' = [streams EXCEPT ![Source(h)] = XAck(@, batch[h])]
    /\ IF WorkerOf(h) = Inserter
       THEN /\ Goto(h, Resume(h)) /\ batch' = [batch EXCEPT ![h] = <<>>]
       ELSE /\ Goto(h, "push") /\ UNCHANGED batch
    /\ UNCHANGED <<lastMessage, lastInsert, rows, control, phase, conn, bounds,
                   dropped>>

\* Mutant: the payloads are not added.
NotForwarded(h) == streams

\* The streams once the payloads of the batch are in the insert stream.
Forwarded(h) == [streams EXCEPT !["insert"] = XAdd(@, BatchMsgs(h))]

\* A processing worker then adds the payloads to the insert stream, in another
\* command, and posts FINISHED.
Push(h) ==
    /\ Up /\ pc[h] = "push" /\ Connected(h)
    /\ streams' = Forwarded(h)
    /\ lastInsert' = Payload
    /\ port' = Post(h, "FINISHED")
    /\ Goto(h, Resume(h))
    /\ batch' = [batch EXCEPT ![h] = <<>>]
    /\ UNCHANGED <<lastMessage, rows, main, crew, next, feed, status, doneCount,
                   orphans, phase, conn, bounds, dropped>>

\* Mutant: a failed batch is only acknowledged.
NotDeadLettered(h, sts) == sts

\* The streams sts once the messages of the batch are in the dead-letter stream.
DeadLettered(h, sts) == [sts EXCEPT ![DlqOf(WorkerOf(h))] = XAdd(@, BatchMsgs(h))]

\* All attempts failed: the batch is acknowledged and moved to the DLQ in one
\* transaction; a batch that came from the DLQ is not put back.
Fail(h) ==
    LET s == Source(h)
        acked == [streams EXCEPT ![s] = XAck(@, batch[h])]
    IN  /\ Up /\ pc[h] = "exec" /\ Connected(h) /\ failures < MaxFailures
        /\ failures' = failures + 1
        /\ IF phase[h] = "dlq"
           THEN /\ streams' = acked
                /\ dropped' = dropped \cup {BatchMsgs(h)[i] : i \in DOMAIN batch[h]}
           ELSE /\ streams' = DeadLettered(h, acked)
                /\ UNCHANGED dropped
        /\ port' = Post(h, "INTERRUPTED")
        /\ Goto(h, Resume(h))
        /\ batch' = [batch EXCEPT ![h] = <<>>]
        /\ UNCHANGED <<lastMessage, lastInsert, rows, main, crew, next, feed,
                       status, doneCount, orphans, phase, conn,
                       runs, restarts, crashes>>

\* GET producerKey: an active producer means another poll.
CheckProducer(h) ==
    /\ Up /\ pc[h] = "producer" /\ Connected(h)
    /\ LET key == IF WorkerOf(h) = Inserter THEN lastInsert ELSE lastMessage
       IN  Goto(h, IF key \in {NoKey, JOB_ENDED} THEN "lag" ELSE "read")
    /\ UNCHANGED <<redis, control, phase, batch, conn, bounds, dropped>>

\* Mutant: what others have pending is not looked at.
MoreUndelivered(h) == Undelivered(streams[Source(h)]) # {}

\* getLag(): something undelivered, or pending for whichever worker.
MoreToRead(h) == HasActivity(streams[Source(h)])

\* An error in getLag() counts as nothing left.
CheckLag(h) ==
    /\ Up /\ pc[h] = "lag"
    /\ Goto(h, IF Connected(h) /\ MoreToRead(h) THEN "read"
               ELSE IF WorkerOf(h) = Inserter THEN "exit" ELSE "ended")
    /\ UNCHANGED <<redis, control, phase, batch, conn, bounds, dropped>>

\* Every processing worker that leaves declares the insert producer's end.
EndJob(h) ==
    /\ Up /\ pc[h] = "ended" /\ Connected(h)
    /\ lastInsert' = JOB_ENDED
    /\ Goto(h, "exit")
    /\ UNCHANGED <<streams, lastMessage, rows, control, phase, batch, conn,
                   bounds, dropped>>

\* The commands whose error reaches the catch block.
Commanding(h) ==
    \/ pc[h] \in {"claim", "read", "ack", "push", "producer", "ended"}
    \/ pc[h] = "exec" /\ WorkerOf(h) # Inserter

\* A command on a closed connection: catch, INTERRUPTED.
CommandError(h) ==
    /\ Up /\ Commanding(h) /\ ~Connected(h)
    /\ port' = Post(h, "INTERRUPTED")
    /\ dropped' = dropped \cup InHand(h)
    /\ Goto(h, "exit")
    /\ UNCHANGED <<redis, main, crew, next, feed, status, doneCount, orphans,
                   phase, batch, conn, bounds>>

\* finally: DONE, and the worker's connection is closed, whoever uses it.
Exit(h) ==
    /\ Up /\ pc[h] = "exit"
    /\ port' = Post(h, "DONE")
    /\ conn' = [conn EXCEPT ![WorkerOf(h)] = 0]
    /\ Goto(h, "off")
    /\ phase' = [phase EXCEPT ![h] = "dlq"]
    /\ batch' = [batch EXCEPT ![h] = <<>>]
    /\ orphans' = orphans \ {h}
    /\ UNCHANGED <<redis, main, crew, next, feed, status, doneCount, bounds,
                   dropped>>

\* The network or the server closes a worker's connection.
LoseConnection(w) ==
    /\ Up /\ conn[w] # 0 /\ failures < MaxFailures
    /\ failures' = failures + 1
    /\ conn' = [conn EXCEPT ![w] = 0]
    /\ UNCHANGED <<redis, control, pc, phase, batch, runs, restarts, crashes,
                   dropped>>
-----------------------------------------------------------------------------
HandlerStep(h) ==
    \/ ReceiveInit(h) \/ Connect(h) \/ LoadContext(h)
    \/ AutoClaim(h) \/ ReadNew(h) \/ ReadPending(h) \/ ReadNothing(h)
    \/ Insert(h) \/ Acknowledge(h) \/ Push(h)
    \/ CheckProducer(h) \/ CheckLag(h) \/ EndJob(h)
    \/ CommandError(h) \/ Exit(h)

MainStep ==
    \/ EnqueueBatch \/ CloseEnqueuer
    \/ AwaitAll \/ CheckProcess \/ CheckInsert \/ ClearPersisted

\* queue() returned, or the user gave up on it: nothing else happens.
Finished ==
    /\ main = "returned" \/ (main = "down" /\ runs = MaxRuns)
    /\ UNCHANGED vars

Next ==
    \/ Queue \/ MainStep \/ Healthcheck
    \/ ConfirmRestart \/ DeclineRestart \/ Quit \/ Crash
    \/ \E h \in Handlers : HandlerStep(h) \/ Fail(h) \/ OnMessage(h)
    \/ \E w \in AllWorkers : LoseConnection(w)
    \/ Finished

Spec == Init /\ [][Next]_vars

\* The event loops and Redis serve whoever waits; nobody owes a crash, a
\* failure, an answer of the user or another run.
Fairness ==
    /\ WF_vars(MainStep)
    /\ WF_vars(Healthcheck)
    /\ \A h \in Handlers : WF_vars(HandlerStep(h)) /\ WF_vars(OnMessage(h))

FairSpec == Spec /\ Fairness
-----------------------------------------------------------------------------
(* Properties *)

Enqueued == {streams["process"].log[i] : i \in DOMAIN streams["process"].log}
InStreams == UNION {LiveEntries(streams[s]) : s \in Streams}
Written == {m \in Msgs : rows[m] > 0}

\* A message that entered the processing stream is, until queue() returns,
\* still to be read in some stream, in the hands of a worker between its XACK
\* and its push, written to the database, or one of those a death, an error or
\* a second failure is known to have dropped: the hand-over between the two
\* streams (processBatch) forgets nothing else.
Accounted ==
    main # "returned" =>
        Enqueued \subseteq InStreams \cup AllInHand \cup Written \cup dropped

\* A message is written once, and once more for each crash that fell between
\* createMany and XACK: neither resuming nor a further round of the monitoring
\* loop processes anything twice.
WrittenOnce ==
    ~SlowBatches /\ failures = 0 => \A m \in Msgs : rows[m] <= 1 + crashes

\* The resume key and the stream agree at every instant, across crashes and
\* resumed runs: the stream holds the input up to the key, each message once
\* and in order.
EnqueuedPrefix ==
    LET count == IF lastMessage \in Msgs THEN lastMessage
                 ELSE IF lastMessage = JOB_ENDED THEN N ELSE 0
    IN  main # "returned" => streams["process"].log = [i \in 1 .. count |-> i]

\* A processing worker that is about to declare the end has seen it: the input
\* is enqueued and the processing stream has nothing undelivered or pending,
\* although it read the producer key and the stream in two commands.
EndIsDeclaredLast ==
    main # "returned" => \A h \in Handlers :
        pc[h] = "ended" /\ Connected(h) =>
            lastMessage = JOB_ENDED /\ ~HasActivity(streams["process"])

\* Every round of the monitoring loop comes to its check, or ends the process:
\* nobody waits for a DONE or for a producer key that never comes.
RoundEnds == main = "run" ~> main # "run"

\* "when a pipeline is interrupted, it can pick up exactly at where it left
\* off" (README.md): whatever interrupted it, a pipeline that completes has
\* every message in the database.
PicksUpExactly == main = "returned" => Msgs \subseteq Written

\* The queue keeps the mediator's promise.  Returning deletes the stream, so
\* what has entered is then the whole input.
Level == INSTANCE LevelTransfer WITH
    entered <- IF main = "returned" THEN N ELSE Len(streams["process"].log),
    stored <- Written,
    lost <- dropped,
    returned <- main = "returned"

\* Every step of the queue is a step of the promised transfer or changes
\* nothing the caller can see, as long as the workers do not fail: above all it
\* returns only when every message of the input is in the database, whatever
\* order the workers left in and however often it was interrupted and resumed;
\* only messages in hand at a crash can be missing.
KeepsPromise == Level!LevelSpec
=============================================================================
