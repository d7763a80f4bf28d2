---------------------------- MODULE InMemoryQueue ----------------------------
(***************************************************************************)
(* InMemoryQueueWorkersMediator.queue(): the same two stages as RedisQueue *)
(* inside one process.  Batches go round-robin to the processing workers   *)
(* over transferred streams with a bounded buffer, their results are       *)
(* gathered and written to the insert worker, and closing goes from the    *)
(* source to the insert worker, one processing worker after the other.     *)
(*                                                                         *)
(* Source: lib/workers-mediators/in-memory/in-memory-queue.workers-        *)
(* mediator.ts, and its caller commands/index.command.ts for what happens  *)
(* to the workers after queue().                                           *)
(*                                                                         *)
(* A batch is the set of its messages, a payload is named like its message *)
(* and a job's random ids are numbers given out in order.  Batches are     *)
(* formed when they are assigned: what the source reads ahead is only a    *)
(* buffer.                                                                 *)
(***************************************************************************)
EXTENDS Naturals, Sequences, FiniteSets, Functions

CONSTANTS
    W,           \* number of processing workers
    N,           \* number of messages of the input
    BatchSize,
    Hwm,         \* batches that fit between a job's writer and its worker
    MaxRetries

ASSUME ConstantsAssumption ==
    /\ W \in Nat \ {0}
    /\ N \in Nat
    /\ BatchSize \in Nat \ {0}
    /\ Hwm \in Nat \ {0}
    /\ MaxRetries \in Nat

Msgs == 1 .. N
Workers == 1 .. W
Inserter == 0
Jobs == Workers \cup {Inserter}

VARIABLES
    (* the main thread *)
    main,         \* where the caller of queue() is
    pulled,       \* #pulledMessagesCount; processed is the input's cursor too
    turn,         \* workerIndex of the assigner
    issued,       \* WorkerJob: how many ids it has made, ...
    input,        \* ... batches transformed and not yet read, ...
    inputClosed,
    jobIds,       \* ... ids without a result; _pendingTask while not {}
    out,          \* results of a processing job not yet gathered
    outClosed,
    gathered,     \* results not yet transformed by the insert job
    (* the worker threads *)
    pc, attempt,
    hand,         \* the batch in execution: none or one
    port,         \* results posted and not yet seen by the main thread
    (* the database *)
    rows          \* how many rows createMany wrote for each message

vars == <<main, pulled, turn, issued, input, inputClosed, jobIds, out,
          outClosed, gathered, pc, hand, attempt, port, rows>>
results == <<out, outClosed, gathered>>
threads == <<pc, hand, attempt, port, rows>>

Batches == (SUBSET Msgs) \ {{}}
WorkItems == [jobId: Nat, batch: Batches]

TypeOK ==
    /\ main \in {"idle", "run", "returned", "terminated", "dead", "diedLate"}
    /\ pulled \in [processed: 0 .. N, inserted: Nat]
    /\ turn \in Workers
    /\ issued \in [Jobs -> Nat]
    /\ input \in [Jobs -> Seq(WorkItems)]
    /\ inputClosed \in [Jobs -> BOOLEAN]
    /\ jobIds \in [Jobs -> SUBSET Nat]
    /\ out \in [Workers -> Seq(Batches)]
    /\ outClosed \in [Workers -> BOOLEAN]
    /\ gathered \in Seq(Batches)
    /\ pc \in [Jobs -> {"new", "init", "wait", "exec", "giveUp", "teardown",
                        "gone", "failed", "killed"}]
    /\ hand \in [Jobs -> Seq(WorkItems)]
    /\ attempt \in [Jobs -> 0 .. MaxRetries + 1]
    /\ port \in [Jobs -> Seq(WorkItems)]
    /\ rows \in [Msgs -> Nat]
-----------------------------------------------------------------------------
Init ==
    /\ main = "idle"
    /\ pulled = [processed |-> 0, inserted |-> 0]
    /\ turn = 1
    /\ issued = [j \in Jobs |-> 0]
    /\ input = [j \in Jobs |-> <<>>]
    /\ inputClosed = [j \in Jobs |-> FALSE]
    /\ jobIds = [j \in Jobs |-> {}]
    /\ out = [w \in Workers |-> <<>>]
    /\ outClosed = [w \in Workers |-> FALSE]
    /\ gathered = <<>>
    /\ pc = [j \in Jobs |-> "new"]
    /\ hand = [j \in Jobs |-> <<>>]
    /\ attempt = [j \in Jobs |-> 0]
    /\ port = [j \in Jobs |-> <<>>]
    /\ rows = [m \in Msgs |-> 0]

\* Threads run and events are delivered until the workers are terminated or
\* an uncaught error has ended the process.
Up == main \in {"run", "returned"}
-----------------------------------------------------------------------------
(* The main thread *)

\* queue(): every job posts INIT to its worker and the pipes are connected.
Queue ==
    /\ main = "idle"
    /\ main' = "run"
    /\ pc' = [j \in Jobs |-> "init"]
    /\ UNCHANGED <<pulled, turn, issued, input, inputClosed, jobIds, results,
                   hand, attempt, port, rows>>

\* The batcher: batches are full except the input's last.
NextBatch ==
    {m \in Msgs : pulled.processed < m /\ m <= pulled.processed + BatchSize}

\* WorkerJob's transform: the job is registered and its batch queued, once the
\* readable side has room.
Transform(j, b) ==
    /\ Len(input[j]) < Hwm
    /\ issued' = [issued EXCEPT ![j] = @ + 1]
    /\ input' = [input EXCEPT ![j] =
                    Append(@, [jobId |-> issued[j], batch |-> b])]
    /\ jobIds' = [jobIds EXCEPT ![j] = @ \cup {issued[j]}]

\* assigner.write(): one batch at a time, to the worker whose turn it is, even
\* if another one has room.
Assign ==
    /\ main = "run" /\ pulled.processed < N
    /\ Transform(turn, NextBatch)
    /\ turn' = (turn % W) + 1
    /\ pulled' = [pulled EXCEPT !.processed = @ + Cardinality(NextBatch)]
    /\ UNCHANGED <<main, inputClosed, results, threads>>

\* assigner.close() calls close() of the jobs in turn: first the input...
CloseInput(w) ==
    /\ main = "run" /\ pulled.processed = N
    /\ ~inputClosed[w] /\ \A v \in 1 .. w - 1 : outClosed[v]
    /\ inputClosed' = [inputClosed EXCEPT ![w] = TRUE]
    /\ UNCHANGED <<main, pulled, turn, issued, input, jobIds, results,
                   threads>>

\* Mutant: close() does not wait for the pending task.
NotAwaited(j) == TRUE

\* ... then, once no task is pending, ...
NoPendingTask(j) == jobIds[j] = {}

\* ... the output.
CloseOutput(w) ==
    /\ main = "run"
    /\ inputClosed[w] /\ ~outClosed[w] /\ NoPendingTask(w)
    /\ outClosed' = [outClosed EXCEPT ![w] = TRUE]
    /\ UNCHANGED <<main, pulled, turn, issued, input, inputClosed, jobIds,
                   out, gathered, threads>>

\* The gatherer reads every job's output, without waiting for room.
Gather(w) ==
    /\ main = "run" /\ out[w] # <<>>
    /\ gathered' = Append(gathered, Head(out[w]))
    /\ out' = [out EXCEPT ![w] = Tail(@)]
    /\ pulled' = [pulled EXCEPT !.inserted = @ + Cardinality(Head(out[w]))]
    /\ UNCHANGED <<main, turn, issued, input, inputClosed, jobIds, outClosed,
                   threads>>

\* pipeTo(insertJob.inputWritableStream)
Forward ==
    /\ main = "run" /\ gathered # <<>>
    /\ Transform(Inserter, Head(gathered))
    /\ gathered' = Tail(gathered)
    /\ UNCHANGED <<main, pulled, turn, inputClosed, out, outClosed, threads>>

\* Mutant: the gatherer is closed with the last output, read or not.
OutputsClosed == \A w \in Workers : outClosed[w]

\* The gatherer is closed after every output has been read to its end.
GathererDone == \A w \in Workers : outClosed[w] /\ out[w] = <<>>

CloseInsertInput ==
    /\ main = "run" /\ ~inputClosed[Inserter]
    /\ GathererDone /\ gathered = <<>>
    /\ inputClosed' = [inputClosed EXCEPT ![Inserter] = TRUE]
    /\ UNCHANGED <<main, pulled, turn, issued, input, jobIds, results,
                   threads>>

\* Both pipes have ended and so has the insert job's pending task.
Return ==
    /\ main = "run"
    /\ inputClosed[Inserter] /\ NoPendingTask(Inserter)
    /\ main' = "returned"
    /\ UNCHANGED <<pulled, turn, issued, input, inputClosed, jobIds, results,
                   threads>>

\* The caller terminates the workers and calls clearQueue().
Cleanup ==
    /\ main = "returned"
    /\ main' = "terminated"
    /\ pc' = [j \in Jobs |-> IF pc[j] = "gone" THEN "gone" ELSE "killed"]
    /\ pulled' = [processed |-> 0, inserted |-> 0]
    /\ UNCHANGED <<turn, issued, input, inputClosed, jobIds, results, hand,
                   attempt, port, rows>>

\* The "message" listener of a job.
OnFinished(j) ==
    /\ Up /\ port[j] # <<>>
    /\ port' = [port EXCEPT ![j] = Tail(@)]
    /\ jobIds' = [jobIds EXCEPT ![j] = @ \ {Head(port[j]).jobId}]
    /\ out' = [w \in Workers |->
                IF w = j THEN Append(out[w], Head(port[w]).batch) ELSE out[w]]
    /\ UNCHANGED <<main, pulled, turn, issued, input, inputClosed, outClosed,
                   gathered, pc, hand, attempt, rows>>

\* Mutant: the "error" listener only logs.
LogError(j) ==
    /\ Up /\ pc[j] = "failed"
    /\ pc' = [pc EXCEPT ![j] = "killed"]
    /\ UNCHANGED <<main, pulled, turn, issued, input, inputClosed, jobIds,
                   results, hand, attempt, port, rows>>

\* The "error" listener throws: uncaught, it ends the process.  (The stream the
\* worker cancelled may reject queue() just before: it never returns either.)
OnError(j) ==
    /\ Up /\ pc[j] = "failed"
    /\ main' = IF main = "run" THEN "dead" ELSE "diedLate"
    /\ UNCHANGED <<pulled, turn, issued, input, inputClosed, jobIds, results,
                   threads>>
-----------------------------------------------------------------------------
(* The worker threads *)

mainThread == <<main, pulled, turn, issued, inputClosed, jobIds, results>>

\* The init hook comes before the try block.
RunInit(j) ==
    /\ Up /\ pc[j] = "init"
    /\ \E next \in {"wait", "failed"} : pc' = [pc EXCEPT ![j] = next]
    /\ UNCHANGED <<mainThread, input, hand, attempt, port, rows>>

\* for await (const { jobId, batch } of readable)
Take(j) ==
    /\ Up /\ pc[j] = "wait" /\ input[j] # <<>>
    /\ hand' = [hand EXCEPT ![j] = <<Head(input[j])>>]
    /\ input' = [input EXCEPT ![j] = Tail(@)]
    /\ attempt' = [attempt EXCEPT ![j] = 0]
    /\ pc' = [pc EXCEPT ![j] = "exec"]
    /\ UNCHANGED <<mainThread, port, rows>>

\* createMany for the batch in the insert worker's hands.
Written(j) == [m \in Msgs |->
    IF j = Inserter /\ m \in Head(hand[j]).batch THEN rows[m] + 1 ELSE rows[m]]

Succeed(j) ==
    /\ Up /\ pc[j] = "exec"
    /\ rows' = Written(j)
    /\ port' = [port EXCEPT ![j] = Append(@, Head(hand[j]))]
    /\ hand' = [hand EXCEPT ![j] = <<>>]
    /\ pc' = [pc EXCEPT ![j] = "wait"]
    /\ UNCHANGED <<mainThread, input, attempt>>

\* Mutant: one attempt more.
GivesUpLate(att) == att > MaxRetries

\* Mutant: no end of attempts.
GivesUpNever(att) == FALSE

\* Whether a failed attempt, the attempt-th of its batch, is the last one.
GivesUp(att) == att >= MaxRetries

\* Mutant: the worker goes on with the next batch after the last attempt.
FailAndSkip(j) ==
    /\ Up /\ pc[j] = "exec"
    /\ attempt' = [attempt EXCEPT ![j] = @ + 1]
    /\ rows' = rows
    /\ IF GivesUp(attempt[j] + 1)
       THEN /\ pc' = [pc EXCEPT ![j] = "wait"]
            /\ hand' = [hand EXCEPT ![j] = <<>>]
       ELSE UNCHANGED <<pc, hand>>
    /\ UNCHANGED <<mainThread, input, port>>

\* execute() throws, before or after the database has taken the batch.
Fail(j) ==
    /\ Up /\ pc[j] = "exec"
    /\ attempt' = [attempt EXCEPT ![j] = @ + 1]
    /\ rows' \in {rows, Written(j)}
    /\ pc' = [pc EXCEPT ![j] = IF GivesUp(attempt[j] + 1) THEN "giveUp" ELSE @]
    /\ UNCHANGED <<mainThread, input, hand, port>>

EndOfInput(j) ==
    /\ Up /\ pc[j] = "wait" /\ input[j] = <<>> /\ inputClosed[j]
    /\ pc' = [pc EXCEPT ![j] = "teardown"]
    /\ UNCHANGED <<mainThread, input, hand, attempt, port, rows>>

\* safeTeardown(), and the error of the batch or of the hook goes on.
Teardown(j) ==
    /\ Up
    /\ \/ /\ pc[j] = "teardown"
          /\ \E next \in {"gone", "failed"} : pc' = [pc EXCEPT ![j] = next]
       \/ /\ pc[j] = "giveUp"
          /\ pc' = [pc EXCEPT ![j] = "failed"]
    /\ UNCHANGED <<mainThread, input, hand, attempt, port, rows>>
-----------------------------------------------------------------------------
MainStep ==
    \/ Assign \/ Forward \/ CloseInsertInput \/ Return
    \/ \E w \in Workers : CloseInput(w) \/ CloseOutput(w) \/ Gather(w)

WorkerStep(j) ==
    \/ RunInit(j) \/ Take(j) \/ Succeed(j) \/ Fail(j)
    \/ EndOfInput(j) \/ Teardown(j)

Finished == main \in {"terminated", "dead", "diedLate"} /\ UNCHANGED vars

Next ==
    \/ Queue \/ MainStep \/ Cleanup
    \/ \E j \in Jobs : WorkerStep(j) \/ OnFinished(j) \/ OnError(j)
    \/ Finished

Spec == Init /\ [][Next]_vars

\* The event loops serve whoever waits; execute() and the hooks come back.
Fairness ==
    /\ WF_vars(MainStep)
    /\ \A j \in Jobs : /\ WF_vars(WorkerStep(j))
                       /\ WF_vars(OnFinished(j))
                       /\ WF_vars(OnError(j))

FairSpec == Spec /\ Fairness
-----------------------------------------------------------------------------
(* Properties *)

Stored == {m \in Msgs : rows[m] > 0}

\* The batches between a job's transform and its listener, oldest first.
Line(j) == port[j] \o hand[j] \o input[j]

\* The main thread's bookkeeping agrees with the worker thread's at every
\* instant: a batch is in jobIds exactly while it is queued for the worker, in
\* its hands or on its way back, so pendingTask resolves neither too early nor
\* never.
Tracked ==
    \A j \in Jobs : jobIds[j] = {item.jobId : item \in Range(Line(j))}

\* No result ever arrives for a job whose output is closed (its enqueue would
\* throw in the listener), although jobs are closed one by one while the others
\* still work.
NoLateResult ==
    \A w \in Workers : outClosed[w] => Line(w) = <<>>

\* queue() returns only after every message of the input went through both
\* stages, whatever the order in which workers, pipes and closings advance.
ReturnsComplete == main = "returned" => Stored = Msgs

\* Retried inserts are the only source of duplicates: a message is written at
\* most once an attempt.
WrittenAtMost == \A m \in Msgs : rows[m] <= 1 \/ rows[m] <= MaxRetries

\* queue() returns or an uncaught error ends the process: the chain of closings
\* never waits for itself, and a worker that gives up is noticed.
RunEnds == main = "run" ~> main # "run"

\* The in-memory queue keeps the same promise as the Redis queue, and nothing
\* it has accepted is lost while the process lives.
Level == INSTANCE LevelTransfer WITH
    entered <- IF main = "terminated" THEN N ELSE pulled.processed,
    stored <- Stored,
    lost <- {},
    returned <- main \in {"returned", "terminated", "diedLate"}

KeepsPromise == Level!LevelSpec
=============================================================================
