# mada-adm: a verification project in TLA+

`mada-adm` integrates the administrative divisions of Madagascar (provinces,
regions, districts, communes, fokontany) into a database of the user's choice,
serves them over a REST API and shows them on a map. This directory holds TLA+
modules of the parts of it where order, failure and concurrency matter, the TLC
configurations that check them and the TLAPS proofs of their main invariants.
Paths below are relative to the repository's root.

## 1. The system

| part | where | state it keeps | operations | talks to |
|---|---|---|---|---|
| Redis queue mediator | `lib/workers-mediators/redis/` | Redis: two streams, two dead-letter streams, their groups, two producer keys, two contexts; main thread: executions, a count of finished workers, the round; workers: handlers, a connection | `queue`, `stop`, `clearQueue`, `clearPersisted`, worker `run` | workers by `MessagePort`, Redis |
| In-memory mediator | `lib/workers-mediators/in-memory/` | jobs with their outstanding ids and pending task, transferred streams, one insert job | `queue`, worker `run` | workers by transferred streams and `postMessage` |
| Redis connection | `redis/` | one client | connect, commands, close | Redis |
| Seeding command | `commands/index.command.ts`, `commands/workers/` | the level being seeded, the job context (persisted by the mediator), tables and rows | prompts, drop, create, seed a level, resume | mediator, DDL and DML adapters |
| Set-config and clear commands | `commands/{set-config,clear}.command.ts` | the configuration table, the ADM tables | rebuild, drop, write | adapters |
| Update-field command | `commands/update-field.command.ts` | rows of all levels, a transaction | rename, replace a geometry | adapters |
| Query command | `commands/query.command.ts` | the page it has got to | search, look up, next page | queries |
| Database adapters and connections | `adapters/`, `db/` | connection or pool, tables, DDL singletons | DDL, DML, transactions | database servers |
| Queries and REST API | `queries/`, `rest-api/` | a configuration, query objects and a pool, kept as long as the process | list, search, paginate, locate | database |
| Map viewer: map store | `map-viewer/stores/app-map.store.ts` and the islands | entries of divisions with their references, boxes and layers of levels | toggle, load, render, remove | REST API |
| Map viewer: downloads | `map-viewer/stores/adm-geojson.store.ts`, `client-cache/` | downloads, cached metadata, IndexedDB | download, store, resolve | the site's files, browser |
| Map viewer: pins and location | `map-viewer/stores/pinned-locations.store.ts` and the islands | pins, a current location, an interval | pin, move, locate, track | REST API, browser |
| Dataset scripts | `scripts/` | output files, the mediator's state | extract inputs, generate catalogs | mediator, files |

The **seeding command** is the core. For each of five levels, from provinces
down, it opens the level's input and calls `mediator.queue(context, input,
workers)`. Processing workers look up each message's parent in the table above
and hand records to one insert worker, which writes them. With the Redis
mediator both hand-overs are Redis streams and the whole transfer survives the
death of the process: the job's context, the last enqueued message and the
streams persist, and the next run of the command offers to resume. With the
in-memory mediator everything dies with the process. A **configuration** says
which columns the tables have; every command, every adapter and every query
follows it, and set-config may change it. The **REST API** and the **map viewer**
read what was seeded.

What is hard in it:

- *Interleaving.* The crew, the insert worker, the producer, the healthcheck and
  the monitoring loop all work on the same streams, keys and port messages,
  with a network round trip between a read and the decision it leads to. Requests
  of the API share objects that the first of them makes.
- *Crashes and resumed runs.* Every awaited command may be the last one. What a
  half-done step has left in Redis and in the database is what the next run
  starts from, possibly with another crew or another configuration.
- *Partial failure.* Batches that fail their attempts, connections that are
  lost under a worker, table changes and renames that a transaction does not
  cover.
- *Agreement of what is written in many places.* Four databases, five levels and
  32 configurations decide, in more than a hundred classes, which columns a
  statement names.
- *Ending.* When is there nothing left to do? The workers answer from a lag, a
  pending count and a producer key read at different moments; the in-memory
  queue from a chain of streams that close each other.
- *Late answers* in the map viewer: loads, downloads, toggles, positions and
  timers overlap, and what they are about may be gone.

What makes each part correct:

- both mediators: everything that entered is written before `queue()` returns;
  nothing is forgotten between two stages; nothing is done twice but for a
  retry or a crash; a call ends; a resumed run goes on where the last one was;
- the seeding command: a level is filled only under complete parents, starts
  empty, has no duplicates at its end; a job fills tables of its own
  configuration;
- the adapters and queries: every statement names columns its table has;
- update-field: the copies of a name agree, and no command waits for ever;
- pages: a walk through them gives each row once, whatever is written meanwhile;
- the REST API: it follows one configuration and answers;
- the map viewer: what is drawn is what it says it is, an entry counts what
  refers to it, a spinner ends, what is called cached is stored, a pin has its own
  fokontany, one interval tracks.

## 2. Modules

| module | what it is | extends |
|---|---|---|
| `RedisStreams` | streams with one consumer group: `XADD`, `XREADGROUP`, `XACK`, `XAUTOCLAIM`, lag and pending | |
| `RedisQueue` | the Redis mediator, its workers, Redis and the database, across runs and crashes | `RedisStreams` |
| `InMemoryQueue` | the in-memory mediator, its workers and the database | |
| `LevelTransfer` | what a mediator promises its caller | |
| `SeedJob` | runs of the seeding command and of the two commands that change the same tables | |
| `AdmTables` | levels, columns, which of them a configuration has, the records a job hands on | |
| `SqliteAdapter`, `PostgresAdapter`, `MySQLAdapter`, `MongoAdapter` | the tables each adapter creates and the columns its statements name | `AdmTables` |
| `Queries` | the columns the query classes of each database name, and what they refuse | `AdmTables` |
| `SchemaLife` | the layout of the tables through the life of a database: the three commands that change it | `AdmTables`; instances of the five above |
| `UpdateField` | several update-field commands at once on one database | `AdmTables` |
| `Paging` | cursors, the statements of pages and the paginator | `AdmTables` |
| `RestApi` | the REST API and query commands, reading while others write | `Paging`, `Queries` |
| `MapDivisions` | the map's entries of single divisions and the components that refer to them | `AdmTables` |
| `MapLayers` | layers of whole levels: boxes, downloads, the browser's copy | |
| `PinnedLocations` | pins and the requests for their fokontany | |
| `CurrentLocation` | the current location and its tracking | |
| `MapViewer` | the composition of the four above | all four |
| `MCRedisQueue`, `MCSeedJob`, `MCSchemaLife`, `MCUpdateField`, `MCRestApi`, `MCMapViewer` | constants for TLC | the modules above |
| `RedisQueueProofs`, `RedisPromiseProofs`, `InMemoryQueueProofs`, `SeedJobProofs`, `SchemaLifeProofs`, `UpdateFieldProofs`, `RestApiProofs`, `MapViewerProofs` | theorems | the modules above |

`RedisQueue` and `InMemoryQueue` each implement `LevelTransfer` (`KeepsPromise`,
an `INSTANCE ... WITH` that maps their state). `SeedJob` takes the transfer of a
level at the grain of that promise and adds what lies around it. `SchemaLife` takes
the filling of all levels as one phase (`insert`) and asks of it whether its
statements fit the tables. `UpdateField` and `RestApi` begin where a job ended.

### RedisQueue and the code

The state has three parts, with three lifetimes. `streams`, `lastMessage`,
`lastInsert` and `rows` are Redis and the database and survive everything.
`main`, `crew`, `next`, `feed`, `status`, `doneCount`, `port` and `orphans` are
the main thread's and begin anew with each run. `pc`, `phase`, `batch` and
`conn` are the worker threads'. A *handler* `<<w, slot>>` is one run of the
worker's `message` listener; the healthcheck can start a second one while the
first still runs, and both use the connection of their worker (`conn[w]`).

A step of a handler is one awaited Redis command or hook, so that everything
else can happen between any two. `ReceiveInit`, `Connect` and `LoadContext` are
the head of `run()`; `AutoClaim`, `ReadNew`, `ReadPending` and `ReadNothing` the
phases `dlq`, `pending` and `poll` of `drainPhase` and the loop; `Insert`,
`Acknowledge`, `Push` and `Fail` are `processBatch`, where `Push` is the second
of the two commands between which a batch is nowhere but in the worker's hands;
`CheckProducer`, `CheckLag` and `EndJob` are the decision to leave;
`CommandError` and `Exit` the `catch` and `finally`.
On the main thread `Queue` is the call up to the first round, `EnqueueBatch` and
`CloseEnqueuer` the producer's script and its close, `OnMessage` the listeners
of an execution, `Healthcheck` the interval, `AwaitAll`, `CheckProcess` and
`CheckInsert` the round's end and the two stream checks, `ConfirmRestart` and
`DeclineRestart` the prompt, `ClearPersisted` the end. `Crash` ends all threads
at any instant; `LoseConnection` closes a worker's connection under it.

Data abstracted: a message is its position in the input, a payload is named like
its message, a stream id is a position in the log. `dropped` is history: the
messages that were acknowledged and never handed on, by a death, by an error
between the two commands, or by a second failure.

### InMemoryQueue and the code

Per job, `input` is the transferred stream (bounded by `Hwm`), `jobIds` the
listener's set of outstanding ids, of which `_pendingTask` is the negation of
emptiness, `out` the job's output and `gathered` what the insert job has not yet
transformed. `Assign` is one turn of the round-robin assigner, `Forward` of the
insert pipe, `Gather` of the gatherer; `CloseInput`, `CloseOutput` and
`CloseInsertInput` are the chain of closings; `Return` the two `Promise.all`.
`Take`, `Succeed`, `Fail`, `EndOfInput` and `Teardown` are the worker's loop with
its retries, `OnFinished` and `OnError` the listeners, `Cleanup` the caller's
`terminate()`.

### SeedJob and the code

The database is `config` (the configuration's row), `layout` (the configuration
each table was created with) and `rows`. Redis is `context`, `lastMessage` and
`queued`. `pc` follows `handleIndexAction` through its prompts (`KeepConfig`,
`UpdateConfig`, `SaveConfig`, `Resume`, `StartFresh`, `ConfirmDrop`, `Abort`),
its table changes (`DropTables`, `CreateTables`: one step for all tables where
`TransactionalDdl`, one table a step elsewhere) and its levels (`BeginLevel`,
`Enqueue`, `Store`, `QueueReturns`, `EndLevel`, `Finish`). `SetConfig`,
`CheckNew`, `Clear` and `WipeConfig` are the other two commands. Message `m` of a
level has message `m` of the level above as its parent, and a message without a
parent leaves no row, as in the processing worker. Two variables are history:
`rebuilt` says that the persisted job's tables were built anew while it waited,
`strayed` that the job went on while a configuration with other tables was the
saved one.

### AdmTables, the adapters, Queries, SchemaLife and the code

A configuration is the set of its options that are on. Each adapter module has
one operator per table class (`ProvincesTable` to `FokontanysTable`): the columns
`create()` makes, those an insert must supply (`NOT NULL` without a default, or a
validator's `required`), its foreign keys and the columns of its indexes; and one
operator per method of the data manipulation with the columns its statement
names. They are written class by class, as the code is, so that a column that one
class of one database forgets is a difference in the model too. `Queries` does the
same for the query classes, with what their base classes refuse.
`AdmTables!Supplied` is what the processing worker has to give: the input's
attributes and the ids found in the parent's row. SpatiaLite's `geometry_columns`
is the variable `recorded`: its row outlives a table dropped under a configuration
without geometries.

`SchemaLife` goes through `handleIndexAction` prompt by prompt (`KeepConfig`,
`DropPrevious`, `UpdateConfig`, `Resume`, `StartFresh`, `ConfirmDrop`,
`CreateTables`, `Finish`), through set-config (`SetConfig`, `DropBuilt`,
`Recreate`) and clear (`Clear`, `WipeConfig`); `Stop` ends any of them anywhere.
`ddl` is the configuration with which the process's DDL singletons were made.

### UpdateField and the code

A command is `Find` (the target by its identifiers), then per level `Update`
(`updateFieldByIds`) and `Children` (`getManyByParentsIds`), then `Commit` and `Show`.
`written` are the rows an open transaction has updated and so locks, `stale` those
that changed since a MongoDB session's snapshot, `disturbed` is history: SQLite's
commands overlapped or one was stopped. `UpdateGeojson` is the other handler. A
statement takes the locks of its rows in one step.

### Paging, RestApi and the code

`GetMany`, `GetUnion` and `Pages` are the statements of a page and
`QueryCursorPaginator.query`, where an order by name alone leaves the order of
equals open (`First`, `Last` are all the choices the database has). `RestApi` takes a
request from middleware to middleware: `Load` and `Loaded` (the configuration, kept
in `configInstance`), `Inject` (one query object per key, kept in `queries`), `Start`
and `Finish` (a call of the handler takes a connection, and gives it back or not),
`Throw` (the error handler). A route is the calls it makes (`ProvincesRouter` to
`AdmEntitiesRouter`). A walk is what a client has had of a query: its next cursor,
how often each row was given, and the rows it is due. `Begin`, `Search`, `LookUp`,
`NextPage` and `Quit` are the query command; `WriteRow` and `SaveConfig` what other
commands do meanwhile.

### The map viewer and the code

*Divisions.* `entry` is the store's map of entries, `mounted` what each component
has counted itself in for, `drawn` the dependencies with which its effects last ran.
`Draw` runs the clean-ups and effects whose dependencies changed: a list of the
divisions above a selected one (`Parents`) and its item (`ItemOf`) are components of
their own, and an item that goes from one division without a geometry to another keeps
what it has (`Unchanged`: it has no key, and its effect sees no difference). Components
re-render in a microtask after the state changes and their effects run after the
paint; of all other events only the timer (`CleanUp`) is let in between, since it is
the one that asks who refers to what. `ToggleOn`, `ToggleOff`, `LoadSucceeds`,
`LoadFails`, `Show` and `LoadLists` are events. `Requested` is whose id a request
is made with, down the fallbacks of `loadAdmEntityGeoJsonFromApi`.

*Layers.* `box` is a level's checkbox, `downloads` the store's list of downloads in its
order, `job` their executions: `Fetched`, `ReadChunk`, `EndOfFile`, `Fail` and the
throttle's timer `Throttled`. A place in a file is a number, two per line, so that a
chunk can end inside a line, at its end or after its newline. `Effects` are the map's
two effects. They are `useSignalEffect`s, which `@preact/signals` runs at a later
animation frame and not when a signal changes; `dirty` says that one has changed, and
anything may happen before the frame. The second begins a pass, an execution of
`handleAdmGeoJsonDownloadsResolved`: one loop over the list of downloads as it was then,
with awaits in it. `passes` are those at an await, each with what it has left of its
list; `PassAt` takes a pass to the next download it waits for and `Unchecked` unchecks
the boxes of the failed ones it comes by. `Store` is the database's answer, `Fitted` the
end of the drawing, `GoOn` the rest of the list after either. Where the loop's promise
is rejected (`Refuse`, `DrawTimeout`, and `Store` when the layer cannot be added) the
downloads the pass had not come to are not looked at (`lost`). `ClickBox`, `ClickPill`,
`MetadataRead`, `GeojsonRead` are `enableAdmGeoJsonLayer` and its answers; `Reload`
begins a new page over the same `stored`.

*Pins.* `finds` are the requests of a pin under way, `effected` what its effect
depended on when it last ran (it runs twice at first: the marker is one of its
dependencies). `FokontanyFound` answers any of them, in any order.

*Location.* `positions` are the calls of `getCurrentPosition` under way by what awaits
them, `handle` whether the store has an interval's handle, `intervals` how many run,
`beacon` what the effects of the beacon depended on. `BeaconCleans` and `BeaconTracks`
are those effects.

The four stores share the page and nothing the modules model, so a behaviour of
`MapViewer` is one of one of them (`part`): checking them together adds only the
product of what does not interact.

## 3. What the plan has left

Built and, but for liveness, proved: everything of the first plan except the
extraction script's output writer, on top of `InMemoryQueue`'s callbacks.

## 4. Runs

Passing runs:

| run | bounds | properties | what it shows |
|---|---|---|---|
| `redis_crash` | 2 workers, any crew a run, 3 messages, batches of 2, 3 runs, 1 further round, 2 crashes | `TypeOK` `Accounted` `WrittenOnce` `EnqueuedPrefix` `EndIsDeclaredLast` `KeepsPromise` | Whatever the order and wherever the deaths, nothing is forgotten, a message is written once and once more per crash, the resume key agrees with the stream at every instant, workers declare the end last and the queue implements `LevelTransfer`: it returns with everything written |
| `redis_reinit` | 2 workers with 2 handlers each, 1 message, 1 failure (a batch or a connection) | `Accounted` `EndIsDeclaredLast` | The healthcheck starts an interrupted worker again while its first handler still runs: with two handlers on one connection and one consumer name, a lost connection or a batch in its dead-letter stream, the message is still accounted for and the end is declared last |
| `redis_live` | 2 workers, 2 messages, 2 runs, 1 crash | `RoundEnds` | Every round of the monitoring loop comes to its check |
| `memory` | 2 workers, 3 messages in batches of two (a full one and a rest), one place per buffer, 2 attempts | `TypeOK` `Tracked` `NoLateResult` `ReturnsComplete` `WrittenAtMost` `KeepsPromise` `RunEnds` | The bookkeeping of jobs is exact, no result comes after its output is closed, `queue()` returns with everything stored, and always ends |
| `seed` | 3 levels of 2 messages, 3 configurations on 2 prefixes, 4 runs of any command, 2 interruptions | `TypeOK` `ParentsFirst` `FinishedExactly` | No level is filled under an incomplete one, and a finished job is complete but for what a crash took and has no duplicates |
| `schema` | 4 databases, 9 of the 32 configurations | `TypeOK` `LayoutIsJobs` `InsertFits` `StatementsFit` | A job fills tables of its own configuration, its records fit them, and with tables of the saved configuration every statement names columns that are there |
| `update_field` | 2 commands, 7 rows of five levels, 2 names, 3 kinds of database, 2 configurations | `TypeOK` `NamesAgree` `NoStaleRename` `EveryCommandEnds` | The copies of a name agree in what anyone can read, a command on MongoDB renames only what still has the name it was found by, and none waits for ever |
| `rest` | 4 rows of three levels, 3 names, pages of 1 and 2, a pool of one connection, 1 write; one client, two at once, or a query command | `TypeOK` `OneConfig` `PagesComplete` `PagesAnswered` | Pages are complete whatever is written between them, the objects kept for ever follow one configuration, readers of pages are answered |
| `map` | 3 divisions (a province, a region, a fokontany), an item and a place, 1 request under way; 2 levels, one that may have an old copy and 2 downloads between reloads, one with a file of 2 lines and 1 download, 4 clicks, 2 passes under way when something else happens; 2 pins, one with two spots, 2 requests each; 2 sessions of tracking, 2 positions and requests of a kind under way | `TypeOK` `ReferencesCounted` `DrawnIsItsOwn` `SpinnersAnswered` `CachedIsStored` `PinIsRight` `TrackedByOne` `LoadingIsAnswered` | The stores stay right through late, failing and overlapping answers |

Violations, each a disagreement between the code and what the repository says:

| run | property | what it shows |
|---|---|---|
| `redis_loss` | `PicksUpExactly` | A death between `XACK` and the push loses the batch; the resumed run completes without it |
| `seed_ddl` | `StartsEmpty` | Where no transaction covers DDL, as on SQLite, which is the default: a run stopped between two of the tables it drops leaves the others with their rows, and the next job, which "must always start with empty ADM tables" (`commands/index.command.ts`, line 1082), starts on them |
| `schema_mongo` | `InsertFitsMongo` | Under `hasAdmLevel` MongoDB's validators require an `admLevel` no inserted document has: every insert is refused |

For each property of a passing run the module it speaks about has a definition
marked `\* Mutant:`, a plausible slip in the code (a skipped guard, an off-by-one,
a missing deletion), beside the definition it would replace; with it TLC finds the
property violated under the same bounds. `PROJECT.json` lists the pairs, and maps
every definition to the lines it models.

Why the bounds are enough to meet the interesting cases.

- *Mediators.* Two workers are the least with one that leaves while another holds
  a batch; three messages in batches of two give a full batch and a rest, and a
  batch for each worker. Two crashes let a resumed run be interrupted as well. One
  further round is the least with a round after the first. A second handler of a worker
  needs a failure first, and a message is enough for both to want it; `redis_reinit` has
  no crash, since failures, second handlers and crashes together are more states than TLC
  gets through: they are left to `NothingForgotten` and `DeclaredLast` (section 6), which
  have any number of each. One place per buffer
  makes every writer of the in-memory queue wait.
- *Commands.* Three levels are the least with a level whose parents have parents;
  three configurations on two prefixes give a change of layout with and without a
  change of tables. The nine configurations of `schema` are none and all of the
  options, all but one of them, and the two that add foreign keys alone: a column
  depends on one option, or on one together with the level.
- *Update-field.* Two regions with a district each, of names that differ and that
  agree, let a rename below one region touch the other if it is not held apart.
- *REST.* One connection is the least pool, where every wait is a wait; of the
  four rows the two communes give a page border, with names that differ or agree. The clients
  that read pages of one level are two at once; the one that asks for everything
  else, and so uses up the pool, is alone.
- *Map.* A province, a region in it and a fokontany in both give a layer with two
  children and an entity whose records may lack its parents' ids (two
  configurations). Two downloads of a level let a finished one be overtaken; two
  lines are the least with a line glued to another; two levels are the least with one
  that waits in a pass behind another's await. Two pins let the list be
  reordered under a request. With two requests under way for divisions the run
  gives the same answer, more slowly.

`MaxRuns`, `MaxRestarts`, `MaxCrashes`, `MaxFailures`, `MaxHandlers`, `MaxWrites`,
`MaxLoads`, `MaxPasses` (`Free`), `MaxFinds`, `MaxPositions`, `MaxLocates`, `Jobs` and
`LocationIds`, `Old`, `MaxReads` and `MaxClicks` only bound the exploration and appear in guards by name. The
workers are interchangeable (`SYMMETRY` in `redis_crash` and
`redis_reinit`, where nothing is asked that a symmetry could hide: no liveness).
Deadlock is checked but in `rest` and `map`: a service whose connections are
leaked really stops, and a reader of the map may have nothing left to do within
the bounds.

## 5. Fairness

`RedisQueue!Fairness` is weak fairness of the main thread's steps, of the
healthcheck, of each handler's steps and of the delivery of each handler's port
messages: the event loops run whatever is ready, and Redis answers. It asks
nothing of crashes, lost connections, failing batches, the user's answers or
further runs. `RoundEnds` also holds a worker to its loop of polls, which the
code repeats for ever. It is checked without lost connections and with a crew
that stays the same; section 7 says what happens otherwise.
`InMemoryQueue!Fairness` is weak fairness of the main thread's steps, each
worker's steps and each listener; `execute()` and the hooks come back.

`UpdateField!Fairness`: a command's steps, since databases answer; and the end of
a command that is in conflict, which MongoDB brings about itself. Any other stop is
free to happen or not. `RestApi!Fairness` is strong fairness of a request's steps:
a call that waits for a connection of PostgreSQL's pool is first in, first out
served (deno-postgres keeps the waiting in a queue), so that one which could take
a connection again and again does. Nothing is asked of clients and other commands.
The map viewer's properties are safety properties: that a request under way comes to
an end is the browser's, and not assumed.

## 6. What is proved

TLC checks the instances above; TLAPS proves the following for every value of
the constants that satisfies `ConstantsAssumption`.

**Redis** (`RedisQueueProofs`): `TypeCorrect` (`Spec => []TypeOK`) and
`NothingForgotten` (`Spec => []Accounted`), for any number of workers, handlers
per worker, messages, batch size, crews, runs, restarts, crashes and failures.
Neither is inductive: `Push` takes the messages of a batch from the log by their
positions, so that even the type of what it adds depends on the batch naming
entries of the stream the handler is on. The inductive invariant `IInv` adds

- `ReadInside`: a group has not read past its log;
- `BatchOK`: a batch names entries of the stream its handler's phase is about,
  and there is none outside the processing of a batch;
- `AckWritten`: what the insert worker acknowledges is written.

The proof that a step keeps it goes through one lemma, `StepKeeps`: if logs only
grow, `rows` and `dropped` lose nothing, new entries are live, what was live
stays accounted for, and each handler either did not move or still accounts for
its batch, then `IInv` holds after the step. `QuietStep` covers the steps that
touch no stream; the others (`AutoClaimKeeps`, `ReadNewKeeps`, `InsertKeeps`,
`AcknowledgeKeeps`, `PushKeeps`, `FailKeeps`, ...) each say where the messages go.
The module begins with the facts about the stream commands they rest on: what
`XAdd`, `Deliver`, `XAck` and `Claim` do to the type and the live entries of a
stream.

What else the Redis mediator promises is in `RedisPromiseProofs`, in four steps,
each on top of the ones before.

- `PrefixEnqueued` (`[]EnqueuedPrefix`): the resume key and the stream agree. The
  invariant (`FeedOK`) is where the enqueuer goes on: one after what the key names,
  never after it closed, and closed before any stream is checked.
- `DeclaredLast` (`[]EndIsDeclaredLast`): a worker about to declare the end is right,
  although it read the producer key and the stream at two moments. The invariant
  (`PastPolling`) keeps what a handler knows at each point behind its polling loop;
  it rests on `KeyStays`, that a declared end of the input is not taken back while a
  handler lives, and on `EnqueuedPrefix`, by which nothing is added after it. Any
  failures, lost connections and second handlers are included.
- `WrittenOncePerCrash` (`[]WrittenOnce`). Two invariants lead there. `CalmRounds`:
  without failures each worker has one live handler, its execution posts one `DONE`
  after everything else, and `doneCount` is the number of workers that stopped, so that
  a round that ends has no worker at work. `OneWay`: an entry is pending for one
  worker, what a handler executes is pending for its worker, what it is about to push
  is pending for nobody and in no other hand, the insert stream has no entry twice, and
  a message has one row more than crashes only if its handler is about to acknowledge
  it.
- `Implements` (`Spec => KeepsPromise`): every step of the queue is one of
  `LevelTransfer` or a stutter. A batch is in transit, a handler that pushes or inserts
  moves it on, a death or crash takes what was in hand, and the checks of
  `queue()` leave nothing in transit when it returns. The theorem assumes
  `MaxFailures = 0` and `~SlowBatches`, as `KeepsPromise` is checked: with a failure
  the queue does not keep the promise (section 7), and with a slow batch a message that
  is being stored may be stored already.

**In-memory** (`InMemoryQueueProofs`): `TypeCorrect`, `Bookkeeping`
(`[]Tracked`), `OutputsClosedLast` (`[]NoLateResult`) and `Complete`
(`[]ReturnsComplete`), for any number of workers, messages, retries, any batch
and buffer size. Everything between a job's transform and its listener is seen as
one sequence, `Line(j) == port[j] \o hand[j] \o input[j]`: the transform appends,
the listener takes the head, and the worker's own steps only move the borders.
The invariant says that `jobIds` are the ids of the line (`Tracked`), that they
differ and are old (`Fresh`, without which deleting one id could forget two
batches), that a worker holds a batch exactly while it executes (`HandOK`), that
closing went from the source down (`ClosedInOrder`), that an assigned message is
in some line, some output, gathered or stored (`Kept`), and that what the insert
worker reports is stored (`Reported`). When `queue()` returns, the last two and
the order of closing leave only the database.

`WrittenOncePerAttempt` (`[]WrittenAtMost`) and `Implements` (`Spec => KeepsPromise`)
rest on a second invariant, `OncePlaced`: all lines, outputs and the gathered batches,
seen as one family of pipes (`Pipe`), have no message in common (`Apart`) and only
messages that were pulled (`Arrived`); nothing is stored before the insert worker has it
in hand, where it has at most a row an attempt (`Unwritten`), and who executes
has an attempt left (`AttemptLeft`). It is what the first invariant lacks: that a
message is in some place does not say that it is in no other.

**Seeding command** (`SeedJobProofs`): `TypeCorrect` and `ParentsAlwaysFirst`
(`[]ParentsFirst`), for any number of levels, messages, configurations, tables
prefixes, runs, interruptions, with DDL in transactions or without. The invariant
follows the two copies of a job, the one in Redis and the one in the process
(`Linked`): above a persisted job whose tables stand and were not built anew, all levels
are complete, and of its own level everything up to the resume key is queued or
settled (`PersistedSound`); the same of the running one, up to the message it is at
(`JobSound`); what a command has made sure of on its way through the prompts
(`Control`); and that a table that does not exist has no rows (`RowsInTables`).
`FinishedOnce` (`[]FinishedExactly`) holds where a transaction covers DDL
(`TransactionalDdl`): without it a stopped change of tables leaves some of them with
their rows, which TLC finds to be enough for duplicates. Its invariant adds that a
prefix has all its tables or none (`AllOrNone`), that above a job, persisted or
running, no message has two rows (`PersistedOnce`, `JobOnce`), and that a job without
Redis, which begins with empty tables and is never resumed, writes nothing twice
(`MemoryOnce`).

**Schema** (`SchemaLifeProofs`): `TypeCorrect`, `LayoutKept` (`[]LayoutIsJobs`),
`InsertsFit` (`[]InsertFits`) and `EveryStatementFits` (`[]StatementsFit`), for any
databases and any configurations a user may enter.
The invariant adds the same promise for the job that waits in Redis
(`LayoutIsContexts`) and that a process which may create tables has DDL singletons
of the saved configuration (`DdlIsSaved`): it is the pair of `resetXDDL()` and
`injectXDDL()` that could break it. The last two are for all 32 configurations, of
which the run has nine. `SqlColumns` and `MongoFields` are the columns of the five
tables; each `create()`, each statement of each adapter and of each query class is
compared with them a level at a time, an adapter by itself. That the geometry columns
of SQLite are there exactly under a configuration with geometries, but for what
section 7 says, comes from the types.

**Update-field** (`UpdateFieldProofs`): `TypeCorrect`, `NamesAlwaysAgree`
(`[]NamesAgree`) and `NoStaleRenames` (`NoStaleRename`), for any tree of divisions,
names, configurations and number of commands. Copies of a name disagree in the middle
of a rename, in the transaction or, on SQLite, in the tables, so that the invariant
(`Agreement`) says how far each command is. What it has written, or the names in the
tables, is a mark on the rows (`Mark`), and one notion serves both: a row and the one
whose name it repeats are marked alike, down to the command's level and, below, under
all rows but those it is at (`Halfway`). `Marking` is what an update does to that,
`Descending` what the search for the rows below does, and that the end of the descent,
at the last level with the name or where nothing lies below, leaves all rows alike. With
transactions the commands need no locks for it; on SQLite there is one command at a
time as long as nothing was disturbed. `NoStaleRename` needs the locks and the
snapshots (`Fresh`): what a command has written nobody else has and nobody has
committed since its snapshot. The assumption on lineages is that an ancestor's is the
beginning of its descendant's.

**REST API and query command** (`RestApiProofs`): `ConfigIsOne` (`[]OneConfig`),
`TypeCorrect` and `PagesAreComplete` (`[]PagesComplete`), for any clients, users,
requests, searches, sizes of a page, pools and tables.

- `ConfigIsOne`: the invariant follows the configuration a request carries to its query
  objects (`CarriedIsKept`) and says that whoever still loads one will get the one that
  is kept by then (`LoadedIsKept`).
- `PagesAreComplete`: what a walk owes it gave once, or it gave none of it and a page to
  come has it (`Pending`, in `WalkOK`). A page is all there is, or a set of rows none of
  the others comes before, of which the last is not given and begins the next page
  (`IsPage`, from the cardinalities of `First`). A row that has its name to itself is
  then, whatever the order among equals, given by this page or let through by the next
  cursor, and never both (`LevelPage`; `UnionPage`, whose cursors of the upper levels
  have no id). Another command's write ends what the walk owes of the rows it
  touches and leaves the rest as it was (`DisturbedOK`).
- `TypeCorrect` says of PostgreSQL's pool that the connections in use and those never
  given back are together no more than there are; the pairs of a client and a call it
  holds one for are counted (`PoolOK`). A request for a page makes one call, whatever
  the route (`RouteShape`), so that its walk is turned by one answer.

They assume that rows and names are positive numbers, the rows finitely many, and that
the query command always has a size of a page (it has a default one).

**Map viewer** (`MapViewerProofs`): `TypeCorrect` and `SpinnersAreAnswered`
(`Spec => []TypeOK`, `Spec => []SpinnersAnswered`) of the page, and of each store
by itself, for any divisions, places, levels, pins, identifiers, file lengths and
numbers of requests under way:

- `CountsAreExact` (`[]ReferencesCounted`) and `DrawnIsOwn` (`[]DrawnIsItsOwn`). The
  counts are cardinalities of the sets of components that counted themselves in; what
  makes the step of a drawing add and take out each at most once is that a
  component depends on a division in one way only (`DependsFacts`) and has counted itself
  in only for what it was drawn with (`MountedIsDrawn`). `DrawnIsItsOwn` is inductive once
  it is said of every geometry (`OwnGeometry`) and every request (`RequestsMeant`).
- `PinsAreRight` (`[]PinIsRight`). The list is moved about and added to while requests
  are under way; the invariant says that ids differ (`IdsDiffer`), that a request is for
  a spot of its own pin and the last one for where the pin's effect ran (`FindsAsked`),
  and of each entry what has been found of it (`ListOK`). A deletion and a move are one
  lemma, that a list whose entries are among the old ones keeps all that
  (`Rearranged`); so are the effect, a move of the marker and an answer (`OneChanged`).
- `CacheIsWhole` (`[]CachedIsStored`); its core is `FeaturesAreLines`, that what is
  parsed of a file and what waits in the buffer at its end are its lines.
- `LoadingAnswered` (`[]LoadingIsAnswered`). A level can be waiting for a reading, for its
  download's end, for the frame in which the effects run, or for a pass that stands at
  another level's await with this one's download further down its list, and each of these
  hands it on to the next. The invariant (`LayersInv`) says that what the page was
  told of a download is what its execution is at (`ItemsTold`, without which a failure
  could go by a record that says "downloading"), which executions the throttle's timer
  waits for (`TimersRun`), that a pass stands at a download that has its features
  (`PassesStand`), that a level is asked about and downloaded once its copy is known
  (`LevelsKnown`), and that it loads because that copy is looked for or missing
  (`LoadingUncached`, by which a download that was cached before need not uncheck
  anything).
- `TrackingIsOne` (`[]TrackedByOne`). A clean-up of the beacon and a late first
  position come in either order, and the invariant needs that identifiers grow
  (`IdsGrow`), so that a new location is never taken for the one the beacon has
  drawn, and that a beacon which drew its location has started its interval
  (`StartedOnce`).

They assume that the divisions, the items and the places are finitely many, and
different things.

**Only model-checked**: the liveness properties and the fairness they need (TLAPS
has no rule for `ENABLED` here). Every invariant a passing run checks is a theorem.

Every inductive invariant was checked by TLC before it was proved. For those of
`RedisQueue` and `SeedJob` that was done under bounds larger than the runs' (two
handlers per worker with crashes and restarts, three runs with two crashes; six runs
with three crashes of the seeding command), which is how the two conditions of
`FinishedExactly` in section 7 were found.

## 7. What the properties exclude

Some properties are stated under a condition because without it the code does
not have them. TLC finds each of these behaviours when the condition is dropped
and the constant that is named is changed; they are described here and kept out
of the runs, since no document of the repository claims the contrary in so many
words.

*The Redis mediator*

- `KeepsPromise` asks for no failures. The monitoring loop counts `DONE` messages
  and not workers (`workersDoneCount`). With a lost connection and
  `MaxHandlers = 2`, a worker that the healthcheck has started again sends two,
  the round ends while another worker is between `XACK` and its push, the stream
  checks see nothing and `clearPersisted()` deletes the streams.
- `RoundEnds` is checked without lost connections: a worker that leaves with a
  batch pending leaves it to its consumer name, and the others poll as long as
  anything is pending (`XAUTOCLAIM` runs once, when a worker starts). The same
  happens to a run resumed with fewer workers (`Crews <- AnyCrew`) before the
  pending threshold.
- `WrittenOnce` asks for batches faster than `pendingMinDurationThreshold`
  (`SlowBatches = FALSE`), since a slow one may be claimed by a worker that starts.
- `KeepsPromise` and `FinishedExactly` excuse what a crash has taken between the
  two commands of the hand-over, which `redis_loss` is about.
- `clearPersisted()` leaves the last-insert key behind (line 750 of the mediator), so
  that the insert worker of the next job may find the end declared before anything
  was inserted. `Init` has both values, and the properties hold with either.

*The in-memory mediator*: `maxRetries` counts executions and not retries: with the
value 1 a failed batch is not tried again. `WrittenAtMost` counts as the code does.

*The seeding command*

- `ParentsFirst` and `FinishedExactly` speak of a job whose configuration is the
  saved one and whose tables were not built anew while it waited. The command saves
  a new configuration before it forgets the old job, and the resume prompt asks
  whether tables exist, not whether they are the ones the job was filling. An
  in-memory run or set-config may have rebuilt them, and the resumed job then goes
  on at its level above empty ones. `LayoutIsJobs` excuses the same (`rebuilt`).
- `FinishedExactly` promises no duplicates only to jobs that did not go on while a
  configuration with another prefix was saved (`strayed`): `deleteDuplicates()` is
  called with the saved configuration (lines 1354-1368 of the command) while the
  workers write with the job's, so that what an interrupted level holds twice stays.
  It takes six runs and three interruptions for TLC to see it.
- Between two levels no context is persisted (line 1320 of the command): a death
  there makes the next run begin anew. Nothing wrong comes of it, only work is lost.
- `FinishedExactly` is stated for `TransactionalDdl`. On SQLite `transaction()` commits
  before its callback's first `await` has come back (`sqlite-db.connection.ts`, line
  104), so that dropping the tables is no one step, and MySQL commits each statement of
  DDL: a crash inside it lets a later job begin on rows of an earlier one, which is what
  `seed_ddl` shows, and with six runs and three interruptions end with duplicates.

*The schema*: on SQLite the row of `geometry_columns` outlives a table dropped under
a configuration without geometries; the next `create()` with them adds no column
(`GeometryLeftOut`). `InsertFits` and `StatementsFit` leave those states out.

*Update-field*

- On SQLite each statement commits by itself. `NamesAgree` is stated there between
  commands of which none was stopped and no two overlapped (`disturbed`).
- `NoStaleRename` is about MongoDB. On PostgreSQL and MySQL the second of two commands
  that found the same rows waits for the first's locks and then overwrites its name.

*Pages*

- Pages are ordered by name alone, while cursors are a name and an id: rows of one
  name may come twice or not at all. `PagesComplete` is about rows that have their
  name to themselves in their level, and that were there throughout (`due`).
- The union of all levels compares its cursor's name with the rows of lower levels
  too, so that those with a smaller name are never given once a cursor points into
  a level above; they are not due either.
- `limit=0` gives an empty page whose next cursor is the same, for ever; the limits of
  the run are positive.

*The REST API*

- `OneConfig` excuses a configuration that changes while the first requests load it
  (`changed`).
- `PagesAnswered` is about services of which only pages of one level are asked. On
  PostgreSQL `getAll` and `getById` of provinces, `getById` of regions and districts,
  `getByPointCoordinates` of all three and the union never release the client they
  took: after as many of those calls as the pool is large every request waits for
  ever (`Queries` has `Keeping` at each of them).

*The map*

- A province's id, when records do not repeat it, is looked up by the region's name and
  what is returned is the province's name: the request is made with a name
  (`WrongId`) and fails. `DrawnIsItsOwn` leaves that request out.
- Popups and pills do not look whether a division is loading: the second answer
  renders what was toggled off since the first. An answer after its item was closed
  leaves a layer nobody refers to, until it is toggled. A freshly answered entry that
  nobody has counted itself in for yet may be removed by the timer: the toggle is lost.
  No property speaks of these; all are in the model.
- After a chunk that ends in a newline the next line is glued to the one before
  (`Glued`) and the download fails; `CachedIsStored` says that it leaves nothing
  half-stored. The throttle's timer of a failed download puts its record back. A level
  can be drawn with its box unchecked, when it was unchecked while its geometry was
  read, and a box can stay checked with nothing behind it.
- `LoadingIsAnswered` leaves out the levels in `lost`. A pass that is rejected, because
  the browser has no room for one level, because its bounds are not known after twenty
  seconds or because a layer is added twice, ends in an error nobody handles
  (`AppMap.tsx`, line 194). The levels after that one in the list of downloads are then
  neither stored nor unchecked, although nothing is wrong with them; the features that
  were refused are kept, so that each later pass comes to the same download first and is
  rejected again as long as there is no room. Their boxes, and that of the refused
  level, stay "loading" and ignore clicks until the page is reloaded. The same happens
  to a download that ends and whose record goes with the data sources' page before the
  effects' next frame.
- `PinIsRight` leaves out pins whose answers overtook each other (`overtaken`): the
  index of the pin is looked for again, its coordinates are not compared. A pin that
  failed for want of a configuration is not tried again when that arrives.
- A first position that comes after tracking was stopped brings the location back,
  and a late fokontany of an earlier session lands on the location of the next;
  `TrackedByOne` holds through both.

## 8. What is not modelled

- *In the Redis mediator.* The attempts of a batch are one step that succeeds or
  fails; a rejected `queue()` is the death of the process, as in the command; what
  a handler of an earlier round posts to its old port is not listened to; a batch
  has one payload per message, so that `execute()` returning none is left out;
  callbacks are taken to be synchronous.
- *In the in-memory mediator.* What the source reads ahead; a pool without an
  insert worker; back-off times.
- *In the seeding command.* Option parsing, progress bars, several commands at
  once, batches of more than one message (in `RedisQueue` and `InMemoryQueue` they
  are there). The run `seed` takes a database whose transactions cover DDL.
- *In the adapters and queries.* The text of statements, types, the predicates on
  geometries, the configuration table's own classes.
- *In update-field.* The prompt, printing, and that `Show` may print another row of
  the same name.
- *In the REST API.* Validation of requests, the text of replies; the calls a failed
  handler leaves behind are taken to end with it.
- *In the map viewer.* Styles, bounds, titles, locks and contents of popups; the
  beacon's own toggling of the divisions it lies in; an IndexedDB transaction is
  taken to succeed once its last request is, and its readings not to fail; the map
  is taken to be there; two passes in one state count as one; that requests under way come
  to an end is not checked; the distance below which a position is the
  same; two locations found in one millisecond.
- *The dataset scripts.* The extraction script hands its levels to the mediators, which
  are modelled, and writes its output in a callback nobody awaits; that part is the
  last of the plan. The catalog scripts read and write files in one sequential pass.
- *Helpers.* Conversions and option resolvers keep no state and have unit tests.
