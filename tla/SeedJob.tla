------------------------------- MODULE SeedJob -------------------------------
(***************************************************************************)
(* The seeding command around the queue: which tables exist and with which *)
(* layout, which job is persisted in Redis, and how runs of the command,   *)
(* their interruptions and the other commands that touch the same state    *)
(* follow each other.  A level's transfer is what RedisQueue and           *)
(* InMemoryQueue promise, with batches of one message (the default).       *)
(*                                                                         *)
(* Source: commands/index.command.ts, commands/set-config.command.ts and   *)
(* commands/clear.command.ts.  One command runs at a time.                 *)
(*                                                                         *)
(* Message m of a level has message m of the level above as its parent;    *)
(* the ADM tables of a configuration are named by its tables prefix.       *)
(***************************************************************************)
EXTENDS Naturals, FiniteSets

CONSTANTS
    Configs,           \* configurations the user may enter
    Prefixes,
    PrefixOf,          \* the tables prefix of a configuration
    None,
    L,                 \* number of administrative levels (five in the code)
    N,                 \* number of messages of a level
    TransactionalDdl,  \* does a transaction cover all of its DDL?
    Commands,          \* what else is used: in-memory, set-config, clear
    MaxRuns,           \* bound: commands run
    MaxCrashes         \* bound: interruptions of a command

ASSUME ConstantsAssumption ==
    /\ PrefixOf \in [Configs -> Prefixes]
    /\ None \notin Configs /\ None \notin [config: Configs, level: 1 .. L]
    /\ L \in Nat \ {0}
    /\ N \in Nat
    /\ TransactionalDdl \in BOOLEAN
    /\ Commands \subseteq {"in-memory", "set-config", "clear"}
    /\ MaxRuns \in Nat
    /\ MaxCrashes \in Nat

Levels == 1 .. L
Msgs == 1 .. N

VARIABLES
    (* the database *)
    config,      \* the configuration table's row
    layout,      \* the configuration each ADM table was created with
    rows,        \* how many rows of a table stand for each message
    lost,        \* <<prefix, level, message>> that a crash took along
    (* Redis *)
    context,     \* the persisted job
    lastMessage, \* the last persisted message, 0 for none
    queued,      \* messages in the streams
    (* the process *)
    pc,
    disableRedis,
    shouldReset, \* shouldResetAdmConfig
    target,      \* the configuration whose tables are being dropped
    job,         \* jobContext
    next,        \* the next message of the input
    inFlight,    \* messages of the in-memory queue
    (* bounds and history *)
    runs, crashes,
    rebuilt,     \* the persisted job's tables were created anew meanwhile
    strayed      \* the persisted job went on under another tables prefix

database == <<config, layout, rows, lost>>
redis == <<context, lastMessage, queued>>
choices == <<disableRedis, shouldReset, target>>
transfer == <<job, next, inFlight>>
bounds == <<runs, crashes>>
history == <<rebuilt, strayed>>
vars == <<config, layout, rows, lost, context, lastMessage, queued, pc,
          disableRedis, shouldReset, target, job, next, inFlight,
          runs, crashes, rebuilt, strayed>>

Jobs == [config: Configs, level: Levels]

TypeOK ==
    /\ config \in Configs \cup {None}
    /\ layout \in [Prefixes -> [Levels -> Configs \cup {None}]]
    /\ rows \in [Prefixes -> [Levels -> [Msgs -> Nat]]]
    /\ lost \subseteq Prefixes \X Levels \X Msgs
    /\ context \in Jobs \cup {None}
    /\ lastMessage \in 0 .. N
    /\ queued \subseteq Msgs
    /\ pc \in {"down", "prompt", "dropPrevious", "saveConfig", "context",
               "clear", "confirm", "drop", "create", "level", "queue",
               "dedupe", "final", "finished",
               "rebuild", "checkNew", "createNew", "wipe", "wipeConfig"}
    /\ disableRedis \in BOOLEAN /\ shouldReset \in BOOLEAN
    /\ target \in Configs \cup {None}
    /\ job \in Jobs \cup {None}
    /\ next \in 1 .. N + 1
    /\ inFlight \subseteq Msgs
    /\ runs \in 0 .. MaxRuns /\ crashes \in 0 .. MaxCrashes
    /\ rebuilt \in BOOLEAN /\ strayed \in BOOLEAN
-----------------------------------------------------------------------------
(* The ADM tables *)

Existing(c) == {l \in Levels : layout[PrefixOf[c]][l] # None}

\* admTablesExist: of the seeding and set-config commands, of the clear command.
AllExist(c) == Existing(c) = Levels
SomeExist(c) == Existing(c) # {}

\* What one step of dropping or creating covers: tables are dropped from
\* FOKONTANY up and created from PROVINCE down.
NextToDrop(c) ==
    IF TransactionalDdl THEN Existing(c)
    ELSE {l \in Existing(c) : \A k \in Existing(c) : k <= l}
NextToCreate(c) ==
    IF TransactionalDdl THEN Levels \ Existing(c)
    ELSE {l \in Levels \ Existing(c) : \A k \in Levels \ Existing(c) : l <= k}

Emptied(c, ls) ==
    /\ rows' = [rows EXCEPT ![PrefixOf[c]] =
            [l \in Levels |-> IF l \in ls THEN [m \in Msgs |-> 0] ELSE @[l]]]
    /\ lost' = {x \in lost : x[1] # PrefixOf[c] \/ x[2] \notin ls}

WithLayout(c, ls, value) ==
    layout' = [layout EXCEPT ![PrefixOf[c]] =
                    [l \in Levels |-> IF l \in ls THEN value ELSE @[l]]]

AfterDrop ==
    [dropPrevious |-> "saveConfig", drop |-> "create",
     rebuild |-> "checkNew", wipe |-> "wipeConfig"]

DropTables ==
    /\ pc \in DOMAIN AfterDrop
    /\ Emptied(target, NextToDrop(target))
    /\ WithLayout(target, NextToDrop(target), None)
    /\ pc' = IF NextToDrop(target) = Existing(target) THEN AfterDrop[pc] ELSE pc
    /\ UNCHANGED <<config, redis, choices, transfer, bounds, history>>

\* CREATE TABLE IF NOT EXISTS; the job context is made after the last table.
CreateTables ==
    /\ pc \in {"create", "createNew"}
    /\ WithLayout(config, NextToCreate(config), config)
    /\ IF NextToCreate(config) # Levels \ Existing(config)
       THEN UNCHANGED <<pc, job>>
       ELSE IF pc = "create"
       THEN pc' = "level" /\ job' = [config |-> config, level |-> 1]
       ELSE pc' = "down" /\ job' = job
    /\ rebuilt' = (rebuilt \/ context # None)
    /\ UNCHANGED <<config, rows, lost, redis, choices, next, inFlight, bounds,
                   strayed>>
-----------------------------------------------------------------------------
Init ==
    /\ config = None
    /\ layout = [p \in Prefixes |-> [l \in Levels |-> None]]
    /\ rows = [p \in Prefixes |-> [l \in Levels |-> [m \in Msgs |-> 0]]]
    /\ lost = {}
    /\ context = None /\ lastMessage = 0 /\ queued = {}
    /\ pc = "down"
    /\ disableRedis = FALSE /\ shouldReset = FALSE /\ target = None
    /\ job = None /\ next = 1 /\ inFlight = {}
    /\ runs = 0 /\ crashes = 0 /\ rebuilt = FALSE /\ strayed = FALSE

\* The mediator's clearPersisted(); of the in-memory one, nothing persists.
ClearPersisted ==
    IF disableRedis THEN UNCHANGED redis
    ELSE context' = None /\ lastMessage' = 0 /\ queued' = {}
-----------------------------------------------------------------------------
(* The seeding command: preparation *)

Start ==
    /\ pc = "down" /\ runs < MaxRuns
    /\ runs' = runs + 1
    /\ disableRedis' \in IF "in-memory" \in Commands THEN BOOLEAN ELSE {FALSE}
    /\ pc' = "prompt"
    /\ UNCHANGED <<database, redis, shouldReset, target, transfer, crashes,
                   history>>

\* "Update the current Mada ADM configuration": no.
KeepConfig ==
    /\ pc = "prompt" /\ config # None
    /\ shouldReset' = FALSE
    /\ pc' = "context"
    /\ UNCHANGED <<database, redis, disableRedis, target, transfer, bounds,
                   history>>

\* Yes, or there is none; the previous configuration's tables may be dropped.
UpdateConfig ==
    /\ pc = "prompt"
    /\ shouldReset' = TRUE
    /\ target' = config
    /\ \/ pc' = "saveConfig"
       \/ config # None /\ AllExist(config) /\ pc' = "dropPrevious"
    /\ UNCHANGED <<database, redis, disableRedis, transfer, bounds, history>>

SaveConfig ==
    /\ pc = "saveConfig"
    /\ config' \in Configs
    /\ pc' = "context"
    /\ UNCHANGED <<layout, rows, lost, redis, choices, transfer, bounds, history>>

\* Mutant: the tables are not looked at.
ResumableWithoutTables == ~shouldReset /\ ~disableRedis /\ context # None

\* Whether the user is asked about the previous job.
Resumable ==
    ~shouldReset /\ ~disableRedis /\ AllExist(config) /\ context # None

Resume ==
    /\ pc = "context" /\ Resumable
    /\ job' = context
    /\ strayed' = (strayed \/ PrefixOf[context.config] # PrefixOf[config])
    /\ pc' = "level"
    /\ UNCHANGED <<database, redis, choices, next, inFlight, bounds, rebuilt>>

\* The context is cleared before the user is asked about the tables.
StartFresh ==
    /\ pc = "context"
    /\ ClearPersisted
    /\ rebuilt' = (rebuilt /\ disableRedis)
    /\ strayed' = (strayed /\ disableRedis)
    /\ pc' = IF AllExist(config) THEN "confirm" ELSE "create"
    /\ UNCHANGED <<database, choices, transfer, bounds>>

\* "Continue and drop all the current Mada ADM tables?": yes...
ConfirmDrop ==
    /\ pc = "confirm"
    /\ target' = config
    /\ pc' = "drop"
    /\ UNCHANGED <<database, redis, disableRedis, shouldReset, transfer, bounds,
                   history>>

\* ... or no.
Abort ==
    /\ pc = "confirm"
    /\ pc' = "down"
    /\ UNCHANGED <<database, redis, choices, transfer, bounds, history>>
-----------------------------------------------------------------------------
(* The seeding command: one level *)

\* Mutant: off by one.
ResumeAfterNext == IF disableRedis THEN 1 ELSE lastMessage + 2

\* Where the input goes on.
ResumePoint == IF disableRedis THEN 1 ELSE lastMessage + 1

\* The input is opened and queue() persists the job.
BeginLevel ==
    /\ pc = "level"
    /\ next' = ResumePoint
    /\ inFlight' = {}
    /\ context' = IF disableRedis THEN context ELSE job
    /\ pc' = "queue"
    /\ UNCHANGED <<database, lastMessage, queued, choices, job, bounds, history>>

Enqueue ==
    /\ pc = "queue" /\ next <= N
    /\ next' = next + 1
    /\ IF disableRedis
       THEN inFlight' = inFlight \cup {next} /\ UNCHANGED redis
       ELSE /\ queued' = queued \cup {next}
            /\ lastMessage' = next
            /\ UNCHANGED <<context, inFlight>>
    /\ UNCHANGED <<database, pc, choices, job, bounds, history>>

Transit == IF disableRedis THEN inFlight ELSE queued

\* Whether the processing worker finds the parent and the insert worker the
\* table.  Otherwise there is no row: COMMUNE and FOKONTANY leave the message
\* out, the other levels' batches fail until they are dropped.
Insertable(m) ==
    LET p == PrefixOf[job.config]
    IN  /\ layout[p][job.level] # None
        /\ job.level > 1 => rows[p][job.level - 1][m] > 0

\* The rows after createMany for the messages of ms.
Inserted(ms) ==
    [rows EXCEPT ![PrefixOf[job.config]][job.level] =
        [m \in Msgs |-> IF m \in ms /\ Insertable(m) THEN @[m] + 1 ELSE @[m]]]

Store(m) ==
    /\ pc = "queue" /\ m \in Transit
    /\ rows' = Inserted({m})
    /\ inFlight' = inFlight \ {m}
    /\ IF disableRedis THEN UNCHANGED queued ELSE queued' = queued \ {m}
    /\ UNCHANGED <<config, layout, lost, context, lastMessage, pc, choices,
                   job, next, bounds, history>>

\* queue() clears what it persisted and returns.
QueueReturns ==
    /\ pc = "queue" /\ next > N /\ Transit = {}
    /\ pc' = "dedupe"
    /\ ClearPersisted
    /\ UNCHANGED <<database, choices, transfer, bounds, history>>

\* Mutant: no deletion.
DeleteNothing == rows

\* deleteDuplicates() keeps the first row.  The table is the configuration's,
\* not the job's.
Deduplicated ==
    [rows EXCEPT ![PrefixOf[config]][job.level] =
        [m \in Msgs |-> IF @[m] > 1 THEN 1 ELSE @[m]]]

EndLevel ==
    /\ pc = "dedupe"
    /\ rows' = Deduplicated
    /\ IF job.level < L
       THEN job' = [job EXCEPT !.level = @ + 1] /\ pc' = "level"
       ELSE job' = job /\ pc' = "final"
    /\ UNCHANGED <<config, layout, lost, redis, choices, next, inFlight, bounds,
                   history>>

Finish ==
    /\ pc = "final"
    /\ ClearPersisted
    /\ pc' = "finished"
    /\ UNCHANGED <<database, choices, transfer, bounds, history>>

Exit ==
    /\ pc = "finished"
    /\ pc' = "down"
    /\ UNCHANGED <<database, redis, choices, transfer, bounds, history>>
-----------------------------------------------------------------------------
(* The other commands and interruptions *)

\* set-config saves first and may then replace the previous one's tables.
SetConfig ==
    /\ pc = "down" /\ runs < MaxRuns /\ "set-config" \in Commands
    /\ runs' = runs + 1
    /\ config' \in Configs
    /\ target' = config
    /\ \/ pc' = "down"
       \/ config # None /\ AllExist(config) /\ pc' = "rebuild"
    /\ UNCHANGED <<layout, rows, lost, redis, disableRedis, shouldReset,
                   transfer, crashes, history>>

CheckNew ==
    /\ pc = "checkNew"
    /\ pc' = IF SomeExist(config) THEN "down" ELSE "createNew"
    /\ UNCHANGED <<database, redis, choices, transfer, bounds, history>>

Clear ==
    /\ pc = "down" /\ runs < MaxRuns /\ "clear" \in Commands /\ config # None
    /\ runs' = runs + 1
    /\ target' = config
    /\ pc' = IF SomeExist(config) THEN "wipe" ELSE "wipeConfig"
    /\ UNCHANGED <<database, redis, disableRedis, shouldReset, transfer,
                   crashes, history>>

WipeConfig ==
    /\ pc = "wipeConfig"
    /\ config' \in {None, config}
    /\ pc' = "down"
    /\ UNCHANGED <<layout, rows, lost, redis, choices, transfer, bounds, history>>

\* The command dies, or ends with an error or a declined restart.  A message in
\* transit may have its row already, or be in no stream (see RedisQueue).
Crash ==
    /\ pc # "down" /\ crashes < MaxCrashes
    /\ crashes' = crashes + 1
    /\ pc' = "down"
    /\ inFlight' = {}
    /\ IF pc # "queue" THEN UNCHANGED <<rows, lost, queued>>
       ELSE \E written \in SUBSET Transit :
            /\ rows' = Inserted(written)
            /\ \E gone \in SUBSET (IF disableRedis THEN {} ELSE queued \ written) :
                 /\ queued' = queued \ gone
                 /\ lost' = lost \cup
                        {<<PrefixOf[job.config], job.level, m>> : m \in gone}
    /\ UNCHANGED <<config, layout, context, lastMessage, choices, job, next,
                   runs, history>>

CommandStep ==
    \/ DropTables \/ CreateTables
    \/ KeepConfig \/ UpdateConfig \/ SaveConfig
    \/ Resume \/ StartFresh \/ ConfirmDrop \/ Abort
    \/ BeginLevel \/ Enqueue \/ (\E m \in Msgs : Store(m)) \/ QueueReturns
    \/ EndLevel \/ Finish \/ Exit
    \/ CheckNew \/ WipeConfig

Finished == pc = "down" /\ runs = MaxRuns /\ UNCHANGED vars

Next == Start \/ SetConfig \/ Clear \/ CommandStep \/ Crash \/ Finished

Spec == Init /\ [][Next]_vars
-----------------------------------------------------------------------------
(* Properties *)

\* A message that a crash took along on this level or above it.
Excused(p, l, m) == \E k \in 1 .. l : <<p, k, m>> \in lost

Complete(p, l) == \A m \in Msgs : rows[p][l][m] > 0 \/ Excused(p, l, m)

\* A job of the saved configuration, resumed only while its tables stood.
Current == job.config = config /\ (rebuilt => disableRedis)

\* No level is transferred before those above it are complete, across crashes,
\* resumed jobs, dropped tables, changed configurations and other commands: the
\* processing worker would leave its messages out.  (What Current leaves out is
\* the subject of README.md, section 7.)
ParentsFirst ==
    pc = "queue" /\ Current =>
        \A l \in 1 .. job.level - 1 : Complete(PrefixOf[config], l)

\* A job that says it is finished has left out no message of any level; and
\* whatever was written twice, by however many interrupted runs, is there once.
\* (Levels that went through deleteDuplicates() while another configuration was
\* saved are the other subject of README.md, section 7.)
FinishedExactly ==
    pc = "finished" /\ job.config = config =>
        \A l \in Levels :
            /\ Current => Complete(PrefixOf[config], l)
            /\ (strayed => disableRedis) =>
                    \A m \in Msgs : rows[PrefixOf[config]][l][m] <= 1

\* "the job must always start with empty ADM tables" (index.command.ts): also
\* after a run that was stopped between two of the tables it dropped, which
\* only holds where a transaction covers DDL.
StartsEmpty ==
    [][(pc \in {"create", "confirm"} /\ pc' = "level") =>
        (\A l \in Levels, m \in Msgs : rows'[PrefixOf[config]][l][m] = 0)]_vars
=============================================================================
