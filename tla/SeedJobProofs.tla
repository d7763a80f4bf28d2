----------------------------- MODULE SeedJobProofs -----------------------------
(***************************************************************************)
(* Runs of the seeding command, for any number of levels, messages,        *)
(* configurations, prefixes, commands and interruptions: no level is       *)
(* transferred before those above it are complete; and, where dropping and *)
(* creating the tables is one transaction, a finished job has each message *)
(* once.                                                                   *)
(***************************************************************************)
EXTENDS SeedJob, TLAPS

InJob == {"level", "queue", "dedupe", "final", "finished"}

\* What a running command has made sure of by the time it is somewhere.
Control ==
    /\ pc \in DOMAIN AfterDrop => target \in Configs
    /\ pc \in {"context", "confirm", "drop", "create", "rebuild", "checkNew",
               "createNew"} \cup InJob => config \in Configs
    /\ pc = "drop" => target = config
    /\ pc \in InJob => job \in Jobs /\ AllExist(config)
    /\ pc \in {"final", "finished"} => job.level = L
    /\ pc \in InJob /\ (strayed => disableRedis) =>
            PrefixOf[job.config] = PrefixOf[config]

\* The job in Redis and the one in the process are the same, when there are two.
Linked ==
    /\ context = None => lastMessage = 0
    /\ pc = "level" /\ ~disableRedis => context \in {None, job}
    /\ pc = "queue" /\ ~disableRedis => context = job /\ next = lastMessage + 1
    /\ pc \in {"confirm", "drop", "create", "dedupe"} /\ ~disableRedis =>
            context = None

\* Message m of level l has its row, or went with a crash.
Settled(p, l, m) == rows[p][l][m] > 0 \/ Excused(p, l, m)

\* The levels above the job's are complete.
Above(j) == \A l \in 1 .. j.level - 1, m \in Msgs : Settled(PrefixOf[j.config], l, m)

\* The job's first k messages are in transit or settled.
Reached(j, k, transit) ==
    \A m \in 1 .. k : m \in transit \/ Settled(PrefixOf[j.config], j.level, m)

\* A persisted job whose tables stand, and are those it filled.
PersistedSound ==
    context # None /\ ~rebuilt /\ AllExist(context.config) =>
        Above(context) /\ Reached(context, lastMessage, queued)

\* A running job whose tables stand.
JobSound ==
    pc \in InJob /\ (rebuilt => disableRedis) /\ AllExist(job.config) =>
        /\ Above(job)
        /\ pc = "queue" => Reached(job, next - 1, Transit)
        /\ pc \in {"dedupe", "final", "finished"} => Reached(job, N, {})

\* A table that does not exist has no rows.
RowsInTables ==
    \A p \in Prefixes, l \in Levels, m \in Msgs :
        layout[p][l] = None => rows[p][l][m] = 0

\* The inductive invariant.
IInv == TypeOK /\ Control /\ Linked /\ PersistedSound /\ JobSound /\ RowsInTables

\* All tables of a prefix exist or none, and a job's are made before it begins.
AllOrNone ==
    /\ \A p \in Prefixes, k, l \in Levels : layout[p][k] = None => layout[p][l] = None
    /\ pc = "create" => \A l \in Levels : layout[PrefixOf[config]][l] = None

\* Of the levels above the job's every message has one row at most.
OnceAbove(j) ==
    \A l \in 1 .. j.level - 1, m \in Msgs : rows[PrefixOf[j.config]][l][m] <= 1

PersistedOnce == context # None /\ ~strayed => OnceAbove(context)

JobOnce ==
    pc \in InJob /\ (strayed => disableRedis) =>
        /\ OnceAbove(job)
        /\ pc \in {"final", "finished"} =>
                \A m \in Msgs : rows[PrefixOf[job.config]][job.level][m] <= 1

\* An in-memory job cannot be resumed: it writes nothing twice.
MemoryOnce ==
    pc \in InJob /\ disableRedis =>
        \A l \in Levels, m \in Msgs :
            /\ rows[PrefixOf[job.config]][l][m] <= 1
            /\ l > job.level \/ (l = job.level /\ pc = "level") =>
                    rows[PrefixOf[job.config]][l][m] = 0
            /\ l = job.level /\ pc = "queue" /\ (m >= next \/ m \in inFlight) =>
                    rows[PrefixOf[job.config]][l][m] = 0

InFlightTaken == pc = "queue" => inFlight \subseteq 1 .. next - 1

\* The inductive invariant where a transaction covers DDL.
OnceInv == AllOrNone /\ PersistedOnce /\ JobOnce /\ MemoryOnce /\ InFlightTaken
-----------------------------------------------------------------------------
(* Type correctness *)

Pcs == {"down", "prompt", "dropPrevious", "saveConfig", "context", "clear",
        "confirm", "drop", "create", "level", "queue", "dedupe", "final",
        "finished", "rebuild", "checkNew", "createNew", "wipe", "wipeConfig"}

Rows == [Prefixes -> [Levels -> [Msgs -> Nat]]]

LEMMA TypeInit == Init => TypeOK
<1> SUFFICES ASSUME Init PROVE TypeOK
  OBVIOUS
<1>1. 0 \in 0 .. N /\ 1 \in 1 .. N + 1 /\ 0 \in 0 .. MaxRuns /\ 0 \in 0 .. MaxCrashes
  BY ConstantsAssumption
<1>2. rows \in Rows
  BY DEF Init, Rows
<1>. QED
  BY <1>1, <1>2 DEF Init, TypeOK, Rows

\* A number that stays below its bound may grow by one.
LEMMA Counters ==
    ASSUME TypeOK
    PROVE  /\ runs < MaxRuns => runs + 1 \in 0 .. MaxRuns
           /\ crashes < MaxCrashes => crashes + 1 \in 0 .. MaxCrashes
           /\ 0 \in 0 .. N
           /\ lastMessage + 1 \in 1 .. N + 1 /\ 1 \in 1 .. N + 1
           /\ next <= N => next \in Msgs /\ next \in 0 .. N /\ next + 1 \in 1 .. N + 1
BY ConstantsAssumption DEF TypeOK, Msgs

\* The steps that only move the command on.
LEMMA TypeControl ==
    ASSUME TypeOK,
           \/ Start \/ KeepConfig \/ UpdateConfig \/ SaveConfig \/ ConfirmDrop
           \/ Abort \/ Exit \/ SetConfig \/ CheckNew \/ Clear \/ WipeConfig
    PROVE  TypeOK'
<1> USE DEF database, redis, choices, transfer, bounds, history
<1>1. CASE Start \/ SetConfig \/ Clear
  BY <1>1, Counters DEF TypeOK, Start, SetConfig, Clear
<1>2. CASE KeepConfig \/ UpdateConfig \/ SaveConfig \/ ConfirmDrop
  BY <1>2 DEF TypeOK, KeepConfig, UpdateConfig, SaveConfig, ConfirmDrop
<1>3. CASE Abort \/ Exit \/ CheckNew \/ WipeConfig
  BY <1>3 DEF TypeOK, Abort, Exit, CheckNew, WipeConfig
<1>. QED
  BY <1>1, <1>2, <1>3

LEMMA TypeDropTables ==
    ASSUME TypeOK, DropTables PROVE TypeOK'
<1>1. rows' \in Rows /\ lost' \subseteq lost
  BY DEF DropTables, Emptied, TypeOK, Rows
<1>2. layout' \in [Prefixes -> [Levels -> Configs \cup {None}]]
  BY DEF DropTables, WithLayout, TypeOK
<1>3. pc' \in Pcs
  BY DEF DropTables, AfterDrop, TypeOK, Pcs
<1>. QED
  BY <1>1, <1>2, <1>3
     DEF DropTables, TypeOK, Rows, Pcs, redis, choices, transfer, bounds, history

LEMMA TypeCreateTables ==
    ASSUME TypeOK, config \in Configs, CreateTables PROVE TypeOK'
<1>1. layout' \in [Prefixes -> [Levels -> Configs \cup {None}]]
  BY DEF CreateTables, WithLayout, TypeOK
<1>2. job' \in Jobs \cup {None} /\ pc' \in Pcs
  BY ConstantsAssumption DEF CreateTables, TypeOK, Jobs, Levels, Pcs
<1>. QED
  BY <1>1, <1>2 DEF CreateTables, TypeOK, Pcs, redis, choices, bounds

LEMMA TypeJobSteps ==
    ASSUME TypeOK,
           Resume \/ StartFresh \/ BeginLevel \/ Enqueue \/ QueueReturns \/ Finish
    PROVE  TypeOK'
<1> USE Counters DEF database, redis, choices, transfer, bounds, history
<1>1. CASE Resume \/ BeginLevel
  BY <1>1 DEF TypeOK, Resume, BeginLevel, ResumePoint
<1>2. CASE StartFresh \/ QueueReturns \/ Finish
  BY <1>2 DEF TypeOK, StartFresh, QueueReturns, Finish, ClearPersisted
<1>3. CASE Enqueue
  BY <1>3 DEF TypeOK, Enqueue
<1>. QED
  BY <1>1, <1>2, <1>3

\* Inserting counts rows up.
LEMMA InsertedFacts ==
    ASSUME TypeOK, job \in Jobs, NEW ms
    PROVE  /\ Inserted(ms) \in Rows
           /\ \A p \in Prefixes, l \in Levels, m \in Msgs :
                Inserted(ms)[p][l][m] =
                    IF /\ p = PrefixOf[job.config] /\ l = job.level
                       /\ m \in ms /\ Insertable(m)
                    THEN rows[p][l][m] + 1 ELSE rows[p][l][m]
<1>1. PrefixOf[job.config] \in Prefixes /\ job.level \in Levels
  BY ConstantsAssumption DEF Jobs
<1>2. rows \in Rows
  BY DEF TypeOK, Rows
<1> DEFINE table == [m \in Msgs |->
        IF m \in ms /\ Insertable(m) THEN rows[PrefixOf[job.config]][job.level][m] + 1
        ELSE rows[PrefixOf[job.config]][job.level][m]]
<1>3. Inserted(ms) = [rows EXCEPT ![PrefixOf[job.config]][job.level] = table]
  BY DEF Inserted
<1>4. table \in [Msgs -> Nat]
  BY <1>1, <1>2 DEF Rows
<1>5. \A m \in Msgs : table[m] = IF m \in ms /\ Insertable(m)
        THEN rows[PrefixOf[job.config]][job.level][m] + 1
        ELSE rows[PrefixOf[job.config]][job.level][m]
  OBVIOUS
<1> HIDE DEF table
<1>. QED
  BY <1>1, <1>2, <1>3, <1>4, <1>5 DEF Rows

\* Deduplicating leaves one row of several, and none of none.
LEMMA DeduplicatedFacts ==
    ASSUME TypeOK, job \in Jobs, config \in Configs
    PROVE  /\ Deduplicated \in Rows
           /\ \A p \in Prefixes, l \in Levels, m \in Msgs :
                Deduplicated[p][l][m] =
                    IF p = PrefixOf[config] /\ l = job.level /\ rows[p][l][m] > 1
                    THEN 1 ELSE rows[p][l][m]
<1>1. PrefixOf[config] \in Prefixes /\ job.level \in Levels
  BY ConstantsAssumption DEF Jobs
<1>2. rows \in Rows
  BY DEF TypeOK, Rows
<1> DEFINE table == [m \in Msgs |->
        IF rows[PrefixOf[config]][job.level][m] > 1 THEN 1
        ELSE rows[PrefixOf[config]][job.level][m]]
<1>3. Deduplicated = [rows EXCEPT ![PrefixOf[config]][job.level] = table]
  BY DEF Deduplicated
<1>4. table \in [Msgs -> Nat]
  BY <1>1, <1>2 DEF Rows
<1>5. \A m \in Msgs : table[m] =
        IF rows[PrefixOf[config]][job.level][m] > 1 THEN 1
        ELSE rows[PrefixOf[config]][job.level][m]
  OBVIOUS
<1> HIDE DEF table
<1>. QED
  BY <1>1, <1>2, <1>3, <1>4, <1>5 DEF Rows

LEMMA TypeStore ==
    ASSUME TypeOK, job \in Jobs, NEW m \in Msgs, Store(m) PROVE TypeOK'
<1>1. rows' \in Rows
  BY InsertedFacts DEF Store
<1>. QED
  BY <1>1 DEF Store, TypeOK, Rows, choices, bounds, history

LEMMA TypeEndLevel ==
    ASSUME TypeOK, job \in Jobs, config \in Configs, EndLevel PROVE TypeOK'
<1>1. rows' \in Rows
  BY DeduplicatedFacts DEF EndLevel
<1>2. job' \in Jobs
  BY ConstantsAssumption DEF EndLevel, Jobs, Levels
<1>. QED
  BY <1>1, <1>2 DEF EndLevel, TypeOK, Rows, redis, choices, bounds, history

LEMMA TypeCrash ==
    ASSUME TypeOK, pc = "queue" => job \in Jobs, Crash PROVE TypeOK'
<1>1. /\ rows' \in Rows
      /\ lost' \subseteq Prefixes \X Levels \X Msgs
      /\ queued' \subseteq Msgs
  <2>1. CASE pc # "queue"
    BY <2>1 DEF Crash, TypeOK, Rows
  <2>2. CASE pc = "queue"
    <3>1. PICK written \in SUBSET Transit :
            /\ rows' = Inserted(written)
            /\ \E gone \in SUBSET (IF disableRedis THEN {} ELSE queued \ written) :
                 /\ queued' = queued \ gone
                 /\ lost' = lost \cup
                        {<<PrefixOf[job.config], job.level, m>> : m \in gone}
      BY <2>2 DEF Crash
    <3>2. PICK gone \in SUBSET (IF disableRedis THEN {} ELSE queued \ written) :
                 /\ queued' = queued \ gone
                 /\ lost' = lost \cup
                        {<<PrefixOf[job.config], job.level, m>> : m \in gone}
      BY <3>1
    <3>3. rows' \in Rows
      BY <2>2, <3>1, InsertedFacts
    <3>4. gone \subseteq Msgs
      BY <3>2 DEF TypeOK
    <3>5. PrefixOf[job.config] \in Prefixes /\ job.level \in Levels
      BY <2>2, ConstantsAssumption DEF Jobs
    <3>. QED
      BY <3>2, <3>3, <3>4, <3>5 DEF TypeOK
  <2>. QED
    BY <2>1, <2>2
<1>2. crashes' \in 0 .. MaxCrashes
  BY ConstantsAssumption DEF Crash, TypeOK
<1>. QED
  BY <1>1, <1>2 DEF Crash, TypeOK, Rows, choices, history

LEMMA TypeNext ==
    ASSUME TypeOK, Control, [Next]_vars PROVE TypeOK'
<1>1. CASE CreateTables
  BY <1>1, TypeCreateTables DEF Control, CreateTables
<1>2. CASE EndLevel
  BY <1>2, TypeEndLevel DEF Control, EndLevel, InJob
<1>3. CASE \E m \in Msgs : Store(m)
  BY <1>3, TypeStore DEF Control, Store, InJob
<1>4. CASE Crash
  BY <1>4, TypeCrash DEF Control, InJob
<1>5. CASE UNCHANGED vars
  BY <1>5 DEF TypeOK, vars
<1>. QED
  BY <1>1, <1>2, <1>3, <1>4, <1>5, TypeControl, TypeDropTables, TypeJobSteps
     DEF Next, CommandStep, Finished
-----------------------------------------------------------------------------
(* Tables and completeness *)

LEMMA AllExistMeans ==
    /\ \A c : AllExist(c) <=> \A l \in Levels : layout[PrefixOf[c]][l] # None
    /\ \A c : AllExist(c)' <=> \A l \in Levels : layout'[PrefixOf[c]][l] # None
BY DEF AllExist, Existing

LEMMA SameTables ==
    ASSUME layout' = layout
    PROVE  \A c : AllExist(c)' <=> AllExist(c)
BY AllExistMeans

\* As long as no table is emptied, what is settled stays so.
Grows ==
    /\ \A p \in Prefixes, l \in Levels, m \in Msgs :
            rows[p][l][m] > 0 => rows'[p][l][m] > 0
    /\ lost \subseteq lost'

LEMMA SettledKept ==
    ASSUME Grows, NEW p \in Prefixes, NEW l \in Levels, NEW m \in Msgs
    PROVE  Settled(p, l, m) => Settled(p, l, m)'
BY DEF Grows, Settled, Excused

LEMMA JobParts ==
    ASSUME NEW j \in Jobs
    PROVE  /\ PrefixOf[j.config] \in Prefixes
           /\ j.config \in Configs
           /\ j.level \in Levels
           /\ \A l \in 1 .. j.level - 1 : l \in Levels
BY ConstantsAssumption DEF Jobs, Levels

LEMMA AboveKept ==
    ASSUME Grows, NEW j \in Jobs, Above(j)
    PROVE  \A l \in 1 .. j.level - 1, m \in Msgs : Settled(PrefixOf[j.config], l, m)'
BY JobParts, SettledKept DEF Above

\* The persisted job stays sound while tables only fill, and while messages
\* leave the stream only when they are settled.
LEMMA PersistedKept ==
    ASSUME TypeOK, PersistedSound, Grows, layout' = layout, rebuilt' = rebuilt,
           context' = context, lastMessage' = lastMessage,
           context # None /\ ~rebuilt /\ AllExist(context.config) =>
                \A m \in queued \ queued' :
                    Settled(PrefixOf[context.config], context.level, m)'
    PROVE  PersistedSound'
<1> SUFFICES ASSUME context # None, ~rebuilt, AllExist(context.config)
             PROVE  /\ Above(context)'
                    /\ Reached(context, lastMessage, queued)'
  BY SameTables DEF PersistedSound
<1>1. context \in Jobs
  BY DEF TypeOK
<1>2. Above(context)'
  BY <1>1, AboveKept DEF PersistedSound, Above
<1>3. Reached(context, lastMessage, queued)'
  <2>1. ASSUME NEW m \in 1 .. lastMessage
        PROVE  m \in queued' \/ Settled(PrefixOf[context.config], context.level, m)'
    <3>1. m \in Msgs
      BY ConstantsAssumption DEF TypeOK, Msgs
    <3>. QED
      BY <1>1, <3>1, JobParts, SettledKept DEF PersistedSound, Reached
  <2>. QED
    BY <2>1 DEF Reached
<1>. QED
  BY <1>2, <1>3

LEMMA SameDatabase ==
    ASSUME TypeOK, rows' = rows, lost' = lost
    PROVE  Grows
BY DEF Grows
-----------------------------------------------------------------------------
(* The steps outside a job *)

\* Steps that leave the tables and the persisted job alone, and end or stay
\* outside a job.
LEMMA OutsideKeeps ==
    ASSUME IInv, TypeOK', UNCHANGED <<layout, rows, lost, redis, rebuilt>>,
           pc' \notin InJob
    PROVE  PersistedSound' /\ JobSound' /\ RowsInTables'
<1>1. PersistedSound'
  BY SameDatabase, PersistedKept DEF IInv, redis
<1>. QED
  BY <1>1 DEF IInv, JobSound, RowsInTables, InJob, redis

LEMMA ControlStepKeeps ==
    ASSUME IInv, TypeOK',
           \/ Start \/ KeepConfig \/ UpdateConfig \/ SaveConfig \/ ConfirmDrop
           \/ Abort \/ Exit \/ SetConfig \/ CheckNew \/ Clear \/ WipeConfig
    PROVE  IInv'
<1> USE DEF database, redis, choices, transfer, bounds, history
<1>1. /\ UNCHANGED <<layout, rows, lost, redis, rebuilt>>
      /\ pc' \notin InJob
  BY DEF Start, KeepConfig, UpdateConfig, SaveConfig, ConfirmDrop, Abort, Exit,
         SetConfig, CheckNew, Clear, WipeConfig, InJob
<1>2. Control'
  <2>1. CASE Start \/ SetConfig \/ Clear
    BY <2>1 DEF IInv, TypeOK, Control, AfterDrop, InJob, Start, SetConfig, Clear
  <2>2. CASE KeepConfig \/ UpdateConfig \/ SaveConfig \/ ConfirmDrop
    BY <2>2 DEF IInv, TypeOK, Control, AfterDrop, InJob, KeepConfig, UpdateConfig,
                SaveConfig, ConfirmDrop
  <2>3. CASE Abort \/ Exit \/ CheckNew \/ WipeConfig
    BY <2>3 DEF IInv, TypeOK, Control, AfterDrop, InJob, Abort, Exit, CheckNew, WipeConfig
  <2>. QED
    BY <2>1, <2>2, <2>3
<1>3. Linked'
  BY <1>1 DEF IInv, Linked, InJob, Start, KeepConfig, UpdateConfig, SaveConfig,
              ConfirmDrop, Abort, Exit, SetConfig, CheckNew, Clear, WipeConfig
<1>. QED
  BY <1>1, <1>2, <1>3, OutsideKeeps DEF IInv

\* A step of dropping leaves at least one table fewer than all, and the tables
\* of other prefixes alone.
LEMMA DropFacts ==
    ASSUME TypeOK, Control, DropTables
    PROVE  /\ target \in Configs /\ PrefixOf[target] \in Prefixes
           /\ \E l \in Levels : layout'[PrefixOf[target]][l] = None
           /\ \A p \in Prefixes : p # PrefixOf[target] =>
                /\ layout'[p] = layout[p] /\ rows'[p] = rows[p]
                /\ \A x \in lost : x[1] = p => x \in lost'
           /\ \A p \in Prefixes, l \in Levels, m \in Msgs :
                /\ layout[p][l] = None => layout'[p][l] = None
                /\ rows'[p][l][m] \in {0, rows[p][l][m]}
                /\ layout'[p][l] = None /\ layout[p][l] # None => rows'[p][l][m] = 0
<1> DEFINE dropped == NextToDrop(target)
           P == PrefixOf[target]
<1>1. target \in Configs /\ P \in Prefixes
  BY ConstantsAssumption DEF Control, DropTables
<1>2. /\ \A l \in Levels : layout'[P][l] = IF l \in dropped THEN None ELSE layout[P][l]
      /\ \A p \in Prefixes : p # P => layout'[p] = layout[p]
  BY <1>1 DEF DropTables, WithLayout, TypeOK
<1>3. /\ \A l \in Levels, m \in Msgs :
            rows'[P][l][m] = IF l \in dropped THEN 0 ELSE rows[P][l][m]
      /\ \A p \in Prefixes : p # P => rows'[p] = rows[p]
      /\ \A x \in lost : x[1] # P => x \in lost'
  BY <1>1 DEF DropTables, Emptied, TypeOK
<1>4. \E l \in Levels : layout'[P][l] = None
  <2>1. CASE \A l \in Levels : layout[P][l] # None
    <3>1. L \in Levels /\ \A k \in Levels : k <= L
      BY ConstantsAssumption DEF Levels
    <3>2. L \in dropped
      BY <2>1, <3>1 DEF NextToDrop, Existing
    <3>. QED
      BY <1>2, <3>1, <3>2
  <2>2. CASE ~ \A l \in Levels : layout[P][l] # None
    BY <1>2, <2>2
  <2>. QED
    BY <2>1, <2>2
<1> HIDE DEF dropped
<1>. QED
  BY <1>1, <1>2, <1>3, <1>4

LEMMA DropTablesKeeps ==
    ASSUME IInv, TypeOK', DropTables PROVE IInv'
<1> USE DEF redis, choices, transfer, bounds, history
<1>1. /\ pc' \in {"saveConfig", "create", "checkNew", "wipeConfig", pc}
      /\ pc \in {"dropPrevious", "drop", "rebuild", "wipe"}
      /\ pc' = "create" => pc = "drop"
      /\ pc' = "checkNew" => pc = "rebuild"
      /\ UNCHANGED <<config, redis, disableRedis, target, rebuilt, strayed, job>>
  BY DEF DropTables, AfterDrop
<1>2. Control' /\ JobSound'
  BY <1>1 DEF IInv, Control, AfterDrop, InJob, JobSound
<1>3. Linked'
  BY <1>1 DEF IInv, Linked
<1>4. RowsInTables'
  BY DropFacts DEF IInv, TypeOK, RowsInTables
<1>5. PersistedSound'
  <2> SUFFICES ASSUME context # None, ~rebuilt, AllExist(context.config)'
               PROVE  Above(context)' /\ Reached(context, lastMessage, queued)'
    BY <1>1 DEF PersistedSound
  <2>1. context \in Jobs /\ context' = context /\ lastMessage' = lastMessage
        /\ queued' = queued
    BY <1>1 DEF IInv, TypeOK
  <2>2. PICK p \in Prefixes : p = PrefixOf[context.config]
    BY <2>1, JobParts
  <2>3. \A l \in Levels : layout'[p][l] # None
    BY <2>1, <2>2, AllExistMeans
  <2>4. /\ layout'[p] = layout[p] /\ rows'[p] = rows[p]
        /\ \A x \in lost : x[1] = p => x \in lost'
    BY <2>3, DropFacts DEF IInv
  <2>5. \A l, m : Settled(p, l, m) => Settled(p, l, m)'
    <3>1. \A k, m : <<p, k, m>>[1] = p
      OBVIOUS
    <3>2. \A k, m : <<p, k, m>> \in lost => <<p, k, m>> \in lost'
      BY <2>4, <3>1
    <3>. QED
      BY <2>4, <3>2 DEF Settled, Excused
  <2>6. Above(context) /\ Reached(context, lastMessage, queued)
    <3>1. AllExist(context.config)
      BY <2>2, <2>3, <2>4, AllExistMeans
    <3>. QED
      BY <1>1, <3>1 DEF IInv, PersistedSound
  <2>7. Above(context)' /\ Reached(context, lastMessage, queued)'
    BY <2>1, <2>2, <2>5, <2>6 DEF Above, Reached
  <2>. QED
    BY <2>7
<1>. QED
  BY <1>2, <1>3, <1>4, <1>5 DEF IInv

\* Creating tables fills none; the job begins once they are all there.
LEMMA CreateFacts ==
    ASSUME TypeOK, Control, CreateTables
    PROVE  /\ config \in Configs /\ PrefixOf[config] \in Prefixes
           /\ \A p \in Prefixes, l \in Levels : layout'[p][l] = None => layout[p][l] = None
           /\ pc' \in {"level", "down"} =>
                \A l \in Levels : layout'[PrefixOf[config]][l] # None
<1>1. config \in Configs /\ config # None /\ PrefixOf[config] \in Prefixes
  BY ConstantsAssumption DEF Control, CreateTables
<1>2. \A p \in Prefixes, l \in Levels :
        layout'[p][l] = IF p = PrefixOf[config] /\ l \in NextToCreate(config)
                        THEN config ELSE layout[p][l]
  BY <1>1 DEF CreateTables, WithLayout, TypeOK
<1>3. pc' \in {"level", "down"} => NextToCreate(config) = Levels \ Existing(config)
  BY DEF CreateTables
<1>. QED
  BY <1>1, <1>2, <1>3 DEF Existing

LEMMA CreateTablesKeeps ==
    ASSUME IInv, TypeOK', CreateTables PROVE IInv'
<1> USE DEF redis, choices, bounds
<1>1. /\ pc \in {"create", "createNew"}
      /\ pc' \in {pc, "level", "down"}
      /\ pc' = "level" => pc = "create" /\ job' = [config |-> config, level |-> 1]
      /\ UNCHANGED <<config, rows, lost, redis, disableRedis, target, strayed>>
      /\ rebuilt' = (rebuilt \/ context # None)
  BY DEF CreateTables
<1>2. config \in Configs /\ 1 \in Levels
  BY CreateFacts, ConstantsAssumption DEF IInv, Levels
<1>3. pc' = "level" => AllExist(config)'
  BY <1>1, CreateFacts, AllExistMeans DEF IInv
<1>4. Control'
  BY <1>1, <1>2, <1>3 DEF IInv, Control, AfterDrop, InJob, Jobs
<1>5. PersistedSound'
  BY <1>1 DEF PersistedSound
<1>6. JobSound'
  BY <1>1, <1>2 DEF JobSound, InJob, Above
<1>7. RowsInTables'
  BY <1>1, CreateFacts DEF IInv, RowsInTables
<1>8. Linked'
  BY <1>1 DEF IInv, Linked
<1>. QED
  BY <1>4, <1>5, <1>6, <1>7, <1>8 DEF IInv
-----------------------------------------------------------------------------
(* The steps of a job *)

LEMMA ResumeKeeps ==
    ASSUME IInv, TypeOK', Resume PROVE IInv'
<1> USE DEF database, redis, choices, bounds
<1>1. /\ context \in Jobs /\ context # None /\ ~disableRedis /\ pc = "context"
      /\ AllExist(config) /\ job' = context /\ pc' = "level"
      /\ UNCHANGED <<database, redis, choices, rebuilt>>
      /\ strayed' = (strayed \/ PrefixOf[context.config] # PrefixOf[config])
  BY DEF IInv, TypeOK, Resume, Resumable
<1>2. Control'
  BY <1>1, SameTables DEF IInv, Control, AfterDrop, InJob
<1>3. Linked'
  BY <1>1 DEF IInv, Linked
<1>4. PersistedSound' /\ RowsInTables'
  BY <1>1, SameDatabase, PersistedKept DEF IInv, RowsInTables
<1>5. JobSound'
  BY <1>1, <1>4, SameTables DEF IInv, JobSound, PersistedSound, Above
<1>. QED
  BY <1>2, <1>3, <1>4, <1>5 DEF IInv

LEMMA StartFreshKeeps ==
    ASSUME IInv, TypeOK', StartFresh PROVE IInv'
<1> USE DEF database, choices, transfer, bounds
<1>1. /\ pc = "context" /\ pc' \in {"confirm", "create"}
      /\ IF disableRedis THEN UNCHANGED redis /\ rebuilt' = rebuilt
         ELSE context' = None /\ lastMessage' = 0
      /\ UNCHANGED <<database, choices, transfer>>
  BY DEF StartFresh, ClearPersisted, IInv, TypeOK
<1>2. Control'
  BY <1>1 DEF IInv, Control, AfterDrop, InJob
<1>3. Linked'
  BY <1>1 DEF IInv, Linked, redis
<1>4. PersistedSound'
  <2>1. CASE disableRedis
    BY <1>1, <2>1, SameDatabase, PersistedKept DEF IInv, redis
  <2>2. CASE ~disableRedis
    BY <1>1, <2>2 DEF PersistedSound
  <2>. QED
    BY <2>1, <2>2
<1>5. JobSound' /\ RowsInTables'
  BY <1>1 DEF IInv, JobSound, InJob, RowsInTables
<1>. QED
  BY <1>2, <1>3, <1>4, <1>5 DEF IInv

LEMMA BeginLevelKeeps ==
    ASSUME IInv, TypeOK', BeginLevel PROVE IInv'
<1> USE DEF database, choices, bounds, history
<1>1. /\ pc = "level" /\ pc' = "queue" /\ job \in Jobs /\ job # None
      /\ next' = ResumePoint
      /\ context' = IF disableRedis THEN context ELSE job
      /\ UNCHANGED <<database, lastMessage, queued, choices, job, history>>
  BY ConstantsAssumption DEF BeginLevel, IInv, Control, InJob, Jobs, Levels
<1>2. Control'
  BY <1>1, SameTables DEF IInv, Control, AfterDrop, InJob
<1>3. Linked'
  BY <1>1 DEF IInv, Linked, ResumePoint
<1>4. ~disableRedis /\ ~rebuilt /\ AllExist(job.config) =>
            Reached(job, lastMessage, queued)
  BY <1>1 DEF IInv, Linked, PersistedSound, Reached
<1>5. (rebuilt => disableRedis) /\ AllExist(job.config) => Above(job)
  BY <1>1 DEF IInv, JobSound, InJob
<1>6. Above(job) => Above(job)'
  BY <1>1 DEF Above, Settled, Excused
<1>7. Reached(job, lastMessage, queued) => Reached(job, lastMessage, queued)'
  BY <1>1 DEF Reached, Settled, Excused
<1>8. PersistedSound'
  <2>1. CASE disableRedis
    BY <1>1, <2>1, SameDatabase, PersistedKept DEF IInv
  <2>2. CASE ~disableRedis
    <3>1. context' = job /\ lastMessage' = lastMessage /\ queued' = queued
          /\ job' = job
      BY <1>1, <2>2
    <3>. QED
      BY <1>1, <1>4, <1>5, <1>6, <1>7, <2>2, <3>1, SameTables
         DEF PersistedSound, Above, Reached
  <2>. QED
    BY <2>1, <2>2
<1>9. JobSound'
  <2> SUFFICES ASSUME rebuilt => disableRedis, AllExist(job.config)
               PROVE  Above(job)' /\ Reached(job, next - 1, Transit)'
    BY <1>1, SameTables DEF JobSound
  <2>1. CASE disableRedis
    BY <1>1, <1>5, <1>6, <2>1 DEF ResumePoint, Reached
  <2>2. CASE ~disableRedis
    <3>1. next' - 1 = lastMessage /\ Transit' = queued
      BY <1>1, <2>2 DEF ResumePoint, IInv, TypeOK, Transit
    <3>. QED
      BY <1>1, <1>4, <1>5, <1>6, <1>7, <2>2, <3>1 DEF Reached
  <2>. QED
    BY <2>1, <2>2
<1>10. RowsInTables'
  BY <1>1 DEF IInv, RowsInTables
<1>. QED
  BY <1>2, <1>3, <1>8, <1>9, <1>10 DEF IInv

LEMMA EnqueueKeeps ==
    ASSUME IInv, TypeOK', Enqueue PROVE IInv'
<1> USE DEF database, redis, choices, bounds, history
<1>1. /\ pc = "queue" /\ pc' = "queue" /\ job \in Jobs
      /\ next \in Nat /\ next' = next + 1
      /\ UNCHANGED <<database, choices, job, history, context>>
      /\ Transit' = Transit \cup {next}
      /\ IF disableRedis THEN queued' = queued /\ lastMessage' = lastMessage
         ELSE queued' = queued \cup {next} /\ lastMessage' = next
  BY DEF Enqueue, IInv, TypeOK, Control, InJob, Transit
<1>2. Control'
  BY <1>1, SameTables DEF IInv, Control, AfterDrop, InJob
<1>3. Linked'
  BY <1>1, ConstantsAssumption DEF IInv, Linked, TypeOK, Jobs, Levels
<1>4. Above(job) => Above(job)' /\ (job = context => Above(context)')
  BY <1>1 DEF Above, Settled, Excused
<1>5. PersistedSound'
  <2>1. CASE disableRedis
    BY <1>1, <2>1, SameDatabase, PersistedKept DEF IInv
  <2>2. CASE ~disableRedis
    <3>1. next = lastMessage + 1 /\ lastMessage \in Nat
      BY <1>1, <2>2 DEF IInv, Linked, TypeOK
    <3>2. Reached(context, lastMessage, queued) =>
            Reached(context, lastMessage, queued)'
      <4>1. /\ context' = context /\ rows' = rows /\ lost' = lost
            /\ lastMessage' = lastMessage + 1
            /\ queued' = queued \cup {lastMessage + 1}
        BY <1>1, <2>2, <3>1
      <4>2. \A m \in 1 .. lastMessage + 1 : m \in 1 .. lastMessage \/ m = lastMessage + 1
        BY <3>1
      <4>. QED
        BY <4>1, <4>2 DEF Reached, Settled, Excused
    <3>. QED
      <4>1. job = context
        BY <1>1, <2>2 DEF IInv, Linked
      <4>. QED
        BY <1>1, <1>4, <3>2, <4>1, SameTables DEF IInv, PersistedSound
  <2>. QED
    BY <2>1, <2>2
<1>6. JobSound'
  <2>1. Reached(job, next - 1, Transit) => Reached(job, next - 1, Transit)'
    <3>1. job' = job /\ rows' = rows /\ lost' = lost
      BY <1>1
    <3>2. \A m \in 1 .. next' - 1 : m \in 1 .. next - 1 \/ m \in Transit'
      BY <1>1
    <3>3. Transit \subseteq Transit'
      BY <1>1
    <3>. QED
      BY <3>1, <3>2, <3>3 DEF Reached, Settled, Excused
  <2>. QED
    BY <1>1, <1>4, <2>1, SameTables DEF IInv, JobSound, InJob
<1>7. RowsInTables'
  BY <1>1 DEF IInv, RowsInTables
<1>. QED
  BY <1>2, <1>3, <1>5, <1>6, <1>7 DEF IInv

\* A message's row can be inserted once the parents are there.
LEMMA Parents ==
    ASSUME IInv, pc = "queue", rebuilt => disableRedis, AllExist(job.config),
           NEW m \in Msgs
    PROVE  Insertable(m) \/ Excused(PrefixOf[job.config], job.level, m)
<1>1. job \in Jobs /\ job.level \in Levels /\ layout[PrefixOf[job.config]][job.level] # None
  BY AllExistMeans, JobParts DEF IInv, Control, InJob
<1>2. Above(job)
  BY DEF IInv, JobSound, InJob
<1>3. CASE job.level > 1
  <2>1. job.level - 1 \in 1 .. job.level - 1
    BY <1>1, <1>3 DEF Levels
  <2>2. Settled(PrefixOf[job.config], job.level - 1, m)
    BY <1>2, <2>1 DEF Above
  <2>. QED
    BY <1>1, <2>2 DEF Settled, Insertable, Excused, Levels
<1>. QED
  BY <1>1, <1>3 DEF Insertable

LEMMA StoreKeeps ==
    ASSUME IInv, TypeOK', NEW m \in Msgs, Store(m) PROVE IInv'
<1> USE DEF choices, bounds, history
<1>1. /\ pc = "queue" /\ pc' = "queue" /\ job \in Jobs
      /\ m \in Transit /\ Transit' = Transit \ {m}
      /\ rows' = Inserted({m})
      /\ UNCHANGED <<config, layout, lost, context, lastMessage, choices, job,
                     next, history>>
      /\ queued' = IF disableRedis THEN queued ELSE queued \ {m}
  BY DEF Store, IInv, Control, InJob, Transit
<1>2. Control'
  BY <1>1, SameTables DEF IInv, Control, AfterDrop, InJob
<1>3. Linked'
  BY <1>1 DEF IInv, Linked
<1>4. \A p \in Prefixes, l \in Levels, i \in Msgs :
        /\ rows[p][l][i] \in Nat
        /\ rows'[p][l][i] = IF /\ p = PrefixOf[job.config] /\ l = job.level
                                /\ i = m /\ Insertable(i)
                             THEN rows[p][l][i] + 1 ELSE rows[p][l][i]
  BY <1>1, InsertedFacts DEF IInv, TypeOK
<1>5. Grows
  <2>1. lost' = lost
    BY <1>1
  <2>. QED
    BY <1>4, <2>1 DEF Grows
<1>6. (rebuilt => disableRedis) /\ AllExist(job.config) =>
            Settled(PrefixOf[job.config], job.level, m)'
  <2> SUFFICES ASSUME rebuilt => disableRedis, AllExist(job.config)
               PROVE  Settled(PrefixOf[job.config], job.level, m)'
    OBVIOUS
  <2>1. Insertable(m) \/ Excused(PrefixOf[job.config], job.level, m)
    BY <1>1, Parents
  <2>2. Insertable(m) => rows'[PrefixOf[job.config]][job.level][m] > 0
    <3>1. PrefixOf[job.config] \in Prefixes /\ job.level \in Levels
      BY <1>1, JobParts
    <3>. QED
      BY <1>4, <3>1
  <2>3. job' = job /\ lost' = lost
    BY <1>1
  <2>. QED
    BY <2>1, <2>2, <2>3 DEF Settled, Excused
<1>7. PersistedSound'
  <2>1. ~disableRedis => context = job
    BY <1>1 DEF IInv, Linked
  <2>2. context # None /\ ~rebuilt /\ AllExist(context.config) =>
            \A i \in queued \ queued' :
                Settled(PrefixOf[context.config], context.level, i)'
    BY <1>1, <1>6, <2>1
  <2>. QED
    BY <1>1, <1>5, <2>2, PersistedKept DEF IInv
<1>8. JobSound'
  <2> SUFFICES ASSUME rebuilt => disableRedis, AllExist(job.config)
               PROVE  Above(job)' /\ Reached(job, next - 1, Transit)'
    BY <1>1, SameTables DEF JobSound
  <2>1. Above(job) /\ Reached(job, next - 1, Transit)
    BY <1>1 DEF IInv, JobSound, InJob
  <2>2. Above(job)'
    BY <1>1, <1>5, <2>1, AboveKept DEF Above
  <2>3. Reached(job, next - 1, Transit)'
    <3>1. \A i \in 1 .. next - 1 : i \in Msgs
      BY ConstantsAssumption DEF IInv, TypeOK, Msgs
    <3>. QED
      BY <1>1, <1>5, <1>6, <2>1, <3>1, JobParts, SettledKept DEF Reached
  <2>. QED
    BY <2>2, <2>3
<1>9. RowsInTables'
  <2>1. RowsInTables /\ layout' = layout
    BY <1>1 DEF IInv
  <2>2. \A i : Insertable(i) => layout[PrefixOf[job.config]][job.level] # None
    BY DEF Insertable
  <2>. QED
    BY <1>4, <2>1, <2>2 DEF RowsInTables
<1>. QED
  BY <1>2, <1>3, <1>7, <1>8, <1>9 DEF IInv

LEMMA QueueReturnsKeeps ==
    ASSUME IInv, TypeOK', QueueReturns PROVE IInv'
<1> USE DEF database, choices, transfer, bounds, history
<1>1. /\ pc = "queue" /\ pc' = "dedupe" /\ next > N /\ Transit = {} /\ job \in Jobs
      /\ UNCHANGED <<database, choices, transfer, history>>
      /\ IF disableRedis THEN UNCHANGED redis
         ELSE context' = None /\ lastMessage' = 0 /\ queued' = {}
  BY DEF QueueReturns, ClearPersisted, IInv, Control, InJob
<1>2. Control'
  BY <1>1, SameTables DEF IInv, Control, AfterDrop, InJob
<1>3. Linked'
  BY <1>1 DEF IInv, Linked, redis
<1>4. PersistedSound'
  <2>1. CASE disableRedis
    BY <1>1, <2>1, SameDatabase, PersistedKept DEF IInv, redis
  <2>2. CASE ~disableRedis
    BY <1>1, <2>2 DEF PersistedSound
  <2>. QED
    BY <2>1, <2>2
<1>5. JobSound'
  <2>1. Reached(job, next - 1, Transit) => Reached(job, N, {})
    BY <1>1, ConstantsAssumption DEF Reached, IInv, TypeOK
  <2>2. /\ Above(job) => Above(job)'
        /\ Reached(job, N, {}) => Reached(job, N, {})'
    BY <1>1 DEF Above, Reached, Settled, Excused
  <2>. QED
    BY <1>1, <2>1, <2>2, SameTables DEF IInv, JobSound, InJob
<1>6. RowsInTables'
  BY <1>1 DEF IInv, RowsInTables
<1>. QED
  BY <1>2, <1>3, <1>4, <1>5, <1>6 DEF IInv

LEMMA EndLevelKeeps ==
    ASSUME IInv, TypeOK', EndLevel PROVE IInv'
<1> USE DEF redis, choices, bounds, history
<1>1. /\ pc = "dedupe" /\ job \in Jobs /\ config \in Configs
      /\ rows' = Deduplicated
      /\ UNCHANGED <<config, layout, lost, redis, choices, history>>
      /\ \/ /\ job.level < L /\ pc' = "level" /\ job' \in Jobs
            /\ job'.config = job.config /\ job'.level = job.level + 1
         \/ job.level = L /\ pc' = "final" /\ job' = job
  BY ConstantsAssumption DEF EndLevel, IInv, Control, InJob, Jobs, Levels
<1>2. Control'
  BY <1>1, SameTables DEF IInv, Control, AfterDrop, InJob
<1>3. Linked'
  BY <1>1 DEF IInv, Linked
<1>4. \A p \in Prefixes, l \in Levels, m \in Msgs :
        /\ rows[p][l][m] \in Nat
        /\ rows'[p][l][m] = IF p = PrefixOf[config] /\ l = job.level /\ rows[p][l][m] > 1
                            THEN 1 ELSE rows[p][l][m]
  BY <1>1, DeduplicatedFacts DEF IInv, TypeOK
<1>5. Grows
  <2>1. lost' = lost
    BY <1>1
  <2>. QED
    BY <1>4, <2>1 DEF Grows
<1>6. PersistedSound'
  BY <1>1, <1>5, PersistedKept DEF IInv
<1>7. JobSound'
  <2> SUFFICES ASSUME rebuilt => disableRedis, AllExist(job'.config)
               PROVE  Above(job)' /\ (pc' = "final" => Reached(job, N, {})')
    BY <1>1, SameTables DEF JobSound
  <2>1. Above(job) /\ Reached(job, N, {})
    BY <1>1 DEF IInv, JobSound, InJob
  <2>2. PICK p \in Prefixes, k \in Levels :
            /\ p = PrefixOf[job.config] /\ p = PrefixOf[job'.config]
            /\ k = job.level
    BY <1>1, JobParts
  <2>3. \A l \in 1 .. k : l \in Levels /\ (l = k \/ l \in 1 .. k - 1)
    BY ConstantsAssumption DEF Levels
  <2>4. \A l \in 1 .. k, m \in Msgs : Settled(p, l, m)
    BY <2>1, <2>2, <2>3 DEF Above, Reached, Msgs
  <2>5. \A l \in 1 .. k, m \in Msgs : Settled(p, l, m)'
    BY <1>5, <2>3, <2>4, SettledKept
  <2>6. job'.level - 1 <= k /\ job'.level \in Nat /\ k \in Nat
    <3>1. k \in Nat
      BY <2>3, ConstantsAssumption DEF Levels
    <3>2. job'.level = k \/ job'.level = k + 1
      BY <1>1, <2>2
    <3>. QED
      BY <3>1, <3>2
  <2>7. Above(job)'
    <3>1. \A l \in 1 .. job'.level - 1 : l \in 1 .. k
      BY <2>6
    <3>. QED
      BY <2>2, <2>5, <3>1 DEF Above
  <2>8. pc' = "final" => Reached(job, N, {})'
    BY <1>1, <2>2, <2>5 DEF Reached, Msgs, Levels
  <2>. QED
    BY <2>7, <2>8
<1>8. RowsInTables'
  <2>1. RowsInTables /\ layout' = layout
    BY <1>1 DEF IInv
  <2>. QED
    BY <1>4, <2>1 DEF RowsInTables
<1>. QED
  BY <1>2, <1>3, <1>6, <1>7, <1>8 DEF IInv

LEMMA FinishKeeps ==
    ASSUME IInv, TypeOK', Finish PROVE IInv'
<1> USE DEF database, choices, transfer, bounds, history
<1>1. /\ pc = "final" /\ pc' = "finished"
      /\ UNCHANGED <<database, choices, transfer, history>>
      /\ IF disableRedis THEN UNCHANGED redis
         ELSE context' = None /\ lastMessage' = 0 /\ queued' = {}
  BY DEF Finish, ClearPersisted
<1>2. Control'
  BY <1>1, SameTables DEF IInv, Control, AfterDrop, InJob
<1>3. Linked'
  BY <1>1 DEF IInv, Linked, redis
<1>4. PersistedSound'
  <2>1. CASE disableRedis
    BY <1>1, <2>1, SameDatabase, PersistedKept DEF IInv, redis
  <2>2. CASE ~disableRedis
    BY <1>1, <2>2 DEF PersistedSound
  <2>. QED
    BY <2>1, <2>2
<1>5. JobSound'
  <2>1. /\ Above(job) => Above(job)'
        /\ Reached(job, N, {}) => Reached(job, N, {})'
    BY <1>1 DEF Above, Reached, Settled, Excused
  <2>. QED
    BY <1>1, <2>1, SameTables DEF IInv, JobSound, InJob
<1>6. RowsInTables'
  BY <1>1 DEF IInv, RowsInTables
<1>. QED
  BY <1>2, <1>3, <1>4, <1>5, <1>6 DEF IInv

LEMMA CrashKeeps ==
    ASSUME IInv, TypeOK', Crash PROVE IInv'
<1> USE DEF choices, history
<1>1. /\ pc' = "down"
      /\ UNCHANGED <<config, layout, context, lastMessage, choices, job, history>>
  BY DEF Crash
<1>2. Control' /\ Linked' /\ JobSound'
  BY <1>1 DEF IInv, Control, Linked, JobSound, AfterDrop, InJob
<1>3. PersistedSound' /\ RowsInTables'
  <2>1. CASE pc # "queue"
    <3>1. rows' = rows /\ lost' = lost /\ queued' = queued
      BY <2>1 DEF Crash
    <3>. QED
      BY <1>1, <3>1, SameDatabase, PersistedKept DEF IInv, RowsInTables
  <2>2. CASE pc = "queue"
    <3>1. PICK written \in SUBSET Transit :
            /\ rows' = Inserted(written)
            /\ \E gone \in SUBSET (IF disableRedis THEN {} ELSE queued \ written) :
                 /\ queued' = queued \ gone
                 /\ lost' = lost \cup
                        {<<PrefixOf[job.config], job.level, m>> : m \in gone}
      BY <2>2 DEF Crash
    <3>2. PICK gone \in SUBSET (IF disableRedis THEN {} ELSE queued \ written) :
                 /\ queued' = queued \ gone
                 /\ lost' = lost \cup
                        {<<PrefixOf[job.config], job.level, m>> : m \in gone}
      BY <3>1
    <3>3. job \in Jobs
      BY <2>2 DEF IInv, Control, InJob
    <3>4. \A p \in Prefixes, l \in Levels, i \in Msgs :
            /\ rows[p][l][i] \in Nat
            /\ rows'[p][l][i] = IF /\ p = PrefixOf[job.config] /\ l = job.level
                                   /\ i \in written /\ Insertable(i)
                                THEN rows[p][l][i] + 1 ELSE rows[p][l][i]
      BY <3>1, <3>3, InsertedFacts DEF IInv, TypeOK
    <3>5. Grows
      BY <3>2, <3>4 DEF Grows
    <3>6. \A m \in queued \ queued' :
                context = job /\ Settled(PrefixOf[context.config], context.level, m)'
      <4> SUFFICES ASSUME NEW m \in queued \ queued'
                   PROVE  context = job /\
                          Settled(PrefixOf[context.config], context.level, m)'
        OBVIOUS
      <4>1. m \in gone /\ ~disableRedis
        BY <3>2
      <4>2. context = job /\ context' = context /\ context.level \in 1 .. context.level
        BY <1>1, <2>2, <3>3, <4>1, JobParts DEF IInv, Linked, Levels
      <4>3. <<PrefixOf[context.config], context.level, m>> \in lost'
        BY <3>2, <4>1, <4>2
      <4>. QED
        BY <4>2, <4>3 DEF Settled, Excused
    <3>7. PersistedSound'
      BY <1>1, <3>5, <3>6, PersistedKept DEF IInv
    <3>8. RowsInTables'
      <4>1. RowsInTables /\ layout' = layout
        BY <1>1 DEF IInv
      <4>2. \A i : Insertable(i) => layout[PrefixOf[job.config]][job.level] # None
        BY DEF Insertable
      <4>. QED
        BY <3>4, <4>1, <4>2 DEF RowsInTables
    <3>. QED
      BY <3>7, <3>8
  <2>. QED
    BY <2>1, <2>2
<1>. QED
  BY <1>2, <1>3 DEF IInv

LEMMA InvInit == Init => IInv
<1> SUFFICES ASSUME Init PROVE IInv
  OBVIOUS
<1>1. Control /\ Linked /\ PersistedSound /\ JobSound
  BY DEF Init, Control, AfterDrop, InJob, Linked, PersistedSound, JobSound
<1>2. RowsInTables
  BY DEF Init, RowsInTables
<1>. QED
  BY <1>1, <1>2, TypeInit DEF IInv

LEMMA Inductive == IInv /\ [Next]_vars => IInv'
<1> SUFFICES ASSUME IInv, [Next]_vars PROVE IInv'
  OBVIOUS
<1>1. TypeOK'
  BY TypeNext DEF IInv
<1>2. CASE UNCHANGED vars
  BY <1>2 DEF IInv, TypeOK, Control, Linked, PersistedSound, JobSound, RowsInTables,
              vars, Above, Reached, Settled, Excused, AllExist, Existing, Transit
<1>. QED
  BY <1>1, <1>2, ControlStepKeeps, DropTablesKeeps, CreateTablesKeeps, ResumeKeeps,
     StartFreshKeeps, BeginLevelKeeps, EnqueueKeeps, StoreKeeps, QueueReturnsKeeps,
     EndLevelKeeps, FinishKeeps, CrashKeeps
     DEF Next, CommandStep, Finished

\* What a running and a persisted job have filled, in every reachable state
\* (index.command.ts, set-config.command.ts and clear.command.ts together).
THEOREM Invariance == Spec => []IInv
BY InvInit, Inductive, PTL DEF Spec

\* The state of the command is what index.command.ts declares.
THEOREM TypeCorrect == Spec => []TypeOK
<1>1. IInv => TypeOK
  BY DEF IInv
<1>. QED
  BY <1>1, Invariance, PTL

\* No level of the saved configuration's job is transferred before the levels
\* above it are complete, whatever runs, crashes and commands came before
\* (index.command.ts resumes a level, and re-creates tables, without looking
\* at the rows above).
THEOREM ParentsAlwaysFirst == Spec => []ParentsFirst
<1>1. IInv => ParentsFirst
  <2> SUFFICES ASSUME IInv, pc = "queue", Current,
                      NEW l \in 1 .. job.level - 1
               PROVE  Complete(PrefixOf[config], l)
    BY DEF ParentsFirst
  <2>1. AllExist(job.config) /\ Above(job)
    BY DEF IInv, Control, JobSound, Current, InJob
  <2>. QED
    BY <2>1 DEF Above, Settled, Complete, Current
<1>. QED
  BY <1>1, Invariance, PTL
-----------------------------------------------------------------------------
(* Rows written once, where a transaction covers DDL *)

LEMMA OnceOutside ==
    ASSUME OnceInv, UNCHANGED <<layout, rows, context, strayed>>,
           pc' \notin InJob \cup {"create"}
    PROVE  OnceInv'
BY DEF OnceInv, AllOrNone, PersistedOnce, JobOnce, MemoryOnce, InFlightTaken,
       OnceAbove, InJob

LEMMA OnceControl ==
    ASSUME OnceInv,
           \/ Start \/ KeepConfig \/ UpdateConfig \/ SaveConfig \/ ConfirmDrop
           \/ Abort \/ Exit \/ SetConfig \/ CheckNew \/ Clear \/ WipeConfig
    PROVE  OnceInv'
<1>1. /\ UNCHANGED <<layout, rows, context, strayed>>
      /\ pc' \notin InJob \cup {"create"}
  BY DEF Start, KeepConfig, UpdateConfig, SaveConfig, ConfirmDrop, Abort, Exit,
         SetConfig, CheckNew, Clear, WipeConfig, InJob, database, redis, history
<1>. QED
  BY <1>1, OnceOutside

\* Fewer rows of a job's upper levels are no more than one each.
LEMMA OnceAboveKept ==
    ASSUME NEW j \in Jobs, OnceAbove(j), rows \in Rows,
           \A p \in Prefixes, l \in Levels, m \in Msgs :
                rows'[p][l][m] <= rows[p][l][m] \/ rows'[p][l][m] <= 1,
           rows' \in Rows
    PROVE  \A l \in 1 .. j.level - 1, m \in Msgs : rows'[PrefixOf[j.config]][l][m] <= 1
<1> SUFFICES ASSUME NEW l \in 1 .. j.level - 1, NEW m \in Msgs
             PROVE  rows'[PrefixOf[j.config]][l][m] <= 1
  OBVIOUS
<1>1. PICK p \in Prefixes : p = PrefixOf[j.config]
  BY JobParts
<1>2. l \in Levels
  BY JobParts
<1>3. rows[p][l][m] <= 1
  BY <1>1 DEF OnceAbove
<1>4. rows[p][l][m] \in Nat /\ rows'[p][l][m] \in Nat
  BY <1>2 DEF Rows
<1>. QED
  BY <1>1, <1>2, <1>3, <1>4

LEMMA OnceDropTables ==
    ASSUME TransactionalDdl, IInv, TypeOK', OnceInv, DropTables PROVE OnceInv'
<1> USE DEF redis, history
<1> DEFINE P == PrefixOf[target]
<1>1. /\ pc' \in {"saveConfig", "create", "checkNew", "wipeConfig", pc}
      /\ pc \in {"dropPrevious", "drop", "rebuild", "wipe"}
      /\ pc' = "create" => pc = "drop" /\ target = config
      /\ UNCHANGED <<config, context, strayed>>
  BY DEF DropTables, AfterDrop, IInv, Control
<1>2. target \in Configs /\ P \in Prefixes
  BY DropFacts DEF IInv
<1>3. \A l \in Levels : layout'[P][l] = None
  <2>1. layout'[P] = [l \in Levels |-> IF l \in Existing(target) THEN None ELSE layout[P][l]]
    BY <1>2 DEF DropTables, WithLayout, NextToDrop, IInv, TypeOK
  <2>. QED
    BY <2>1 DEF Existing
<1>4. AllOrNone'
  BY <1>1, <1>2, <1>3, DropFacts DEF IInv, OnceInv, AllOrNone
<1>5. PersistedOnce'
  <2>1. rows \in Rows /\ rows' \in Rows
    BY DEF IInv, TypeOK, Rows
  <2>2. \A p \in Prefixes, l \in Levels, m \in Msgs :
            rows'[p][l][m] <= rows[p][l][m] \/ rows'[p][l][m] <= 1
    <3>1. \A p \in Prefixes, l \in Levels, m \in Msgs :
            rows[p][l][m] \in Nat /\ rows'[p][l][m] \in {0, rows[p][l][m]}
      BY <2>1, DropFacts DEF IInv, Rows
    <3>. QED
      BY <3>1
  <2>3. context # None => context \in Jobs
    BY DEF IInv, TypeOK
  <2>. QED
    BY <1>1, <2>1, <2>2, <2>3, OnceAboveKept DEF OnceInv, PersistedOnce, OnceAbove
<1>6. JobOnce' /\ MemoryOnce' /\ InFlightTaken'
  BY <1>1 DEF JobOnce, MemoryOnce, InFlightTaken, InJob
<1>. QED
  BY <1>4, <1>5, <1>6 DEF OnceInv

\* The tables a job's creation finds are all missing: its rows are none.
LEMMA CreatedEmpty ==
    ASSUME IInv, AllOrNone, CreateTables, pc = "create"
    PROVE  \A l \in Levels, m \in Msgs : rows'[PrefixOf[config]][l][m] = 0
<1>1. PrefixOf[config] \in Prefixes /\ rows' = rows
  BY CreateFacts DEF IInv, CreateTables
<1>. QED
  BY <1>1 DEF IInv, AllOrNone, RowsInTables

LEMMA OnceCreateTables ==
    ASSUME TransactionalDdl, IInv, TypeOK', OnceInv, CreateTables PROVE OnceInv'
<1> USE DEF redis, choices
<1>1. /\ pc \in {"create", "createNew"}
      /\ pc' = IF pc = "create" THEN "level" ELSE "down"
      /\ pc = "create" => job' = [config |-> config, level |-> 1]
      /\ UNCHANGED <<config, rows, context, strayed>>
  BY DEF CreateTables, NextToCreate
<1>2. config \in Configs /\ PrefixOf[config] \in Prefixes
  BY CreateFacts DEF IInv
<1>3. \A p \in Prefixes, l \in Levels :
        layout'[p][l] = IF p = PrefixOf[config] /\ layout[p][l] = None
                        THEN config ELSE layout[p][l]
  BY <1>2 DEF CreateTables, WithLayout, NextToCreate, Existing, IInv, TypeOK
<1>4. AllOrNone'
  <2>1. config # None
    BY <1>2, ConstantsAssumption
  <2>. QED
    BY <1>1, <1>3, <2>1 DEF OnceInv, AllOrNone
<1>5. PersistedOnce' /\ InFlightTaken'
  BY <1>1 DEF OnceInv, PersistedOnce, OnceAbove, InFlightTaken
<1>6. JobOnce' /\ MemoryOnce'
  <2>1. pc' = "level" => \A l \in Levels, m \in Msgs : rows'[PrefixOf[job'.config]][l][m] = 0
    BY <1>1, CreatedEmpty DEF OnceInv
  <2>2. pc' = "level" => job'.level = 1
    BY <1>1
  <2>. QED
    BY <1>1, <2>1, <2>2 DEF JobOnce, MemoryOnce, OnceAbove, InJob
<1>. QED
  BY <1>4, <1>5, <1>6 DEF OnceInv

LEMMA OnceResume ==
    ASSUME IInv, OnceInv, Resume PROVE OnceInv'
<1>1. /\ context # None /\ ~disableRedis /\ pc' = "level" /\ job' = context
      /\ UNCHANGED <<layout, rows, context, disableRedis>>
      /\ strayed' = (strayed \/ PrefixOf[context.config] # PrefixOf[config])
  BY DEF Resume, Resumable, database, redis, choices
<1>. QED
  BY <1>1 DEF OnceInv, AllOrNone, PersistedOnce, JobOnce, MemoryOnce, InFlightTaken,
              OnceAbove

LEMMA OnceStartFresh ==
    ASSUME IInv, OnceInv, StartFresh PROVE OnceInv'
<1>1. /\ pc' = IF AllExist(config) THEN "confirm" ELSE "create"
      /\ config \in Configs /\ PrefixOf[config] \in Prefixes
      /\ UNCHANGED <<config, layout, rows>>
      /\ IF disableRedis THEN context' = context /\ strayed' = strayed
         ELSE context' = None
  BY ConstantsAssumption
     DEF StartFresh, ClearPersisted, database, redis, IInv, Control, TypeOK
<1>2. AllOrNone'
  BY <1>1, AllExistMeans DEF OnceInv, AllOrNone
<1>. QED
  BY <1>1, <1>2 DEF OnceInv, PersistedOnce, JobOnce, MemoryOnce, InFlightTaken,
                    OnceAbove, InJob

LEMMA OnceBeginLevel ==
    ASSUME IInv, TypeOK', OnceInv, BeginLevel PROVE OnceInv'
<1>1. /\ pc = "level" /\ pc' = "queue" /\ job' = job /\ job \in Jobs
      /\ context' = IF disableRedis THEN context ELSE job
      /\ next' = ResumePoint /\ inFlight' = {}
      /\ UNCHANGED <<layout, rows, disableRedis, strayed>>
  BY DEF BeginLevel, database, choices, history, IInv, Control, InJob
<1>2. PersistedOnce'
  BY <1>1 DEF OnceInv, PersistedOnce, JobOnce, OnceAbove, InJob
<1>3. MemoryOnce'
  BY <1>1, JobParts DEF OnceInv, MemoryOnce, InJob
<1>. QED
  BY <1>1, <1>2, <1>3 DEF OnceInv, AllOrNone, JobOnce, InFlightTaken, OnceAbove, InJob

LEMMA OnceEnqueue ==
    ASSUME IInv, TypeOK', OnceInv, Enqueue PROVE OnceInv'
<1>1. /\ pc = "queue" /\ pc' = "queue" /\ job' = job /\ context' = context
      /\ next \in Nat /\ next >= 1 /\ next' = next + 1
      /\ inFlight' = IF disableRedis THEN inFlight \cup {next} ELSE inFlight
      /\ UNCHANGED <<layout, rows, disableRedis, strayed>>
  BY DEF Enqueue, database, redis, choices, history, IInv, TypeOK
<1>2. MemoryOnce'
  <2> SUFFICES ASSUME disableRedis, NEW l \in Levels, NEW m \in Msgs
               PROVE  /\ rows[PrefixOf[job.config]][l][m] <= 1
                      /\ l > job.level => rows[PrefixOf[job.config]][l][m] = 0
                      /\ l = job.level /\ (m >= next' \/ m \in inFlight') =>
                            rows[PrefixOf[job.config]][l][m] = 0
    BY <1>1 DEF MemoryOnce
  <2>1. m >= next' \/ m \in inFlight' => m >= next \/ m \in inFlight
    BY <1>1 DEF Msgs
  <2>. QED
    BY <1>1, <2>1 DEF OnceInv, MemoryOnce, InJob
<1>3. InFlightTaken'
  BY <1>1 DEF OnceInv, InFlightTaken
<1>4. PersistedOnce' /\ AllOrNone'
  BY <1>1 DEF OnceInv, AllOrNone, PersistedOnce, OnceAbove
<1>5. JobOnce'
  BY <1>1 DEF OnceInv, JobOnce, OnceAbove, InJob
<1>. QED
  BY <1>2, <1>3, <1>4, <1>5 DEF OnceInv

\* Rows are added to the level in hand; in memory, the first of each message.
LEMMA OnceInserted ==
    ASSUME IInv, OnceInv, pc = "queue", rows' \in Rows,
           NEW written \in SUBSET Transit, rows' = Inserted(written)
    PROVE  /\ \A l \in Levels, m \in Msgs : l # job.level =>
                    rows'[PrefixOf[job.config]][l][m] = rows[PrefixOf[job.config]][l][m]
           /\ disableRedis => \A p \in Prefixes, l \in Levels, m \in Msgs :
                    /\ rows'[p][l][m] <= rows[p][l][m] \/ rows'[p][l][m] <= 1
                    /\ p = PrefixOf[job.config] => rows'[p][l][m] <= 1
           /\ \A p \in Prefixes, l \in Levels, m \in Msgs :
                    m \notin written => rows'[p][l][m] = rows[p][l][m]
<1>1. job \in Jobs /\ PrefixOf[job.config] \in Prefixes
  BY JobParts DEF IInv, Control, InJob
<1>2. \A p \in Prefixes, l \in Levels, m \in Msgs :
        /\ rows[p][l][m] \in Nat
        /\ rows'[p][l][m] = IF /\ p = PrefixOf[job.config] /\ l = job.level
                               /\ m \in written /\ Insertable(m)
                            THEN rows[p][l][m] + 1 ELSE rows[p][l][m]
  BY <1>1, InsertedFacts DEF IInv, TypeOK
<1>3. disableRedis => \A m \in written : m \in inFlight
  BY DEF Transit
<1>4. disableRedis => \A l \in Levels, m \in Msgs :
        /\ rows[PrefixOf[job.config]][l][m] <= 1
        /\ l = job.level /\ m \in inFlight => rows[PrefixOf[job.config]][l][m] = 0
  BY DEF OnceInv, MemoryOnce, InJob
<1>. QED
  BY <1>1, <1>2, <1>3, <1>4

\* A persisted job's upper levels while rows are added.
LEMMA PersistedInserted ==
    ASSUME IInv, OnceInv, pc = "queue", rows' \in Rows,
           NEW written \in SUBSET Transit, rows' = Inserted(written),
           context' = context, strayed' = strayed
    PROVE  PersistedOnce'
<1> SUFFICES ASSUME context # None, ~strayed PROVE OnceAbove(context)'
  BY DEF PersistedOnce
<1>1. context \in Jobs /\ OnceAbove(context) /\ rows \in Rows
  BY DEF IInv, TypeOK, OnceInv, PersistedOnce, Rows
<1>2. CASE disableRedis
  <2>1. \A p \in Prefixes, l \in Levels, m \in Msgs :
            rows'[p][l][m] <= rows[p][l][m] \/ rows'[p][l][m] <= 1
    BY <1>2, OnceInserted
  <2>. QED
    BY <1>1, <2>1, OnceAboveKept DEF OnceAbove
<1>3. CASE ~disableRedis
  <2>1. context = job
    BY <1>3 DEF IInv, Linked
  <2>2. \A l \in 1 .. context.level - 1 : l \in Levels /\ l # context.level
    BY <1>1, JobParts DEF Levels
  <2>. QED
    BY <1>1, <2>1, <2>2, OnceInserted DEF OnceAbove
<1>. QED
  BY <1>2, <1>3

LEMMA OnceStore ==
    ASSUME IInv, TypeOK', OnceInv, NEW m \in Msgs, Store(m) PROVE OnceInv'
<1>1. /\ pc = "queue" /\ pc' = "queue" /\ job' = job /\ context' = context
      /\ next' = next /\ inFlight' = inFlight \ {m} /\ m \in Transit
      /\ rows' = Inserted({m}) /\ rows' \in Rows /\ {m} \in SUBSET Transit
      /\ UNCHANGED <<layout, disableRedis, strayed>>
  BY DEF Store, choices, history, TypeOK, Rows
<1>2. job \in Jobs
  BY <1>1 DEF IInv, Control, InJob
<1>3. PersistedOnce'
  BY <1>1, PersistedInserted
<1>4. JobOnce'
  <2>1. \A l \in 1 .. job.level - 1 : l \in Levels /\ l # job.level
    BY <1>2, JobParts DEF Levels
  <2>2. \A l \in 1 .. job.level - 1, i \in Msgs :
            rows'[PrefixOf[job.config]][l][i] = rows[PrefixOf[job.config]][l][i]
    BY <1>1, <2>1, OnceInserted
  <2>. QED
    BY <1>1, <2>2 DEF OnceInv, JobOnce, OnceAbove, InJob
<1>5. MemoryOnce'
  <2> SUFFICES ASSUME disableRedis, NEW l \in Levels, NEW i \in Msgs
               PROVE  /\ rows'[PrefixOf[job.config]][l][i] <= 1
                      /\ l > job.level => rows'[PrefixOf[job.config]][l][i] = 0
                      /\ l = job.level /\ (i >= next \/ i \in inFlight') =>
                            rows'[PrefixOf[job.config]][l][i] = 0
    BY <1>1 DEF MemoryOnce
  <2>1. PICK p \in Prefixes : p = PrefixOf[job.config]
    BY <1>2, JobParts
  <2>2. rows'[p][l][i] <= 1
    BY <1>1, <2>1, OnceInserted
  <2>3. l > job.level => rows'[p][l][i] = 0
    <3>1. l > job.level => l # job.level
      BY <1>2, JobParts DEF Levels
    <3>. QED
      BY <1>1, <2>1, <3>1, OnceInserted DEF OnceInv, MemoryOnce, InJob
  <2>4. l = job.level /\ (i >= next \/ i \in inFlight') => rows'[p][l][i] = 0
    <3>1. m \in inFlight /\ m < next /\ next \in Nat
      BY <1>1 DEF OnceInv, InFlightTaken, Transit, IInv, TypeOK, Msgs
    <3>2. i >= next \/ i \in inFlight' => i # m /\ (i >= next \/ i \in inFlight)
      BY <1>1, <3>1 DEF Msgs
    <3>3. i # m => rows'[p][l][i] = rows[p][l][i]
      BY <1>1, OnceInserted
    <3>. QED
      BY <1>1, <2>1, <3>2, <3>3 DEF OnceInv, MemoryOnce, InJob
  <2>. QED
    BY <2>1, <2>2, <2>3, <2>4
<1>6. AllOrNone' /\ InFlightTaken'
  BY <1>1 DEF OnceInv, AllOrNone, InFlightTaken
<1>. QED
  BY <1>3, <1>4, <1>5, <1>6 DEF OnceInv

LEMMA OnceCrash ==
    ASSUME IInv, TypeOK', OnceInv, Crash PROVE OnceInv'
<1>1. pc' = "down" /\ UNCHANGED <<layout, context, strayed>>
  BY DEF Crash, history
<1>2. CASE pc # "queue"
  <2>1. rows' = rows
    BY <1>2 DEF Crash
  <2>. QED
    BY <1>1, <2>1, OnceOutside DEF InJob
<1>3. CASE pc = "queue"
  <2>1. PICK written \in SUBSET Transit : rows' = Inserted(written)
    BY <1>3 DEF Crash
  <2>2. rows' \in Rows
    BY DEF TypeOK, Rows
  <2>3. PersistedOnce'
    BY <1>1, <1>3, <2>1, <2>2, PersistedInserted
  <2>. QED
    BY <1>1, <2>3 DEF OnceInv, AllOrNone, JobOnce, MemoryOnce, InFlightTaken, InJob
<1>. QED
  BY <1>2, <1>3

\* Steps that only end a part of the job.
LEMMA OnceEnds ==
    ASSUME IInv, OnceInv, QueueReturns \/ Finish PROVE OnceInv'
<1>1. /\ \/ pc = "queue" /\ pc' = "dedupe"
         \/ pc = "final" /\ pc' = "finished"
      /\ context' \in {context, None}
      /\ UNCHANGED <<layout, rows, job, disableRedis, strayed>>
  BY DEF QueueReturns, Finish, ClearPersisted, database, redis, choices, transfer, history
<1>. QED
  BY <1>1 DEF OnceInv, AllOrNone, PersistedOnce, JobOnce, MemoryOnce, InFlightTaken,
              OnceAbove, InJob

LEMMA OnceEndLevel ==
    ASSUME IInv, TypeOK', OnceInv, EndLevel PROVE OnceInv'
<1>1. /\ pc = "dedupe" /\ job \in Jobs /\ config \in Configs
      /\ rows' = Deduplicated /\ rows' \in Rows /\ rows \in Rows
      /\ UNCHANGED <<layout, context, disableRedis, strayed>>
      /\ job'.config = job.config
      /\ \/ pc' = "level" /\ job'.level = job.level + 1
         \/ pc' = "final" /\ job'.level = job.level
  BY ConstantsAssumption
     DEF EndLevel, IInv, TypeOK, Control, InJob, Jobs, Rows, redis, choices, history
<1>2. PICK p \in Prefixes, k \in Levels :
        /\ p = PrefixOf[job.config] /\ p = PrefixOf[job'.config]
        /\ k = job.level
  BY <1>1, JobParts
<1>3. \A q \in Prefixes, l \in Levels, m \in Msgs :
        /\ rows[q][l][m] \in Nat /\ rows'[q][l][m] \in Nat
        /\ rows'[q][l][m] <= rows[q][l][m]
        /\ q = PrefixOf[config] /\ l = k => rows'[q][l][m] <= 1
  <2>1. \A q \in Prefixes, l \in Levels, m \in Msgs :
        rows[q][l][m] \in Nat /\ rows'[q][l][m] \in Nat
    BY <1>1 DEF Rows
  <2>2. \A q \in Prefixes, l \in Levels, m \in Msgs :
            rows'[q][l][m] = IF q = PrefixOf[config] /\ l = k /\ rows[q][l][m] > 1
                             THEN 1 ELSE rows[q][l][m]
    BY <1>1, <1>2, DeduplicatedFacts DEF IInv
  <2>. QED
    BY <2>1, <2>2
<1>4. PersistedOnce'
  <2>1. context # None => context \in Jobs
    BY DEF IInv, TypeOK
  <2>. QED
    BY <1>1, <1>3, <2>1, OnceAboveKept DEF OnceInv, PersistedOnce, OnceAbove
<1>5. JobOnce'
  <2> SUFFICES ASSUME strayed => disableRedis
               PROVE  /\ OnceAbove(job)'
                      /\ pc' = "final" => \A m \in Msgs : rows'[p][k][m] <= 1
    BY <1>1, <1>2 DEF JobOnce
  <2>1. \A l \in 1 .. k - 1, m \in Msgs : rows'[p][l][m] <= 1
    BY <1>1, <1>2, <1>3, OnceAboveKept DEF OnceInv, JobOnce, InJob
  <2>2. \A m \in Msgs : rows'[p][k][m] <= 1
    BY <1>1, <1>2, <1>3 DEF IInv, Control, InJob
  <2>3. \A l \in 1 .. job'.level - 1 : l = k \/ l \in 1 .. k - 1
    BY <1>1, <1>2 DEF Levels
  <2>. QED
    BY <1>2, <2>1, <2>2, <2>3 DEF OnceAbove
<1>6. MemoryOnce'
  <2> SUFFICES ASSUME disableRedis, NEW l \in Levels, NEW m \in Msgs
               PROVE  /\ rows'[p][l][m] <= 1
                      /\ l > k => rows'[p][l][m] = 0
    BY <1>1, <1>2 DEF MemoryOnce, Levels
  <2>1. rows[p][l][m] <= 1 /\ (l > k => rows[p][l][m] = 0)
    BY <1>1, <1>2 DEF OnceInv, MemoryOnce, InJob
  <2>. QED
    BY <1>3, <2>1
<1>7. AllOrNone' /\ InFlightTaken'
  BY <1>1 DEF OnceInv, AllOrNone, InFlightTaken
<1>. QED
  BY <1>4, <1>5, <1>6, <1>7 DEF OnceInv

LEMMA OnceInit == Init => OnceInv
BY DEF Init, OnceInv, AllOrNone, PersistedOnce, JobOnce, MemoryOnce, InFlightTaken, InJob

LEMMA OnceInductive ==
    ASSUME TransactionalDdl PROVE IInv /\ OnceInv /\ [Next]_vars => OnceInv'
<1> SUFFICES ASSUME IInv, OnceInv, [Next]_vars PROVE OnceInv'
  OBVIOUS
<1>1. TypeOK'
  BY TypeNext DEF IInv
<1>2. CASE UNCHANGED vars
  BY <1>2 DEF vars, OnceInv, AllOrNone, PersistedOnce, JobOnce, MemoryOnce,
              InFlightTaken, OnceAbove
<1>. QED
  BY <1>1, <1>2, OnceControl, OnceDropTables, OnceCreateTables, OnceResume,
     OnceStartFresh, OnceBeginLevel, OnceEnqueue, OnceStore, OnceEnds, OnceEndLevel,
     OnceCrash DEF Next, CommandStep, Finished

\* Where a transaction covers DDL: all tables of a prefix exist or none, and a
\* job's levels, up to its own, have each message once.
THEOREM OnceInvariance == ASSUME TransactionalDdl PROVE Spec => []OnceInv
<1>1. IInv /\ OnceInv /\ [Next]_vars => OnceInv'
  BY OnceInductive
<1>. QED
  BY <1>1, OnceInit, Invariance, PTL DEF Spec

\* A job that says it is finished has left out no message of any level, and has
\* each message once, where a failing DDL statement undoes the others
\* (index.command.ts: dropTables and createTables run in one transaction).
THEOREM FinishedOnce == ASSUME TransactionalDdl PROVE Spec => []FinishedExactly
<1>1. IInv /\ OnceInv => FinishedExactly
  <2> SUFFICES ASSUME IInv, OnceInv, pc = "finished", job.config = config,
                      NEW l \in Levels
               PROVE  /\ Current => Complete(PrefixOf[config], l)
                      /\ (strayed => disableRedis) =>
                            \A m \in Msgs : rows[PrefixOf[config]][l][m] <= 1
    BY DEF FinishedExactly
  <2>1. job.level = L /\ AllExist(job.config)
    BY DEF IInv, Control, InJob
  <2>2. l = L \/ l \in 1 .. L - 1
    BY ConstantsAssumption DEF Levels
  <2>3. Current => Above(job) /\ Reached(job, N, {})
    BY <2>1 DEF IInv, JobSound, Current, InJob
  <2>4. Current => Complete(PrefixOf[config], l)
    BY <2>1, <2>2, <2>3 DEF Above, Reached, Settled, Complete, Msgs
  <2>5. (strayed => disableRedis) => \A m \in Msgs : rows[PrefixOf[config]][l][m] <= 1
    BY <2>1, <2>2 DEF OnceInv, JobOnce, OnceAbove, InJob
  <2>. QED
    BY <2>4, <2>5
<1>. QED
  BY <1>1, Invariance, OnceInvariance, PTL
=============================================================================
