----------------------------- MODULE SchemaLife -----------------------------
(***************************************************************************)
(* The layout of the ADM tables while commands change the configuration,   *)
(* build, fill, rebuild and drop the tables, and are interrupted: whether  *)
(* the statements of every command still name columns the tables have.     *)
(*                                                                         *)
(* Source: commands/index.command.ts, commands/set-config.command.ts and   *)
(* commands/clear.command.ts over the adapters and the queries.  One       *)
(* command runs at a time and one tables prefix is used; the five tables   *)
(* are dropped in one step and created in one step (SeedJob has the        *)
(* interruptions in between, RedisQueue and InMemoryQueue the filling).    *)
(***************************************************************************)
EXTENDS AdmTables

CONSTANTS
    Databases,  \* among "sqlite", "postgres", "mysql" and "mongo"
    Configs,    \* the configurations the user may enter
    None

ASSUME ConstantsAssumption ==
    /\ Databases \subseteq {"sqlite", "postgres", "mysql", "mongo"}
    /\ Configs \subseteq SUBSET Options
    /\ None \notin Configs

S == INSTANCE SqliteAdapter
P == INSTANCE PostgresAdapter
M == INSTANCE MySQLAdapter
D == INSTANCE MongoAdapter
Q == INSTANCE Queries

VARIABLES
    db,
    saved,      \* the configuration table's row
    built,      \* the configuration the tables were created with, if any
    geometry,   \* SQLite: were the geometry columns added?
    recorded,   \* SQLite: are they in geometry_columns?
    context,    \* the configuration of the job persisted in Redis
    pc,
    ddl,        \* the process's DDL singletons: their configuration
    job,        \* jobContext's configuration
    redis,      \* not disableRedis
    rebuilt     \* history: tables were created while a job was persisted

tables == <<built, geometry, recorded>>
process == <<ddl, job, redis>>
vars == <<db, saved, built, geometry, recorded, context, pc, ddl, job, redis,
          rebuilt>>

TypeOK ==
    /\ db \in Databases
    /\ {saved, built, context, ddl, job} \subseteq Configs \cup {None}
    /\ {geometry, recorded, redis, rebuilt} \subseteq BOOLEAN
    /\ geometry => built # None /\ "hasGeojson" \in built
    /\ pc \in {"down", "prompt", "save", "tables", "fresh", "confirm", "create",
               "insert", "rebuild", "recreate", "wipe"}
    /\ pc = "down" => ddl = None

Init ==
    /\ db \in Databases
    /\ saved = None /\ built = None /\ context = None
    /\ geometry = FALSE /\ recorded = FALSE
    /\ pc = "down" /\ ddl = None /\ job = None /\ redis = TRUE
    /\ rebuilt = FALSE
-----------------------------------------------------------------------------
(* The DDL singletons: injectXDDL() makes one of the given configuration   *)
(* unless there is one, resetXDDL() forgets it.                            *)

Injected(config) == IF ddl = None THEN config ELSE ddl

\* drop() of the five tables with the DDLs of a configuration.
Drop(config) ==
    /\ built' = None /\ geometry' = FALSE
    /\ recorded' = S!RecordedAfterDrop(config, recorded)
    /\ rebuilt' = rebuilt

\* create() of the five tables.
Create(config) ==
    /\ built' = config
    /\ geometry' =
        (db = "sqlite" /\ "geojson" \in S!Create(Province, config, recorded).columns)
    /\ recorded' = (db = "sqlite" /\ S!RecordedAfterCreate(config, recorded))
    /\ rebuilt' = (context # None)

Exit ==
    /\ pc' = "down" /\ ddl' = None
    /\ UNCHANGED <<job, redis>>
-----------------------------------------------------------------------------
(* The seeding command *)

Seed ==
    /\ pc = "down"
    /\ redis' \in BOOLEAN
    /\ pc' = "prompt"
    /\ UNCHANGED <<db, saved, tables, context, ddl, job, rebuilt>>

\* "Update the current Mada ADM configuration": no.
KeepConfig ==
    /\ pc = "prompt" /\ saved # None
    /\ ddl' = Injected(saved)
    /\ pc' = "tables"
    /\ UNCHANGED <<db, saved, tables, context, job, redis, rebuilt>>

\* Yes, and "Clear previous configuration tables": yes.
DropPrevious ==
    /\ pc = "prompt" /\ saved # None
    /\ ddl' = Injected(saved)
    /\ IF built # None THEN Drop(saved) ELSE UNCHANGED <<tables, rebuilt>>
    /\ pc' = "save"
    /\ UNCHANGED <<db, saved, context, job, redis>>

\* Mutant: the DDLs of the previous configuration stay.
UpdateConfigWithoutReset ==
    /\ pc \in {"prompt", "save"}
    /\ \E config \in Configs : saved' = config /\ ddl' = Injected(config)
    /\ pc' = "fresh"
    /\ UNCHANGED <<db, tables, context, job, redis, rebuilt>>

\* The DDLs are reset, the new configuration is saved, and a persisted job is
\* not asked about.
UpdateConfig ==
    /\ pc \in {"prompt", "save"}
    /\ \E config \in Configs : saved' = config /\ ddl' = config
    /\ pc' = "fresh"
    /\ UNCHANGED <<db, tables, context, job, redis, rebuilt>>

\* Whether the user is asked about the persisted job.
Resume ==
    /\ pc = "tables" /\ redis /\ built # None /\ context # None
    /\ job' = context
    /\ pc' = "insert"
    /\ UNCHANGED <<db, saved, tables, context, ddl, redis, rebuilt>>

StartFresh ==
    /\ pc \in {"tables", "fresh"}
    /\ context' = IF redis THEN None ELSE context
    /\ pc' = IF built = None THEN "create" ELSE "confirm"
    /\ UNCHANGED <<db, saved, tables, ddl, job, redis, rebuilt>>

\* "Continue and drop all the current Mada ADM tables?"
ConfirmDrop ==
    /\ pc = "confirm"
    /\ Drop(ddl)
    /\ pc' = "create"
    /\ UNCHANGED <<db, saved, context, process>>

\* The tables are created and the first level's queue() persists the job.
CreateTables ==
    /\ pc = "create"
    /\ Create(ddl)
    /\ job' = saved
    /\ pc' = "insert"
    /\ context' = IF redis THEN saved ELSE context
    /\ UNCHANGED <<db, saved, ddl, redis>>

Finish ==
    /\ pc = "insert"
    /\ context' = IF redis THEN None ELSE context
    /\ Exit
    /\ UNCHANGED <<db, saved, tables, rebuilt>>
-----------------------------------------------------------------------------
(* The set-config command *)

\* The tables are looked up, and the user is asked, after the new
\* configuration is saved.
SetConfig ==
    /\ pc = "down"
    /\ saved' \in Configs
    /\ IF saved # None /\ built # None
       THEN ddl' = Injected(saved) /\ pc' = "rebuild"
       ELSE ddl' = None /\ pc' = "down"
    /\ UNCHANGED <<db, tables, context, job, redis, rebuilt>>

\* The DDLs are reset and made of the new configuration.
DropBuilt ==
    /\ pc = "rebuild"
    /\ Drop(ddl)
    /\ ddl' = saved
    /\ pc' = "recreate"
    /\ UNCHANGED <<db, saved, context, job, redis>>

\* The new tables, unless there are some.
Recreate ==
    /\ pc = "recreate"
    /\ IF built = None THEN Create(ddl) ELSE UNCHANGED <<tables, rebuilt>>
    /\ Exit
    /\ UNCHANGED <<db, saved, context>>
-----------------------------------------------------------------------------
(* The clear command *)

Clear ==
    /\ pc = "down" /\ saved # None
    /\ IF built # None THEN Drop(saved) ELSE UNCHANGED <<tables, rebuilt>>
    /\ pc' = "wipe"
    /\ UNCHANGED <<db, saved, context, process>>

WipeConfig ==
    /\ pc = "wipe"
    /\ saved' = None
    /\ Exit
    /\ UNCHANGED <<db, tables, context, rebuilt>>
-----------------------------------------------------------------------------
\* A prompt is declined, the command fails or its process dies.
Stop ==
    /\ pc # "down"
    /\ Exit
    /\ UNCHANGED <<db, saved, tables, context, rebuilt>>

Next ==
    \/ Seed \/ KeepConfig \/ DropPrevious \/ UpdateConfig \/ Resume
    \/ StartFresh \/ ConfirmDrop \/ CreateTables \/ Finish
    \/ SetConfig \/ DropBuilt \/ Recreate
    \/ Clear \/ WipeConfig
    \/ Stop

Spec == Init /\ [][Next]_vars
-----------------------------------------------------------------------------
(* Properties *)

InSql == db # "mongo"

\* The tables as they are.
BuiltTable(l) ==
    CASE db = "sqlite" ->
            IF geometry THEN S!Create(l, built, FALSE) ELSE S!Table(built)[l]
      [] db = "postgres" -> P!Table(built)[l]
      [] db = "mysql" -> M!Table(built)[l]
      [] db = "mongo" -> D!Table(built)[l]

CreateMany(l, config) ==
    CASE db = "sqlite" -> S!CreateMany(l, config)
      [] db = "postgres" -> P!CreateMany(l, config)
      [] db = "mysql" -> M!CreateMany(l, config)
      [] db = "mongo" -> D!CreateMany(l, config)

\* The columns the other statements of the data manipulation name.
Manipulated(l, config) ==
    LET fields(dml) == {f \in dml.fields :
                          f # Province \/ l <= Region
                            \/ "isProvinceRepeated" \in config}
    IN  CASE db = "sqlite" ->
                S!GetManyByAttributes(l) \cup S!GetManyByParentsIds(l)
                \cup S!DeleteDuplicates(l)
                \cup UNION {S!UpdateFieldByIds(l, f) : f \in fields(S!DML[l])}
          [] db = "postgres" ->
                P!GetManyByAttributes(l) \cup P!GetManyByParentsIds(l)
                \cup P!DeleteDuplicates(l)
                \cup UNION {P!UpdateFieldByIds(l, f) : f \in fields(P!DML[l])}
          [] db = "mysql" ->
                M!GetManyByAttributes(l) \cup M!GetManyByParentsIds(l)
                \cup M!DeleteDuplicates(l)
                \cup UNION {M!UpdateFieldByIds(l, f) : f \in fields(M!DML[l])}
          [] db = "mongo" ->
                D!GetManyByAttributes(l) \cup D!GetManyByParentsIds(l)
                \cup D!DeleteDuplicates(l)
                \cup UNION {D!UpdateFieldByIds(l, f) : f \in fields(D!DML[l])}

UpdatesGeojson(l) ==
    CASE db = "sqlite" -> S!UpdateGeojsonByIdentifiers(l)
      [] db = "postgres" -> P!UpdateGeojsonByIdentifiers(l)
      [] db = "mysql" -> M!UpdateGeojsonByIdentifiers(l)
      [] db = "mongo" -> D!UpdateGeojsonByIdentifiers(l)

\* SQLite's tables when a record of dropped ones kept create() from adding the
\* geometry: README.md, section 7.
GeometryLeftOut == db = "sqlite" /\ built # None /\ "hasGeojson" \in built
                     /\ ~geometry

\* A job that fills tables fills tables of its own configuration: those of a
\* new job were created for it, and those of a resumed one still stand, unless
\* they were created anew while the job waited (by set-config, or by a job
\* without Redis).  The configuration, the tables, the DDL singletons and the
\* persisted job change one after the other, and any step may be the last.
LayoutIsJobs == pc = "insert" => built = job \/ rebuilt

\* What a job inserts fits its tables: createMany() names no column they lack
\* and supplies every column that must have a value, from the input and the
\* row of the parent that was inserted before.  MongoDB's admLevel is left to
\* InsertFitsMongo.
InsertFits ==
    pc = "insert" /\ built = job /\ ~GeometryLeftOut =>
        \A l \in Levels :
            LET named == CreateMany(l, job)
                given == IF InSql THEN {CamelToSnakeCase(a) : a \in Supplied(l, job)}
                         ELSE Supplied(l, job) \cup {"createdAt", "updatedAt"}
                table == BuiltTable(l)
            IN  /\ named \subseteq table.columns
                /\ table.required \ {"admLevel"} \subseteq named \cap given
                /\ \A r \in table.references : r[1] \in table.columns /\ r[2] < l
                /\ table.indexed \subseteq table.columns

\* With tables of the saved configuration every read, update and
\* de-duplication names columns its table has: what the query classes let
\* through, the columns they select, a level's part of the union, and what
\* update-field compares and sets.
StatementsFit ==
    built # None /\ built = saved /\ ~GeometryLeftOut =>
        \A l \in Levels :
            LET fk == IF InSql THEN FkColumn ELSE FkField
            IN  GetAdmTableColumns(l, saved, fk, ~InSql, FALSE)
                \cup Q!Named(db, l, saved)
                \cup Manipulated(l, saved)
                \cup When(InSql, GetAdmEntityUnionSetColumns(l, saved))
                \cup When("hasGeojson" \in saved, UpdatesGeojson(l))
                \subseteq BuiltTable(l).columns

\* Violated: what a job inserts into MongoDB has every required field
\* (README.md:381: hasAdmLevel stores the level of every entity).
InsertFitsMongo ==
    pc = "insert" /\ built = job =>
        \A l \in Levels :
            BuiltTable(l).required \subseteq
                CreateMany(l, job) \cap
                    (Supplied(l, job) \cup {"createdAt", "updatedAt"})
=============================================================================
