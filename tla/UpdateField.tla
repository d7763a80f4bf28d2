----------------------------- MODULE UpdateField -----------------------------
(***************************************************************************)
(* The update-field command: renaming an administrative division in its    *)
(* own table and in every table that repeats its name, by several commands *)
(* at once, each in a transaction of its database.                         *)
(*                                                                         *)
(* Source: commands/update-field.command.ts, the transaction() of the      *)
(* connections in adapters and their _updateFieldByIds().                  *)
(*                                                                         *)
(* An UPDATE takes the locks of its rows in one step, and rows do not come, *)
(* go or move (SeedJob has the seeding command).  A name stands for all    *)
(* the names its column's collation takes for equal.                       *)
(***************************************************************************)
EXTENDS AdmTables, Sequences

CONSTANTS
    Databases,   \* among "sqlite", "postgres", "mysql" and "mongo"
    Configs,
    Rows,
    Lineage,     \* a row's ancestors by level, from the province to itself
    Names,
    FirstName,   \* the name each row was seeded with
    Commands     \* processes, each of which runs the command once

LevelOf(r) == Len(Lineage[r])

ASSUME ConstantsAssumption ==
    /\ Databases \subseteq {"sqlite", "postgres", "mysql", "mongo"}
    /\ Configs \subseteq SUBSET Options
    /\ Lineage \in [Rows -> Seq(Rows)]
    /\ \A r \in Rows : LevelOf(r) \in Levels /\ Lineage[r][LevelOf(r)] = r
    /\ \A r \in Rows : \A a \in 1 .. LevelOf(r) :
            Lineage[Lineage[r][a]] = SubSeq(Lineage[r], 1, a)
    /\ Names # {} /\ FirstName \in [Rows -> Names]

VARIABLES
    db, config,
    store,      \* the names in each row's columns, as committed
    geometry,   \* the rows whose geometry was replaced
    pc,
    target,     \* targetLevel
    identifier, \* the names given for the target
    value,
    level,      \* currentLevel
    entities,   \* currentIds
    written,    \* rows the open transaction has updated, and locks
    stale,      \* MongoDB: rows others committed since the snapshot
    disturbed   \* history: SQLite's commands overlapped, or one was stopped

vars == <<db, config, store, geometry, pc, target, identifier, value, level,
          entities, written, stale, disturbed>>
request == <<target, identifier, value>>

\* The names a row has in columns of its own.
Columns(r) == NamesRepeated(LevelOf(r), config) \cup {LevelOf(r)}

\* enforceAdmLevelIdentifiers: the names that identify a row of a level.
Identifiers(l) ==
    CASE l = Commune -> {Commune, District}
      [] l = Fokontany -> {Fokontany, Commune, District}
      [] OTHER -> {l}

Running == {"update", "children", "commit", "show"}
Ended == {"done", "notFound", "failed"}

TypeOK ==
    /\ db \in Databases /\ config \in Configs
    /\ \A r \in Rows : store[r] \in [Columns(r) -> Names]
    /\ geometry \subseteq Rows
    /\ \A c \in Commands :
        /\ pc[c] \in {"new"} \cup Running \cup Ended
        /\ target[c] \in Levels /\ level[c] \in target[c] .. Fokontany
        /\ value[c] \in Names
        /\ entities[c] \subseteq {r \in Rows : LevelOf(r) = level[c]}
        /\ written[c] # {} => pc[c] \in {"update", "children", "commit"}
        /\ stale[c] \subseteq Rows
    /\ disturbed \in BOOLEAN

Init ==
    /\ db \in Databases /\ config \in Configs
    /\ store = [r \in Rows |-> [a \in Columns(r) |-> FirstName[Lineage[r][a]]]]
    /\ geometry = {}
    /\ pc = [c \in Commands |-> "new"]
    /\ target = [c \in Commands |-> Province]
    /\ identifier = [c \in Commands |-> <<>>]
    /\ value = [c \in Commands |-> CHOOSE n \in Names : TRUE]
    /\ level = [c \in Commands |-> Province]
    /\ entities = [c \in Commands |-> {}]
    /\ written = [c \in Commands |-> {}]
    /\ stale = [c \in Commands |-> {}]
    /\ disturbed = FALSE
-----------------------------------------------------------------------------
(* The databases *)

\* transaction() of SQLite commits before the callback's first awaited read is
\* used: every later statement commits by itself.
Transactional == db # "sqlite"

Identified(l, names) ==
    {r \in Rows : LevelOf(r) = l /\ \A a \in Identifiers(l) : store[r][a] = names[a]}

LockedByOthers(c) == UNION {written[d] : d \in Commands \ {c}}

\* The store with a command's value in the target's column of some rows.
Updated(c, rows) ==
    [r \in Rows |-> IF r \in rows THEN [store[r] EXCEPT ![target[c]] = value[c]]
                    ELSE store[r]]

\* Mutant: what others committed is overwritten.
OpenConflict(c) == db = "mongo" /\ entities[c] \cap LockedByOthers(c) # {}

\* MongoDB refuses to overwrite what is not as the snapshot has it.
Conflict(c) ==
    db = "mongo" /\ entities[c] \cap (LockedByOthers(c) \cup stale[c]) # {}

\* The others' snapshots lack what is committed now.
Outdated(c, rows) ==
    stale' = [d \in Commands |->
                IF d # c /\ pc[d] \in Running THEN stale[d] \cup rows ELSE stale[d]]
-----------------------------------------------------------------------------
(* Renaming *)

\* BEGIN, and the target is looked up.  Deno.exit() when there is none.
Find(c) ==
    /\ pc[c] = "new"
    /\ \E l \in Levels, v \in Names :
        \E names \in [Identifiers(l) -> Names] :
            /\ target' = [target EXCEPT ![c] = l]
            /\ level' = [level EXCEPT ![c] = l]
            /\ identifier' = [identifier EXCEPT ![c] = names]
            /\ value' = [value EXCEPT ![c] = v]
            /\ entities' = [entities EXCEPT ![c] = Identified(l, names)]
            /\ pc' = [pc EXCEPT ![c] = IF Identified(l, names) = {}
                                       THEN "notFound" ELSE "update"]
    /\ disturbed' = (disturbed \/ (~Transactional
                                    /\ \E d \in Commands : pc[d] \in Running))
    /\ UNCHANGED <<db, config, store, geometry, written, stale>>

\* updateFieldByIds() on the level's table waits for locked rows.
Update(c) ==
    /\ pc[c] = "update"
    /\ ~Conflict(c) /\ entities[c] \cap LockedByOthers(c) = {}
    /\ IF Transactional
       THEN /\ written' = [written EXCEPT ![c] = @ \cup entities[c]]
            /\ UNCHANGED store
       ELSE store' = Updated(c, entities[c]) /\ UNCHANGED written
    /\ pc' = [pc EXCEPT ![c] = "children"]
    /\ UNCHANGED <<db, config, geometry, request, level, entities, stale,
                   disturbed>>

\* Mutant: a province's name is never repeated below the regions.
LastLevelAlways(c) == IF target[c] = Province THEN Region ELSE Fokontany

\* The last level whose table may repeat the target's name.
LastLevel(c) ==
    IF target[c] = Province /\ "isProvinceRepeated" \notin config
    THEN Region ELSE Fokontany

\* The rows of the next level below those just updated.
Children(c) ==
    LET l == level[c] + 1
        children == {r \in Rows : LevelOf(r) = l /\ Lineage[r][l - 1] \in entities[c]}
    IN  /\ pc[c] = "children"
        /\ IF l > LastLevel(c) \/ children = {}
           THEN pc' = [pc EXCEPT ![c] = "commit"] /\ UNCHANGED <<level, entities>>
           ELSE /\ pc' = [pc EXCEPT ![c] = "update"]
                /\ level' = [level EXCEPT ![c] = l]
                /\ entities' = [entities EXCEPT ![c] = children]
        /\ UNCHANGED <<db, config, store, geometry, request, written, stale,
                       disturbed>>

Commit(c) ==
    /\ pc[c] = "commit"
    /\ store' = Updated(c, written[c])
    /\ written' = [written EXCEPT ![c] = {}]
    /\ Outdated(c, written[c])
    /\ pc' = [pc EXCEPT ![c] = "show"]
    /\ UNCHANGED <<db, config, geometry, request, level, entities, disturbed>>

\* The updated row is looked up again and printed.
Show(c) ==
    /\ pc[c] = "show"
    /\ pc' = [pc EXCEPT ![c] = "done"]
    /\ UNCHANGED <<db, config, store, geometry, request, level, entities, written,
                   stale, disturbed>>

\* Mutant: no rollback.
StopHolding(c) ==
    /\ pc[c] \in Running
    /\ pc' = [pc EXCEPT ![c] = "failed"]
    /\ disturbed' = (disturbed \/ (~Transactional /\ pc[c] # "show"))
    /\ UNCHANGED <<db, config, store, geometry, request, level, entities, written,
                   stale>>

\* A statement fails, as on a conflict, or the process dies: rollback.
Stop(c) ==
    /\ pc[c] \in Running
    /\ pc' = [pc EXCEPT ![c] = "failed"]
    /\ written' = [written EXCEPT ![c] = {}]
    /\ disturbed' = (disturbed \/ (~Transactional /\ pc[c] # "show"))
    /\ UNCHANGED <<db, config, store, geometry, request, level, entities, stale>>
-----------------------------------------------------------------------------
(* Replacing a geometry: one statement, outside of any transaction.  It    *)
(* waits for locked rows, and fails when there is no such column.          *)

UpdateGeojson(c) ==
    /\ pc[c] = "new"
    /\ \E l \in Levels : \E names \in [Identifiers(l) -> Names] :
        LET rows == Identified(l, names)
        IN  /\ rows \cap LockedByOthers(c) = {}
            /\ IF "hasGeojson" \notin config
               THEN /\ pc' = [pc EXCEPT ![c] = "failed"]
                    /\ UNCHANGED <<geometry, stale>>
               ELSE /\ geometry' = geometry \cup rows
                    /\ Outdated(c, rows)
                    /\ pc' = [pc EXCEPT ![c] =
                                IF rows = {} THEN "notFound" ELSE "done"]
    /\ UNCHANGED <<db, config, store, request, level, entities, written, disturbed>>
-----------------------------------------------------------------------------
Step(c) == Update(c) \/ Children(c) \/ Commit(c) \/ Show(c)

Finished == (\A c \in Commands : pc[c] \in Ended) /\ UNCHANGED vars

Next ==
    \/ \E c \in Commands : Find(c) \/ Step(c) \/ Stop(c) \/ UpdateGeojson(c)
    \/ Finished

Spec == Init /\ [][Next]_vars

\* The database answers, and ends the transactions of a process that is gone
\* and those in conflict.
Fairness ==
    \A c \in Commands : WF_vars(Step(c)) /\ WF_vars(Conflict(c) /\ Stop(c))

FairSpec == Spec /\ Fairness
-----------------------------------------------------------------------------
(* Properties *)

\* Every copy of a division's name is the name the division has, in what
\* anyone else can read, whatever commands are on their way.  Without
\* transactions that is so only between commands, as long as none was stopped
\* and no two overlapped.
NamesAgree ==
    ~disturbed /\ (Transactional \/ \A c \in Commands : pc[c] \notin Running) =>
        \A r \in Rows : \A a \in Columns(r) : store[r][a] = store[Lineage[r][a]][a]

\* On MongoDB no command renames a row that has lost the name it was found by.
\* (Elsewhere the second of two commands that found the same row overwrites
\* the first one's name: README.md, section 7.)
NoStaleRename ==
    [][db = "mongo" => \A c \in Commands : \A r \in written[c] :
        pc[c] = "commit" /\ pc'[c] = "show" /\ LevelOf(r) = target[c] =>
            r \in Identified(target[c], identifier[c])]_vars

\* Nobody waits for ever: locks are taken from the upper levels down, and
\* whoever ends gives back all of them.
EveryCommandEnds == \A c \in Commands : pc[c] \in Running ~> pc[c] \in Ended
=============================================================================
