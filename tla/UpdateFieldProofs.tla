-------------------------- MODULE UpdateFieldProofs --------------------------
(***************************************************************************)
(* Proofs about UpdateField, for any tree of divisions, any names and any  *)
(* number of commands: type correctness, that the copies of a name agree,  *)
(* and that on MongoDB only rows which still have the names they were      *)
(* found by are renamed.                                                   *)
(*                                                                         *)
(* The inductive invariant (IInv, at the end) adds to TypeOK how far down  *)
(* the levels each command is.  What it has written in its transaction, or *)
(* without transactions the names in the store, is a mark on the rows; a   *)
(* row and the one whose name it repeats have the same mark, except below  *)
(* the rows the command is at (Halfway).  The commands need not know of    *)
(* each other for that: only Fresh uses the locks and the snapshots.       *)
(***************************************************************************)
EXTENDS UpdateField, TLAPS

\* What TypeOK leaves unsaid: which variables are functions of what.
Functional ==
    /\ store = [r \in Rows |-> store[r]]
    /\ pc \in [Commands -> {"new"} \cup Running \cup Ended]
    /\ target \in [Commands -> Levels] /\ level \in [Commands -> Levels]
    /\ value \in [Commands -> Names]
    /\ identifier = [c \in Commands |-> identifier[c]]
    /\ entities \in [Commands -> SUBSET Rows]
    /\ written \in [Commands -> SUBSET Rows] /\ stale \in [Commands -> SUBSET Rows]

Typed == TypeOK /\ Functional

\* What a row's lineage says of those above it.
LEMMA LineageFacts ==
    ASSUME NEW r \in Rows, NEW a \in 1 .. LevelOf(r)
    PROVE  /\ LevelOf(r) \in Levels /\ a \in Levels /\ Lineage[r][a] \in Rows
           /\ LevelOf(Lineage[r][a]) = a
           /\ \A b \in 1 .. a : Lineage[Lineage[r][a]][b] = Lineage[r][b]
           /\ Lineage[r][LevelOf(r)] = r
<1>1. /\ Lineage[r] \in Seq(Rows) /\ LevelOf(r) = Len(Lineage[r]) /\ LevelOf(r) \in Levels
      /\ Lineage[r][LevelOf(r)] = r
      /\ Lineage[Lineage[r][a]] = SubSeq(Lineage[r], 1, a)
  BY ConstantsAssumption DEF LevelOf
<1>2. a \in Levels /\ Lineage[r][a] \in Rows
  BY <1>1 DEF Levels
<1>3. LevelOf(Lineage[r][a]) = a
  BY <1>1 DEF LevelOf, Levels
<1>4. \A b \in 1 .. a : Lineage[Lineage[r][a]][b] = Lineage[r][b]
  BY <1>1 DEF Levels
<1>. QED
  BY <1>1, <1>2, <1>3, <1>4

LEMMA ColumnsFacts ==
    ASSUME NEW r \in Rows, NEW a \in Columns(r)
    PROVE  a \in 1 .. LevelOf(r) /\ a \in Columns(Lineage[r][a])
<1>1. LevelOf(r) \in Levels
  BY ConstantsAssumption
<1>2. a \in 1 .. LevelOf(r)
  BY <1>1 DEF Columns, NamesRepeated, Levels
<1>3. LevelOf(Lineage[r][a]) = a
  BY <1>2, LineageFacts
<1>. QED
  BY <1>2, <1>3 DEF Columns

LEMMA TypedStart == Init => Typed
<1> SUFFICES ASSUME Init PROVE Typed
    OBVIOUS
<1>1. (CHOOSE n \in Names : TRUE) \in Names
  BY ConstantsAssumption
<1>2. Province \in Levels /\ Province \in Province .. Fokontany
  BY DEF Province, Levels, Fokontany
<1>3. ASSUME NEW r \in Rows PROVE store[r] \in [Columns(r) -> Names]
  <2>1. store[r] = [a \in Columns(r) |-> FirstName[Lineage[r][a]]]
    BY DEF Init
  <2>2. ASSUME NEW a \in Columns(r) PROVE FirstName[Lineage[r][a]] \in Names
    BY ColumnsFacts, LineageFacts, ConstantsAssumption
  <2>. QED
    BY <2>1, <2>2
<1>4. Functional
  BY <1>1, <1>2 DEF Init, Functional
<1>5. TypeOK
  BY <1>1, <1>2, <1>3 DEF Init, TypeOK
<1>. QED
  BY <1>4, <1>5 DEF Typed

\* A command's value in the target's column of some rows.
LEMMA UpdatedFacts ==
    ASSUME Typed, NEW c \in Commands, NEW rows
    PROVE  /\ \A r \in Rows : Updated(c, rows)[r] \in [Columns(r) -> Names]
           /\ Updated(c, rows) = [r \in Rows |-> Updated(c, rows)[r]]
           /\ \A r \in Rows : \A a \in Columns(r) :
                Updated(c, rows)[r][a] =
                    IF r \in rows /\ a = target[c] THEN value[c] ELSE store[r][a]
<1>1. \A r \in Rows : Updated(c, rows)[r] =
            IF r \in rows THEN [store[r] EXCEPT ![target[c]] = value[c]] ELSE store[r]
  BY DEF Updated
<1>2. value[c] \in Names /\ \A r \in Rows : store[r] \in [Columns(r) -> Names]
  BY DEF Typed, TypeOK
<1>3. Updated(c, rows) = [r \in Rows |-> Updated(c, rows)[r]]
  BY DEF Updated
<1>. QED
  BY <1>1, <1>2, <1>3

\* What TypeOK says of one command.
CommandOK(c) ==
    /\ pc[c] \in {"new"} \cup Running \cup Ended
    /\ target[c] \in Levels /\ level[c] \in target[c] .. Fokontany
    /\ value[c] \in Names
    /\ entities[c] \subseteq {r \in Rows : LevelOf(r) = level[c]}
    /\ written[c] # {} => pc[c] \in {"update", "children", "commit"}
    /\ stale[c] \subseteq Rows

LEMMA TypeParts ==
    TypeOK <=> /\ db \in Databases /\ config \in Configs
               /\ \A r \in Rows : store[r] \in [Columns(r) -> Names]
               /\ geometry \subseteq Rows /\ disturbed \in BOOLEAN
               /\ \A c \in Commands : CommandOK(c)
BY DEF TypeOK, CommandOK

\* A step of one command leaves the others' part of the types alone.
LEMMA OthersTyped ==
    ASSUME Typed, NEW c \in Commands, UNCHANGED <<db, config>>, CommandOK(c)', Functional',
           \A r \in Rows : store'[r] \in [Columns(r) -> Names],
           geometry' \subseteq Rows, disturbed' \in BOOLEAN,
           \A d \in Commands \ {c} :
                /\ pc'[d] = pc[d] /\ target'[d] = target[d] /\ level'[d] = level[d]
                /\ value'[d] = value[d] /\ entities'[d] = entities[d]
                /\ written'[d] = written[d]
    PROVE  Typed'
<1>1. ASSUME NEW d \in Commands \ {c} PROVE CommandOK(d)'
  <2>1. CommandOK(d) /\ stale'[d] \subseteq Rows
    BY TypeParts DEF Typed, Functional
  <2>. QED
    BY <2>1 DEF CommandOK
<1>2. \A d \in Commands : CommandOK(d)'
  BY <1>1
<1>3. \A r \in Rows : Columns(r)' = Columns(r)
  BY DEF Columns
<1>4. TypeOK'
  BY <1>2, <1>3 DEF Typed, TypeOK, CommandOK
<1>. QED
  BY <1>4 DEF Typed

LEMMA FindTyped ==
    ASSUME Typed, NEW c \in Commands, Find(c)
    PROVE  Typed'
<1>0. PICK l \in Levels, v \in Names : \E names \in [Identifiers(l) -> Names] :
        /\ target' = [target EXCEPT ![c] = l]
        /\ level' = [level EXCEPT ![c] = l]
        /\ identifier' = [identifier EXCEPT ![c] = names]
        /\ value' = [value EXCEPT ![c] = v]
        /\ entities' = [entities EXCEPT ![c] = Identified(l, names)]
        /\ pc' = [pc EXCEPT ![c] = IF Identified(l, names) = {}
                                   THEN "notFound" ELSE "update"]
  BY DEF Find
<1>1. PICK names \in [Identifiers(l) -> Names] :
        /\ target' = [target EXCEPT ![c] = l]
        /\ level' = [level EXCEPT ![c] = l]
        /\ identifier' = [identifier EXCEPT ![c] = names]
        /\ value' = [value EXCEPT ![c] = v]
        /\ entities' = [entities EXCEPT ![c] = Identified(l, names)]
        /\ pc' = [pc EXCEPT ![c] = IF Identified(l, names) = {}
                                   THEN "notFound" ELSE "update"]
  BY <1>0
<1>2. /\ pc[c] = "new" /\ disturbed' \in BOOLEAN
      /\ UNCHANGED <<db, config, store, geometry, written, stale>>
  BY DEF Find, Typed, TypeOK
<1>3. Identified(l, names) \subseteq {r \in Rows : LevelOf(r) = l}
  BY DEF Identified
<1>4. Functional'
  BY <1>1, <1>2, <1>3 DEF Typed, Functional, Running, Ended
<1>5. CommandOK(c)'
  <2>1. CommandOK(c) /\ written[c] = {}
    BY <1>2, TypeParts DEF Typed, CommandOK
  <2>2. /\ target'[c] = l /\ level'[c] = l /\ value'[c] = v
        /\ entities'[c] = Identified(l, names)
        /\ pc'[c] \in {"notFound", "update"}
    BY <1>1 DEF Typed, Functional
  <2>. QED
    BY <1>2, <1>3, <2>1, <2>2 DEF CommandOK, Running, Ended, Levels, Fokontany
<1>. QED
  BY <1>1, <1>2, <1>4, <1>5, OthersTyped DEF Typed, TypeOK, Functional

LEMMA UpdateTyped ==
    ASSUME Typed, NEW c \in Commands, Update(c)
    PROVE  Typed'
<1>1. /\ pc[c] = "update" /\ pc' = [pc EXCEPT ![c] = "children"]
      /\ UNCHANGED <<db, config, geometry, target, identifier, value, level, entities,
                     stale, disturbed>>
      /\ \/ written' = [written EXCEPT ![c] = @ \cup entities[c]] /\ UNCHANGED store
         \/ store' = Updated(c, entities[c]) /\ UNCHANGED written
  BY DEF Update, request
<1>2. CommandOK(c) /\ entities[c] \subseteq Rows
  BY TypeParts DEF Typed, Functional
<1>3. /\ \A r \in Rows : store'[r] \in [Columns(r) -> Names]
      /\ store' = [r \in Rows |-> store'[r]]
  BY <1>1, UpdatedFacts DEF Typed, TypeOK, Functional
<1>4. Functional'
  BY <1>1, <1>2, <1>3 DEF Typed, Functional, Running
<1>5. CommandOK(c)'
  BY <1>1, <1>2 DEF CommandOK, Running, Typed, Functional
<1>. QED
  BY <1>1, <1>3, <1>4, <1>5, OthersTyped DEF Typed, TypeOK, Functional

LEMMA ChildrenTyped ==
    ASSUME Typed, NEW c \in Commands, Children(c)
    PROVE  Typed'
<1>. DEFINE l == level[c] + 1
            children == {r \in Rows : LevelOf(r) = l /\ Lineage[r][l - 1] \in entities[c]}
<1>1. /\ pc[c] = "children"
      /\ UNCHANGED <<db, config, store, geometry, target, identifier, value, written,
                     stale, disturbed>>
      /\ \/ pc' = [pc EXCEPT ![c] = "commit"] /\ UNCHANGED <<level, entities>>
         \/ /\ l <= LastLevel(c)
            /\ pc' = [pc EXCEPT ![c] = "update"]
            /\ level' = [level EXCEPT ![c] = l]
            /\ entities' = [entities EXCEPT ![c] = children]
  <2>1. level[c] \in Nat /\ LastLevel(c) \in Nat
    BY DEF Typed, Functional, Levels, LastLevel, Region, Fokontany
  <2>. QED
    BY <2>1 DEF Children, request
<1>2. CommandOK(c) /\ LastLevel(c) \in 1 .. Fokontany
  BY TypeParts DEF Typed, LastLevel, Region, Fokontany
<1>3. l <= LastLevel(c) => l \in Levels /\ l \in target[c] .. Fokontany
  BY <1>2 DEF CommandOK, Levels, Fokontany
<1>4. children \in SUBSET Rows /\ children \subseteq {r \in Rows : LevelOf(r) = l}
  OBVIOUS
<1>. HIDE DEF l, children
<1>5. Functional'
  BY <1>1, <1>3, <1>4 DEF Typed, Functional, Running
<1>6. CommandOK(c)'
  BY <1>1, <1>2, <1>3, <1>4 DEF CommandOK, Running, Typed, Functional
<1>. QED
  BY <1>1, <1>5, <1>6, OthersTyped DEF Typed, TypeOK, Functional

LEMMA OutdatedFacts ==
    ASSUME Typed, NEW c \in Commands, NEW rows \in SUBSET Rows, Outdated(c, rows)
    PROVE  stale' \in [Commands -> SUBSET Rows]
BY DEF Outdated, Typed, Functional

LEMMA CommitTyped ==
    ASSUME Typed, NEW c \in Commands, Commit(c)
    PROVE  Typed'
<1>1. /\ pc[c] = "commit" /\ pc' = [pc EXCEPT ![c] = "show"]
      /\ written' = [written EXCEPT ![c] = {}]
      /\ store' = Updated(c, written[c])
      /\ UNCHANGED <<db, config, geometry, target, identifier, value, level, entities,
                     disturbed>>
      /\ Outdated(c, written[c])
  BY DEF Commit, request
<1>2. CommandOK(c) /\ stale' \in [Commands -> SUBSET Rows]
  BY <1>1, OutdatedFacts, TypeParts DEF Typed, Functional
<1>3. /\ \A r \in Rows : store'[r] \in [Columns(r) -> Names]
      /\ store' = [r \in Rows |-> store'[r]]
  BY <1>1, UpdatedFacts
<1>4. Functional'
  BY <1>1, <1>2, <1>3 DEF Typed, Functional, Running
<1>5. CommandOK(c)'
  BY <1>1, <1>2 DEF CommandOK, Running, Typed, Functional
<1>. QED
  BY <1>1, <1>3, <1>4, <1>5, OthersTyped DEF Typed, TypeOK, Functional

LEMMA EndTyped ==
    ASSUME Typed, NEW c \in Commands, Show(c) \/ Stop(c)
    PROVE  Typed'
<1>1. PICK p \in {"done", "failed"} : pc' = [pc EXCEPT ![c] = p]
  BY DEF Show, Stop
<1>2. /\ UNCHANGED <<db, config, store, geometry, target, identifier, value, level,
                     entities, stale>>
      /\ disturbed' \in BOOLEAN
      /\ written' = [written EXCEPT ![c] = {}]
  <2>1. pc[c] = "show" => written[c] = {}
    BY DEF Typed, TypeOK
  <2>2. Show(c) => written' = [written EXCEPT ![c] = {}]
    BY <2>1 DEF Show, Typed, Functional
  <2>. QED
    BY <2>2 DEF Show, Stop, request, Typed, TypeOK
<1>3. CommandOK(c)
  BY TypeParts DEF Typed
<1>4. Functional'
  BY <1>1, <1>2 DEF Typed, Functional, Ended
<1>5. CommandOK(c)'
  BY <1>1, <1>2, <1>3 DEF CommandOK, Ended, Typed, Functional
<1>. QED
  BY <1>1, <1>2, <1>4, <1>5, OthersTyped DEF Typed, TypeOK, Functional

\* What a replaced geometry changes.
GeojsonStep(c, rows) ==
    IF "hasGeojson" \notin config
    THEN pc' = [pc EXCEPT ![c] = "failed"] /\ UNCHANGED <<geometry, stale>>
    ELSE /\ geometry' = geometry \cup rows
         /\ Outdated(c, rows)
         /\ pc' = [pc EXCEPT ![c] = IF rows = {} THEN "notFound" ELSE "done"]

LEMMA GeojsonTyped ==
    ASSUME Typed, NEW c \in Commands, UpdateGeojson(c)
    PROVE  Typed'
<1>1. PICK l \in Levels : \E names \in [Identifiers(l) -> Names] :
        GeojsonStep(c, Identified(l, names))
  BY DEF UpdateGeojson, GeojsonStep
<1>2. /\ pc[c] = "new"
      /\ UNCHANGED <<db, config, store, target, identifier, value, level, entities,
                     written, disturbed>>
  BY DEF UpdateGeojson, request
<1>3. PICK rows \in SUBSET Rows : GeojsonStep(c, rows)
  BY <1>1 DEF Identified
<1>4. PICK p \in Ended : pc' = [pc EXCEPT ![c] = p]
  BY <1>3 DEF Ended, GeojsonStep
<1>5. geometry' \subseteq Rows /\ stale' \in [Commands -> SUBSET Rows]
  BY <1>3, OutdatedFacts DEF Typed, TypeOK, Functional, GeojsonStep
<1>6. CommandOK(c)
  BY TypeParts DEF Typed
<1>7. Functional'
  BY <1>2, <1>4, <1>5 DEF Typed, Functional
<1>8. CommandOK(c)'
  BY <1>2, <1>4, <1>5, <1>6 DEF CommandOK, Ended, Typed, Functional
<1>. QED
  BY <1>2, <1>4, <1>5, <1>7, <1>8, OthersTyped DEF Typed, TypeOK, Functional

LEMMA TypedKeep == Typed /\ [Next]_vars => Typed'
<1> SUFFICES ASSUME Typed, [Next]_vars PROVE Typed'
    OBVIOUS
<1>1. ASSUME NEW c \in Commands, Find(c) \/ Step(c) \/ Stop(c) \/ UpdateGeojson(c)
      PROVE  Typed'
  BY <1>1, FindTyped, UpdateTyped, ChildrenTyped, CommitTyped, EndTyped, GeojsonTyped
  DEF Step
<1>2. CASE UNCHANGED vars
  BY <1>2 DEF vars, Typed, TypeOK, Functional, Columns
<1>. QED
  BY <1>1, <1>2 DEF Next, Finished
-----------------------------------------------------------------------------
(* Names agree.  While a command goes down the levels, each row it has to  *)
(* reach has a mark once it is there: that the transaction has written it, *)
(* or, without transactions, the name it has.                              *)

Mark(c) ==
    IF Transactional THEN [r \in Rows |-> IF r \in written[c] THEN 1 ELSE 0]
    ELSE [r \in Rows |-> store[r][target[c]]]

MarkOf(c) == IF Transactional THEN 1 ELSE value[c]

\* A row that repeats the name of a level has the mark of the one it repeats.
Alike(f, t, r) == t \in Columns(r) => f[r] = f[Lineage[r][t]]

\* So do the rows down to a level, and below, those under none of the rows
\* that are next, or were last; these are under marked rows.
Halfway(f, v, t, done, l, rows) ==
    /\ \A r \in Rows :
        LevelOf(r) <= done \/ (LevelOf(r) >= l /\ Lineage[r][l] \notin rows)
            => Alike(f, t, r)
    /\ \A r \in rows : f[Lineage[r][t]] = v

Renaming(c) ==
    LET marked(l) == Halfway(Mark(c), MarkOf(c), target[c], l, level[c], entities[c])
    IN  /\ pc[c] \in {"update", "children"} => level[c] <= LastLevel(c)
        /\ IF pc[c] = "children" THEN marked(level[c])
           ELSE IF pc[c] = "update" /\ level[c] > target[c] THEN marked(level[c] - 1)
           ELSE \A r \in Rows : Alike(Mark(c), target[c], r)

ColumnAgrees(a) == \A r \in Rows : a \in Columns(r) => store[r][a] = store[Lineage[r][a]][a]

Agreement ==
    ~disturbed =>
        /\ Transactional \/ \A c, d \in Commands :
                pc[c] \in Running /\ pc[d] \in Running => c = d
        /\ \A a \in Levels :
                Transactional \/ (\A c \in Commands : pc[c] \in Running => target[c] # a)
                    => ColumnAgrees(a)
        /\ \A c \in Commands : pc[c] \in Running => Renaming(c)
-----------------------------------------------------------------------------
(* On MongoDB, what a command has written nobody else has, and of what it  *)
(* found under the names it was given only what others have committed      *)
(* since may have others.                                                  *)

Reached(c) == written[c] \cup (IF pc[c] = "update" THEN entities[c] ELSE {})

Fresh ==
    db = "mongo" =>
        /\ \A c, d \in Commands : c # d => written[c] \cap written[d] = {}
        /\ \A c \in Commands : written[c] \cap stale[c] = {}
        /\ \A c \in Commands : pc[c] \in {"update", "children", "commit"} =>
            \A r \in Reached(c) : LevelOf(r) = target[c] /\ r \notin stale[c] =>
                r \in Identified(target[c], identifier[c])

LEMMA RootFacts ==
    ASSUME NEW r \in Rows, NEW t, t \in Columns(r)
    PROVE  /\ t \in 1 .. LevelOf(r) /\ LevelOf(r) \in Levels
           /\ Lineage[r][t] \in Rows /\ LevelOf(Lineage[r][t]) = t
           /\ Lineage[Lineage[r][t]][t] = Lineage[r][t]
           /\ t \in Columns(Lineage[r][t])
           /\ Lineage[r][LevelOf(r)] = r
<1>1. t \in 1 .. LevelOf(r) /\ t \in Columns(Lineage[r][t])
  BY ColumnsFacts
<1>2. /\ LevelOf(r) \in Levels /\ t \in Levels /\ Lineage[r][t] \in Rows
      /\ LevelOf(Lineage[r][t]) = t
      /\ \A b \in 1 .. t : Lineage[Lineage[r][t]][b] = Lineage[r][b]
      /\ Lineage[r][LevelOf(r)] = r
  BY <1>1, LineageFacts
<1>. QED
  BY <1>1, <1>2 DEF Levels

\* Marking the rows that are next.
LEMMA Marking ==
    ASSUME NEW f, NEW g, NEW v, NEW t \in Levels, NEW l \in t .. Fokontany,
           NEW rows \in SUBSET {r \in Rows : LevelOf(r) = l},
           IF l > t THEN Halfway(f, v, t, l - 1, l, rows)
                    ELSE \A r \in Rows : Alike(f, t, r),
           \A r \in Rows : t \in Columns(r) => g[r] = IF r \in rows THEN v ELSE f[r]
    PROVE  Halfway(g, v, t, l, l, rows)
<1>0. l \in Levels /\ t \in Nat /\ l \in Nat /\ l >= t
  BY DEF Levels, Fokontany
<1>1. ASSUME NEW r \in Rows,
             LevelOf(r) <= l \/ (LevelOf(r) >= l /\ Lineage[r][l] \notin rows),
             t \in Columns(r)
      PROVE  g[r] = g[Lineage[r][t]]
  <2>. DEFINE x == Lineage[r][t]
  <2>1. /\ x \in Rows /\ LevelOf(x) = t /\ t \in Columns(x) /\ Lineage[r][LevelOf(r)] = r
        /\ LevelOf(r) \in Levels /\ t <= LevelOf(r)
    BY <1>1, RootFacts DEF Levels
  <2>2. g[r] = (IF r \in rows THEN v ELSE f[r]) /\ g[x] = (IF x \in rows THEN v ELSE f[x])
    BY <1>1, <2>1
  <2>3. CASE l = t
    <3>1. f[r] = f[x]
      BY <1>1, <2>3 DEF Alike
    <3>2. CASE LevelOf(r) = t
      BY <3>2, <2>1
    <3>3. CASE LevelOf(r) > t
      BY <3>1, <3>3, <2>1, <2>2, <2>3, <1>1, <1>0 DEF Levels
    <3>. QED
      BY <3>2, <3>3, <2>1, <1>0 DEF Levels
  <2>4. CASE l > t
    <3>1. x \notin rows
      BY <2>1, <2>4, <1>0
    <3>2. CASE r \in rows
      BY <3>1, <3>2, <2>2, <2>4 DEF Halfway
    <3>3. CASE r \notin rows
      <4>1. LevelOf(r) <= l - 1 \/ (LevelOf(r) >= l /\ Lineage[r][l] \notin rows)
        BY <3>3, <1>1, <2>1, <1>0 DEF Levels
      <4>2. f[r] = f[x]
        BY <4>1, <1>1, <2>4 DEF Halfway, Alike
      <4>. QED
        BY <4>2, <3>1, <3>3, <2>2
    <3>. QED
      BY <3>2, <3>3
  <2>. QED
    BY <2>3, <2>4, <1>0
<1>2. ASSUME NEW r \in rows PROVE g[Lineage[r][t]] = v
  <2>1. t \in 1 .. LevelOf(r) /\ r \in Rows /\ LevelOf(r) = l
    BY <1>0 DEF Levels
  <2>2. /\ Lineage[r][t] \in Rows /\ LevelOf(Lineage[r][t]) = t
        /\ Lineage[r][LevelOf(r)] = r
    BY <2>1, LineageFacts
  <2>3. t \in Columns(Lineage[r][t])
    BY <2>2 DEF Columns
  <2>4. CASE l = t
    BY <2>4, <2>1, <2>2, <2>3
  <2>5. CASE l > t
    <3>1. f[Lineage[r][t]] = v
      BY <2>5 DEF Halfway
    <3>. QED
      BY <3>1, <2>2, <2>3
  <2>. QED
    BY <2>4, <2>5, <1>0
<1>. QED
  BY <1>1, <1>2 DEF Halfway, Alike

\* The rows of the next level below some of a level.
Below(l, rows) == {r \in Rows : LevelOf(r) = l + 1 /\ Lineage[r][l] \in rows}

\* Looking for the rows below.
LEMMA Descending ==
    ASSUME NEW f, NEW v, NEW t \in Levels, NEW l \in t .. Fokontany,
           NEW rows \in SUBSET {r \in Rows : LevelOf(r) = l},
           Halfway(f, v, t, l, l, rows)
    PROVE  /\ Halfway(f, v, t, l, l + 1, Below(l, rows))
           /\ Below(l, rows) = {} \/ (\A r \in Rows : t \in Columns(r) => LevelOf(r) <= l)
                => \A r \in Rows : Alike(f, t, r)
<1>. DEFINE children == Below(l, rows)
<1>c. children = {r \in Rows : LevelOf(r) = l + 1 /\ Lineage[r][l] \in rows}
  BY DEF Below
<1>. HIDE DEF children
<1>0. l \in Levels /\ t \in Nat /\ l \in Nat /\ l >= t /\ t >= 1
  BY DEF Levels, Fokontany
<1>1. ASSUME NEW r \in Rows, LevelOf(r) >= l + 1, Lineage[r][l + 1] \notin children
      PROVE  Lineage[r][l] \notin rows
  <2>1. LevelOf(r) \in Levels /\ l + 1 \in 1 .. LevelOf(r)
    BY <1>0, <1>1, ConstantsAssumption DEF Levels
  <2>2. /\ Lineage[r][l + 1] \in Rows /\ LevelOf(Lineage[r][l + 1]) = l + 1
        /\ Lineage[Lineage[r][l + 1]][l] = Lineage[r][l]
    BY <2>1, <1>0, LineageFacts
  <2>. QED
    BY <2>2, <1>1, <1>c
<1>2. ASSUME NEW r \in Rows PROVE LevelOf(r) \in Nat
  <2>1. LevelOf(r) \in Levels
    BY ConstantsAssumption
  <2>. QED
    BY <2>1 DEF Levels
<1>3. ASSUME NEW r \in Rows,
             LevelOf(r) <= l \/ (LevelOf(r) >= l + 1 /\ Lineage[r][l + 1] \notin children)
      PROVE  Alike(f, t, r)
  <2>1. LevelOf(r) <= l \/ (LevelOf(r) >= l /\ Lineage[r][l] \notin rows)
    BY <1>0, <1>1, <1>2, <1>3
  <2>. QED
    BY <2>1 DEF Halfway
<1>4. ASSUME NEW r \in children PROVE f[Lineage[r][t]] = v
  <2>1. r \in Rows /\ LevelOf(r) = l + 1 /\ Lineage[r][l] \in rows
    BY <1>c
  <2>2. l \in 1 .. LevelOf(r) /\ t \in 1 .. l
    BY <2>1, <1>0
  <2>3. Lineage[Lineage[r][l]][t] = Lineage[r][t]
    BY <2>1, <2>2, LineageFacts
  <2>4. f[Lineage[Lineage[r][l]][t]] = v
    BY <2>1 DEF Halfway
  <2>. QED
    BY <2>3, <2>4
<1>5. Halfway(f, v, t, l, l + 1, children)
  BY <1>3, <1>4 DEF Halfway
<1>6. ASSUME children = {} \/ \A r \in Rows : t \in Columns(r) => LevelOf(r) <= l,
             NEW r \in Rows
      PROVE  Alike(f, t, r)
  <2>1. CASE t \in Columns(r)
    <3>1. LevelOf(r) <= l \/ (LevelOf(r) >= l + 1 /\ Lineage[r][l + 1] \notin children)
      BY <1>0, <1>2, <1>6, <2>1
    <3>. QED
      BY <3>1, <1>3
  <2>. QED
    BY <2>1 DEF Alike
<1>. QED
  BY <1>5, <1>6 DEF children

\* No table below the last level repeats the target's name.
LEMMA LastLevelFacts ==
    ASSUME Typed, NEW c \in Commands, NEW r \in Rows, target[c] \in Columns(r)
    PROVE  LevelOf(r) <= LastLevel(c)
<1>1. LevelOf(r) \in Levels /\ target[c] \in Levels
  BY ConstantsAssumption DEF Typed, TypeOK
<1>. QED
  BY <1>1 DEF Columns, NamesRepeated, LastLevel, Levels, Province, Region, Fokontany

LEMMA MarkFacts ==
    ASSUME NEW c \in Commands, NEW r \in Rows
    PROVE  Mark(c)[r] = IF Transactional THEN (IF r \in written[c] THEN 1 ELSE 0)
                        ELSE store[r][target[c]]
BY DEF Mark

\* All a step of one command changes of what another one relies on is the
\* store, and that only where each has its transaction.
LEMMA RenamingKept ==
    ASSUME NEW d \in Commands, Renaming(d), UNCHANGED <<db, config>>,
           UNCHANGED store \/ Transactional,
           /\ pc'[d] = pc[d] /\ target'[d] = target[d] /\ level'[d] = level[d]
           /\ value'[d] = value[d] /\ entities'[d] = entities[d]
           /\ written'[d] = written[d]
    PROVE  Renaming(d)'
<1>1. Mark(d)' = Mark(d) /\ MarkOf(d)' = MarkOf(d) /\ LastLevel(d)' = LastLevel(d)
  BY DEF Mark, MarkOf, LastLevel, Transactional
<1>2. \A r, a : (a \in Columns(r))' <=> a \in Columns(r)
  BY DEF Columns
<1>. QED
  BY <1>1, <1>2 DEF Renaming, Halfway, Alike

LEMMA AgreementStep ==
    ASSUME Typed, Agreement, NEW c \in Commands, UNCHANGED <<db, config>>,
           disturbed => disturbed',
           \A d \in Commands \ {c} :
                /\ pc'[d] = pc[d] /\ target'[d] = target[d] /\ level'[d] = level[d]
                /\ value'[d] = value[d] /\ entities'[d] = entities[d]
                /\ written'[d] = written[d],
           ~disturbed' => /\ pc'[c] \in Running => Renaming(c)'
                          /\ \A a \in Levels :
                                (Transactional
                                    \/ \A d \in Commands : pc'[d] \in Running => target'[d] # a)
                                => ColumnAgrees(a)'
                          /\ UNCHANGED store \/ Transactional \/ pc[c] \in Running
                          /\ \/ Transactional \/ pc'[c] \notin Running
                             \/ pc[c] \in Running
                             \/ \A d \in Commands : pc[d] \notin Running
    PROVE  Agreement'
<1> SUFFICES ASSUME ~disturbed'
             PROVE  /\ Transactional' \/ \A d, e \in Commands :
                            pc'[d] \in Running /\ pc'[e] \in Running => d = e
                    /\ \A a \in Levels :
                            Transactional' \/ (\A d \in Commands : pc'[d] \in Running => target'[d] # a)
                                => ColumnAgrees(a)'
                    /\ \A d \in Commands : pc'[d] \in Running => Renaming(d)'
    BY DEF Agreement
<1>1. Transactional' <=> Transactional
  BY DEF Transactional
<1>2. /\ Transactional \/ \A d, e \in Commands :
            pc[d] \in Running /\ pc[e] \in Running => d = e
      /\ \A d \in Commands : pc[d] \in Running => Renaming(d)
  BY DEF Agreement
<1>3. Transactional \/ \A d, e \in Commands :
            pc'[d] \in Running /\ pc'[e] \in Running => d = e
  BY <1>2
<1>4. ASSUME NEW d \in Commands, pc'[d] \in Running PROVE Renaming(d)'
  <2>1. CASE d = c
    BY <2>1, <1>4
  <2>2. CASE d # c
    <3>1. pc[d] \in Running /\ Renaming(d) /\ (UNCHANGED store \/ Transactional)
      BY <2>2, <1>2, <1>4
    <3>. QED
      BY <3>1, <2>2, RenamingKept
  <2>. QED
    BY <2>1, <2>2
<1>. QED
  BY <1>1, <1>3, <1>4

LEMMA FindAgrees ==
    ASSUME Typed, Agreement, NEW c \in Commands, Find(c), Typed'
    PROVE  Agreement'
<1>0. PICK l \in Levels, v \in Names : \E names \in [Identifiers(l) -> Names] :
        /\ target' = [target EXCEPT ![c] = l]
        /\ level' = [level EXCEPT ![c] = l]
        /\ identifier' = [identifier EXCEPT ![c] = names]
        /\ value' = [value EXCEPT ![c] = v]
        /\ entities' = [entities EXCEPT ![c] = Identified(l, names)]
        /\ pc' = [pc EXCEPT ![c] = IF Identified(l, names) = {}
                                   THEN "notFound" ELSE "update"]
  BY DEF Find
<1>1. /\ pc[c] = "new"
      /\ disturbed' = (disturbed \/ (~Transactional
                                     /\ \E d \in Commands : pc[d] \in Running))
      /\ UNCHANGED <<db, config, store, geometry, written, stale>>
  BY DEF Find
<1>2. /\ target'[c] = l /\ level'[c] = l /\ pc'[c] \in {"notFound", "update"}
      /\ \A d \in Commands \ {c} :
            /\ pc'[d] = pc[d] /\ target'[d] = target[d] /\ level'[d] = level[d]
            /\ value'[d] = value[d] /\ entities'[d] = entities[d]
            /\ written'[d] = written[d]
  BY <1>0, <1>1 DEF Typed, Functional
<1>3. written'[c] = {} /\ written[c] = {}
  BY <1>1 DEF Typed, TypeOK
<1>4. \A a : ColumnAgrees(a)' <=> ColumnAgrees(a)
  BY <1>1 DEF ColumnAgrees, Columns
<1>5. ASSUME ~disturbed' PROVE \A a \in Levels : ColumnAgrees(a)
  BY <1>5, <1>1 DEF Agreement
<1>6. ASSUME ~disturbed' PROVE Renaming(c)' \/ pc'[c] = "notFound"
  <2>1. l <= LastLevel(c)'
    BY <1>2 DEF LastLevel, Levels, Province, Region, Fokontany
  <2>2. ASSUME NEW r \in Rows PROVE Alike(Mark(c), target[c], r)'
    <3>1. CASE (target[c] \in Columns(r))'
      <4>1. l \in Columns(r) /\ l \in Columns(r)'
        BY <3>1, <1>1, <1>2 DEF Columns
      <4>2. Lineage[r][l] \in Rows
        BY <4>1, RootFacts
      <4>3. store[r][l] = store[Lineage[r][l]][l]
        BY <1>5, <1>6, <4>1 DEF ColumnAgrees
      <4>4. \A x \in Rows : Mark(c)'[x] = IF Transactional THEN 0 ELSE store[x][l]
        BY <1>1, <1>2, <1>3 DEF Mark, Transactional
      <4>. QED
        BY <4>2, <4>3, <4>4, <1>2 DEF Alike
    <3>. QED
      BY <3>1 DEF Alike
  <2>. QED
    BY <1>2, <2>1, <2>2 DEF Renaming, Levels
<1>7. pc'[c] = "notFound" => pc'[c] \notin Running
  BY DEF Running
<1>. QED
  BY <1>1, <1>2, <1>4, <1>5, <1>6, <1>7, AgreementStep

LEMMA UpdateAgrees ==
    ASSUME Typed, Agreement, NEW c \in Commands, Update(c), Typed'
    PROVE  Agreement'
<1>1. /\ pc[c] = "update" /\ pc' = [pc EXCEPT ![c] = "children"]
      /\ UNCHANGED <<db, config, geometry, target, identifier, value, level, entities,
                     stale, disturbed>>
      /\ IF Transactional
         THEN written' = [written EXCEPT ![c] = @ \cup entities[c]] /\ UNCHANGED store
         ELSE store' = Updated(c, entities[c]) /\ UNCHANGED written
  BY DEF Update, request
<1>2. /\ pc[c] \in Running /\ pc'[c] = "children" /\ pc'[c] \in Running
      /\ \A d \in Commands \ {c} : pc'[d] = pc[d] /\ written'[d] = written[d]
  BY <1>1 DEF Typed, Functional, Running
<1>. DEFINE t == target[c]
            l == level[c]
            rows == entities[c]
<1>3. /\ t \in Levels /\ l \in t .. Fokontany
      /\ rows \in SUBSET {r \in Rows : LevelOf(r) = l}
  BY DEF Typed, TypeOK
<1>4. /\ LastLevel(c)' = LastLevel(c)
      /\ MarkOf(c)' = MarkOf(c) /\ (Transactional' <=> Transactional)
      /\ \A r, a : (a \in Columns(r))' <=> a \in Columns(r)
  BY <1>1 DEF Columns, LastLevel, MarkOf, Transactional
<1>5. ASSUME NEW r \in Rows, t \in Columns(r)
      PROVE  Mark(c)'[r] = IF r \in rows THEN MarkOf(c) ELSE Mark(c)[r]
  <2>1. Mark(c)'[r] = IF Transactional THEN (IF r \in written'[c] THEN 1 ELSE 0)
                      ELSE store'[r][t]
    BY <1>1, <1>4 DEF Mark
  <2>2. CASE Transactional
    <3>1. written'[c] = written[c] \cup rows
      BY <1>1, <2>2 DEF Typed, Functional
    <3>. QED
      BY <2>1, <2>2, <3>1, MarkFacts DEF MarkOf
  <2>3. CASE ~Transactional
    <3>1. store'[r][t] = IF r \in rows THEN value[c] ELSE store[r][t]
      BY <1>1, <1>5, <2>3, UpdatedFacts
    <3>. QED
      BY <2>1, <2>3, <3>1, MarkFacts DEF MarkOf
  <2>. QED
    BY <2>2, <2>3
<1>6. ASSUME ~disturbed' PROVE Renaming(c)'
  <2>1. Renaming(c)
    BY <1>1, <1>2, <1>6 DEF Agreement
  <2>2. /\ l <= LastLevel(c)
        /\ IF l > t THEN Halfway(Mark(c), MarkOf(c), t, l - 1, l, rows)
                    ELSE \A r \in Rows : Alike(Mark(c), t, r)
    BY <2>1, <1>1 DEF Renaming
  <2>3. Halfway(Mark(c)', MarkOf(c), t, l, l, rows)
    <3>. DEFINE f == Mark(c)
                g == Mark(c)'
                v == MarkOf(c)
    <3>1. \A r \in Rows : t \in Columns(r) => g[r] = IF r \in rows THEN v ELSE f[r]
      BY <1>5
    <3>2. IF l > t THEN Halfway(f, v, t, l - 1, l, rows)
                    ELSE \A r \in Rows : Alike(f, t, r)
      BY <2>2
    <3>. HIDE DEF f, g, v, t, l, rows
    <3>3. Halfway(g, v, t, l, l, rows)
      BY <3>1, <3>2, <1>3, Marking
    <3>. QED
      BY <3>3 DEF f, g, v, t, l, rows
  <2>4. Halfway(Mark(c), MarkOf(c), target[c], level[c], level[c], entities[c])'
    BY <2>3, <1>1, <1>4 DEF Halfway, Alike
  <2>. QED
    BY <2>2, <2>4, <1>1, <1>2, <1>4 DEF Renaming
<1>7. ASSUME ~disturbed', NEW a \in Levels,
             Transactional \/ \A d \in Commands : pc'[d] \in Running => target'[d] # a
      PROVE  ColumnAgrees(a)'
  <2>1. /\ Transactional \/ (\A d \in Commands : pc[d] \in Running => target[d] # a)
        /\ Transactional \/ target[c] # a
    BY <1>1, <1>2, <1>7
  <2>2. ColumnAgrees(a)
    BY <2>1, <1>1, <1>7 DEF Agreement
  <2>3. \A r \in Rows : a \in Columns(r) => store'[r][a] = store[r][a]
    BY <2>1, <1>1, UpdatedFacts
  <2>. QED
    BY <2>2, <2>3, <1>4, RootFacts DEF ColumnAgrees
<1>. QED
  BY <1>1, <1>2, <1>6, <1>7, AgreementStep

\* Without transactions nothing is held back.
Lockless == ~Transactional => \A c \in Commands : written[c] = {}

LEMMA LocklessKeep == Typed /\ Lockless /\ [Next]_vars => Lockless'
<1> SUFFICES ASSUME Typed, Lockless, [Next]_vars, ~Transactional', NEW d \in Commands
             PROVE  written'[d] = {}
    BY DEF Lockless
<1>1. ASSUME NEW c \in Commands, Find(c) \/ UpdateGeojson(c) \/ Children(c) \/ Show(c)
      PROVE  UNCHANGED <<db, written>>
  BY <1>1 DEF Find, UpdateGeojson, Children, Show
<1>2. ASSUME NEW c \in Commands, Update(c)
      PROVE  db' = db /\ (Transactional \/ UNCHANGED written)
  BY <1>2 DEF Update
<1>3. ASSUME NEW c \in Commands, Commit(c) \/ Stop(c)
      PROVE  db' = db /\ written' = [written EXCEPT ![c] = {}]
  BY <1>3 DEF Commit, Stop
<1>4. CASE UNCHANGED vars
  BY <1>4 DEF vars, Lockless, Transactional
<1>. QED
  BY <1>1, <1>2, <1>3, <1>4
  DEF Next, Step, Finished, Lockless, Transactional, Typed, Functional

LEMMA ChildrenAgrees ==
    ASSUME Typed, Agreement, NEW c \in Commands, Children(c), Typed'
    PROVE  Agreement'
<1>. DEFINE t == target[c]
            l == level[c]
            rows == entities[c]
            children == Below(l, rows)
<1>0. l \in Nat /\ l + 1 - 1 = l /\ LastLevel(c) \in Nat
  BY DEF Typed, Functional, Levels, LastLevel, Region, Fokontany
<1>1. /\ pc[c] = "children"
      /\ UNCHANGED <<db, config, store, geometry, target, identifier, value, written,
                     stale, disturbed>>
      /\ \/ /\ l + 1 > LastLevel(c) \/ children = {}
            /\ pc' = [pc EXCEPT ![c] = "commit"] /\ UNCHANGED <<level, entities>>
         \/ /\ l + 1 <= LastLevel(c)
            /\ pc' = [pc EXCEPT ![c] = "update"]
            /\ level' = [level EXCEPT ![c] = l + 1]
            /\ entities' = [entities EXCEPT ![c] = children]
  BY <1>0 DEF Children, request, Below
<1>2. /\ pc[c] \in Running
      /\ \A d \in Commands \ {c} :
            pc'[d] = pc[d] /\ level'[d] = level[d] /\ entities'[d] = entities[d]
  BY <1>1 DEF Typed, Functional, Running
<1>3. /\ t \in Levels /\ l \in t .. Fokontany
      /\ rows \in SUBSET {r \in Rows : LevelOf(r) = l}
  BY DEF Typed, TypeOK
<1>4. /\ LastLevel(c)' = LastLevel(c) /\ Mark(c)' = Mark(c) /\ MarkOf(c)' = MarkOf(c)
      /\ \A r, a : (a \in Columns(r))' <=> a \in Columns(r)
  BY <1>1 DEF Columns, LastLevel, Mark, MarkOf, Transactional
<1>5. ASSUME ~disturbed' PROVE Renaming(c)'
  <2>1. Renaming(c)
    BY <1>1, <1>2, <1>5 DEF Agreement
  <2>2. Halfway(Mark(c), MarkOf(c), t, l, l, rows)
    BY <2>1, <1>1 DEF Renaming
  <2>3. /\ Halfway(Mark(c), MarkOf(c), t, l, l + 1, children)
        /\ children = {} \/ (\A r \in Rows : t \in Columns(r) => LevelOf(r) <= l)
                => \A r \in Rows : Alike(Mark(c), t, r)
    <3>. DEFINE f == Mark(c)
                v == MarkOf(c)
    <3>2. Halfway(f, v, t, l, l, rows)
      BY <2>2
    <3>. HIDE DEF f, v, t, l, rows
    <3>3. /\ Halfway(f, v, t, l, l + 1, Below(l, rows))
          /\ Below(l, rows) = {} \/ (\A r \in Rows : t \in Columns(r) => LevelOf(r) <= l)
                => \A r \in Rows : Alike(f, t, r)
      BY <3>2, <1>3, Descending
    <3>. QED
      BY <3>3 DEF f, v
  <2>4. CASE /\ l + 1 > LastLevel(c) \/ children = {}
             /\ pc' = [pc EXCEPT ![c] = "commit"] /\ UNCHANGED <<level, entities>>
    <3>1. l + 1 > LastLevel(c) => \A r \in Rows : t \in Columns(r) => LevelOf(r) <= l
      <4> SUFFICES ASSUME l + 1 > LastLevel(c), NEW r \in Rows, t \in Columns(r)
                   PROVE  LevelOf(r) <= l
          OBVIOUS
      <4>1. LevelOf(r) <= LastLevel(c)
        BY LastLevelFacts
      <4>2. LevelOf(r) \in Levels
        BY ConstantsAssumption
      <4>. QED
        BY <4>1, <4>2, <1>0 DEF Levels
    <3>2. \A r \in Rows : Alike(Mark(c), t, r)
      BY <3>1, <2>3, <2>4
    <3>3. pc'[c] = "commit"
      BY <2>4 DEF Typed, Functional
    <3>. QED
      BY <3>2, <3>3, <1>1, <1>4 DEF Renaming, Alike
  <2>5. CASE /\ l + 1 <= LastLevel(c)
             /\ pc' = [pc EXCEPT ![c] = "update"]
             /\ level' = [level EXCEPT ![c] = l + 1]
             /\ entities' = [entities EXCEPT ![c] = children]
    <3>1. pc'[c] = "update" /\ level'[c] = l + 1 /\ entities'[c] = children
      BY <2>5 DEF Typed, Functional
    <3>2. level'[c] - 1 = l /\ level'[c] > target'[c] /\ level'[c] <= LastLevel(c)'
      BY <3>1, <2>5, <1>0, <1>1, <1>3, <1>4 DEF Levels, Fokontany
    <3>3. Halfway(Mark(c), MarkOf(c), target[c], level[c] - 1, level[c], entities[c])'
      BY <2>3, <3>1, <3>2, <1>1, <1>4 DEF Halfway, Alike
    <3>. QED
      BY <3>1, <3>2, <3>3 DEF Renaming
  <2>. QED
    BY <1>1, <2>4, <2>5
<1>6. ASSUME ~disturbed', NEW a \in Levels,
             Transactional \/ \A d \in Commands : pc'[d] \in Running => target'[d] # a
      PROVE  ColumnAgrees(a)'
  <2>1. pc'[c] \in Running
    BY <1>1 DEF Typed, Functional, Running
  <2>2. Transactional \/ (\A d \in Commands : pc[d] \in Running => target[d] # a)
    BY <1>1, <1>2, <1>6, <2>1
  <2>3. ColumnAgrees(a)
    BY <2>2, <1>1, <1>6 DEF Agreement
  <2>. QED
    BY <2>3, <1>1, <1>4 DEF ColumnAgrees
<1>. QED
  BY <1>1, <1>2, <1>5, <1>6, AgreementStep

LEMMA CommitAgrees ==
    ASSUME Typed, Agreement, Lockless, NEW c \in Commands, Commit(c), Typed'
    PROVE  Agreement'
<1>1. /\ pc[c] = "commit" /\ pc' = [pc EXCEPT ![c] = "show"]
      /\ written' = [written EXCEPT ![c] = {}]
      /\ store' = Updated(c, written[c])
      /\ UNCHANGED <<db, config, geometry, target, identifier, value, level, entities,
                     disturbed>>
  BY DEF Commit, request
<1>2. /\ pc[c] \in Running /\ pc'[c] = "show" /\ pc'[c] \in Running /\ written'[c] = {}
      /\ \A d \in Commands \ {c} : pc'[d] = pc[d] /\ written'[d] = written[d]
  BY <1>1 DEF Typed, Functional, Running
<1>3. /\ Transactional' <=> Transactional
      /\ \A r, a : (a \in Columns(r))' <=> a \in Columns(r)
  BY <1>1 DEF Columns, Transactional
<1>4. ASSUME ~disturbed' PROVE \A r \in Rows : Alike(Mark(c), target[c], r)
  BY <1>1, <1>2, <1>4 DEF Agreement, Renaming
<1>5. ASSUME NEW r \in Rows, NEW a, a \in Columns(r)
      PROVE  store'[r][a] = IF r \in written[c] /\ a = target[c] THEN value[c]
                            ELSE store[r][a]
  BY <1>1, <1>5, UpdatedFacts
<1>6. ASSUME ~disturbed', NEW a \in Levels,
             Transactional \/ \A d \in Commands : pc[d] \in Running => target[d] # a
      PROVE  ColumnAgrees(a)'
  <2>1. ColumnAgrees(a)
    BY <1>1, <1>6 DEF Agreement
  <2>2. ASSUME NEW r \in Rows, a \in Columns(r)
        PROVE  store'[r][a] = store'[Lineage[r][a]][a]
    <3>. DEFINE x == Lineage[r][a]
    <3>1. x \in Rows /\ a \in Columns(x) /\ store[r][a] = store[x][a]
      BY <2>1, <2>2, RootFacts DEF ColumnAgrees
    <3>2. a = target[c] => (r \in written[c] <=> x \in written[c])
      <4> SUFFICES ASSUME a = target[c] PROVE r \in written[c] <=> x \in written[c]
          OBVIOUS
      <4>1. Transactional
        BY <1>2, <1>6
      <4>2. Mark(c)[r] = Mark(c)[x]
        BY <1>4, <1>6, <2>2 DEF Alike
      <4>. QED
        BY <4>1, <4>2, <3>1, MarkFacts
    <3>. QED
      BY <3>1, <3>2, <1>5, <2>2
  <2>. QED
    BY <2>2, <1>3 DEF ColumnAgrees
<1>7. ASSUME ~disturbed' PROVE Renaming(c)'
  <2>1. ASSUME NEW r \in Rows, target[c] \in Columns(r)
        PROVE  Mark(c)'[r] = Mark(c)'[Lineage[r][target[c]]]
    <3>. DEFINE x == Lineage[r][target[c]]
    <3>1. x \in Rows /\ target[c] \in Columns(x)
      BY <2>1, RootFacts
    <3>2. CASE Transactional
      BY <3>1, <3>2, <1>1, <1>2, <1>3 DEF Mark
    <3>3. CASE ~Transactional
      <4>1. written[c] = {}
        BY <3>3 DEF Lockless
      <4>2. \A y \in Rows : Mark(c)'[y] = store'[y][target[c]]
        BY <3>3, <1>1, <1>3 DEF Mark
      <4>. QED
        BY <1>4, <1>5, <1>7, <2>1, <3>1, <3>3, <4>1, <4>2, MarkFacts DEF Alike
    <3>. QED
      BY <3>2, <3>3
  <2>. QED
    BY <2>1, <1>1, <1>2, <1>3 DEF Renaming, Alike
<1>. QED
  BY <1>1, <1>2, <1>6, <1>7, AgreementStep

LEMMA EndAgrees ==
    ASSUME Typed, Agreement, NEW c \in Commands, Show(c) \/ Stop(c), Typed'
    PROVE  Agreement'
<1>1. /\ pc[c] \in Running
      /\ \A d \in Commands \ {c} : pc'[d] = pc[d] /\ written'[d] = written[d]
      /\ UNCHANGED <<db, config, store, target, value, level, entities>>
      /\ disturbed => disturbed'
      /\ ~disturbed' => Transactional \/ pc[c] = "show"
  BY DEF Show, Stop, request, Typed, TypeOK, Functional, Running
<1>2. pc'[c] \in {"done", "failed"}
  BY DEF Show, Stop, Typed, Functional
<1>3. pc'[c] \notin Running
  BY <1>2 DEF Running
<1>4. ASSUME ~disturbed', NEW a \in Levels,
             Transactional \/ \A d \in Commands : pc'[d] \in Running => target'[d] # a
      PROVE  ColumnAgrees(a)'
  <2>1. CASE Transactional \/ target[c] # a
    <3>1. ColumnAgrees(a)
      BY <2>1, <1>1, <1>4 DEF Agreement
    <3>. QED
      BY <3>1, <1>1 DEF ColumnAgrees, Columns
  <2>2. CASE ~Transactional /\ target[c] = a
    <3>1. \A r \in Rows : Alike(Mark(c), a, r)
      BY <2>2, <1>1, <1>4 DEF Agreement, Renaming
    <3>2. ASSUME NEW r \in Rows, a \in Columns(r)
          PROVE  store[r][a] = store[Lineage[r][a]][a]
      BY <2>2, <3>1, <3>2, RootFacts, MarkFacts DEF Alike
    <3>. QED
      BY <3>2, <1>1 DEF ColumnAgrees, Columns
  <2>. QED
    BY <2>1, <2>2
<1>. QED
  BY <1>1, <1>3, <1>4, AgreementStep

LEMMA GeojsonAgrees ==
    ASSUME Typed, Agreement, NEW c \in Commands, UpdateGeojson(c), Typed'
    PROVE  Agreement'
<1>1. PICK l \in Levels : \E names \in [Identifiers(l) -> Names] :
        GeojsonStep(c, Identified(l, names))
  BY DEF UpdateGeojson, GeojsonStep
<1>2. pc[c] = "new" /\ UNCHANGED <<db, config, store, target, value, level, entities,
                                   written, disturbed>>
  BY DEF UpdateGeojson, request
<1>3. PICK p \in Ended : pc' = [pc EXCEPT ![c] = p]
  BY <1>1 DEF Ended, GeojsonStep
<1>4. /\ pc'[c] \notin Running /\ pc[c] \notin Running
      /\ \A d \in Commands \ {c} : pc'[d] = pc[d]
  BY <1>2, <1>3 DEF Typed, Functional, Running, Ended
<1>5. ASSUME ~disturbed', NEW a \in Levels,
             Transactional \/ \A d \in Commands : pc'[d] \in Running => target'[d] # a
      PROVE  ColumnAgrees(a)'
  <2>1. ColumnAgrees(a)
    BY <1>2, <1>4, <1>5 DEF Agreement
  <2>. QED
    BY <2>1, <1>2 DEF ColumnAgrees, Columns
<1>. QED
  BY <1>2, <1>4, <1>5, AgreementStep

LEMMA AgreementStart == Init => Agreement /\ Lockless
<1> SUFFICES ASSUME Init PROVE Agreement /\ Lockless
    OBVIOUS
<1>1. \A c \in Commands : pc[c] \notin Running /\ written[c] = {}
  BY DEF Init, Running
<1>2. ASSUME NEW a \in Levels PROVE ColumnAgrees(a)
  <2>1. ASSUME NEW r \in Rows, a \in Columns(r)
        PROVE  store[r][a] = store[Lineage[r][a]][a]
    <3>1. /\ Lineage[r][a] \in Rows /\ a \in Columns(Lineage[r][a])
          /\ Lineage[Lineage[r][a]][a] = Lineage[r][a]
      BY <2>1, RootFacts
    <3>2. \A x \in Rows : \A b \in Columns(x) : store[x][b] = FirstName[Lineage[x][b]]
      BY DEF Init
    <3>. QED
      BY <2>1, <3>1, <3>2
  <2>. QED
    BY <2>1 DEF ColumnAgrees
<1>. QED
  BY <1>1, <1>2 DEF Agreement, Lockless

LEMMA AgreementKeep == Typed /\ Lockless /\ Agreement /\ [Next]_vars => Agreement'
<1> SUFFICES ASSUME Typed, Lockless, Agreement, [Next]_vars PROVE Agreement'
    OBVIOUS
<1>0. Typed'
  BY TypedKeep
<1>1. ASSUME NEW c \in Commands, Find(c) \/ Step(c) \/ Stop(c) \/ UpdateGeojson(c)
      PROVE  Agreement'
  BY <1>0, <1>1, FindAgrees, UpdateAgrees, ChildrenAgrees, CommitAgrees, EndAgrees,
     GeojsonAgrees
  DEF Step
<1>2. CASE UNCHANGED vars
  <2>1. /\ UNCHANGED <<db, config, store, pc, target, value, level, entities, written,
                        disturbed>>
        /\ Transactional' <=> Transactional
    BY <1>2 DEF vars, Transactional
  <2>2. \A a : ColumnAgrees(a)' <=> ColumnAgrees(a)
    BY <2>1 DEF ColumnAgrees, Columns
  <2>3. ASSUME NEW c \in Commands, Renaming(c) PROVE Renaming(c)'
    BY <2>1, <2>3, RenamingKept
  <2>. QED
    BY <2>1, <2>2, <2>3 DEF Agreement
<1>. QED
  BY <1>1, <1>2 DEF Next, Finished
-----------------------------------------------------------------------------
(* Only fresh rows are renamed. *)

\* What Fresh says of one command.
FreshOf(c) ==
    /\ written[c] \cap stale[c] = {}
    /\ pc[c] \in {"update", "children", "commit"} =>
        \A r \in Reached(c) : LevelOf(r) = target[c] /\ r \notin stale[c] =>
            r \in Identified(target[c], identifier[c])

LEMMA FreshParts ==
    Fresh <=> (db = "mongo" =>
                /\ \A c, d \in Commands : c # d => written[c] \cap written[d] = {}
                /\ \A c \in Commands : FreshOf(c))
BY DEF Fresh, FreshOf

\* What a step of another command may do to a command: make stale some rows it
\* has not written, and change the names of these.
LEMMA FreshKept ==
    ASSUME Typed, NEW d \in Commands, FreshOf(d), NEW rows \in SUBSET Rows,
           /\ pc'[d] = pc[d] /\ target'[d] = target[d] /\ identifier'[d] = identifier[d]
           /\ entities'[d] = entities[d] /\ written'[d] = written[d],
           pc[d] \in Running => stale'[d] = stale[d] \cup rows,
           written[d] \cap rows = {},
           \A r \in Rows \ rows : store'[r] = store[r]
    PROVE  FreshOf(d)'
<1>1. written[d] # {} => pc[d] \in Running
  BY DEF Typed, TypeOK, Running
<1>2. Reached(d)' = Reached(d) /\ Reached(d) \subseteq Rows
  BY DEF Reached, Typed, Functional
<1>3. ASSUME pc[d] \in {"update", "children", "commit"}, NEW r \in Reached(d),
             LevelOf(r) = target[d], r \notin stale'[d]
      PROVE  (r \in Identified(target[d], identifier[d]))'
  <2>1. r \in Rows /\ r \notin stale[d] /\ store'[r] = store[r]
    BY <1>2, <1>3 DEF Running
  <2>2. r \in Identified(target[d], identifier[d])
    BY <1>3, <2>1 DEF FreshOf
  <2>. QED
    BY <2>1, <2>2 DEF Identified
<1>4. (written[d] \cap stale[d] = {})'
  BY <1>1 DEF FreshOf
<1>. QED
  BY <1>2, <1>3, <1>4 DEF FreshOf

LEMMA FreshSame ==
    ASSUME Typed, NEW d \in Commands, FreshOf(d), UNCHANGED store,
           /\ pc'[d] = pc[d] /\ target'[d] = target[d] /\ identifier'[d] = identifier[d]
           /\ entities'[d] = entities[d] /\ written'[d] = written[d]
           /\ stale'[d] = stale[d]
    PROVE  FreshOf(d)'
<1>1. {} \in SUBSET Rows /\ stale'[d] = stale[d] \cup {} /\ written[d] \cap {} = {}
      /\ \A r \in Rows \ {} : store'[r] = store[r]
  OBVIOUS
<1>. QED
  BY <1>1, FreshKept

LEMMA FreshAgain ==
    ASSUME \A c, d \in Commands : c # d => written'[c] \cap written'[d] = {},
           \A c \in Commands : FreshOf(c)'
    PROVE  Fresh'
BY DEF Fresh, FreshOf

LEMMA FindFresh ==
    ASSUME Typed, Fresh, NEW c \in Commands, Find(c), db = "mongo"
    PROVE  Fresh'
<1>1. PICK l \in Levels : \E names \in [Identifiers(l) -> Names] :
        /\ target' = [target EXCEPT ![c] = l]
        /\ identifier' = [identifier EXCEPT ![c] = names]
        /\ entities' = [entities EXCEPT ![c] = Identified(l, names)]
        /\ pc' = [pc EXCEPT ![c] = IF Identified(l, names) = {}
                                   THEN "notFound" ELSE "update"]
  BY DEF Find
<1>2. pc[c] = "new" /\ UNCHANGED <<db, store, written, stale>>
  BY DEF Find
<1>3. PICK names \in [Identifiers(l) -> Names] :
        /\ target'[c] = l /\ identifier'[c] = names
        /\ entities'[c] = Identified(l, names)
        /\ \A d \in Commands \ {c} :
            /\ pc'[d] = pc[d] /\ target'[d] = target[d] /\ identifier'[d] = identifier[d]
            /\ entities'[d] = entities[d]
  BY <1>1 DEF Typed, Functional
<1>4. written[c] = {}
  BY <1>2 DEF Typed, TypeOK
<1>5. Identified(l, names)' = Identified(l, names)
  BY <1>2 DEF Identified
<1>6. FreshOf(c)'
  <2>1. (written[c] \cap stale[c] = {})'
    BY <1>2, <1>4
  <2>2. Reached(c)' \subseteq Identified(l, names)
    BY <1>2, <1>3, <1>4 DEF Reached
  <2>3. \A r \in Identified(l, names) : r \in Identified(target[c], identifier[c])'
    BY <1>2, <1>3 DEF Identified
  <2>. QED
    BY <2>1, <2>2, <2>3 DEF FreshOf
<1>7. ASSUME NEW d \in Commands \ {c} PROVE FreshOf(d)'
  BY <1>2, <1>3, FreshParts, FreshSame
<1>. QED
  BY <1>2, <1>6, <1>7, FreshParts, FreshAgain

LEMMA UpdateFresh ==
    ASSUME Typed, Fresh, NEW c \in Commands, Update(c), db = "mongo"
    PROVE  Fresh'
<1>1. /\ pc[c] = "update" /\ pc' = [pc EXCEPT ![c] = "children"]
      /\ UNCHANGED <<db, target, identifier, entities, store, stale>>
      /\ written' = [written EXCEPT ![c] = @ \cup entities[c]]
      /\ entities[c] \cap LockedByOthers(c) = {} /\ entities[c] \cap stale[c] = {}
  BY DEF Update, request, Conflict, Transactional
<1>2. /\ written'[c] = written[c] \cup entities[c] /\ pc'[c] = "children"
      /\ \A d \in Commands \ {c} : pc'[d] = pc[d] /\ written'[d] = written[d]
  BY <1>1 DEF Typed, Functional
<1>3. FreshOf(c) /\ \A d, e \in Commands : d # e => written[d] \cap written[e] = {}
  BY FreshParts
<1>4. \A d \in Commands \ {c} : entities[c] \cap written[d] = {}
  BY <1>1 DEF LockedByOthers
<1>5. FreshOf(c)'
  <2>1. Reached(c)' = Reached(c)
    BY <1>1, <1>2 DEF Reached
  <2>2. \A r \in Reached(c) : LevelOf(r) = target[c] /\ r \notin stale[c] =>
            r \in Identified(target[c], identifier[c])
    BY <1>1, <1>3 DEF FreshOf
  <2>3. Identified(target[c], identifier[c])' = Identified(target[c], identifier[c])
    BY <1>1 DEF Identified
  <2>4. (written[c] \cap stale[c] = {})'
    BY <1>1, <1>2, <1>3 DEF FreshOf
  <2>. QED
    BY <1>1, <2>1, <2>2, <2>3, <2>4 DEF FreshOf
<1>6. ASSUME NEW d \in Commands \ {c} PROVE FreshOf(d)'
  BY <1>1, <1>2, FreshParts, FreshSame
<1>7. \A d, e \in Commands : d # e => written'[d] \cap written'[e] = {}
  BY <1>2, <1>3, <1>4
<1>. QED
  BY <1>1, <1>5, <1>6, <1>7, FreshParts, FreshAgain

LEMMA ChildrenFresh ==
    ASSUME Typed, Fresh, NEW c \in Commands, Children(c), db = "mongo"
    PROVE  Fresh'
<1>1. /\ pc[c] = "children"
      /\ UNCHANGED <<db, target, identifier, store, written, stale>>
      /\ \/ pc' = [pc EXCEPT ![c] = "commit"] /\ UNCHANGED entities
         \/ /\ pc' = [pc EXCEPT ![c] = "update"]
            /\ entities' = [entities EXCEPT ![c] = Below(level[c], entities[c])]
  <2>1. level[c] + 1 - 1 = level[c] /\ level[c] \in Nat
    BY DEF Typed, Functional, Levels
  <2>. QED
    BY <2>1 DEF Children, request, Below
<1>2. \A d \in Commands \ {c} : pc'[d] = pc[d] /\ entities'[d] = entities[d]
  BY <1>1 DEF Typed, Functional
<1>3. FreshOf(c)
  BY FreshParts
<1>4. \A r \in Below(level[c], entities[c]) : LevelOf(r) # target[c]
  BY DEF Below, Typed, TypeOK, Levels
<1>5. \A r \in Reached(c)' : r \in written[c] \/ LevelOf(r) # target[c]
  BY <1>1, <1>4 DEF Reached, Typed, Functional
<1>6. FreshOf(c)'
  <2>1. Identified(target[c], identifier[c])' = Identified(target[c], identifier[c])
    BY <1>1 DEF Identified
  <2>2. \A r \in written[c] : LevelOf(r) = target[c] /\ r \notin stale[c] =>
            r \in Identified(target[c], identifier[c])
    BY <1>1, <1>3 DEF FreshOf, Reached
  <2>. QED
    BY <1>1, <1>3, <1>5, <2>1, <2>2 DEF FreshOf
<1>7. ASSUME NEW d \in Commands \ {c} PROVE FreshOf(d)'
  BY <1>1, <1>2, FreshParts, FreshSame
<1>. QED
  BY <1>1, <1>6, <1>7, FreshParts, FreshAgain

LEMMA CommitFresh ==
    ASSUME Typed, Fresh, NEW c \in Commands, Commit(c), db = "mongo"
    PROVE  Fresh'
<1>1. /\ pc[c] = "commit" /\ pc' = [pc EXCEPT ![c] = "show"]
      /\ written' = [written EXCEPT ![c] = {}]
      /\ store' = Updated(c, written[c])
      /\ UNCHANGED <<db, target, identifier, entities>>
      /\ Outdated(c, written[c])
  BY DEF Commit, request
<1>2. /\ pc'[c] = "show" /\ written'[c] = {}
      /\ \A d \in Commands \ {c} : pc'[d] = pc[d] /\ written'[d] = written[d]
  BY <1>1 DEF Typed, Functional
<1>3. \A d, e \in Commands : d # e => written[d] \cap written[e] = {}
  BY FreshParts
<1>4. FreshOf(c)'
  BY <1>2 DEF FreshOf
<1>5. ASSUME NEW d \in Commands \ {c} PROVE FreshOf(d)'
  <2>1. pc[d] \in Running => stale'[d] = stale[d] \cup written[c]
    BY <1>1 DEF Outdated
  <2>2. \A r \in Rows \ written[c] : store'[r] = store[r]
    BY <1>1 DEF Updated
  <2>3. written[c] \in SUBSET Rows /\ written[d] \cap written[c] = {}
    BY <1>3 DEF Typed, Functional
  <2>. QED
    BY <1>1, <1>2, <2>1, <2>2, <2>3, FreshParts, FreshKept
<1>. QED
  BY <1>1, <1>2, <1>3, <1>4, <1>5, FreshParts, FreshAgain

LEMMA EndFresh ==
    ASSUME Typed, Fresh, NEW c \in Commands, Show(c) \/ Stop(c), db = "mongo"
    PROVE  Fresh'
<1>1. /\ pc'[c] \in {"done", "failed"}
      /\ UNCHANGED <<db, target, identifier, entities, store, stale>>
      /\ \A d \in Commands \ {c} : pc'[d] = pc[d] /\ written'[d] = written[d]
      /\ written'[c] = {}
  BY DEF Show, Stop, request, Typed, TypeOK, Functional
<1>2. FreshOf(c)'
  BY <1>1 DEF FreshOf
<1>3. ASSUME NEW d \in Commands \ {c} PROVE FreshOf(d)'
  BY <1>1, FreshParts, FreshSame
<1>4. \A d, e \in Commands : d # e => written'[d] \cap written'[e] = {}
  BY <1>1, FreshParts
<1>. QED
  BY <1>1, <1>2, <1>3, <1>4, FreshParts, FreshAgain

LEMMA GeojsonFresh ==
    ASSUME Typed, Fresh, NEW c \in Commands, UpdateGeojson(c), db = "mongo"
    PROVE  Fresh'
<1>1. PICK rows \in SUBSET Rows : GeojsonStep(c, rows) /\ rows \cap LockedByOthers(c) = {}
  <2>1. PICK l \in Levels : \E names \in [Identifiers(l) -> Names] :
            /\ GeojsonStep(c, Identified(l, names))
            /\ Identified(l, names) \cap LockedByOthers(c) = {}
    BY DEF UpdateGeojson, GeojsonStep
  <2>. QED
    BY <2>1 DEF Identified
<1>2. /\ pc[c] = "new"
      /\ UNCHANGED <<db, store, target, identifier, entities, written>>
  BY DEF UpdateGeojson, request
<1>3. PICK p \in Ended : pc' = [pc EXCEPT ![c] = p]
  BY <1>1 DEF Ended, GeojsonStep
<1>4. written'[c] = {} /\ pc'[c] \in Ended /\ \A d \in Commands \ {c} : pc'[d] = pc[d]
  BY <1>2, <1>3 DEF Typed, TypeOK, Functional
<1>5. FreshOf(c)'
  BY <1>4 DEF FreshOf, Ended
<1>6. ASSUME NEW d \in Commands \ {c} PROVE FreshOf(d)'
  <2>1. written[d] \cap rows = {}
    BY <1>1 DEF LockedByOthers
  <2>2. \/ stale' = stale
        \/ pc[d] \in Running => stale'[d] = stale[d] \cup rows
    BY <1>1 DEF GeojsonStep, Outdated
  <2>3. FreshOf(d) /\ \A r \in Rows \ rows : store'[r] = store[r]
    BY <1>2, FreshParts
  <2>4. CASE stale' = stale
    BY <1>2, <1>4, <2>3, <2>4, FreshSame
  <2>5. CASE pc[d] \in Running => stale'[d] = stale[d] \cup rows
    BY <1>2, <1>4, <2>1, <2>3, <2>5, FreshKept
  <2>. QED
    BY <2>2, <2>4, <2>5
<1>. QED
  BY <1>2, <1>5, <1>6, FreshParts, FreshAgain

LEMMA FreshStart == Init => Fresh
BY DEF Init, Fresh

LEMMA FreshKeep == Typed /\ Fresh /\ [Next]_vars => Fresh'
<1> SUFFICES ASSUME Typed, Fresh, [Next]_vars, db' = "mongo" PROVE Fresh'
    BY DEF Fresh
<1>1. db = "mongo"
  BY DEF Next, Step, Find, Update, Children, Commit, Show, Stop, UpdateGeojson, Finished,
         vars
<1>2. ASSUME NEW c \in Commands, Find(c) \/ Step(c) \/ Stop(c) \/ UpdateGeojson(c)
      PROVE  Fresh'
  BY <1>1, <1>2, FindFresh, UpdateFresh, ChildrenFresh, CommitFresh, EndFresh, GeojsonFresh
  DEF Step
<1>3. CASE UNCHANGED vars
  BY <1>3 DEF vars, Fresh, Reached, Identified
<1>. QED
  BY <1>2, <1>3 DEF Next, Finished
-----------------------------------------------------------------------------
IInv == Typed /\ Lockless /\ Agreement /\ Fresh

\* The inductive invariant holds of every behaviour.
THEOREM Invariance == Spec => []IInv
<1>1. Init => IInv
  BY TypedStart, AgreementStart, FreshStart DEF IInv
<1>2. IInv /\ [Next]_vars => IInv'
  BY TypedKeep, LocklessKeep, AgreementKeep, FreshKeep DEF IInv
<1>. QED
  BY <1>1, <1>2, PTL DEF Spec

\* Type correctness: the rows a command is about are of its level, which is
\* never above its target's, and rows are held only while it is running.
THEOREM TypeCorrect == Spec => []TypeOK
<1>1. IInv => TypeOK
  BY DEF IInv, Typed
<1>. QED
  BY <1>1, Invariance, PTL

\* Every copy of a division's name is the name the division has, for any tree
\* of divisions and any number of commands: always with transactions, and
\* without them between commands, until one was stopped or two overlapped.
THEOREM NamesAlwaysAgree == Spec => []NamesAgree
<1>1. IInv => NamesAgree
  <2> SUFFICES ASSUME IInv, ~disturbed,
                      Transactional \/ \A c \in Commands : pc[c] \notin Running,
                      NEW r \in Rows, NEW a \in Columns(r)
               PROVE  store[r][a] = store[Lineage[r][a]][a]
      BY DEF NamesAgree
  <2>1. a \in Levels
    BY RootFacts DEF Levels
  <2>2. ColumnAgrees(a)
    BY <2>1 DEF IInv, Agreement
  <2>. QED
    BY <2>2 DEF ColumnAgrees
<1>. QED
  BY <1>1, Invariance, PTL

\* On MongoDB no command renames a row that has lost the name it was found by:
\* whoever renamed it has made it stale, and stale rows are not written.
THEOREM NoStaleRenames == Spec => NoStaleRename
<1>1. ASSUME IInv, db = "mongo", NEW c \in Commands, NEW r \in written[c],
             pc[c] = "commit", LevelOf(r) = target[c]
      PROVE  r \in Identified(target[c], identifier[c])
  <2>1. FreshOf(c)
    BY <1>1, FreshParts DEF IInv
  <2>. QED
    BY <1>1, <2>1 DEF FreshOf, Reached
<1>2. IInv => (db = "mongo" => \A c \in Commands : \A r \in written[c] :
        pc[c] = "commit" /\ pc'[c] = "show" /\ LevelOf(r) = target[c] =>
            r \in Identified(target[c], identifier[c]))
  BY <1>1
<1>. QED
  BY <1>2, Invariance, PTL DEF NoStaleRename
=============================================================================
