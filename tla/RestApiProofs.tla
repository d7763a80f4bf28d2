---------------------------- MODULE RestApiProofs ----------------------------
(***************************************************************************)
(* Theorems about the readers of a database, for any clients, users,       *)
(* requests, searches, configurations, rows and databases.                 *)
(*                                                                         *)
(* OneConfig needs to know of the configuration a request carries to its   *)
(* query objects (CarriedIsKept), and that a request that still loads one  *)
(* will be given the one that is kept by then (LoadedIsKept): the saved    *)
(* one may change as soon as nobody is loading it.                         *)
(*                                                                         *)
(* PagesComplete needs what a walk has yet to read (Pending): a row that   *)
(* is owed was given once, or not at all and a next page has it (WalkOK).  *)
(* A page keeps this because a row that has its name to itself is, in any  *)
(* order the database may choose, on the side of the next cursor that its  *)
(* name is on (LevelPage, UnionPage); a write, because the walk no longer  *)
(* owes the rows it changes (DisturbedOK).                                 *)
(***************************************************************************)
EXTENDS RestApi, FiniteSetTheorems, TLAPS

Steps ==
    {"idle", "config", "loading", "inject", "handle", "new", "query", "choice", "done", "away"}

Shape ==
    /\ pc \in [Walkers -> Steps] /\ config \in [Walkers -> Configs \cup {None}]
    /\ saved \in Configs \cup {None} /\ configInstance \in Configs \cup {None}
    /\ queries \in [Union .. Fokontany -> Configs \cup {None}]
    /\ changed \in BOOLEAN

CarriedIsKept ==
    \A c \in Clients : pc[c] = "inject" =>
        config[c] # None /\ (~changed => config[c] = configInstance)

LoadedIsKept ==
    ~changed /\ configInstance # None =>
        \A c \in Clients : pc[c] = "loading" => configInstance = saved

ConfigInv == Shape /\ OneConfig /\ CarriedIsKept /\ LoadedIsKept

LEMMA InitHolds == Init => ConfigInv
<1> SUFFICES ASSUME Init PROVE ConfigInv
    OBVIOUS
<1>1. pc \in [Walkers -> {"away", "idle", "new"}]
  <2> PICK readers \in Readers :
        pc = [w \in Walkers |-> IF w \notin readers THEN "away"
                               ELSE IF w \in Clients THEN "idle" ELSE "new"]
    BY DEF Init
  <2> QED
    OBVIOUS
<1>2. config \in [Walkers -> Configs \cup {None}]
  BY DEF Init
<1>3. Shape
  BY <1>1, <1>2 DEF Init, Shape, Steps
<1>4. OneConfig
  BY DEF Init, OneConfig
<1>5. CarriedIsKept /\ LoadedIsKept
  BY <1>1 DEF CarriedIsKept, LoadedIsKept, Walkers
<1> QED
  BY <1>3, <1>4, <1>5 DEF ConfigInv
-----------------------------------------------------------------------------
(* What a step does to one walker.                                         *)

\* Walker w, and no other, goes to a step, with a configuration.
Goes(w, step, loaded) ==
    /\ pc' = [pc EXCEPT ![w] = step]
    /\ config' = [config EXCEPT ![w] = loaded]

KeepsConfigs == UNCHANGED <<saved, configInstance, queries, changed>>

\* Nothing the objects follow changes, and nobody carries another
\* configuration or begins to load one while one is kept.
LEMMA QuietKeeps ==
    ASSUME ConfigInv, KeepsConfigs,
           NEW w \in Walkers, NEW step \in Steps, NEW loaded \in Configs \cup {None},
           Goes(w, step, loaded),
           step = "loading" => configInstance = None,
           step = "inject" /\ w \in Clients =>
                \/ pc[w] = "inject" /\ loaded = config[w]
                \/ loaded = configInstance /\ loaded # None
    PROVE  ConfigInv'
<1>1. Shape'
  BY DEF ConfigInv, Shape, KeepsConfigs, Goes
<1>2. ASSUME NEW c \in Clients
      PROVE  /\ c # w => pc'[c] = pc[c] /\ config'[c] = config[c]
             /\ c = w => pc'[c] = step /\ config'[c] = loaded
  BY DEF Goes, ConfigInv, Shape, Walkers
<1>3. CarriedIsKept'
  BY <1>2 DEF ConfigInv, CarriedIsKept, KeepsConfigs
<1>4. LoadedIsKept'
  BY <1>2 DEF ConfigInv, LoadedIsKept, KeepsConfigs
<1>5. OneConfig'
  BY DEF ConfigInv, OneConfig, KeepsConfigs
<1> QED
  BY <1>1, <1>3, <1>4, <1>5 DEF ConfigInv

LEMMA StutterKeeps ==
    ASSUME ConfigInv, KeepsConfigs, UNCHANGED <<pc, config>>
    PROVE  ConfigInv'
BY DEF ConfigInv, Shape, OneConfig, CarriedIsKept, LoadedIsKept, KeepsConfigs

LEMMA ReplyKeeps ==
    ASSUME ConfigInv, KeepsConfigs, NEW c \in Clients, Reply(c)
    PROVE  ConfigInv'
<1>1. Goes(c, "idle", None)
  BY DEF Reply, Goes
<1> QED
  BY <1>1, QuietKeeps DEF Walkers, Steps

LEMMA AskKeeps ==
    ASSUME ConfigInv, NEW c \in Clients, Ask(c)
    PROVE  ConfigInv'
<1>1. Goes(c, "config", config[c]) /\ KeepsConfigs
  BY DEF Ask, Goes, KeepsConfigs, data, ConfigInv, Shape, Walkers
<1>2. config[c] \in Configs \cup {None} /\ c \in Walkers
  BY DEF ConfigInv, Shape, Walkers
<1> QED
  BY <1>1, <1>2, QuietKeeps DEF Steps

LEMMA LoadKeeps ==
    ASSUME ConfigInv, NEW c \in Clients, Load(c)
    PROVE  ConfigInv'
<1>1. KeepsConfigs /\ c \in Walkers /\ config[c] \in Configs \cup {None}
  BY DEF Load, KeepsConfigs, data, ConfigInv, Shape, Walkers
<1>2. CASE configInstance = None
  <2>1. Goes(c, "loading", config[c])
    BY <1>2 DEF Load, Goes, ConfigInv, Shape, Walkers
  <2> QED
    BY <1>1, <1>2, <2>1, QuietKeeps DEF Steps
<1>3. CASE configInstance # None
  <2>1. Goes(c, "inject", configInstance) /\ configInstance \in Configs \cup {None}
    BY <1>3 DEF Load, Configured, Goes, ConfigInv, Shape
  <2> QED
    BY <1>1, <1>3, <2>1, QuietKeeps DEF Steps
<1> QED
  BY <1>2, <1>3

\* The first answer is kept; a later one is the same, unless the saved
\* configuration changed.
LEMMA LoadedKeeps ==
    ASSUME ConfigInv, NEW c \in Clients, Loaded(c)
    PROVE  ConfigInv'
<1>0. c \in Walkers /\ UNCHANGED <<saved, queries, changed>> /\ pc[c] = "loading"
  BY DEF Loaded, data, Walkers
<1>1. CASE UNCHANGED configInstance /\ Reply(c)
  BY <1>0, <1>1, ReplyKeeps DEF KeepsConfigs
<1>2. CASE configInstance' = saved /\ saved = None /\ Reply(c)
  <2>1. Goes(c, "idle", None)
    BY <1>2 DEF Reply, Goes
  <2>2. ~changed => configInstance = None
    BY <1>0, <1>2 DEF ConfigInv, LoadedIsKept
  <2>3. Shape'
    BY <1>0, <1>2, <2>1 DEF ConfigInv, Shape, Goes, Steps
  <2>4. OneConfig'
    BY <1>0, <1>2, <2>2 DEF ConfigInv, OneConfig
  <2>5. ASSUME NEW d \in Clients
        PROVE  /\ d # c => pc'[d] = pc[d] /\ config'[d] = config[d]
               /\ d = c => pc'[d] = "idle"
    BY <2>1 DEF Goes, ConfigInv, Shape, Walkers
  <2>6. CarriedIsKept'
    BY <1>0, <1>2, <2>2, <2>5 DEF ConfigInv, CarriedIsKept
  <2>7. LoadedIsKept'
    BY <1>0, <1>2 DEF LoadedIsKept
  <2> QED
    BY <2>3, <2>4, <2>6, <2>7 DEF ConfigInv
<1>3. CASE configInstance' = saved /\ saved # None /\ Configured(c, saved)
  <2>1. Goes(c, "inject", saved)
    BY <1>3 DEF Configured, Goes
  <2>2. ~changed => configInstance = None \/ configInstance = saved
    BY <1>0, <1>3 DEF ConfigInv, LoadedIsKept
  <2>3. Shape'
    BY <1>0, <1>3, <2>1 DEF ConfigInv, Shape, Goes, Steps
  <2>4. OneConfig'
    BY <1>0, <1>3, <2>2 DEF ConfigInv, OneConfig
  <2>5. ASSUME NEW d \in Clients
        PROVE  /\ d # c => pc'[d] = pc[d] /\ config'[d] = config[d]
               /\ d = c => config'[d] = saved
    BY <2>1 DEF Goes, ConfigInv, Shape, Walkers
  <2>6. CarriedIsKept'
    BY <1>0, <1>3, <2>2, <2>5 DEF ConfigInv, CarriedIsKept
  <2>7. LoadedIsKept'
    BY <1>0, <1>3 DEF LoadedIsKept
  <2> QED
    BY <2>3, <2>4, <2>6, <2>7 DEF ConfigInv
<1> QED
  BY <1>1, <1>2, <1>3 DEF Loaded

\* A query object that is made now follows the configuration that is kept.
LEMMA InjectKeeps ==
    ASSUME ConfigInv, NEW c \in Clients, Inject(c)
    PROVE  ConfigInv'
<1>0. /\ UNCHANGED <<saved, configInstance, changed>> /\ c \in Walkers
      /\ pc[c] = "inject" /\ config[c] \in Configs \cup {None}
  BY DEF Inject, data, ConfigInv, Shape, Walkers
<1>1. CASE keys[c] # <<>>
  <2> DEFINE k == Head(keys[c])
  <2>1. /\ queries' = [queries EXCEPT ![k] = IF @ = None THEN config[c] ELSE @]
        /\ UNCHANGED <<pc, config>>
    BY <1>1 DEF Inject
  <2> HIDE DEF k
  <2>2. Shape'
    BY <1>0, <2>1 DEF ConfigInv, Shape
  <2>3. ~changed => config[c] = configInstance
    BY <1>0 DEF ConfigInv, CarriedIsKept
  <2>4. OneConfig'
    <3> SUFFICES ASSUME ~changed, NEW m \in Union .. Fokontany
                 PROVE  queries'[m] \in {None, configInstance}
      BY <1>0 DEF OneConfig
    <3>1. queries[m] \in {None, configInstance}
      BY DEF ConfigInv, OneConfig
    <3>2. queries'[m] = queries[m] \/ queries'[m] = config[c]
      BY <2>1 DEF ConfigInv, Shape
    <3> QED
      BY <2>3, <3>1, <3>2
  <2>5. CarriedIsKept' /\ LoadedIsKept'
    BY <1>0, <2>1 DEF ConfigInv, CarriedIsKept, LoadedIsKept
  <2> QED
    BY <2>2, <2>4, <2>5 DEF ConfigInv
<1>2. CASE keys[c] = <<>> /\ request[c].calls = <<>>
  <2>1. Reply(c) /\ KeepsConfigs
    BY <1>2, <1>0 DEF Inject, KeepsConfigs
  <2> QED
    BY <2>1, ReplyKeeps
<1>3. CASE keys[c] = <<>> /\ request[c].calls # <<>>
  <2>1. Goes(c, "handle", config[c]) /\ KeepsConfigs
    BY <1>3, <1>0 DEF Inject, Goes, KeepsConfigs, ConfigInv, Shape
  <2> QED
    BY <1>0, <2>1, QuietKeeps DEF Steps
<1> QED
  BY <1>1, <1>2, <1>3

LEMMA SaveKeeps ==
    ASSUME ConfigInv, SaveConfig
    PROVE  ConfigInv'
<1>1. /\ UNCHANGED <<configInstance, queries, pc, config>>
      /\ saved' \in Configs \cup {None}
      /\ changed' = (changed \/ \E c \in Clients : pc[c] = "loading")
  BY DEF SaveConfig
<1>2. Shape'
  BY <1>1 DEF ConfigInv, Shape
<1>3. OneConfig' /\ CarriedIsKept'
  BY <1>1 DEF ConfigInv, OneConfig, CarriedIsKept
<1>4. LoadedIsKept'
  BY <1>1 DEF LoadedIsKept
<1> QED
  BY <1>2, <1>3, <1>4 DEF ConfigInv

LEMMA CallsKeep ==
    ASSUME ConfigInv, NEW c \in Clients, Start(c) \/ Finish(c) \/ Throw(c)
    PROVE  ConfigInv'
<1>1. KeepsConfigs
  BY DEF Start, Finish, Throw, KeepsConfigs, data
<1>2. UNCHANGED <<pc, config>> \/ Reply(c)
  BY DEF Start, Finish, Throw
<1> QED
  BY <1>1, <1>2, StutterKeeps, ReplyKeeps

\* The query command's processes are no clients.
LEMMA UsersKeep ==
    ASSUME ConfigInv, NEW u \in Users,
           Begin(u) \/ Search(u) \/ LookUp(u) \/ NextPage(u) \/ Quit(u)
    PROVE  ConfigInv'
<1>1. KeepsConfigs /\ u \in Walkers /\ u \notin Clients
  BY RestApiAssumption
  DEF Begin, Search, LookUp, NextPage, Quit, KeepsConfigs, data, server, Walkers
<1>2. \E step \in {"done", "query", "choice"}, loaded \in Configs \cup {None} :
            Goes(u, step, loaded)
  <2>1. CASE Begin(u)
    BY <2>1, <1>1 DEF Begin, Goes, ConfigInv, Shape
  <2>2. CASE Search(u) \/ LookUp(u) \/ NextPage(u) \/ Quit(u)
    <3>1. config[u] \in Configs \cup {None} /\ config' = [config EXCEPT ![u] = config[u]]
      BY <2>2, <1>1 DEF Search, LookUp, NextPage, Quit, ConfigInv, Shape
    <3>2. \E step \in {"done", "choice"} : pc' = [pc EXCEPT ![u] = step]
      BY <2>2 DEF Search, LookUp, NextPage, Quit
    <3> QED
      BY <3>1, <3>2 DEF Goes
  <2> QED
    BY <2>1, <2>2
<1> QED
  BY <1>1, <1>2, QuietKeeps DEF Steps
-----------------------------------------------------------------------------
LEMMA StepKeeps == ConfigInv /\ [Next]_vars => ConfigInv'
<1> SUFFICES ASSUME ConfigInv, [Next]_vars PROVE ConfigInv'
    OBVIOUS
<1>1. ASSUME NEW c \in Clients, Ask(c) \/ Serve(c)
      PROVE  ConfigInv'
    BY <1>1, AskKeeps, LoadKeeps, LoadedKeeps, InjectKeeps, CallsKeep DEF Serve
<1>2. ASSUME NEW u \in Users,
             Begin(u) \/ Search(u) \/ LookUp(u) \/ NextPage(u) \/ Quit(u)
      PROVE  ConfigInv'
    BY <1>2, UsersKeep
<1>3. CASE WriteRow
    BY <1>3, StutterKeeps DEF WriteRow, KeepsConfigs, server
<1>4. CASE SaveConfig
    BY <1>4, SaveKeeps
<1>5. CASE UNCHANGED vars
    BY <1>5, StutterKeeps DEF vars, KeepsConfigs
<1> QED
    BY <1>1, <1>2, <1>3, <1>4, <1>5 DEF Next

\* The configuration and the query objects, each made by whichever request
\* comes first and kept for ever, follow one configuration, for any number of
\* overlapping requests, unless it changed while one was loading it.
THEOREM ConfigIsOne == Spec => []OneConfig
<1>1. ConfigInv => OneConfig
    BY DEF ConfigInv
<1> QED
    BY <1>1, InitHolds, StepKeeps, PTL DEF Spec
-----------------------------------------------------------------------------
(* Pages.                                                                  *)

Tables == [Rows -> Names \cup {NoName}]

LEMMA TableFacts ==
    ASSUME NEW t \in Tables, NEW r \in Rows
    PROVE  /\ t[r] \in Nat /\ (t[r] # NoName <=> t[r] > 0)
           /\ Level[r] \in Levels /\ r \in Nat \ {0}
<1>1. t[r] \in Names \cup {0}
  BY DEF Tables, NoName
<1>2. Names \subseteq Nat \ {0} /\ Rows \subseteq Nat \ {0} /\ Level \in [Rows -> Levels]
  BY PagingAssumption
<1>3. t[r] \in Nat
  <2>1. \A n \in Names : n \in Nat
    BY <1>2
  <2>. QED
    BY <1>1, <2>1
<1>4. Level[r] \in Levels /\ r \in Nat \ {0}
  BY <1>2
<1>5. t[r] # NoName <=> t[r] > 0
  BY <1>3 DEF NoName
<1>. QED
  BY <1>3, <1>4, <1>5

\* The last page is all there is; any other one is what comes before the record
\* that begins the next one, among the first in the order.
IsPage(page, S, before) ==
    \/ page = [records |-> S, next |-> 0]
    \/ \E T \in SUBSET S : \E x \in T :
        /\ page = [records |-> T \ {x}, next |-> x]
        /\ \A r \in S \ T : \A s \in T : <<r, s>> \notin before
        /\ \A r \in T : <<x, r>> \notin before

LEMMA PageFacts ==
    ASSUME NEW S \in SUBSET Rows, NEW limit \in Nat, NEW before,
           NEW page \in Pages(S, limit, before)
    PROVE  IsPage(page, S, before)
<1>0. IsFiniteSet(S) /\ Cardinality(S) \in Nat
  BY PagingAssumption, FS_Subset, FS_CardinalityType
<1>. DEFINE Cut(T) == IF Cardinality(T) <= limit THEN {[records |-> T, next |-> 0]}
                      ELSE {[records |-> T \ {x}, next |-> x] : x \in Last(T, before)}
<1>a. page \in UNION {Cut(T) : T \in First(S, limit + 1, before)}
  BY DEF Pages
<1>1. PICK T \in First(S, limit + 1, before) : page \in Cut(T)
  <2>. HIDE DEF Cut
  <2>. QED
    BY <1>a
<1>2. /\ T \in SUBSET S
      /\ Cardinality(T) = IF Cardinality(S) < limit + 1 THEN Cardinality(S) ELSE limit + 1
      /\ ((S \ T) \X T) \cap before = {}
  BY DEF First
<1>3. CASE Cardinality(T) <= limit
  <2>1. Cardinality(T) = Cardinality(S)
    BY <1>0, <1>2, <1>3
  <2>2. T = S
    BY <1>0, <1>2, <2>1, FS_Subset
  <2>. QED
    BY <1>1, <1>3, <2>2 DEF IsPage
<1>4. CASE ~(Cardinality(T) <= limit)
  <2>1. PICK x \in Last(T, before) : page = [records |-> T \ {x}, next |-> x]
    BY <1>1, <1>4
  <2>2. x \in T /\ ({x} \X T) \cap before = {}
    BY DEF Last
  <2>3. \A r \in S \ T : \A s \in T : <<r, s>> \notin before
    BY <1>2
  <2>4. \A r \in T : <<x, r>> \notin before
    BY <2>2
  <2>. QED
    BY <1>2, <2>1, <2>2, <2>3, <2>4 DEF IsPage
<1>. QED
  BY <1>3, <1>4

WalkSet ==
    [level : Union .. Fokontany, from : Levels, search : SUBSET Names, limit : Nat,
     cursor : [level : Nat, value : Nat, id : Nat], given : [Rows -> Nat],
     done : BOOLEAN, due : SUBSET Rows]

\* What a walk has yet to read.
Pending(t, w) ==
    IF w.level = Union THEN GetUnion(t, w.from, w.search, w.cursor)
    ELSE GetMany(t, w.level, w.search, w.cursor)

Owed(t, w, r) ==
    /\ r \in Alone(t) /\ t[r] \in w.search
    /\ IF w.level = Union THEN Level[r] >= w.from ELSE Level[r] = w.level

\* A row that is owed was given once, unless the next pages have it.
WalkOK(t, w) ==
    /\ w \in WalkSet /\ w.cursor.id \in Rows \cup {0}
    /\ w.level = Union /\ w.cursor.id # 0 => w.cursor.level >= Commune
    /\ w.done => w.cursor = NoCursor
    /\ \A r \in w.due :
        /\ Owed(t, w, r)
        /\ w.given[r] = IF ~w.done /\ r \in Pending(t, w) THEN 0 ELSE 1

\* A page of one level: the rows owed have names of their own, by which they
\* are ordered.
LEMMA LevelPage ==
    ASSUME NEW t \in Tables, NEW w, WalkOK(t, w), w.level # Union, NEW S,
           S = GetMany(t, w.level, w.search, w.cursor), NEW T \in SUBSET S, NEW x \in T,
           \A r \in S \ T : \A s \in T : <<r, s>> \notin ByName(t),
           \A r \in T : <<x, r>> \notin ByName(t),
           NEW r \in w.due
    PROVE  LET next == GetMany(t, w.level, w.search, ToCursor(t, x))
           IN  /\ r \in next <=> r \in S /\ r \notin T \ {x}
               /\ Level[r] <= ToCursor(t, x).level
<1>1. /\ r \in Rows /\ x \in Rows /\ x \in S /\ T \subseteq Rows
      /\ Level[r] = w.level /\ Level[x] = w.level /\ t[r] \in w.search /\ t[r] # NoName
      /\ AtOrAfter(t, x, w.cursor)
      /\ r \in S <=> AtOrAfter(t, r, w.cursor)
      /\ \A s \in Rows \ {r} : Level[s] = Level[r] => t[s] # t[r]
  BY DEF WalkOK, WalkSet, Owed, Alone, GetMany, Present
<1>2. /\ t[r] \in Nat /\ t[x] \in Nat /\ Level[r] \in Nat /\ r \in Nat /\ x \in Nat
      /\ w.cursor.value \in Nat /\ w.cursor.id \in Nat
  BY <1>1, TableFacts DEF Levels, WalkOK, WalkSet
<1>3. r = x \/ t[r] # t[x]
  BY <1>1
<1>4. /\ ToCursor(t, x).level = w.level
      /\ ToCursor(t, x).value = t[x] /\ ToCursor(t, x).id = x
  BY <1>1 DEF ToCursor
<1>5. r \in GetMany(t, w.level, w.search, ToCursor(t, x)) <=> t[r] > t[x] \/ r = x
  BY <1>1, <1>2, <1>3, <1>4 DEF GetMany, Present, AtOrAfter
<1>6. CASE r \notin S
  <2>1. ~(t[r] > w.cursor.value) /\ ~(t[r] = w.cursor.value /\ r >= w.cursor.id)
    BY <1>1, <1>6 DEF AtOrAfter
  <2>2. t[x] > w.cursor.value \/ (t[x] = w.cursor.value /\ x >= w.cursor.id)
    BY <1>1 DEF AtOrAfter
  <2>3. ~(t[r] > t[x])
    BY <1>2, <2>1, <2>2
  <2>4. r # x
    BY <1>1, <1>6
  <2>. QED
    BY <1>1, <1>2, <1>4, <1>5, <1>6, <2>3, <2>4
<1>7. CASE r \in S /\ r \in T
  <2>1. ~(t[x] < t[r])
    BY <1>1, <1>7 DEF ByName
  <2>. QED
    BY <1>1, <1>2, <1>3, <1>4, <1>5, <1>7, <2>1
<1>8. CASE r \in S /\ r \notin T
  <2>1. ~(t[r] < t[x])
    BY <1>1, <1>8 DEF ByName
  <2>. QED
    BY <1>1, <1>2, <1>3, <1>4, <1>5, <1>8, <2>1
<1>. QED
  BY <1>1, <1>2, <1>4, <1>6, <1>7, <1>8

\* A page of the union: the rows that stay due are those the next cursor lets
\* through, or that it has passed.
LEMMA UnionPage ==
    ASSUME NEW t \in Tables, NEW w, WalkOK(t, w), w.level = Union, NEW S,
           S = GetUnion(t, w.from, w.search, w.cursor), NEW T \in SUBSET S, NEW x \in T,
           \A r \in S \ T : \A s \in T : <<r, s>> \notin ByLevel(t),
           \A r \in T : <<x, r>> \notin ByLevel(t),
           NEW r \in w.due,
           LET cursor == ToUnionCursor(t, x)
           IN  Level[r] <= cursor.level \/ AtOrAfter(t, r, cursor)
    PROVE  r \in GetUnion(t, w.from, w.search, ToUnionCursor(t, x))
                <=> r \in S /\ r \notin T \ {x}
<1>. DEFINE start == IF w.cursor.level > w.from THEN w.cursor.level ELSE w.from
            id == IF Level[x] >= Commune THEN x ELSE 0
<1>1. /\ r \in Rows /\ x \in Rows /\ x \in S /\ T \subseteq Rows
      /\ Level[r] >= w.from /\ Level[x] >= start /\ t[r] \in w.search /\ t[r] # NoName
      /\ AtOrAfter(t, x, w.cursor)
      /\ r \in S <=> Level[r] >= start /\ AtOrAfter(t, r, w.cursor)
      /\ \A s \in Rows \ {r} : Level[s] = Level[r] => t[s] # t[r]
  BY DEF WalkOK, WalkSet, Owed, Alone, GetUnion, Present
<1>2. /\ t[r] \in Nat /\ t[x] \in Nat /\ Level[r] \in Nat /\ Level[x] \in Nat
      /\ r \in Nat /\ x \in Nat
      /\ w.cursor.value \in Nat /\ w.cursor.id \in Nat /\ w.cursor.level \in Nat
      /\ w.from \in Nat /\ (w.cursor.id # 0 => w.cursor.level >= Commune)
  BY <1>1, TableFacts DEF Levels, WalkOK, WalkSet
<1>3. r = x \/ Level[r] # Level[x] \/ t[r] # t[x]
  BY <1>1
<1>4. /\ ToUnionCursor(t, x).level = Level[x]
      /\ ToUnionCursor(t, x).value = t[x] /\ ToUnionCursor(t, x).id = id
  BY DEF ToUnionCursor, ToCursor
<1>5. start >= w.cursor.level /\ start >= w.from /\ start \in Nat
  BY <1>2
<1>6. r \in GetUnion(t, w.from, w.search, ToUnionCursor(t, x)) <=>
        Level[r] >= Level[x] /\ (t[r] > t[x] \/ (t[r] = t[x] /\ r >= id))
  BY <1>1, <1>2, <1>4, <1>5 DEF GetUnion, Present, AtOrAfter
<1>7. Level[r] <= Level[x] \/ t[r] > t[x] \/ (t[r] = t[x] /\ r >= id)
  BY <1>4 DEF AtOrAfter
<1>8. CASE r \notin S
  <2>1. CASE Level[r] < start
    BY <1>1, <1>2, <1>5, <1>6, <1>8, <2>1
  <2>2. CASE Level[r] >= start
    <3>1. t[r] < w.cursor.value \/ (t[r] = w.cursor.value /\ r < w.cursor.id)
      BY <1>1, <1>2, <1>8, <2>2 DEF AtOrAfter
    <3>2. t[x] > w.cursor.value \/ (t[x] = w.cursor.value /\ x >= w.cursor.id)
      BY <1>1 DEF AtOrAfter
    <3>3. t[r] < t[x] \/ (t[r] = t[x] /\ r < x /\ w.cursor.id # 0)
      BY <1>2, <3>1, <3>2
    <3>4. t[r] = t[x] => id = x
      BY <1>1, <1>2, <1>5, <3>3 DEF Commune
    <3>. QED
      BY <1>2, <1>6, <1>8, <3>3, <3>4
  <2>. QED
    BY <1>2, <1>5, <2>1, <2>2
<1>9. CASE r \in S /\ r \in T
  <2>1. <<x, r>> \notin ByLevel(t)
    BY <1>9
  <2>2. r = x \/ Level[r] < Level[x] \/ (Level[r] = Level[x] /\ t[r] < t[x])
    BY <1>1, <1>2, <1>3, <2>1 DEF ByLevel
  <2>. QED
    BY <1>2, <1>6, <1>9, <2>2
<1>10. CASE r \in S /\ r \notin T
  <2>1. <<r, x>> \notin ByLevel(t)
    BY <1>10
  <2>2. Level[r] > Level[x] \/ (Level[r] = Level[x] /\ t[r] > t[x])
    BY <1>1, <1>2, <1>3, <1>10, <2>1 DEF ByLevel
  <2>. QED
    BY <1>2, <1>6, <1>7, <1>10, <2>2
<1>. QED
  BY <1>8, <1>9, <1>10
-----------------------------------------------------------------------------
(* Walks.                                                                  *)

LEMMA PendingIn ==
    ASSUME NEW t, NEW w
    PROVE  Pending(t, w) \in SUBSET Rows
BY DEF Pending, GetUnion, GetMany, Present

\* What a page changes of a walk.
LEMMA TurnedFields ==
    ASSUME NEW w \in WalkSet, NEW page, NEW cursor
    PROVE  LET v == WithPage(w, page, cursor)
           IN  /\ v.level = w.level /\ v.from = w.from /\ v.search = w.search
               /\ v.limit = w.limit /\ v.cursor = cursor
               /\ v.done = (page.next = 0)
               /\ v.due = {r \in w.due : Level[r] <= cursor.level
                                           \/ AtOrAfter(table, r, cursor)}
               /\ \A r \in Rows : v.given[r] =
                    IF r \in page.records /\ w.given[r] < 2 THEN w.given[r] + 1
                    ELSE w.given[r]
               /\ cursor \in [level : Nat, value : Nat, id : Nat] => v \in WalkSet
<1>. DEFINE v == WithPage(w, page, cursor)
            given == [r \in Rows |-> IF r \in page.records /\ w.given[r] < 2
                                     THEN w.given[r] + 1 ELSE w.given[r]]
            due == {r \in w.due : Level[r] <= cursor.level
                                    \/ AtOrAfter(table, r, cursor)}
            done == page.next = 0
<1>1. v = [w EXCEPT !.cursor = cursor, !.done = done, !.given = given, !.due = due]
  BY DEF WithPage
<1>2. w.given \in [Rows -> Nat]
  BY DEF WalkSet
<1>3. given \in [Rows -> Nat] /\ done \in BOOLEAN /\ due \in SUBSET w.due
  BY <1>2
<1>4. \A r \in Rows : given[r] = IF r \in page.records /\ w.given[r] < 2
                                 THEN w.given[r] + 1 ELSE w.given[r]
  OBVIOUS
<1>. HIDE DEF given, done, due, v
<1>5. /\ v.level = w.level /\ v.from = w.from /\ v.search = w.search
      /\ v.limit = w.limit /\ v.cursor = cursor
      /\ v.done = done /\ v.given = given /\ v.due = due
  BY <1>1 DEF WalkSet
<1>6. cursor \in [level : Nat, value : Nat, id : Nat] => v \in WalkSet
  BY <1>1, <1>3 DEF WalkSet
<1>. QED
  BY <1>4, <1>5, <1>6 DEF v, done, due

LEMMA TurnedOK ==
    ASSUME table \in Tables, NEW w, WalkOK(table, w), ~w.done, NEW page \in WalkPages(w)
    PROVE  WalkOK(table, Turned(w, page)) /\ Turned(w, page) # NoWalk
<1>. DEFINE S == Pending(table, w)
            cursor == NextCursor(w, page.next)
            v == WithPage(w, page, cursor)
            before == IF w.level = Union THEN ByLevel(table) ELSE ByName(table)
<1>0. Turned(w, page) = v /\ w \in WalkSet
  BY DEF Turned, WalkOK
<1>1. page \in Pages(S, w.limit, before)
  BY DEF WalkPages, Pending
<1>2. S \in SUBSET Rows /\ w.limit \in Nat
  BY <1>0, PendingIn DEF WalkSet
<1>3. ASSUME cursor \in [level : Nat, value : Nat, id : Nat],
             cursor.id \in Rows \cup {0},
             w.level = Union /\ cursor.id # 0 => cursor.level >= Commune,
             page.next = 0 => cursor = NoCursor,
             \A r \in w.due :
                Level[r] <= cursor.level \/ AtOrAfter(table, r, cursor) =>
                    (IF r \in page.records THEN w.given[r] + 1 ELSE w.given[r])
                        = IF page.next # 0 /\ r \in Pending(table, [w EXCEPT !.cursor = cursor])
                          THEN 0 ELSE 1
      PROVE  WalkOK(table, v) /\ v # NoWalk
  <2>. HIDE DEF cursor
  <2>1. /\ v.level = w.level /\ v.from = w.from /\ v.search = w.search
        /\ v.limit = w.limit /\ v.cursor = cursor /\ v.done = (page.next = 0)
        /\ v.due = {r \in w.due : Level[r] <= cursor.level
                                    \/ AtOrAfter(table, r, cursor)}
        /\ \A r \in Rows : v.given[r] =
                IF r \in page.records /\ w.given[r] < 2 THEN w.given[r] + 1
                ELSE w.given[r]
        /\ v \in WalkSet
    BY <1>0, <1>3, TurnedFields
  <2>. HIDE DEF v
  <2>2. Pending(table, v) = Pending(table, [w EXCEPT !.cursor = cursor])
    BY <2>1, <1>0 DEF Pending, WalkSet
  <2>3. ASSUME NEW r \in v.due
        PROVE  Owed(table, v, r)
               /\ v.given[r] = IF ~v.done /\ r \in Pending(table, v) THEN 0 ELSE 1
    <3>1. r \in w.due /\ r \in Rows /\ Owed(table, w, r) /\ w.given[r] \in {0, 1}
      BY <2>1, <1>0 DEF WalkOK, WalkSet
    <3>2. Owed(table, v, r)
      BY <2>1, <3>1 DEF Owed
    <3>3. Level[r] <= cursor.level \/ AtOrAfter(table, r, cursor)
      BY <2>1
    <3>4. v.given[r] = IF r \in page.records THEN w.given[r] + 1 ELSE w.given[r]
      BY <2>1, <3>1
    <3>5. v.given[r] = IF page.next # 0 /\ r \in Pending(table, v) THEN 0 ELSE 1
      BY <1>3, <2>2, <3>1, <3>3, <3>4
    <3>. QED
      BY <2>1, <3>2, <3>5
  <2>4. v # NoWalk
    <3>1. DOMAIN v # DOMAIN NoWalk
      BY <2>1 DEF WalkSet, NoWalk
    <3>. QED
      BY <3>1
  <2>. QED
    BY <1>3, <2>1, <2>3, <2>4 DEF WalkOK
<1>4. CASE page = [records |-> S, next |-> 0]
  <2>1. page.next = 0 /\ page.records = S /\ cursor = NoCursor
    BY <1>4 DEF NextCursor
  <2>2. /\ cursor \in [level : Nat, value : Nat, id : Nat] /\ cursor.id = 0
    BY <2>1 DEF NoCursor
  <2>3. ASSUME NEW r \in w.due
        PROVE  (IF r \in page.records THEN w.given[r] + 1 ELSE w.given[r]) = 1
    <3>1. w.given[r] = IF r \in S THEN 0 ELSE 1
      BY DEF WalkOK
    <3>. QED
      BY <2>1, <3>1
  <2>. QED
    BY <1>0, <1>3, <2>1, <2>2, <2>3
<1>5. ASSUME NEW T \in SUBSET S, NEW x \in T, page = [records |-> T \ {x}, next |-> x],
             \A r \in S \ T : \A s \in T : <<r, s>> \notin before,
             \A r \in T : <<x, r>> \notin before
      PROVE  WalkOK(table, v) /\ v # NoWalk
  <2>1. page.next = x /\ page.records = T \ {x} /\ x \in Rows
    BY <1>2, <1>5
  <2>2. /\ x # 0 /\ Level[x] \in Nat /\ table[x] \in Nat /\ x \in Nat
    BY <2>1, TableFacts DEF Levels
  <2>3. cursor = IF w.level = Union THEN ToUnionCursor(table, x) ELSE ToCursor(table, x)
    BY <2>1, <2>2 DEF NextCursor
  <2>4. /\ cursor \in [level : Nat, value : Nat, id : Nat]
        /\ cursor.id \in Rows \cup {0}
        /\ w.level = Union /\ cursor.id # 0 => cursor.level >= Commune
    BY <2>1, <2>2, <2>3 DEF ToUnionCursor, ToCursor
  <2>5. ASSUME NEW r \in w.due, Level[r] <= cursor.level \/ AtOrAfter(table, r, cursor)
        PROVE  r \in Pending(table, [w EXCEPT !.cursor = cursor])
                    <=> r \in S /\ r \notin T \ {x}
    <3>. DEFINE u == [w EXCEPT !.cursor = cursor]
    <3>1. u.level = w.level /\ u.from = w.from /\ u.search = w.search /\ u.cursor = cursor
      BY <1>0 DEF WalkSet
    <3>2. CASE w.level = Union
      <4>1. S = GetUnion(table, w.from, w.search, w.cursor)
        BY <3>2 DEF Pending
      <4>2. r \in GetUnion(table, w.from, w.search, ToUnionCursor(table, x))
                <=> r \in S /\ r \notin T \ {x}
        <5>. HIDE DEF S, u
        <5>. QED
          BY <4>1, <2>3, <2>5, <3>2, <1>5, UnionPage
      <4>. QED
        BY <4>2, <3>1, <3>2, <2>3 DEF Pending
    <3>3. CASE w.level # Union
      <4>1. S = GetMany(table, w.level, w.search, w.cursor)
        BY <3>3 DEF Pending
      <4>2. r \in GetMany(table, w.level, w.search, ToCursor(table, x))
                <=> r \in S /\ r \notin T \ {x}
        <5>. HIDE DEF S, u
        <5>. QED
          BY <4>1, <3>3, <1>5, LevelPage
      <4>. QED
        BY <4>2, <3>1, <3>3, <2>3 DEF Pending
    <3>. QED
      BY <3>2, <3>3
  <2>6. ASSUME NEW r \in w.due, Level[r] <= cursor.level \/ AtOrAfter(table, r, cursor)
        PROVE  (IF r \in page.records THEN w.given[r] + 1 ELSE w.given[r])
                    = IF page.next # 0 /\ r \in Pending(table, [w EXCEPT !.cursor = cursor])
                      THEN 0 ELSE 1
    <3>1. w.given[r] = IF r \in S THEN 0 ELSE 1
      BY DEF WalkOK
    <3>. QED
      BY <2>1, <2>2, <2>5, <2>6, <3>1
  <2>. QED
    BY <1>3, <2>1, <2>2, <2>4, <2>6
<1>. HIDE DEF S, cursor, v, before
<1>6. IsPage(page, S, before)
  BY <1>1, <1>2, PageFacts
<1>. QED
  BY <1>0, <1>4, <1>5, <1>6 DEF IsPage
-----------------------------------------------------------------------------
(* Routes.                                                                 *)

Methods ==
    {"getAll", "getById", "getMany", "getUnion", "getByPointCoordinates",
     "getByFokontanyGeoJson"}

AllCalls == [level : Union .. Fokontany, method : Methods, by : SUBSET Levels]

\* The calls of a route come in groups; a page is one call.
RouteOK(r) ==
    /\ r.calls \in Seq(SUBSET AllCalls)
    /\ Len(r.keys) = 1 => /\ r.keys[1] \in Union .. Fokontany
                          /\ \E call \in AllCalls : r.calls = <<{call}>>

LEMMA OneElement ==
    ASSUME NEW S, NEW e \in S
    PROVE  <<e>> \in Seq(S) /\ Len(<<e>>) = 1 /\ <<e>>[1] = e
OBVIOUS

\* A route of one call.
LEMMA OneCallOK ==
    ASSUME NEW l \in Union .. Fokontany, NEW call \in AllCalls
    PROVE  RouteOK([keys |-> <<l>>, calls |-> <<{call}>>])
<1>1. {call} \in SUBSET AllCalls
  OBVIOUS
<1>2. <<{call}>> \in Seq(SUBSET AllCalls)
  BY <1>1, OneElement
<1>. QED
  BY <1>2 DEF RouteOK

LEMMA ReadsOK ==
    ASSUME NEW l \in Union .. Fokontany, NEW method \in Methods
    PROVE  RouteOK(Reads(l, method))
<1>1. Call(l, method) \in AllCalls
  BY DEF Call, AllCalls, Levels
<1>. QED
  BY <1>1, OneCallOK DEF Reads

LEMMA PageOfOK ==
    ASSUME NEW l \in Levels, NEW by \in SUBSET Levels
    PROVE  RouteOK(PageOf(l, by))
<1>1. l \in Union .. Fokontany
  BY DEF Levels, Union, Fokontany
<1>2. [Call(l, "getMany") EXCEPT !.by = by] = [level |-> l, method |-> "getMany", by |-> by]
  BY DEF Call
<1>3. [Call(l, "getMany") EXCEPT !.by = by] \in AllCalls
  BY <1>1, <1>2 DEF AllCalls, Methods
<1>. QED
  BY <1>1, <1>3, OneCallOK DEF PageOf

LEMMA RouteShape ==
    ASSUME NEW r \in Routes
    PROVE  /\ r.calls \in Seq(SUBSET AllCalls)
           /\ r \in Walks => /\ r.keys[1] \in Union .. Fokontany
                             /\ \E call \in AllCalls : r.calls = <<{call}>>
<1> SUFFICES RouteOK(r)
    BY DEF RouteOK, Walks
<1>0. /\ Union = 0 /\ Province = 1 /\ Region = 2 /\ District = 3 /\ Commune = 4
      /\ Fokontany = 5 /\ Levels = 1 .. 5
  BY DEF Union, Province, Region, District, Commune, Fokontany, Levels
<1>1. CASE r = [keys |-> <<>>, calls |-> <<>>]
  <2>1. <<>> \in Seq(SUBSET AllCalls) /\ Len(<<>>) = 0
    OBVIOUS
  <2>2. r.keys = <<>> /\ r.calls = <<>>
    BY <1>1
  <2>. QED
    BY <2>1, <2>2 DEF RouteOK
<1>2. \A l \in Union .. Fokontany :
        /\ RouteOK(Reads(l, "getAll")) /\ RouteOK(Reads(l, "getById"))
        /\ RouteOK(Reads(l, "getByPointCoordinates")) /\ RouteOK(Reads(l, "getUnion"))
  BY ReadsOK DEF Methods
<1>3. /\ Province \in Union .. Fokontany /\ Region \in Union .. Fokontany
      /\ District \in Union .. Fokontany /\ Commune \in Union .. Fokontany
      /\ Fokontany \in Union .. Fokontany /\ Union \in Union .. Fokontany
      /\ District .. Fokontany \subseteq Union .. Fokontany
  BY <1>0
<1>4. CASE r \in ProvincesRouter \cup RegionsRouter \cup LocationsRouter
  BY <1>2, <1>3, <1>4 DEF ProvincesRouter, RegionsRouter, LocationsRouter
<1>5. \A l \in Levels : \A by \in SUBSET Levels : RouteOK(PageOf(l, by))
  BY PageOfOK
<1>6. /\ {Province, Region} \subseteq Levels /\ {Province, Region, District} \subseteq Levels
      /\ Province .. Commune \subseteq Levels
      /\ District \in Levels /\ Commune \in Levels /\ Fokontany \in Levels
  BY <1>0
<1>7. CASE r \in DistrictsRouter \cup CommunesRouter
  BY <1>2, <1>3, <1>5, <1>6, <1>7 DEF DistrictsRouter, CommunesRouter
<1>8. CASE r \in FokontanysRouter
  <2>1. CASE r = Reads(Fokontany, "getById") \/ \E by \in SUBSET (Province .. Commune) :
                    r = PageOf(Fokontany, by)
    BY <1>2, <1>3, <1>5, <1>6, <2>1
  <2>2. ASSUME NEW last \in {[Call(District, "getById") EXCEPT !.by = {Fokontany}],
                            Call(District, "getByFokontanyGeoJson")},
               r = [keys |-> <<Fokontany, District>>,
                    calls |-> <<{Call(Fokontany, "getById")}, {last}>>]
        PROVE  RouteOK(r)
    <3>1. [Call(District, "getById") EXCEPT !.by = {Fokontany}]
            = [level |-> District, method |-> "getById", by |-> {Fokontany}]
      BY DEF Call
    <3>2. last \in AllCalls /\ Call(Fokontany, "getById") \in AllCalls
      BY <1>3, <1>6, <3>1 DEF AllCalls, Call, Methods
    <3>3. <<{Call(Fokontany, "getById")}, {last}>> \in Seq(SUBSET AllCalls)
      BY <3>2
    <3>4. Len(<<Fokontany, District>>) = 2
      OBVIOUS
    <3>. QED
      BY <2>2, <3>3, <3>4 DEF RouteOK
  <2>. QED
    BY <1>8, <2>1, <2>2 DEF FokontanysRouter
<1>9. CASE r \in AdmEntitiesRouter
  <2>. DEFINE five == <<Province, Region, District, Commune, Fokontany>>
              all == {Call(Province, "getAll"), Call(Region, "getAll")}
                       \cup {Call(l, "getMany") : l \in District .. Fokontany}
  <2>1. \A l \in Union .. Fokontany : Call(l, "getAll") \in AllCalls
                                        /\ Call(l, "getMany") \in AllCalls
    BY DEF Call, AllCalls, Methods
  <2>2. all \in SUBSET AllCalls
    BY <1>3, <2>1
  <2>3. <<all>> \in Seq(SUBSET AllCalls)
    BY <2>2, OneElement
  <2>4. Len(five) = 5
    OBVIOUS
  <2>. HIDE DEF five, all
  <2>5. CASE r = [keys |-> five, calls |-> <<all>>]
    BY <2>3, <2>4, <2>5 DEF RouteOK
  <2>. QED
    BY <1>2, <1>3, <1>9, <2>5 DEF AdmEntitiesRouter, five, all
<1>. QED
  BY <1>1, <1>4, <1>7, <1>8, <1>9 DEF Routes
-----------------------------------------------------------------------------
(* The invariant of the service and its readers.                           *)

ClientSteps == {"idle", "config", "loading", "inject", "handle", "away"}
Asking == {"config", "loading", "inject", "handle"}
UserSteps == {"new", "query", "choice", "done", "away"}

\* A request for a page of a walk is about a walk that is not at its end, and
\* makes one call.
ClientOK(c) ==
    /\ pc[c] \in ClientSteps /\ request[c] \in Requests[c] \cup {None}
    /\ pc[c] \in Asking => request[c] \in Requests[c]
    /\ keys[c] # <<>> => pc[c] = "inject"
    /\ calls[c] \in Seq(SUBSET AllCalls) /\ (calls[c] # <<>> <=> pc[c] = "handle")
    /\ held[c] \in SUBSET AllCalls /\ IsFiniteSet(held[c])
    /\ held[c] # {} => calls[c] # <<>> /\ held[c] \subseteq Head(calls[c])
    /\ pc[c] \in Asking /\ request[c] \in Walks =>
            /\ walk[c] # NoWalk /\ ~walk[c].done
            /\ calls[c] # <<>> => \E call \in AllCalls : calls[c] = <<{call}>>

UserOK(u) ==
    /\ pc[u] \in UserSteps
    /\ pc[u] = "choice" => walk[u] # NoWalk /\ ~walk[u].done

\* The connections in use, by who holds them and for which call.
Holders == UNION {{c} \X held[c] : c \in Clients}

PoolOK ==
    /\ kept \in Nat /\ (db # "postgres" => kept = 0)
    /\ IsFiniteSet(Holders)
    /\ db = "postgres" => kept + Cardinality(Holders) <= PoolSize

WalksOK == \A w \in Walkers : walk[w] # NoWalk => WalkOK(table, walk[w])

Plain ==
    /\ db \in Databases /\ table \in Tables /\ writes \in 0 .. MaxWrites
    /\ request = [c \in Clients |-> request[c]] /\ keys = [c \in Clients |-> keys[c]]
    /\ calls = [c \in Clients |-> calls[c]] /\ held = [c \in Clients |-> held[c]]
    /\ walk = [w \in Walkers |-> walk[w]]

ApiInv ==
    /\ ConfigInv /\ Plain /\ PoolOK /\ WalksOK
    /\ \A c \in Clients : ClientOK(c)
    /\ \A u \in Users : UserOK(u)

LEMMA HoldersAre ==
    ASSUME \A c \in Clients : held[c] \in SUBSET AllCalls
    PROVE  Holders = {p \in Clients \X AllCalls : p[2] \in held[p[1]]}
BY DEF Holders

\* A step of one client.
LEMMA ClientStep ==
    ASSUME ApiInv, NEW c \in Clients, ConfigInv', Plain', PoolOK', ClientOK(c)',
           UNCHANGED table, walk'[c] # NoWalk => WalkOK(table, walk'[c]),
           \A w \in Walkers \ {c} : pc'[w] = pc[w] /\ walk'[w] = walk[w],
           \A d \in Clients \ {c} :
                /\ request'[d] = request[d] /\ keys'[d] = keys[d]
                /\ calls'[d] = calls[d] /\ held'[d] = held[d]
    PROVE  ApiInv'
<1>1. ASSUME NEW d \in Clients \ {c} PROVE ClientOK(d)'
  <2>1. ClientOK(d) /\ d \in Walkers \ {c}
    BY DEF ApiInv, Walkers
  <2>. QED
    BY <2>1 DEF ClientOK
<1>2. ASSUME NEW u \in Users PROVE UserOK(u)'
  <2>1. UserOK(u) /\ u \in Walkers \ {c}
    BY RestApiAssumption DEF ApiInv, Walkers
  <2>. QED
    BY <2>1 DEF UserOK
<1>3. WalksOK'
  BY DEF ApiInv, WalksOK
<1>. QED
  BY <1>1, <1>2, <1>3 DEF ApiInv

\* A step of one user.
LEMMA UserStep ==
    ASSUME ApiInv, NEW u \in Users, ConfigInv', Plain', UserOK(u)',
           UNCHANGED <<data, server>>, walk'[u] # NoWalk => WalkOK(table, walk'[u]),
           \A w \in Walkers \ {u} : pc'[w] = pc[w] /\ walk'[w] = walk[w]
    PROVE  ApiInv'
<1>0. UNCHANGED <<db, table, kept, request, keys, calls, held>>
  BY DEF data, server
<1>1. ASSUME NEW d \in Clients PROVE ClientOK(d)'
  <2>1. ClientOK(d) /\ d \in Walkers \ {u}
    BY RestApiAssumption DEF ApiInv, Walkers
  <2>. QED
    BY <1>0, <2>1 DEF ClientOK
<1>2. ASSUME NEW v \in Users \ {u} PROVE UserOK(v)'
  <2>1. UserOK(v) /\ v \in Walkers \ {u}
    BY DEF ApiInv, Walkers
  <2>. QED
    BY <2>1 DEF UserOK
<1>3. WalksOK'
  BY <1>0 DEF ApiInv, WalksOK
<1>4. PoolOK'
  BY <1>0 DEF ApiInv, PoolOK, Holders
<1>. QED
  BY <1>1, <1>2, <1>3, <1>4 DEF ApiInv

LEMMA NewWalkOK ==
    ASSUME table \in Tables, NEW l \in Union .. Fokontany, NEW view, NEW limit \in Nat,
           view.search \in SUBSET Names, view.from \in Levels
    PROVE  LET w == NewWalk(l, view, limit)
           IN  WalkOK(table, w) /\ ~w.done /\ w # NoWalk
<1>. DEFINE due == {r \in Alone(table) :
                        /\ table[r] \in view.search
                        /\ IF l = Union THEN Level[r] >= view.from ELSE Level[r] = l}
            given == [r \in Rows |-> 0]
            w == NewWalk(l, view, limit)
<1>1. w = [level |-> l, from |-> view.from, search |-> view.search, limit |-> limit,
           cursor |-> NoCursor, given |-> given, done |-> FALSE, due |-> due]
  BY DEF NewWalk
<1>2. due \in SUBSET Rows /\ given \in [Rows -> Nat]
      /\ NoCursor \in [level : Nat, value : Nat, id : Nat] /\ NoCursor.id = 0
      /\ NoCursor.level = 0 /\ NoCursor.value = 0
  BY DEF Alone, Present, NoCursor
<1>3. ASSUME NEW r \in due
      PROVE  /\ r \in Rows /\ table[r] \in Nat /\ table[r] > 0 /\ Level[r] \in Nat
             /\ r \in Present(table) /\ r \in Alone(table) /\ table[r] \in view.search
             /\ IF l = Union THEN Level[r] >= view.from ELSE Level[r] = l
             /\ given[r] = 0
  BY TableFacts DEF Alone, Present, Levels
<1>. HIDE DEF due, given, w
<1>4. /\ w.level = l /\ w.from = view.from /\ w.search = view.search /\ w.cursor = NoCursor
      /\ w.given = given /\ w.done = FALSE /\ w.due = due
  BY <1>1
<1>5. w \in WalkSet
  BY <1>1, <1>2 DEF WalkSet
<1>6. ASSUME NEW r \in due PROVE Owed(table, w, r) /\ r \in Pending(table, w)
  <2>1. AtOrAfter(table, r, NoCursor)
    BY <1>2, <1>3 DEF AtOrAfter
  <2>2. NoCursor.level > view.from <=> FALSE
    BY <1>2 DEF Levels
  <2>. QED
    BY <1>3, <1>4, <2>1, <2>2 DEF Owed, Pending, GetMany, GetUnion
<1>7. WalkOK(table, w)
  BY <1>2, <1>3, <1>4, <1>5, <1>6 DEF WalkOK
<1>8. w # NoWalk
  <2>1. DOMAIN w # DOMAIN NoWalk
    BY <1>1 DEF NoWalk
  <2>. QED
    BY <2>1
<1>. QED
  BY <1>4, <1>7, <1>8 DEF w

LEMMA ApiStart == Init => ApiInv
<1> SUFFICES ASSUME Init PROVE ApiInv
    OBVIOUS
<1>1. ConfigInv
  BY InitHolds
<1>2. Plain
  BY RestApiAssumption DEF Init, Plain, Tables
<1>3. PICK readers \in Readers :
        pc = [w \in Walkers |-> IF w \notin readers THEN "away"
                               ELSE IF w \in Clients THEN "idle" ELSE "new"]
  BY DEF Init
<1>4. ASSUME NEW c \in Clients PROVE ClientOK(c)
  <2>1. pc[c] \in {"away", "idle"}
    BY <1>3 DEF Walkers
  <2>2. <<>> \in Seq(SUBSET AllCalls) /\ IsFiniteSet({})
    BY FS_EmptySet
  <2>. QED
    BY <2>1, <2>2 DEF Init, ClientOK, ClientSteps, Asking
<1>5. ASSUME NEW u \in Users PROVE UserOK(u)
  <2>1. pc[u] \in {"away", "new"}
    BY <1>3, RestApiAssumption DEF Walkers
  <2>. QED
    BY <2>1 DEF UserOK, UserSteps
<1>6. PoolOK
  <2>1. Holders = {}
    BY DEF Init, Holders
  <2>2. PoolSize \in Nat
    BY RestApiAssumption
  <2>. QED
    BY <2>1, <2>2, FS_EmptySet DEF Init, PoolOK
<1>7. WalksOK
  BY DEF Init, WalksOK
<1>. QED
  BY <1>1, <1>2, <1>4, <1>5, <1>6, <1>7 DEF ApiInv
-----------------------------------------------------------------------------
(* The steps of a client.                                                  *)

LEMMA OneValue ==
    ASSUME NEW S, NEW f, f = [x \in S |-> f[x]], NEW a \in S, NEW v,
           NEW g, g = [f EXCEPT ![a] = v]
    PROVE  g = [x \in S |-> g[x]] /\ g[a] = v /\ \A x \in S \ {a} : g[x] = f[x]
OBVIOUS

LEMMA PoolStays ==
    ASSUME ApiInv, UNCHANGED <<db, kept>>, \A c \in Clients : held'[c] = held[c]
    PROVE  PoolOK'
<1>1. Holders' = Holders
  BY DEF Holders
<1>. QED
  BY <1>1 DEF ApiInv, PoolOK

LEMMA LimitInNat ==
    ASSUME NEW limit \in Nat \cup {None}
    PROVE  ParseLimitQueryParam(limit) \in Nat
BY PagingAssumption DEF ParseLimitQueryParam

LEMMA ReplyFields ==
    ASSUME ApiInv, NEW c \in Clients, Reply(c)
    PROVE  /\ ClientOK(c)'
           /\ request' = [d \in Clients |-> request'[d]]
           /\ keys' = [d \in Clients |-> keys'[d]]
           /\ calls' = [d \in Clients |-> calls'[d]]
           /\ held' = [d \in Clients |-> held'[d]] /\ held'[c] = {}
           /\ \A w \in Walkers \ {c} : pc'[w] = pc[w]
           /\ \A d \in Clients \ {c} :
                /\ request'[d] = request[d] /\ keys'[d] = keys[d]
                /\ calls'[d] = calls[d] /\ held'[d] = held[d]
<1>1. /\ request = [d \in Clients |-> request[d]] /\ keys = [d \in Clients |-> keys[d]]
      /\ calls = [d \in Clients |-> calls[d]] /\ held = [d \in Clients |-> held[d]]
      /\ pc \in [Walkers -> Steps] /\ c \in Walkers
  BY DEF ApiInv, Plain, ConfigInv, Shape, Walkers
<1>2. /\ request' = [request EXCEPT ![c] = None] /\ keys' = [keys EXCEPT ![c] = <<>>]
      /\ calls' = [calls EXCEPT ![c] = <<>>] /\ held' = [held EXCEPT ![c] = {}]
      /\ pc' = [pc EXCEPT ![c] = "idle"]
  BY DEF Reply
<1>3. request' = [d \in Clients |-> request'[d]] /\ request'[c] = None
      /\ \A d \in Clients \ {c} : request'[d] = request[d]
  BY <1>1, <1>2, OneValue
<1>4. keys' = [d \in Clients |-> keys'[d]] /\ keys'[c] = <<>>
      /\ \A d \in Clients \ {c} : keys'[d] = keys[d]
  BY <1>1, <1>2, OneValue
<1>5. calls' = [d \in Clients |-> calls'[d]] /\ calls'[c] = <<>>
      /\ \A d \in Clients \ {c} : calls'[d] = calls[d]
  BY <1>1, <1>2, OneValue
<1>6. held' = [d \in Clients |-> held'[d]] /\ held'[c] = {}
      /\ \A d \in Clients \ {c} : held'[d] = held[d]
  BY <1>1, <1>2, OneValue
<1>7. pc'[c] = "idle" /\ \A w \in Walkers \ {c} : pc'[w] = pc[w]
  BY <1>1, <1>2
<1>8. <<>> \in Seq(SUBSET AllCalls) /\ IsFiniteSet({})
  BY FS_EmptySet
<1>9. ClientOK(c)'
  BY <1>3, <1>4, <1>5, <1>6, <1>7, <1>8 DEF ClientOK, ClientSteps, Asking
<1>. QED
  BY <1>3, <1>4, <1>5, <1>6, <1>7, <1>9

LEMMA AskHolds ==
    ASSUME ApiInv, NEW c \in Clients, Ask(c)
    PROVE  ApiInv'
<1>0. /\ ConfigInv' /\ UNCHANGED <<db, table, writes, kept, keys, calls, held>>
      /\ c \in Walkers /\ pc[c] = "idle"
  BY AskKeeps DEF ApiInv, Ask, data, Walkers
<1>1. PICK r \in Requests[c] :
        /\ request' = [request EXCEPT ![c] = r]
        /\ IF r \notin Walks THEN UNCHANGED walk
           ELSE \/ /\ walk[c] # NoWalk /\ walk[c].cursor # NoCursor
                   /\ walk[c].level = r.keys[1]
                   /\ UNCHANGED walk
                \/ \E view \in Views[c] :
                    /\ r.keys[1] # Union => view.from = Province
                    /\ walk' = [walk EXCEPT ![c] =
                        NewWalk(r.keys[1], view, ParseLimitQueryParam(view.limit))]
  BY DEF Ask
<1>2. request' = [d \in Clients |-> request'[d]] /\ request'[c] = r
      /\ \A d \in Clients \ {c} : request'[d] = request[d]
  BY <1>1, OneValue DEF ApiInv, Plain
<1>3. pc'[c] = "config" /\ \A w \in Walkers \ {c} : pc'[w] = pc[w]
  BY <1>0 DEF Ask, ApiInv, ConfigInv, Shape
<1>4. /\ walk' = [w \in Walkers |-> walk'[w]]
      /\ \A w \in Walkers \ {c} : walk'[w] = walk[w]
      /\ walk'[c] # NoWalk => WalkOK(table, walk'[c])
      /\ r \in Walks => walk'[c] # NoWalk /\ ~walk'[c].done
  <2>0. walk = [w \in Walkers |-> walk[w]] /\ table \in Tables
        /\ (walk[c] # NoWalk => WalkOK(table, walk[c]))
    BY <1>0 DEF ApiInv, Plain, WalksOK
  <2>1. CASE UNCHANGED walk /\ r \notin Walks
    BY <2>0, <2>1
  <2>2. CASE UNCHANGED walk /\ walk[c] # NoWalk /\ walk[c].cursor # NoCursor
    BY <2>0, <2>2 DEF WalkOK
  <2>3. ASSUME NEW view \in Views[c], r \in Walks,
               walk' = [walk EXCEPT ![c] =
                   NewWalk(r.keys[1], view, ParseLimitQueryParam(view.limit))]
        PROVE  <1>4
    <3>. DEFINE n == NewWalk(r.keys[1], view, ParseLimitQueryParam(view.limit))
    <3>1. view \in [search : SUBSET Names, from : Levels, limit : Nat \cup {None}]
      BY <1>0, RestApiAssumption
    <3>2. r.keys[1] \in Union .. Fokontany
      BY <2>3, RouteShape, RestApiAssumption
    <3>3. ParseLimitQueryParam(view.limit) \in Nat
      BY <3>1, LimitInNat
    <3>4. WalkOK(table, n) /\ ~n.done /\ n # NoWalk
      BY <2>0, <3>1, <3>2, <3>3, NewWalkOK
    <3>. HIDE DEF n
    <3>5. walk' = [w \in Walkers |-> walk'[w]] /\ walk'[c] = n
          /\ \A w \in Walkers \ {c} : walk'[w] = walk[w]
      BY <1>0, <2>0, <2>3, OneValue DEF n
    <3>. QED
      BY <3>4, <3>5
  <2>. QED
    BY <1>1, <2>1, <2>2, <2>3
<1>5. ClientOK(c)'
  <2>1. ClientOK(c)
    BY DEF ApiInv
  <2>. QED
    BY <1>0, <1>2, <1>3, <1>4, <2>1 DEF ClientOK, ClientSteps, Asking
<1>6. Plain' /\ PoolOK'
  BY <1>0, <1>2, <1>4, PoolStays DEF ApiInv, Plain
<1>. QED
  BY <1>0, <1>2, <1>3, <1>4, <1>5, <1>6, ClientStep

\* A request goes on: its walk, and the pool, are as they were.
LEMMA MovesOn ==
    ASSUME ApiInv, NEW c \in Clients, ConfigInv', pc[c] \in Asking, held[c] = {},
           UNCHANGED <<db, table, writes, kept, walk, request, held>>,
           NEW step \in Asking, pc' = [pc EXCEPT ![c] = step],
           NEW ks, keys' = [keys EXCEPT ![c] = ks], ks # <<>> => step = "inject",
           NEW cs \in Seq(SUBSET AllCalls), calls' = [calls EXCEPT ![c] = cs],
           cs # <<>> <=> step = "handle",
           request[c] \in Walks /\ cs # <<>> => \E call \in AllCalls : cs = <<{call}>>
    PROVE  ApiInv'
<1>0. c \in Walkers /\ ClientOK(c)
  BY DEF ApiInv, Walkers
<1>1. keys' = [d \in Clients |-> keys'[d]] /\ keys'[c] = ks
      /\ \A d \in Clients \ {c} : keys'[d] = keys[d]
  BY OneValue DEF ApiInv, Plain
<1>2. calls' = [d \in Clients |-> calls'[d]] /\ calls'[c] = cs
      /\ \A d \in Clients \ {c} : calls'[d] = calls[d]
  BY OneValue DEF ApiInv, Plain
<1>3. pc'[c] = step /\ \A w \in Walkers \ {c} : pc'[w] = pc[w]
  BY <1>0 DEF ApiInv, ConfigInv, Shape
<1>4. ClientOK(c)'
  BY <1>0, <1>1, <1>2, <1>3 DEF ClientOK, ClientSteps, Asking
<1>5. Plain'
  BY <1>1, <1>2 DEF ApiInv, Plain
<1>6. PoolOK'
  BY PoolStays
<1>7. walk[c] # NoWalk => WalkOK(table, walk[c])
  BY <1>0 DEF ApiInv, WalksOK
<1>. QED
  BY <1>1, <1>2, <1>3, <1>4, <1>5, <1>6, <1>7, ClientStep

\* A request is answered without a connection.
LEMMA RepliesOnly ==
    ASSUME ApiInv, NEW c \in Clients, ConfigInv', Reply(c), held[c] = {},
           UNCHANGED <<db, table, writes, kept, walk>>
    PROVE  ApiInv'
<1>0. c \in Walkers
  BY DEF Walkers
<1>1. PoolOK'
  BY ReplyFields, PoolStays
<1>2. Plain'
  BY ReplyFields DEF ApiInv, Plain
<1>3. walk[c] # NoWalk => WalkOK(table, walk[c])
  BY <1>0 DEF ApiInv, WalksOK
<1>. QED
  BY <1>1, <1>2, <1>3, ReplyFields, ClientStep

\* Before its handler a request has no calls, and no connection.
LEMMA NoCallsYet ==
    ASSUME ApiInv, NEW c \in Clients, pc[c] # "handle"
    PROVE  /\ calls[c] = <<>> /\ held[c] = {} /\ <<>> \in Seq(SUBSET AllCalls)
           /\ calls = [calls EXCEPT ![c] = <<>>]
<1>1. ClientOK(c)
  BY DEF ApiInv
<1>2. calls[c] = <<>> /\ held[c] = {}
  BY <1>1 DEF ClientOK
<1>3. calls = [d \in Clients |-> calls[d]]
  BY DEF ApiInv, Plain
<1>. QED
  BY <1>2, <1>3

LEMMA ConfiguredHolds ==
    ASSUME ApiInv, NEW c \in Clients, ConfigInv', NEW loaded, Configured(c, loaded),
           pc[c] \in {"config", "loading"}, UNCHANGED <<db, table, writes, kept, walk>>
    PROVE  ApiInv'
<1>1. /\ UNCHANGED <<request, calls, held>> /\ pc' = [pc EXCEPT ![c] = "inject"]
      /\ keys' = [keys EXCEPT ![c] = request[c].keys]
  BY DEF Configured
<1>2. calls' = [calls EXCEPT ![c] = <<>>] /\ held[c] = {}
      /\ <<>> \in Seq(SUBSET AllCalls)
  BY <1>1, NoCallsYet
<1>. QED
  BY <1>1, <1>2, MovesOn DEF Asking

LEMMA LoadHolds ==
    ASSUME ApiInv, NEW c \in Clients, Load(c)
    PROVE  ApiInv'
<1>0. ConfigInv' /\ UNCHANGED <<db, table, writes, kept, walk>> /\ pc[c] = "config"
  BY LoadKeeps DEF ApiInv, Load, data
<1>1. CASE configInstance = None
  <2>1. UNCHANGED <<request, keys, calls, held>> /\ pc' = [pc EXCEPT ![c] = "loading"]
    BY <1>1 DEF Load
  <2>2. calls' = [calls EXCEPT ![c] = <<>>] /\ held[c] = {}
        /\ <<>> \in Seq(SUBSET AllCalls)
    BY <1>0, <2>1, NoCallsYet
  <2>3. keys[c] = <<>> /\ keys' = [keys EXCEPT ![c] = <<>>]
    BY <1>0, <2>1 DEF ApiInv, ClientOK, Plain
  <2>. QED
    BY <1>0, <2>1, <2>2, <2>3, MovesOn DEF Asking
<1>2. CASE configInstance # None
  <2>1. Configured(c, configInstance)
    BY <1>2 DEF Load
  <2>. QED
    BY <1>0, <2>1, ConfiguredHolds
<1>. QED
  BY <1>1, <1>2

LEMMA LoadedHolds ==
    ASSUME ApiInv, NEW c \in Clients, Loaded(c)
    PROVE  ApiInv'
<1>0. ConfigInv' /\ UNCHANGED <<db, table, writes, kept, walk>> /\ pc[c] = "loading"
  BY LoadedKeeps DEF ApiInv, Loaded, data
<1>1. held[c] = {}
  BY <1>0, NoCallsYet
<1>2. Reply(c) \/ Configured(c, saved)
  BY DEF Loaded
<1>. QED
  BY <1>0, <1>1, <1>2, RepliesOnly, ConfiguredHolds

LEMMA InjectHolds ==
    ASSUME ApiInv, NEW c \in Clients, Inject(c)
    PROVE  ApiInv'
<1>0. /\ ConfigInv' /\ UNCHANGED <<db, table, writes, kept, walk>> /\ pc[c] = "inject"
      /\ c \in Walkers
  BY InjectKeeps DEF ApiInv, Inject, data, Walkers
<1>1. /\ held[c] = {} /\ calls = [calls EXCEPT ![c] = <<>>]
      /\ <<>> \in Seq(SUBSET AllCalls)
  BY <1>0, NoCallsYet
<1>2. CASE keys[c] # <<>>
  <2>1. /\ keys' = [keys EXCEPT ![c] = Tail(keys[c])]
        /\ UNCHANGED <<pc, request, calls, held>>
    BY <1>2 DEF Inject, ApiInv, Plain
  <2>2. pc' = [pc EXCEPT ![c] = "inject"]
    BY <1>0, <2>1 DEF ApiInv, ConfigInv, Shape
  <2>. QED
    BY <1>0, <1>1, <2>1, <2>2, MovesOn DEF Asking
<1>3. CASE keys[c] = <<>> /\ request[c].calls = <<>>
  <2>1. Reply(c)
    BY <1>3 DEF Inject
  <2>. QED
    BY <1>0, <1>1, <2>1, RepliesOnly
<1>4. CASE keys[c] = <<>> /\ request[c].calls # <<>>
  <2>1. /\ pc' = [pc EXCEPT ![c] = "handle"]
        /\ calls' = [calls EXCEPT ![c] = request[c].calls]
        /\ UNCHANGED <<request, keys, held>>
    BY <1>4 DEF Inject
  <2>2. request[c] \in Routes
    BY <1>0, RestApiAssumption DEF ApiInv, ClientOK, Asking
  <2>3. /\ request[c].calls \in Seq(SUBSET AllCalls)
        /\ request[c] \in Walks => \E call \in AllCalls : request[c].calls = <<{call}>>
    BY <2>2, RouteShape
  <2>4. keys' = [keys EXCEPT ![c] = <<>>]
    BY <1>4, <2>1 DEF ApiInv, Plain
  <2>. QED
    BY <1>0, <1>1, <1>4, <2>1, <2>3, <2>4, MovesOn DEF Asking
<1>. QED
  BY <1>2, <1>3, <1>4
-----------------------------------------------------------------------------
(* Connections.                                                            *)

LEMMA StartPool ==
    ASSUME ApiInv, NEW c \in Clients, NEW call \in AllCalls, call \notin held[c], Free,
           UNCHANGED <<db, kept>>, held'[c] = held[c] \cup {call},
           \A d \in Clients \ {c} : held'[d] = held[d]
    PROVE  PoolOK'
<1>1. Holders' = Holders \cup {<<c, call>>} /\ <<c, call>> \notin Holders
  BY DEF Holders
<1>2. kept \in Nat /\ IsFiniteSet(Holders) /\ PoolSize \in Nat
      /\ (db # "postgres" => kept = 0)
      /\ (db = "postgres" => kept + Cardinality(Holders) < PoolSize)
  BY RestApiAssumption DEF ApiInv, PoolOK, Free, InUse, Holders
<1>3. /\ IsFiniteSet(Holders \cup {<<c, call>>})
      /\ Cardinality(Holders \cup {<<c, call>>}) = Cardinality(Holders) + 1
      /\ Cardinality(Holders) \in Nat
  BY <1>1, <1>2, FS_AddElement, FS_CardinalityType
<1>. HIDE DEF Holders
<1>4. IsFiniteSet(Holders') /\ Cardinality(Holders') = Cardinality(Holders) + 1
  BY <1>1, <1>3
<1>5. (kept \in Nat)' /\ (db # "postgres" => kept = 0)'
  BY <1>2
<1>6. (db = "postgres" => kept + Cardinality(Holders) <= PoolSize)'
  BY <1>2, <1>3, <1>4
<1>. QED
  BY <1>4, <1>5, <1>6 DEF PoolOK

\* Connections are given back, or kept, no more of them than there were.
LEMMA PoolShrinks ==
    ASSUME ApiInv, NEW c \in Clients, db' = db, NEW gone \in SUBSET held[c], NEW n \in Nat,
           n <= Cardinality(gone), db # "postgres" => n = 0, kept' = kept + n,
           held'[c] = held[c] \ gone,
           \A d \in Clients \ {c} : held'[d] = held[d]
    PROVE  PoolOK'
<1>1. Holders' = Holders \ ({c} \X gone) /\ ({c} \X gone) \subseteq Holders
  BY DEF Holders
<1>2. /\ kept \in Nat /\ IsFiniteSet(Holders) /\ PoolSize \in Nat
      /\ IsFiniteSet(held[c]) /\ (db # "postgres" => kept = 0)
      /\ (db = "postgres" => kept + Cardinality(Holders) <= PoolSize)
  BY RestApiAssumption DEF ApiInv, PoolOK, ClientOK
<1>3. IsFiniteSet(gone) /\ Cardinality(gone) \in Nat
  BY <1>2, FS_Subset, FS_CardinalityType
<1>4. IsFiniteSet({c}) /\ Cardinality({c}) = 1
  BY FS_Singleton
<1>5. Cardinality({c} \X gone) = Cardinality(gone)
  BY <1>3, <1>4, FS_Product
<1>6. Holders \cap ({c} \X gone) = {c} \X gone
  BY <1>1
<1>7. /\ IsFiniteSet(Holders \ ({c} \X gone))
      /\ Cardinality(Holders \ ({c} \X gone)) = Cardinality(Holders) - Cardinality(gone)
      /\ Cardinality(Holders) \in Nat
  <2>. DEFINE given == {c} \X gone
  <2>. HIDE DEF given, Holders
  <2>1. IsFiniteSet(Holders \ given)
        /\ Cardinality(Holders \ given) = Cardinality(Holders) - Cardinality(Holders \cap given)
    BY <1>2, FS_Difference
  <2>2. Cardinality(Holders) \in Nat
    BY <1>2, FS_CardinalityType
  <2>. QED
    BY <1>5, <1>6, <2>1, <2>2 DEF given
<1>. HIDE DEF Holders
<1>8. IsFiniteSet(Holders')
      /\ Cardinality(Holders') = Cardinality(Holders) - Cardinality(gone)
  BY <1>1, <1>7
<1>9. (kept \in Nat)' /\ (db # "postgres" => kept = 0)'
  BY <1>2
<1>10. (db = "postgres" => kept + Cardinality(Holders) <= PoolSize)'
  BY <1>2, <1>3, <1>7, <1>8
<1>. QED
  BY <1>8, <1>9, <1>10 DEF PoolOK

LEMMA StartHolds ==
    ASSUME ApiInv, NEW c \in Clients, Start(c)
    PROVE  ApiInv'
<1>0. /\ ConfigInv'
      /\ UNCHANGED <<db, table, writes, kept, walk, pc, request, keys, calls>>
      /\ c \in Walkers /\ pc[c] = "handle" /\ Free
  BY CallsKeep DEF ApiInv, Start, data, Walkers
<1>1. PICK call \in Head(calls[c]) \ held[c] :
        held' = [held EXCEPT ![c] = held[c] \cup {call}]
  BY DEF Start, ApiInv, Plain
<1>2. held' = [d \in Clients |-> held'[d]] /\ held'[c] = held[c] \cup {call}
      /\ \A d \in Clients \ {c} : held'[d] = held[d]
  BY <1>1, OneValue DEF ApiInv, Plain
<1>3. ClientOK(c) /\ calls[c] # <<>> /\ calls[c] \in Seq(SUBSET AllCalls)
  BY <1>0 DEF ApiInv, ClientOK
<1>4. Head(calls[c]) \in SUBSET AllCalls
  BY <1>3
<1>5. call \in AllCalls
  BY <1>4
<1>6. IsFiniteSet(held[c] \cup {call})
  BY <1>3, FS_AddElement DEF ClientOK
<1>7. held[c] \cup {call} \in SUBSET AllCalls /\ held[c] \cup {call} \subseteq Head(calls[c])
  BY <1>1, <1>3, <1>5 DEF ClientOK
<1>8. ClientOK(c)'
  BY <1>0, <1>2, <1>3, <1>6, <1>7 DEF ClientOK
<1>9. PoolOK'
  BY <1>0, <1>1, <1>2, <1>5, StartPool
<1>10. Plain'
  BY <1>0, <1>2 DEF ApiInv, Plain
<1>11. walk[c] # NoWalk => WalkOK(table, walk[c])
  BY <1>0 DEF ApiInv, WalksOK
<1>. QED
  BY <1>0, <1>2, <1>8, <1>9, <1>10, <1>11, ClientStep

LEMMA ThrowHolds ==
    ASSUME ApiInv, NEW c \in Clients, Throw(c)
    PROVE  ApiInv'
<1>. DEFINE keeping == {call \in held[c] : Keeps(call)}
            n == Cardinality(keeping)
<1>0. /\ ConfigInv' /\ UNCHANGED <<db, table, writes, walk>> /\ Reply(c) /\ c \in Walkers
      /\ kept' = kept + n
  BY CallsKeep DEF ApiInv, Throw, data, Walkers
<1>1. IsFiniteSet(held[c])
  BY DEF ApiInv, ClientOK
<1>2. IsFiniteSet(keeping) /\ n \in Nat /\ n <= Cardinality(held[c])
  BY <1>1, FS_Subset, FS_CardinalityType
<1>3. db # "postgres" => n = 0
  BY FS_EmptySet DEF Keeps
<1>. HIDE DEF n
<1>4. held'[c] = held[c] \ held[c] /\ \A d \in Clients \ {c} : held'[d] = held[d]
  BY <1>0, ReplyFields
<1>5. PoolOK'
  BY <1>0, <1>2, <1>3, <1>4, PoolShrinks
<1>6. Plain'
  BY <1>0, ReplyFields DEF ApiInv, Plain
<1>7. walk[c] # NoWalk => WalkOK(table, walk[c])
  BY <1>0 DEF ApiInv, WalksOK
<1>. QED
  BY <1>0, <1>5, <1>6, <1>7, ReplyFields, ClientStep

\* What is left of the groups of calls.
LEMMA GroupsLeft ==
    ASSUME NEW C, NEW groups \in Seq(SUBSET C), groups # <<>>,
           NEW rest \in SUBSET C, rest # {} \/ Len(groups) # 1
    PROVE  LET left == IF rest = {} THEN Tail(groups) ELSE <<rest>> \o Tail(groups)
           IN  /\ left \in Seq(SUBSET C) /\ left # <<>>
               /\ rest # {} => Head(left) = rest
<1>1. Tail(groups) \in Seq(SUBSET C) /\ Len(Tail(groups)) = Len(groups) - 1
      /\ Len(groups) \in Nat
  OBVIOUS
<1>2. CASE rest = {}
  <2>1. Len(Tail(groups)) # 0 /\ Len(<<>>) = 0
    BY <1>1, <1>2
  <2>2. Tail(groups) # <<>>
    BY <2>1
  <2>. QED
    BY <1>1, <1>2, <2>2
<1>3. CASE rest # {}
  <2>1. <<rest>> \in Seq(SUBSET C) /\ Len(<<rest>>) = 1 /\ <<rest>>[1] = rest
    BY OneElement
  <2>2. <<rest>> \o Tail(groups) \in Seq(SUBSET C)
        /\ Len(<<rest>> \o Tail(groups)) = 1 + Len(Tail(groups))
        /\ (<<rest>> \o Tail(groups))[1] = rest
    BY <1>1, <2>1
  <2>3. <<rest>> \o Tail(groups) # <<>> /\ Head(<<rest>> \o Tail(groups)) = rest
    BY <1>1, <2>2
  <2>. QED
    BY <1>3, <2>2, <2>3
<1>. QED
  BY <1>2, <1>3

LEMMA FinishHolds ==
    ASSUME ApiInv, NEW c \in Clients, Finish(c)
    PROVE  ApiInv'
<1>0. ConfigInv' /\ UNCHANGED <<db, table, writes>> /\ c \in Walkers /\ ClientOK(c)
  BY CallsKeep DEF ApiInv, Finish, data, Walkers
<1>1. PICK call \in held[c], found \in BOOLEAN :
        LET rest == Head(calls[c]) \ {call}
        IN  /\ Given(c, call)
            /\ IF rest = {} /\ (Len(calls[c]) = 1 \/ ~found)
               THEN Reply(c)
               ELSE /\ calls' = [calls EXCEPT ![c] =
                            IF rest = {} THEN Tail(@) ELSE <<rest>> \o Tail(@)]
                    /\ held' = [held EXCEPT ![c] = @ \ {call}]
                    /\ UNCHANGED <<pc, request, config, keys>>
            /\ IF request[c] \notin Walks THEN UNCHANGED walk
               ELSE \E page \in WalkPages(walk[c]) :
                        walk' = [walk EXCEPT ![c] = Turned(walk[c], page)]
  BY DEF Finish, ApiInv, Plain
<1>. DEFINE rest == Head(calls[c]) \ {call}
            left == IF rest = {} THEN Tail(calls[c]) ELSE <<rest>> \o Tail(calls[c])
<1>2. /\ calls[c] # <<>> /\ pc[c] = "handle" /\ calls[c] \in Seq(SUBSET AllCalls)
      /\ held[c] \subseteq Head(calls[c]) /\ held[c] \in SUBSET AllCalls
      /\ IsFiniteSet(held[c])
  BY <1>0 DEF ClientOK
<1>3. Head(calls[c]) \in SUBSET AllCalls /\ rest \in SUBSET AllCalls
  BY <1>2
<1>4. /\ walk' = [w \in Walkers |-> walk'[w]]
      /\ \A w \in Walkers \ {c} : walk'[w] = walk[w]
      /\ walk'[c] # NoWalk => WalkOK(table, walk'[c])
  <2>0. walk = [w \in Walkers |-> walk[w]] /\ table \in Tables
        /\ (walk[c] # NoWalk => WalkOK(table, walk[c]))
    BY <1>0 DEF ApiInv, Plain, WalksOK
  <2>1. CASE request[c] \notin Walks
    BY <1>1, <2>0, <2>1
  <2>2. ASSUME request[c] \in Walks, NEW page \in WalkPages(walk[c]),
               walk' = [walk EXCEPT ![c] = Turned(walk[c], page)]
        PROVE  <1>4
    <3>1. walk[c] # NoWalk /\ ~walk[c].done
      BY <1>0, <1>2, <2>2 DEF ClientOK, Asking
    <3>2. WalkOK(table, Turned(walk[c], page))
      BY <2>0, <2>2, <3>1, TurnedOK
    <3>3. walk' = [w \in Walkers |-> walk'[w]] /\ walk'[c] = Turned(walk[c], page)
          /\ \A w \in Walkers \ {c} : walk'[w] = walk[w]
      BY <1>0, <2>0, <2>2, OneValue
    <3>. QED
      BY <3>2, <3>3
  <2>. QED
    BY <1>1, <2>1, <2>2
<1>5. \E n \in Nat : /\ n <= 1 /\ (db # "postgres" => n = 0) /\ kept' = kept + n
  BY <1>1 DEF Given, Keeps
<1>6. Cardinality({call}) = 1
  BY FS_Singleton
<1>7. CASE rest = {} /\ (Len(calls[c]) = 1 \/ ~found)
  <2>1. Reply(c)
    BY <1>1, <1>7
  <2>2. held'[c] = held[c] \ {call} /\ \A d \in Clients \ {c} : held'[d] = held[d]
    BY <2>1, <1>2, <1>7, ReplyFields
  <2>3. PoolOK'
    BY <1>0, <1>5, <1>6, <2>2, PoolShrinks
  <2>4. Plain'
    BY <1>0, <1>4, <2>1, ReplyFields DEF ApiInv, Plain
  <2>. QED
    BY <1>0, <1>4, <2>1, <2>3, <2>4, ReplyFields, ClientStep
<1>8. CASE ~(rest = {} /\ (Len(calls[c]) = 1 \/ ~found))
  <2>1. /\ calls' = [calls EXCEPT ![c] = left]
        /\ held' = [held EXCEPT ![c] = held[c] \ {call}]
        /\ UNCHANGED <<pc, request, keys>>
    BY <1>1, <1>8 DEF ApiInv, Plain
  <2>2. left \in Seq(SUBSET AllCalls) /\ left # <<>> /\ (rest # {} => Head(left) = rest)
    BY <1>2, <1>3, <1>8, GroupsLeft
  <2>3. held' = [d \in Clients |-> held'[d]] /\ held'[c] = held[c] \ {call}
        /\ \A d \in Clients \ {c} : held'[d] = held[d]
    BY <2>1, OneValue DEF ApiInv, Plain
  <2>4. calls' = [d \in Clients |-> calls'[d]] /\ calls'[c] = left
        /\ \A d \in Clients \ {c} : calls'[d] = calls[d]
    <3>. HIDE DEF left
    <3>. QED
      BY <2>1, OneValue DEF ApiInv, Plain
  <2>5. request[c] \notin Walks
    <3>. SUFFICES ASSUME request[c] \in Walks PROVE FALSE
      OBVIOUS
    <3>1. PICK only \in AllCalls : calls[c] = <<{only}>>
      BY <1>0, <1>2 DEF ClientOK, Asking
    <3>2. Len(calls[c]) = 1 /\ Head(calls[c]) = {only}
      BY <3>1
    <3>3. rest = {}
      BY <1>2, <3>2
    <3>. QED
      BY <1>8, <3>2, <3>3
  <2>6. IsFiniteSet(held[c] \ {call})
    BY <1>2, FS_RemoveElement
  <2>7. held[c] \ {call} # {} => held[c] \ {call} \subseteq Head(left)
    BY <1>2, <2>2
  <2>8. ClientOK(c)'
    <3>. HIDE DEF left
    <3>. QED
      BY <1>0, <1>2, <2>1, <2>2, <2>3, <2>4, <2>5, <2>6, <2>7 DEF ClientOK
  <2>9. PoolOK'
    BY <1>0, <1>5, <1>6, <2>3, PoolShrinks
  <2>10. Plain'
    BY <1>0, <1>4, <2>1, <2>3, <2>4 DEF ApiInv, Plain
  <2>. HIDE DEF left
  <2>. QED
    BY <1>0, <1>4, <2>1, <2>3, <2>4, <2>8, <2>9, <2>10, ClientStep
<1>. QED
  BY <1>7, <1>8
-----------------------------------------------------------------------------
(* The steps of a user.                                                    *)

LEMMA UserHolds ==
    ASSUME ApiInv, NEW u \in Users,
           Begin(u) \/ Search(u) \/ LookUp(u) \/ NextPage(u) \/ Quit(u)
    PROVE  ApiInv'
<1>0. /\ ConfigInv' /\ UNCHANGED <<data, server>> /\ u \in Walkers /\ UserOK(u)
      /\ UNCHANGED <<db, table, writes, request, keys, calls, held>>
  BY UsersKeep
  DEF ApiInv, Begin, Search, LookUp, NextPage, Quit, data, server, Walkers
<1>1. /\ walk = [w \in Walkers |-> walk[w]] /\ table \in Tables
      /\ pc \in [Walkers -> Steps] /\ (walk[u] # NoWalk => WalkOK(table, walk[u]))
  BY <1>0 DEF ApiInv, Plain, ConfigInv, Shape, WalksOK
<1>2. CASE Begin(u) \/ LookUp(u) \/ Quit(u)
  <2>1. walk' = walk /\ \E step \in {"done", "query"} : pc' = [pc EXCEPT ![u] = step]
    BY <1>2 DEF Begin, LookUp, Quit
  <2>2. pc'[u] \in {"done", "query"} /\ \A w \in Walkers \ {u} : pc'[w] = pc[w]
    BY <1>0, <1>1, <2>1
  <2>3. UserOK(u)' /\ Plain'
    BY <1>0, <2>1, <2>2 DEF UserOK, UserSteps, ApiInv, Plain
  <2>. QED
    BY <1>0, <1>1, <2>1, <2>2, <2>3, UserStep
<1>3. ASSUME NEW w, WalkOK(table, w), ~w.done, NEW page \in WalkPages(w),
             walk' = [walk EXCEPT ![u] = Turned(w, page)],
             pc' = [pc EXCEPT ![u] = IF walk'[u].done THEN "done" ELSE "choice"]
      PROVE  ApiInv'
  <2>1. walk' = [v \in Walkers |-> walk'[v]] /\ walk'[u] = Turned(w, page)
        /\ \A v \in Walkers \ {u} : walk'[v] = walk[v]
    BY <1>0, <1>1, <1>3, OneValue
  <2>2. WalkOK(table, walk'[u]) /\ walk'[u] # NoWalk
    BY <1>1, <1>3, <2>1, TurnedOK
  <2>3. pc'[u] = (IF walk'[u].done THEN "done" ELSE "choice")
        /\ \A v \in Walkers \ {u} : pc'[v] = pc[v]
    BY <1>0, <1>1, <1>3
  <2>4. UserOK(u)' /\ Plain'
    BY <1>0, <2>1, <2>2, <2>3 DEF UserOK, UserSteps, ApiInv, Plain
  <2>. QED
    BY <1>0, <2>1, <2>2, <2>3, <2>4, UserStep
<1>4. CASE Search(u)
  <2>1. PICK l \in Union .. Fokontany, view \in Views[u] :
            LET all == l \in {Province, Region}
                w == NewWalk(l, view, IF all THEN Cardinality(Rows) ELSE view.limit)
            IN  \E page \in WalkPages(w) : walk' = [walk EXCEPT ![u] = Turned(w, page)]
    BY <1>4 DEF Search
  <2>. DEFINE limit == IF l \in {Province, Region} THEN Cardinality(Rows) ELSE view.limit
              w == NewWalk(l, view, limit)
  <2>2. view \in [search : SUBSET Names, from : Levels, limit : Nat \cup {None}]
        /\ view.limit # None
    BY <1>0, RestApiAssumption
  <2>3. Cardinality(Rows) \in Nat
    BY PagingAssumption, FS_CardinalityType
  <2>4. limit \in Nat
    BY <2>2, <2>3
  <2>5. PICK page \in WalkPages(w) : walk' = [walk EXCEPT ![u] = Turned(w, page)]
    BY <2>1
  <2>. HIDE DEF limit
  <2>6. WalkOK(table, w) /\ ~w.done
    BY <1>1, <2>2, <2>4, NewWalkOK
  <2>7. pc' = [pc EXCEPT ![u] = IF walk'[u].done THEN "done" ELSE "choice"]
    BY <1>4 DEF Search
  <2>. HIDE DEF w
  <2>. QED
    BY <1>3, <2>5, <2>6, <2>7
<1>5. CASE NextPage(u)
  <2>1. /\ pc[u] = "choice"
        /\ pc' = [pc EXCEPT ![u] = IF walk'[u].done THEN "done" ELSE "choice"]
    BY <1>5 DEF NextPage
  <2>2. PICK page \in WalkPages(walk[u]) :
            walk' = [walk EXCEPT ![u] = Turned(walk[u], page)]
    BY <1>0, <1>1, <1>5 DEF NextPage
  <2>3. WalkOK(table, walk[u]) /\ ~walk[u].done
    BY <1>0, <1>1, <2>1 DEF UserOK
  <2>. QED
    BY <1>3, <2>1, <2>2, <2>3
<1>. QED
  BY <1>2, <1>4, <1>5
-----------------------------------------------------------------------------
(* The steps of other commands.                                            *)

\* A row that keeps its name, and has it to itself, is still owed; the others
\* no longer.
LEMMA DisturbedOK ==
    ASSUME NEW t \in Tables, NEW w, WalkOK(table, w)
    PROVE  LET v == [w EXCEPT !.due = {r \in @ \cap Alone(t) : t[r] = table[r]}]
           IN  WalkOK(t, v) /\ v.done = w.done /\ v # NoWalk
<1>. DEFINE due == {r \in w.due \cap Alone(t) : t[r] = table[r]}
            v == [w EXCEPT !.due = due]
<1>1. w \in WalkSet /\ due \in SUBSET Rows /\ due \subseteq w.due
  BY DEF WalkOK, WalkSet
<1>2. ASSUME NEW r \in due
      PROVE  r \in Alone(t) /\ t[r] = table[r] /\ r \in w.due /\ r \in Rows
  BY <1>1
<1>. HIDE DEF due
<1>3. /\ v \in WalkSet /\ v.due = due /\ v.done = w.done /\ v.cursor = w.cursor
      /\ v.given = w.given /\ v.level = w.level /\ v.from = w.from
      /\ v.search = w.search
  BY <1>1 DEF WalkSet
<1>. HIDE DEF v
<1>4. ASSUME NEW r \in due
      PROVE  Owed(t, v, r) /\ (r \in Pending(t, v) <=> r \in Pending(table, w))
             /\ Owed(table, w, r)
             /\ w.given[r] = IF ~w.done /\ r \in Pending(table, w) THEN 0 ELSE 1
  <2>1. /\ Owed(table, w, r)
        /\ w.given[r] = IF ~w.done /\ r \in Pending(table, w) THEN 0 ELSE 1
    BY <1>2 DEF WalkOK
  <2>2. Owed(t, v, r)
    BY <1>2, <1>3, <2>1 DEF Owed
  <2>3. r \in Pending(t, v) <=> r \in Pending(table, w)
    BY <1>2, <1>3 DEF Pending, GetUnion, GetMany, Present, AtOrAfter
  <2>. QED
    BY <2>1, <2>2, <2>3
<1>5. WalkOK(t, v)
  BY <1>3, <1>4 DEF WalkOK
<1>6. v # NoWalk
  <2>1. DOMAIN v # DOMAIN NoWalk
    BY <1>3 DEF WalkSet, NoWalk
  <2>. QED
    BY <2>1
<1>. QED
  BY <1>3, <1>5, <1>6 DEF v, due

LEMMA OthersHold ==
    ASSUME ApiInv, WriteRow \/ SaveConfig
    PROVE  ApiInv'
<1>0. /\ ConfigInv' /\ UNCHANGED <<db, kept, pc, request, keys, calls, held>>
      /\ writes < MaxWrites /\ writes' = writes + 1 /\ walk' = Disturbed(table')
  BY StepKeeps DEF ApiInv, Next, WriteRow, SaveConfig, server
<1>1. table' \in Tables
  <2>1. table \in Tables
    BY DEF ApiInv, Plain
  <2>2. CASE WriteRow
    BY <2>1, <2>2 DEF WriteRow, Tables
  <2>3. CASE SaveConfig
    BY <2>3 DEF SaveConfig, Tables
  <2>. QED
    BY <2>2, <2>3
<1>2. ASSUME NEW w \in Walkers
      PROVE  /\ walk'[w] # NoWalk <=> walk[w] # NoWalk
             /\ walk'[w] # NoWalk => /\ WalkOK(table', walk'[w])
                                     /\ walk'[w].done = walk[w].done
  <2>1. walk'[w] = IF walk[w] = NoWalk THEN NoWalk
                   ELSE [walk[w] EXCEPT !.due =
                            {r \in @ \cap Alone(table') : table'[r] = table[r]}]
    BY <1>0 DEF Disturbed
  <2>2. CASE walk[w] = NoWalk
    BY <2>1, <2>2
  <2>3. CASE walk[w] # NoWalk
    <3>1. WalkOK(table, walk[w])
      BY <2>3 DEF ApiInv, WalksOK
    <3>. QED
      BY <1>1, <2>1, <2>3, <3>1, DisturbedOK
  <2>. QED
    BY <2>2, <2>3
<1>3. WalksOK'
  BY <1>2 DEF WalksOK
<1>4. \A c \in Clients : ClientOK(c)'
  BY <1>0, <1>2 DEF ApiInv, ClientOK, Walkers
<1>5. \A u \in Users : UserOK(u)'
  BY <1>0, <1>2 DEF ApiInv, UserOK, Walkers
<1>6. PoolOK'
  BY <1>0, PoolStays
<1>7. walk' = [w \in Walkers |-> walk'[w]]
  BY <1>0 DEF Disturbed
<1>8. (writes \in 0 .. MaxWrites)'
  BY <1>0, RestApiAssumption DEF ApiInv, Plain
<1>9. Plain'
  BY <1>0, <1>1, <1>7, <1>8 DEF ApiInv, Plain
<1>. QED
  BY <1>0, <1>3, <1>4, <1>5, <1>6, <1>9 DEF ApiInv

LEMMA ApiStep == ApiInv /\ [Next]_vars => ApiInv'
<1> SUFFICES ASSUME ApiInv, [Next]_vars PROVE ApiInv'
    OBVIOUS
<1>1. ASSUME NEW c \in Clients, Ask(c) \/ Serve(c)
      PROVE  ApiInv'
  BY <1>1, AskHolds, LoadHolds, LoadedHolds, InjectHolds, StartHolds, FinishHolds,
     ThrowHolds DEF Serve
<1>2. ASSUME NEW u \in Users,
             Begin(u) \/ Search(u) \/ LookUp(u) \/ NextPage(u) \/ Quit(u)
      PROVE  ApiInv'
  BY <1>2, UserHolds
<1>3. CASE WriteRow \/ SaveConfig
  BY <1>3, OthersHold
<1>4. CASE UNCHANGED vars
  <2>1. ConfigInv'
    BY <1>4, StepKeeps DEF ApiInv
  <2>2. PoolOK'
    BY <1>4, PoolStays DEF vars
  <2>3. WalksOK' /\ Plain'
    BY <1>4 DEF vars, ApiInv, WalksOK, Plain
  <2>4. \A c \in Clients : ClientOK(c)'
    BY <1>4 DEF vars, ApiInv, ClientOK
  <2>5. \A u \in Users : UserOK(u)'
    BY <1>4 DEF vars, ApiInv, UserOK
  <2>. QED
    BY <2>1, <2>2, <2>3, <2>4, <2>5 DEF ApiInv
<1>. QED
  BY <1>1, <1>2, <1>3, <1>4 DEF Next

\* The invariant the following theorems rest on.
THEOREM ApiInvariance == Spec => []ApiInv
BY ApiStart, ApiStep, PTL DEF Spec

\* The types of the model; on PostgreSQL no more connections are in use than
\* the pool has, those that were never given back counted.
THEOREM TypeCorrect == Spec => []TypeOK
<1>1. ASSUME ApiInv PROVE TypeOK
  <2>1. /\ db \in Databases /\ table \in [Rows -> Names \cup {NoName}]
        /\ {saved, configInstance} \subseteq Configs \cup {None}
        /\ queries \in [Union .. Fokontany -> Configs \cup {None}]
        /\ writes \in 0 .. MaxWrites /\ changed \in BOOLEAN
    BY <1>1 DEF ApiInv, Plain, ConfigInv, Shape, Tables
  <2>2. kept \in 0 .. PoolSize /\ (db = "postgres" => InUse <= PoolSize)
    <3>1. /\ kept \in Nat /\ PoolSize \in Nat /\ (db # "postgres" => kept = 0)
          /\ (db = "postgres" => kept + Cardinality(Holders) <= PoolSize)
          /\ Cardinality(Holders) \in Nat
      BY <1>1, RestApiAssumption, FS_CardinalityType DEF ApiInv, PoolOK
    <3>2. InUse = kept + Cardinality(Holders)
      BY DEF InUse, Holders
    <3>. QED
      BY <3>1, <3>2
  <2>3. ASSUME NEW c \in Clients
        PROVE  /\ pc[c] \in {"idle", "config", "loading", "inject", "handle", "away"}
               /\ request[c] \in Requests[c] \cup {None}
               /\ keys[c] # <<>> => pc[c] = "inject" /\ config[c] \in Configs
               /\ calls[c] # <<>> => pc[c] = "handle"
               /\ held[c] # {} => calls[c] # <<>> /\ held[c] \subseteq Head(calls[c])
    <3>1. ClientOK(c)
      BY <1>1 DEF ApiInv
    <3>2. pc[c] = "inject" => config[c] \in Configs
      BY <1>1 DEF ApiInv, ConfigInv, CarriedIsKept, Shape, Walkers
    <3>. QED
      BY <3>1, <3>2 DEF ClientOK, ClientSteps
  <2>4. \A u \in Users : pc[u] \in {"new", "query", "choice", "done", "away"}
    BY <1>1 DEF ApiInv, UserOK, UserSteps
  <2>5. ASSUME NEW w \in Walkers, walk[w] # NoWalk
        PROVE  walk[w].cursor.id \in Rows \cup {0} /\ walk[w].due \subseteq Rows
    BY <1>1, <2>5 DEF ApiInv, WalksOK, WalkOK, WalkSet
  <2>. QED
    BY <2>1, <2>2, <2>3, <2>4, <2>5 DEF TypeOK
<1>. QED
  BY <1>1, ApiInvariance, PTL

\* A walk that is turned to its last page gives every row it owes once, and
\* none twice on its way, in any table, for any search, any size of a page and
\* any order among rows of one name, whatever is written between two pages.
THEOREM PagesAreComplete == Spec => []PagesComplete
<1>1. ASSUME ApiInv PROVE PagesComplete
  <2>. SUFFICES ASSUME NEW w \in Walkers, walk[w] # NoWalk, NEW r \in walk[w].due
                PROVE  walk[w].given[r] <= 1 /\ (walk[w].done => walk[w].given[r] = 1)
    BY DEF PagesComplete
  <2>1. WalkOK(table, walk[w])
    BY <1>1 DEF ApiInv, WalksOK
  <2>2. walk[w].given[r] = IF ~walk[w].done /\ r \in Pending(table, walk[w]) THEN 0 ELSE 1
    BY <2>1 DEF WalkOK
  <2>. QED
    BY <2>2
<1>. QED
  BY <1>1, ApiInvariance, PTL
=============================================================================
