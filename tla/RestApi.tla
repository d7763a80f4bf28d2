------------------------------- MODULE RestApi -------------------------------
(***************************************************************************)
(* The readers of a seeded database: the REST API, which answers many      *)
(* clients from one process, and the query command.  Both turn pages while *)
(* other commands rename, add and remove rows or change the configuration. *)
(*                                                                         *)
(* Source: rest-api, commands/query.command.ts and queries.                *)
(*                                                                         *)
(* The service is up: main.ts awaits the database before it listens, and   *)
(* ends when that fails.  A malformed request is answered before anything  *)
(* modelled here.  The calls a failed one leaves behind in a handler are   *)
(* taken to end with it, and a filter by an ancestor matters only for      *)
(* whether it is refused.                                                  *)
(***************************************************************************)
EXTENDS Paging, Queries, Sequences

CONSTANTS
    Databases,
    Configs,
    Clients,       \* of the REST API
    Users,         \* processes of the query command
    Readers,       \* the sets of those that may read at the same time
    Requests,      \* the requests each client makes
    Views,         \* what each reader searches for, from which level, by how many
    InitialTable,
    PoolSize,      \* connections of PostgreSQL's pool
    MaxWrites      \* bound on what other commands change

VARIABLES
    db,
    table,          \* the rows' names
    saved,          \* the configuration in the database
    writes,
    configInstance, \* the configuration the service has loaded
    queries,        \* the configuration each query object was built with
    kept,           \* connections that were never given back
    pc, request, config,
    keys,           \* query objects the request has yet to get
    calls,          \* what its handler has yet to call, in groups
    held,           \* the calls that have a connection
    walk,           \* the pages a client or a user has had
    changed         \* history: saved changed while a request was loading it

vars == <<db, table, saved, writes, configInstance, queries, kept, pc, request,
          config, keys, calls, held, walk, changed>>
server == <<configInstance, queries, kept, request, keys, calls, held, changed>>
data == <<db, table, saved, writes>>

Walkers == Clients \cup Users
Union == 0      \* the key of the union's query object
-----------------------------------------------------------------------------
(* The routes.  A call is a method of a query object, with the ancestors it *)
(* filters by.                                                             *)

Call(l, method) == [level |-> l, method |-> method, by |-> {}]
Reads(l, method) == [keys |-> <<l>>, calls |-> <<{Call(l, method)}>>]
PageOf(l, by) ==
    [keys |-> <<l>>, calls |-> <<{[Call(l, "getMany") EXCEPT !.by = by]}>>]

ProvincesRouter == {Reads(Province, "getAll"), Reads(Province, "getById")}

RegionsRouter == {Reads(Region, "getAll"), Reads(Region, "getById")}

DistrictsRouter ==
    {Reads(District, "getById")}
    \cup {PageOf(District, by) : by \in SUBSET {Province, Region}}

CommunesRouter ==
    {Reads(Commune, "getById")}
    \cup {PageOf(Commune, by) : by \in SUBSET {Province, Region, District}}

\* The fokontany's district, by its id or by its geometry.
FokontanysRouter ==
    {Reads(Fokontany, "getById")}
    \cup {PageOf(Fokontany, by) : by \in SUBSET (Province .. Commune)}
    \cup {[keys |-> <<Fokontany, District>>,
           calls |-> <<{Call(Fokontany, "getById")}, {last}>>] :
             last \in {[Call(District, "getById") EXCEPT !.by = {Fokontany}],
                       Call(District, "getByFokontanyGeoJson")}}

LocationsRouter ==
    {Reads(l, "getByPointCoordinates") : l \in {District, Commune, Fokontany}}

AdmEntitiesRouter ==
    {[keys |-> <<Province, Region, District, Commune, Fokontany>>,
      calls |-> <<{Call(Province, "getAll"), Call(Region, "getAll")}
                   \cup {Call(l, "getMany") : l \in District .. Fokontany}>>],
     Reads(Union, "getUnion")}

Routes ==
    {[keys |-> <<>>, calls |-> <<>>]}     \* the landing page and /api/config
    \cup ProvincesRouter \cup RegionsRouter \cup DistrictsRouter
    \cup CommunesRouter \cup FokontanysRouter \cup LocationsRouter
    \cup AdmEntitiesRouter

\* The query command always asks for pages of some size: it has a default.
ASSUME RestApiAssumption ==
    /\ Requests \in [Clients -> SUBSET Routes]
    /\ Configs \subseteq SUBSET Options
    /\ \A w \in Walkers : Views[w] \subseteq
            [search : SUBSET Names, from : Levels, limit : Nat \cup {None}]
    /\ \A u \in Users : \A view \in Views[u] : view.limit # None
    /\ InitialTable \subseteq [Rows -> Names \cup {NoName}]
    /\ PoolSize \in Nat \ {0} /\ MaxWrites \in Nat
    /\ Clients \cap Users = {} /\ Readers \subseteq SUBSET Walkers

\* The requests whose answer is a page of a walk.
Walks == {r \in Routes : Len(r.keys) = 1 /\
            \E call \in r.calls[1] : call.method \in {"getMany", "getUnion"}}

\* MadaAdmConfigConflictError, answered with 400.
Refused(call, c) ==
    \/ call.method = "getMany" /\ call.by \cap RefusedFilters(call.level, c) # {}
    \/ call.method \in {"getByPointCoordinates", "getByFokontanyGeoJson"}
       /\ RefusesGeometry(c)
    \/ call.method = "getById" /\ call.by # {} /\ "isFkRepeated" \notin c

Keeps(call) ==
    /\ db = "postgres"
    /\ ~(IF call.level = Union THEN UnionOf(db, Province).getUnion.returns
         ELSE QueriesOf(db)[call.level][call.method].returns)

\* Calls that hold a connection at this moment, and those that never will
\* give it back.
InUse == kept + Cardinality(UNION {{c} \X held[c] : c \in Clients})
Free == db # "postgres" \/ InUse < PoolSize
-----------------------------------------------------------------------------
(* Walks *)

NoWalk == [level |-> None]

\* Rows that have their name to themselves in their level.
Alone(t) ==
    {r \in Present(t) : \A s \in Rows \ {r} : Level[s] = Level[r] => t[s] # t[r]}

\* "due" are the rows the walk owes its reader: present throughout with a name
\* of their own, and, in a union, not before a cursor of an upper level.
NewWalk(l, view, limit) ==
    [level |-> l, from |-> view.from, search |-> view.search, limit |-> limit,
     cursor |-> NoCursor, given |-> [r \in Rows |-> 0], done |-> FALSE,
     due |-> {r \in Alone(table) :
                /\ table[r] \in view.search
                /\ IF l = Union THEN Level[r] >= view.from ELSE Level[r] = l}]

WalkPages(w) ==
    IF w.level = Union
    THEN Pages(GetUnion(table, w.from, w.search, w.cursor), w.limit, ByLevel(table))
    ELSE Pages(GetMany(table, w.level, w.search, w.cursor), w.limit, ByName(table))

NextCursor(w, next) ==
    IF next = 0 THEN NoCursor
    ELSE IF w.level = Union THEN ToUnionCursor(table, next)
    ELSE ToCursor(table, next)

WithPage(w, page, cursor) ==
    [w EXCEPT
        !.cursor = cursor,
        !.done = page.next = 0,
        !.given = [r \in Rows |->
                    IF r \in page.records /\ @[r] < 2 THEN @[r] + 1 ELSE @[r]],
        !.due = {r \in @ : Level[r] <= cursor.level \/ AtOrAfter(table, r, cursor)}]

\* The walk after a page.
Turned(w, page) == WithPage(w, page, NextCursor(w, page.next))

\* The walks after somebody else changed the table.
Disturbed(t) ==
    [c \in Walkers |->
        IF walk[c] = NoWalk THEN NoWalk
        ELSE [walk[c] EXCEPT !.due = {r \in @ \cap Alone(t) : t[r] = table[r]}]]
-----------------------------------------------------------------------------
TypeOK ==
    /\ db \in Databases /\ table \in [Rows -> Names \cup {NoName}]
    /\ {saved, configInstance} \subseteq Configs \cup {None}
    /\ queries \in [Union .. Fokontany -> Configs \cup {None}]
    /\ kept \in 0 .. PoolSize /\ writes \in 0 .. MaxWrites /\ changed \in BOOLEAN
    /\ db = "postgres" => InUse <= PoolSize
    /\ \A c \in Clients :
        /\ pc[c] \in {"idle", "config", "loading", "inject", "handle", "away"}
        /\ request[c] \in Requests[c] \cup {None}
        /\ keys[c] # <<>> => pc[c] = "inject" /\ config[c] \in Configs
        /\ calls[c] # <<>> => pc[c] = "handle"
        /\ held[c] # {} => calls[c] # <<>> /\ held[c] \subseteq Head(calls[c])
    /\ \A u \in Users : pc[u] \in {"new", "query", "choice", "done", "away"}
    /\ \A w \in Walkers : walk[w] # NoWalk =>
        walk[w].cursor.id \in Rows \cup {0} /\ walk[w].due \subseteq Rows

Init ==
    /\ db \in Databases /\ table \in InitialTable
    /\ saved \in Configs /\ writes = 0
    /\ configInstance = None
    /\ queries = [k \in Union .. Fokontany |-> None]
    /\ kept = 0
    /\ \E readers \in Readers :
        pc = [w \in Walkers |-> IF w \notin readers THEN "away"
                               ELSE IF w \in Clients THEN "idle" ELSE "new"]
    /\ request = [c \in Clients |-> None]
    /\ config = [w \in Walkers |-> None]
    /\ keys = [c \in Clients |-> <<>>]
    /\ calls = [c \in Clients |-> <<>>]
    /\ held = [c \in Clients |-> {}]
    /\ walk = [w \in Walkers |-> NoWalk]
    /\ changed = FALSE
-----------------------------------------------------------------------------
(* The REST API *)

\* A client asks, for a page with the cursor of the page before or without.
Ask(c) ==
    /\ pc[c] = "idle"
    /\ pc' = [pc EXCEPT ![c] = "config"]
    /\ \E r \in Requests[c] :
        /\ request' = [request EXCEPT ![c] = r]
        /\ IF r \notin Walks THEN UNCHANGED walk
           ELSE \/ /\ walk[c] # NoWalk /\ walk[c].cursor # NoCursor
                   /\ walk[c].level = r.keys[1]
                   /\ UNCHANGED walk
                \/ \E view \in Views[c] :
                    /\ r.keys[1] # Union => view.from = Province
                    /\ walk' = [walk EXCEPT ![c] =
                        NewWalk(r.keys[1], view, ParseLimitQueryParam(view.limit))]
    /\ UNCHANGED <<data, configInstance, queries, kept, config, keys, calls, held,
                   changed>>

Reply(c) ==
    /\ pc' = [pc EXCEPT ![c] = "idle"]
    /\ request' = [request EXCEPT ![c] = None]
    /\ config' = [config EXCEPT ![c] = None]
    /\ keys' = [keys EXCEPT ![c] = <<>>]
    /\ calls' = [calls EXCEPT ![c] = <<>>]
    /\ held' = [held EXCEPT ![c] = {}]

\* The request goes on with a configuration.
Configured(c, loaded) ==
    /\ pc' = [pc EXCEPT ![c] = "inject"]
    /\ config' = [config EXCEPT ![c] = loaded]
    /\ keys' = [keys EXCEPT ![c] = request[c].keys]
    /\ UNCHANGED <<request, calls, held>>

\* Mutant: the configuration is loaded for every request.
LoadAlways(c) ==
    /\ pc[c] = "config"
    /\ pc' = [pc EXCEPT ![c] = "loading"]
    /\ UNCHANGED <<data, server, config, walk>>

\* connectDbMiddleware, whose connection is there, and loadConfigMiddleware.
Load(c) ==
    /\ pc[c] = "config"
    /\ IF configInstance = None
       THEN pc' = [pc EXCEPT ![c] = "loading"]
            /\ UNCHANGED <<request, config, keys, calls, held>>
       ELSE Configured(c, configInstance)
    /\ UNCHANGED <<data, configInstance, queries, kept, walk, changed>>

\* The answer to dml.get().  Several requests may have asked.
Loaded(c) ==
    /\ pc[c] = "loading"
    /\ \/ /\ configInstance' = saved
          /\ IF saved = None THEN Reply(c) ELSE Configured(c, saved)
       \/ UNCHANGED configInstance /\ Reply(c)
    /\ UNCHANGED <<data, queries, kept, walk, changed>>

\* injectQueriesMiddleware: one awaited import per query object, which is
\* built once and for all.
Inject(c) ==
    /\ pc[c] = "inject"
    /\ IF keys[c] # <<>>
       THEN LET k == Head(keys[c])
            IN  /\ queries' = [queries EXCEPT ![k] = IF @ = None THEN config[c] ELSE @]
                /\ keys' = [keys EXCEPT ![c] = Tail(@)]
                /\ UNCHANGED <<pc, request, config, calls, held>>
       ELSE /\ IF request[c].calls = <<>> THEN Reply(c)
               ELSE /\ pc' = [pc EXCEPT ![c] = "handle"]
                    /\ calls' = [calls EXCEPT ![c] = request[c].calls]
                    /\ UNCHANGED <<request, config, keys, held>>
            /\ UNCHANGED queries
    /\ UNCHANGED <<data, configInstance, kept, walk, changed>>

\* A call of the handler waits for a connection.
Start(c) ==
    /\ pc[c] = "handle" /\ Free
    /\ \E call \in Head(calls[c]) \ held[c] :
        /\ ~Refused(call, queries[call.level])
        /\ held' = [held EXCEPT ![c] = @ \cup {call}]
    /\ UNCHANGED <<data, configInstance, queries, kept, pc, request, config, keys,
                   calls, walk, changed>>

Given(c, call) == kept' = kept + (IF Keeps(call) THEN 1 ELSE 0)

\* Mutant: the call is answered and still has its connection.
FinishHolding(c) ==
    \E call \in held[c] :
        /\ Len(calls[c]) = 1 /\ call.method # "getMany"
        /\ calls' = [calls EXCEPT ![c] = <<Head(@) \ {call}>>]
        /\ Given(c, call)
        /\ UNCHANGED <<data, configInstance, queries, pc, request, config, keys,
                       held, walk, changed>>

\* A statement's answer.  Once the calls of a group have theirs the handler
\* makes the next ones, or replies, as it does when nothing is found (404).
Finish(c) ==
    \E call \in held[c], found \in BOOLEAN :
        LET rest == Head(calls[c]) \ {call}
        IN  /\ Given(c, call)
            /\ ~found => call.method \notin {"getAll", "getMany", "getUnion"}
            /\ IF rest = {} /\ (Len(calls[c]) = 1 \/ ~found)
               THEN Reply(c)
               ELSE /\ calls' = [calls EXCEPT ![c] =
                            IF rest = {} THEN Tail(@) ELSE <<rest>> \o Tail(@)]
                    /\ held' = [held EXCEPT ![c] = @ \ {call}]
                    /\ UNCHANGED <<pc, request, config, keys>>
            /\ IF request[c] \notin Walks THEN UNCHANGED walk
               ELSE \E page \in WalkPages(walk[c]) :
                        walk' = [walk EXCEPT ![c] = Turned(@, page)]
            /\ UNCHANGED <<data, configInstance, queries, changed>>

\* The handler throws: a call is refused, or its statement fails.
Throw(c) ==
    /\ pc[c] = "handle"
    /\ \/ \E call \in Head(calls[c]) : Refused(call, queries[call.level])
       \/ held[c] # {}
    /\ kept' = kept + Cardinality({call \in held[c] : Keeps(call)})
    /\ Reply(c)
    /\ UNCHANGED <<data, configInstance, queries, walk, changed>>
-----------------------------------------------------------------------------
(* The query command, which reads with a connection of its own *)

\* handleQuery: without a configuration it ends.
Begin(u) ==
    /\ pc[u] = "new"
    /\ config' = [config EXCEPT ![u] = saved]
    /\ pc' = [pc EXCEPT ![u] = IF saved = None THEN "done" ELSE "query"]
    /\ UNCHANGED <<data, server, walk>>

\* handleNameQuery's first page: of all levels, of one level, or all of the
\* provinces or regions that match.
Search(u) ==
    /\ pc[u] = "query"
    /\ \E l \in Union .. Fokontany, view \in Views[u] :
        LET all == l \in {Province, Region}
            w == NewWalk(l, view, IF all THEN Cardinality(Rows) ELSE view.limit)
        IN  \E page \in WalkPages(w) :
                walk' = [walk EXCEPT ![u] = Turned(w, page)]
    /\ pc' = [pc EXCEPT ![u] = IF walk'[u].done THEN "done" ELSE "choice"]
    /\ UNCHANGED <<data, server, config>>

\* handleIdQuery and handleCoordinatesQuery: one record at most, or an error.
LookUp(u) ==
    /\ pc[u] = "query"
    /\ pc' = [pc EXCEPT ![u] = "done"]
    /\ UNCHANGED <<data, server, config, walk>>

\* "Show next page?"
NextPage(u) ==
    /\ pc[u] = "choice"
    /\ \E page \in WalkPages(walk[u]) :
        walk' = [walk EXCEPT ![u] = Turned(@, page)]
    /\ pc' = [pc EXCEPT ![u] = IF walk'[u].done THEN "done" ELSE "choice"]
    /\ UNCHANGED <<data, server, config>>

Quit(u) ==
    /\ pc[u] = "choice"
    /\ pc' = [pc EXCEPT ![u] = "done"]
    /\ UNCHANGED <<data, server, config, walk>>
-----------------------------------------------------------------------------
(* Other commands *)

\* update-field renames a row, the seeding command adds or removes one.
WriteRow ==
    /\ writes < MaxWrites /\ writes' = writes + 1
    /\ \E r \in Rows, name \in Names \cup {NoName} :
        /\ name # table[r]
        /\ table' = [table EXCEPT ![r] = name]
    /\ walk' = Disturbed(table')
    /\ UNCHANGED <<db, saved, server, pc, config>>

\* set-config and clear replace the configuration, and the tables with it.
SaveConfig ==
    /\ writes < MaxWrites /\ writes' = writes + 1
    /\ saved' \in (Configs \cup {None}) \ {saved}
    /\ table' = [r \in Rows |-> NoName]
    /\ walk' = Disturbed(table')
    /\ changed' = (changed \/ \E c \in Clients : pc[c] = "loading")
    /\ UNCHANGED <<db, configInstance, queries, kept, pc, request, config, keys,
                   calls, held>>
-----------------------------------------------------------------------------
Serve(c) == Load(c) \/ Loaded(c) \/ Inject(c) \/ Start(c) \/ Finish(c) \/ Throw(c)

Next ==
    \/ \E c \in Clients : Ask(c) \/ Serve(c)
    \/ \E u \in Users :
        Begin(u) \/ Search(u) \/ LookUp(u) \/ NextPage(u) \/ Quit(u)
    \/ WriteRow \/ SaveConfig

Spec == Init /\ [][Next]_vars

\* The service runs, and its database answers.
Fairness == \A c \in Clients : SF_vars(Serve(c))

FairSpec == Spec /\ Fairness
-----------------------------------------------------------------------------
(* Properties *)

\* The query objects all follow the configuration that requests are told,
\* although both are kept for ever and each is made by whoever comes first;
\* unless the saved one changed while the first requests were loading it.
OneConfig ==
    ~changed => \A k \in Union .. Fokontany :
                    queries[k] \in {None, configInstance}

\* A walk to its last page gives every row it owes once, whatever is written
\* between two pages, and no row of those twice on its way.  (Rows of one name
\* can repeat or go missing, and a union leaves rows out: README.md, section 7.)
PagesComplete ==
    \A w \in Walkers : walk[w] # NoWalk =>
        \A r \in walk[w].due :
            walk[w].given[r] <= 1 /\ (walk[w].done => walk[w].given[r] = 1)

\* Where clients read pages of districts, communes and fokontanys only, every
\* request is answered, however few connections there are.  (Other calls on
\* PostgreSQL never give theirs back, until none is left.)
PagesAnswered ==
    [](\A c \in Clients : request[c] # None => request[c] \in Walks
                            /\ request[c].keys[1] # Union) =>
        \A c \in Clients : pc[c] \notin {"idle", "away"} ~> pc[c] = "idle"
=============================================================================
