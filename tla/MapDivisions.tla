---------------------------- MODULE MapDivisions ----------------------------
(***************************************************************************)
(* The divisions a reader of the map viewer puts on the map one by one:    *)
(* their entries in the map's store, the requests for their geometry and   *)
(* the components that refer to them.                                      *)
(*                                                                         *)
(* Source: map-viewer/stores/app-map.store.ts and the islands that show    *)
(* its entries.                                                            *)
(*                                                                         *)
(* An entry is removed by a timer once nothing refers to it, so whatever   *)
(* shows it counts itself in and out.  The components that do:             *)
(*   - a division d stands for its own layer, which exists while its entry *)
(*     is rendered, with a child per rendered division above it;           *)
(*   - an item shows a selected entity, and its parents those above it;    *)
(*   - a place is a pinned or current location, with a child per rendered  *)
(*     division of its fokontany.                                          *)
(* Components are taken to be drawn again and to have run their effects    *)
(* before the next event; only the timer comes between a drawing and them. *)
(***************************************************************************)
EXTENDS AdmTables
LOCAL INSTANCE Functions

CONSTANTS
    Divisions,     \* numbers
    DivisionLevel,
    Above,         \* the divisions a division lies in
    Items,
    Parents,       \* the lists of the divisions above an item's
    ItemOf,
    Places,
    DivisionConfigs,
    MaxLoads       \* requests under way at a time

ASSUME DivisionsAssumption ==
    /\ Divisions \subseteq Nat \ {0} /\ IsFiniteSet(Divisions)
    /\ DivisionLevel \in [Divisions -> Levels]
    /\ Above \in [Divisions -> SUBSET Divisions]
    /\ \A d \in Divisions : \A e \in Above[d] : DivisionLevel[e] < DivisionLevel[d]
    /\ IsFiniteSet(Items) /\ IsFiniteSet(Parents) /\ IsFiniteSet(Places)
    /\ Divisions \cap (Items \cup Parents \cup Places) = {}
    /\ Items \cap (Parents \cup Places) = {} /\ Parents \cap Places = {}
    /\ ItemOf \in [Parents -> Items]
    /\ MaxLoads \in Nat \ {0}

VARIABLES
    mapConfig,     \* the configuration the server follows
    listsLoaded,   \* apiStore's provinces and regions
    entry,         \* the store's entries
    loads,         \* requests under way: of a division, for an entity
    shown,         \* what an item or a place shows
    drawn,         \* what a component depended on when last drawn
    mounted        \* the divisions it counted itself in for

divisions == <<mapConfig, listsLoaded, entry, loads, shown, drawn, mounted>>

Nothing == 0
WrongId == 0     \* a request with a name in place of an id
Components == Divisions \cup Items \cup Parents \cup Places
Viewers == Items \cup Places

NoEntry == [there |-> FALSE, loading |-> FALSE, geojson |-> Nothing,
            rendered |-> FALSE, refs |-> 0]

DivisionsTypeOK ==
    /\ mapConfig \in DivisionConfigs /\ listsLoaded \in BOOLEAN
    /\ entry \in [Divisions ->
            [there : BOOLEAN, loading : BOOLEAN, geojson : Divisions \cup {Nothing},
             rendered : BOOLEAN, refs : 0 .. Cardinality(Components)]]
    /\ loads \in [Divisions \X (Divisions \cup {WrongId}) -> Nat]
    /\ shown \in [Viewers -> Divisions \cup {Nothing}]
    /\ drawn \in [Components -> SUBSET (Divisions \X BOOLEAN)]
    /\ mounted \in [Components -> SUBSET Divisions]

DivisionsInit ==
    /\ mapConfig \in DivisionConfigs /\ listsLoaded = FALSE
    /\ entry = [e \in Divisions |-> NoEntry]
    /\ loads = [r \in Divisions \X (Divisions \cup {WrongId}) |-> 0]
    /\ shown = [v \in Viewers |-> Nothing]
    /\ drawn = [c \in Components |-> {}]
    /\ mounted = [c \in Components |-> {}]
-----------------------------------------------------------------------------
(* Entities *)

\* getAdmEntityEntryName: a province that a record does not repeat is looked
\* up by the region's name.
HasNameOf(d, e) ==
    DivisionLevel[e] \in NamesRepeated(DivisionLevel[d], mapConfig) \/ listsLoaded

\* breakAdmAttributesDiscriminatedDivisionsWithEntry
DivisionsOf(d) == {d} \cup {e \in Above[d] : HasNameOf(d, e)}

HasIdOf(d, e) ==
    d = e \/ DivisionLevel[e] \in FksRepeated(DivisionLevel[d], mapConfig)

\* Mutant: the region's id is only looked for in the record.
RequestedInRecord(d, e) ==
    IF HasIdOf(d, e) \/ DivisionLevel[e] = District THEN {e}
    ELSE IF ~listsLoaded THEN {} ELSE {WrongId}

\* loadAdmEntityGeoJsonFromApi: whose id the request is made with when e is
\* asked for by an entity d in it, {} when it throws at once.  The fallback
\* for a province's id returns the province's name.
Requested(d, e) ==
    IF HasIdOf(d, e) \/ DivisionLevel[e] = District THEN {e}
    ELSE IF ~listsLoaded THEN {}
    ELSE {IF DivisionLevel[e] = Region THEN e ELSE WrongId}
-----------------------------------------------------------------------------
(* Components *)

\* Between divisions without a geometry an item's effect sees no difference.
Unchanged(c) ==
    entry[shown[c]].geojson = Nothing /\ drawn[c] # {} /\ \A p \in drawn[c] : ~p[2]

\* The children of a layer, or of a place.
RenderedOf(d) == {<<e, TRUE>> : e \in {x \in DivisionsOf(d) : entry[x].rendered}}

ParentsOf(d) == {<<e, entry[e].loading>> : e \in DivisionsOf(d) \ {d}}

\* What the effects of a component depend on.
Depends(c) ==
    CASE c \in Items ->
            IF shown[c] = Nothing THEN {}
            ELSE IF Unchanged(c) THEN drawn[c]
            ELSE {<<shown[c], entry[shown[c]].geojson # Nothing>>}
      [] c \in Parents ->
            IF shown[ItemOf[c]] = Nothing THEN {} ELSE ParentsOf(shown[ItemOf[c]])
      [] c \in Places ->
            IF shown[c] = Nothing THEN {} ELSE RenderedOf(shown[c])
      [] OTHER ->
            IF ~entry[c].rendered THEN {} ELSE RenderedOf(c)

Drawn(c) == drawn[c] = Depends(c)

\* Everything is drawn and has run its effects.
Settled == \A c \in Components : Drawn(c)

\* A drawing removes children and runs their clean-ups at once.
Cleaned ==
    /\ \A c \in Divisions \cup Places : drawn[c] \subseteq Depends(c)
    /\ \A c \in Items : shown[c] = Nothing => drawn[c] = {}
    /\ \A c \in Parents : shown[ItemOf[c]] = Nothing => drawn[c] = {}

\* An item's parents are not counted in while they load.
CountedIn(c, e) ==
    entry[e].there /\ (c \in Parents => ~entry[e].loading)

\* The clean-up takes an entry off the map that is left with its own layer.
TakenOff(c, left) ==
    CASE c \in Places -> left = 1
      [] c \in Items \cup Parents -> left <= 1
      [] OTHER -> FALSE

\* The same of a layer's child: one of the layer's own division, or above it.
LayerTakesOff(c, e, left) == c \in Divisions /\ left <= (IF c = e THEN 0 ELSE 1)

Minus(n) == IF n = 0 THEN 0 ELSE n - 1

\* Mutant: a component's clean-up forgets to count it out.
NotDereferenced(c, e) == entry[e]

Dereferenced(c, e) ==
    LET left == Minus(entry[e].refs)
    IN  IF ~entry[e].there THEN entry[e]
        ELSE [entry[e] EXCEPT
                !.refs = left,
                !.rendered = @ /\ ~TakenOff(c, left) /\ ~LayerTakesOff(c, e, left)]

Firsts(pairs) == {p[1] : p \in pairs}

\* A component is drawn again: the effects whose dependencies changed are
\* cleaned up and run.
Draw(c) ==
    LET gone == mounted[c] \cap Firsts(drawn[c] \ Depends(c))
        come == {e \in Firsts(Depends(c) \ drawn[c]) : CountedIn(c, e)}
        After(e) == IF e \in gone THEN Dereferenced(c, e) ELSE entry[e]
    IN  /\ ~Drawn(c)
        /\ entry' = [e \in Divisions |->
                        IF e \in come THEN [After(e) EXCEPT !.refs = @ + 1] ELSE After(e)]
        /\ drawn' = [drawn EXCEPT ![c] = Depends(c)]
        /\ mounted' = [mounted EXCEPT ![c] = (@ \ gone) \cup come]
        /\ UNCHANGED <<mapConfig, listsLoaded, loads, shown>>
-----------------------------------------------------------------------------
(* Events *)

\* handleToggleChange of an item, handleToggleInputClick of a layer: ignored
\* while the division loads.  A place's popup, and a click on an item's name,
\* do not look.
MayToggle(c, e) ==
    \/ c \in Divisions /\ entry[c].rendered /\ e \in DivisionsOf(c) /\ ~entry[e].loading
    \/ c \in Viewers /\ shown[c] # Nothing /\ e \in DivisionsOf(shown[c])

EntityOf(c) == IF c \in Viewers THEN shown[c] ELSE c

\* loadAdmEntityGeoJsonEntry up to its request; the entry of one that throws
\* at once stays, without a geometry.
Load(c, e) ==
    /\ entry[e].geojson = Nothing
    /\ LET ids == Requested(EntityOf(c), e)
       IN  /\ entry' = [entry EXCEPT ![e] =
                            [@ EXCEPT !.there = TRUE, !.loading = ids # {}]]
           /\ ids # {} => FoldFunction(LAMBDA m, n : m + n, 0, loads) < MaxLoads
           /\ loads' = [r \in DOMAIN loads |->
                        IF r \in {e} \X ids THEN loads[r] + 1 ELSE loads[r]]

Render(e) ==
    /\ entry[e].geojson # Nothing
    /\ entry' = [entry EXCEPT ![e].rendered = TRUE]
    /\ UNCHANGED loads

\* toggleAdmEntityGeoJsonEntryOnMap.
ToggleOn(c, e) ==
    /\ Settled /\ MayToggle(c, e)
    /\ Render(e) \/ Load(c, e)
    /\ UNCHANGED <<mapConfig, listsLoaded, shown, drawn, mounted>>

ToggleOff(c, e) ==
    /\ Settled /\ MayToggle(c, e)
    /\ entry[e].there
    /\ entry' = [entry EXCEPT ![e].rendered = FALSE]
    /\ UNCHANGED <<mapConfig, listsLoaded, loads, shown, drawn, mounted>>

Answered(e, id) == loads' = [loads EXCEPT ![<<e, id>>] = @ - 1]

\* The request's answer.
LoadSucceeds(e, id) ==
    /\ Settled /\ loads[<<e, id>>] > 0 /\ id # WrongId
    /\ Answered(e, id)
    /\ entry' = [entry EXCEPT ![e] =
            IF @.there THEN [@ EXCEPT !.geojson = id, !.loading = FALSE, !.rendered = TRUE]
            ELSE @]
    /\ UNCHANGED <<mapConfig, listsLoaded, shown, drawn, mounted>>

Failure(e) ==
    [entry EXCEPT ![e] = IF @.there THEN [@ EXCEPT !.loading = FALSE] ELSE @]

LoadFails(e, id) ==
    /\ Settled /\ loads[<<e, id>>] > 0
    /\ Answered(e, id)
    /\ entry' = Failure(e)
    /\ UNCHANGED <<mapConfig, listsLoaded, shown, drawn, mounted>>

Unreferenced(e) == ~entry[e].loading /\ entry[e].refs = 0

\* The timer of the map: removeNonReferencedAdmEntityGeoJsonEntries.
CleanUp ==
    /\ Cleaned
    /\ \E e \in Divisions : entry[e].there /\ Unreferenced(e)
    /\ entry' = [e \in Divisions |-> IF Unreferenced(e) THEN NoEntry ELSE entry[e]]
    /\ UNCHANGED <<mapConfig, listsLoaded, loads, shown, drawn, mounted>>

\* A reader selects or closes; a place's fokontany is found, changes or goes.
Show(v, d) ==
    /\ Settled /\ shown[v] # d
    /\ v \in Places /\ d # Nothing => DivisionLevel[d] = Fokontany
    /\ shown' = [shown EXCEPT ![v] = d]
    /\ UNCHANGED <<mapConfig, listsLoaded, entry, loads, drawn, mounted>>

\* The answer to getAllInBatch.
LoadLists ==
    /\ Settled /\ ~listsLoaded /\ listsLoaded' = TRUE
    /\ UNCHANGED <<mapConfig, entry, loads, shown, drawn, mounted>>

DivisionsNext ==
    \/ \E c \in Components : Draw(c)
    \/ \E c \in Components, e \in Divisions : ToggleOn(c, e) \/ ToggleOff(c, e)
    \/ \E e \in Divisions, id \in Divisions \cup {WrongId} :
            LoadSucceeds(e, id) \/ LoadFails(e, id)
    \/ CleanUp
    \/ \E v \in Viewers, d \in Divisions \cup {Nothing} : Show(v, d)
    \/ LoadLists

DivisionsSpec == DivisionsInit /\ [][DivisionsNext]_divisions
-----------------------------------------------------------------------------
(* What the map's entries promise.                                         *)

\* An entry counts exactly the components that counted themselves in, through
\* every order of toggles, answers, drawings, clean-ups and the timer; none is
\* removed while a component refers to it.
ReferencesCounted ==
    \A e \in Divisions :
        LET by == {c \in Components : e \in mounted[c]}
        IN  entry[e].refs = Cardinality(by) /\ (by # {} => entry[e].there)

\* A division that shows a spinner has a request whose answer will end it: the
\* toggles of items and layers, which ignore clicks meanwhile, work again.
EntriesAnswered ==
    \A e \in Divisions :
        entry[e].loading =>
            \E id \in Divisions \cup {WrongId} : loads[<<e, id>>] > 0

\* What is drawn on the map has a geometry, which is its own: the layers and
\* their clean-ups take it for granted ("!").  So every request is made with
\* the id of the division it is for, whichever ids the configuration has the
\* records repeat; left out is the province of an entity whose records do not
\* repeat its id: it is asked for by name, which is never found.
DrawnIsItsOwn ==
    \A e \in Divisions :
        /\ entry[e].rendered => entry[e].geojson = e
        /\ \A id \in Divisions \cup {WrongId} :
            loads[<<e, id>>] > 0 =>
                \/ id = e
                \/ DivisionLevel[e] = Province /\ "isProvinceFkRepeated" \notin mapConfig
=============================================================================
