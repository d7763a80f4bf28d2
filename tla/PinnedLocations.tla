--------------------------- MODULE PinnedLocations ---------------------------
(***************************************************************************)
(* The locations a reader pins on the map and the requests for the         *)
(* fokontany each lies in.                                                 *)
(*                                                                         *)
(* Source: map-viewer/stores/pinned-locations.store.ts and                 *)
(* islands/AppMapPinnedLocationsPin.tsx.                                   *)
(*                                                                         *)
(* A pin stays among spots of its own, and a spot stands for the fokontany *)
(* it lies in.  Its title and its lock are left out.                       *)
(***************************************************************************)
EXTENDS Naturals, Sequences, SequencesExt

CONSTANTS
    Pins,          \* Date.now() at a click: numbers, in the order of the clicks
    SpotsOf,       \* the spots of a pin
    MaxFinds       \* requests of a pin under way at a time

ASSUME PinsAssumption ==
    /\ Pins \subseteq Nat \ {0} /\ MaxFinds \in Nat \ {0}
    /\ \A p \in Pins : SpotsOf[p] \subseteq Nat \ {0}

VARIABLES
    pinConfig,     \* apiStore's configuration
    pinnedLocations,
    added,         \* the pins there have been
    effected,      \* what a pin's effect depended on when last run
    finds,         \* getByCoordinates under way, in the order of the requests
    overtaken      \* pins an answer of which came before an older one's, since
                   \* the last time nothing was under way for them

pins == <<pinConfig, pinnedLocations, added, effected, finds, overtaken>>

Nowhere == 0
Spots == (UNION {SpotsOf[p] : p \in Pins}) \cup {Nowhere}
Errors == {"none", "UnavailableConfig", "GeoJsonNotSupported", "NotFound"}
Entries == [id : Pins, at : Spots, fokontany : Spots, loading : BOOLEAN,
            error : Errors]

PinsTypeOK ==
    /\ pinConfig \in {"none", "plain", "hasGeojson"}
    /\ pinnedLocations \in Seq(Entries) /\ added \subseteq Pins
    /\ effected \in [Pins -> [at : Spots, marked : BOOLEAN]]
    /\ finds \in [Pins -> Seq([at : Spots, index : Nat])]
    /\ overtaken \subseteq Pins

PinsInit ==
    /\ pinConfig = "none" /\ pinnedLocations = <<>> /\ added = {}
    /\ effected = [p \in Pins |-> [at |-> Nowhere, marked |-> FALSE]]
    /\ finds = [p \in Pins |-> <<>>]
    /\ overtaken = {}
-----------------------------------------------------------------------------
IndexOfPin(p) == SelectInSeq(pinnedLocations, LAMBDA e : e.id = p)
Pinned(p) == IndexOfPin(p) # 0
EntryOf(p) == pinnedLocations[IndexOfPin(p)]

\* addPinnedLocationEntry
Add(p, at) ==
    /\ p \notin added /\ \A q \in added : q < p
    /\ added' = added \cup {p}
    /\ pinnedLocations' =
            <<[id |-> p, at |-> at, fokontany |-> Nowhere, loading |-> TRUE,
               error |-> "none"]>> \o pinnedLocations
    /\ UNCHANGED <<pinConfig, effected, finds, overtaken>>

\* updatePinnedLocationCoordinates, by the marker or a form.
Relocate(p, at) ==
    /\ Pinned(p) /\ EntryOf(p).at # at
    /\ pinnedLocations' = [pinnedLocations EXCEPT ![IndexOfPin(p)].at = at]
    /\ UNCHANGED <<pinConfig, added, effected, finds, overtaken>>

\* deletePinnedLocation: what the filter takes out is one entry, as ids differ.
Delete(p) ==
    /\ Pinned(p)
    /\ pinnedLocations' = RemoveAt(pinnedLocations, IndexOfPin(p))
    /\ UNCHANGED <<pinConfig, added, effected, finds, overtaken>>

\* movePinnedLocationListItem: each kind of move is one to an index.
Move(p, to) ==
    /\ Pinned(p) /\ IndexOfPin(p) # to
    /\ pinnedLocations' =
            InsertAt(RemoveAt(pinnedLocations, IndexOfPin(p)), to, EntryOf(p))
    /\ UNCHANGED <<pinConfig, added, effected, finds, overtaken>>

\* The page's configuration is put in the store.
SetPinConfig ==
    /\ pinConfig = "none" /\ pinConfig' \in {"plain", "hasGeojson"}
    /\ UNCHANGED <<pinnedLocations, added, effected, finds, overtaken>>

\* The effect of a pin depends on its coordinates and on whether its marker is
\* there, which the first effects put on the map.
PinDepends(p) == [at |-> EntryOf(p).at, marked |-> effected[p].at # Nowhere]

\* The effect runs: loadPinnedLocationFokontany up to its request.
LoadFokontany(p) ==
    LET i == IndexOfPin(p)
        Unable(error) ==
            /\ pinnedLocations' =
                [pinnedLocations EXCEPT ![i].loading = FALSE, ![i].error = error]
            /\ UNCHANGED finds
    IN  /\ Pinned(p) /\ effected[p] # PinDepends(p)
        /\ effected' = [effected EXCEPT ![p] = PinDepends(p)]
        /\ \/ pinConfig = "none" /\ Unable("UnavailableConfig")
           \/ pinConfig = "plain" /\ Unable("GeoJsonNotSupported")
           \/ /\ pinConfig = "hasGeojson" /\ Len(finds[p]) < MaxFinds
              /\ pinnedLocations' = [pinnedLocations EXCEPT ![i].loading = TRUE]
              /\ finds' = [finds EXCEPT ![p] =
                                Append(@, [at |-> EntryOf(p).at, index |-> i])]
        /\ overtaken' = IF finds[p] = <<>> THEN overtaken \ {p} ELSE overtaken
        /\ UNCHANGED <<pinConfig, added>>

\* Mutant: the index the pin had when the request was made.
IndexBefore(p, n) ==
    IF finds[p][n].index <= Len(pinnedLocations) THEN finds[p][n].index ELSE 0

IndexAfter(p, n) == IndexOfPin(p)

Unfound(entry) ==
    [entry EXCEPT !.fokontany = Nowhere, !.loading = FALSE, !.error = "NotFound"]

\* The answer to the n-th request under way: the pin is looked for again.
FokontanyFound(p, n, found) ==
    LET i == IndexAfter(p, n)
    IN  /\ n \in 1 .. Len(finds[p])
        /\ pinnedLocations' =
                IF i = 0 THEN pinnedLocations
                ELSE [pinnedLocations EXCEPT ![i] =
                    IF found THEN [@ EXCEPT !.fokontany = finds[p][n].at,
                                            !.loading = FALSE, !.error = "none"]
                    ELSE Unfound(@)]
        /\ finds' = [finds EXCEPT ![p] = RemoveAt(@, n)]
        /\ overtaken' = IF n > 1 THEN overtaken \cup {p} ELSE overtaken
        /\ UNCHANGED <<pinConfig, added, effected>>

FokontanyAnswered(p) ==
    \E n \in 1 .. MaxFinds, found \in BOOLEAN : FokontanyFound(p, n, found)

PinsNext ==
    \/ SetPinConfig
    \/ \E p \in Pins :
        \/ LoadFokontany(p) \/ FokontanyAnswered(p) \/ Delete(p)
        \/ \E at \in SpotsOf[p] : Add(p, at) \/ Relocate(p, at)
        \/ \E to \in 1 .. Len(pinnedLocations) : Move(p, to)

PinsSpec == PinsInit /\ [][PinsNext]_pins
-----------------------------------------------------------------------------
(* What the pins promise.                                                  *)

\* A pin is never given the fokontany of another, however the list was moved
\* about, added to and deleted from while the requests were under way.  Once
\* everything asked for a pin is answered its fokontany is that of where it is
\* now, or it shows an error, as long as the answers to its last requests came
\* in their order.
PinIsRight ==
    \A i \in DOMAIN pinnedLocations :
        LET e == pinnedLocations[i]
            settled == /\ finds[e.id] = <<>> /\ effected[e.id] = PinDepends(e.id)
                       /\ e.id \notin overtaken
        IN  /\ e.fokontany \in SpotsOf[e.id] \cup {Nowhere}
            /\ settled => e.fokontany = e.at \/ e.error # "none"

\* A pin that says it is loading has something under way that will end it: its
\* effect is to run, or one of its requests is to be answered.
PinsAnswered ==
    \A p \in Pins :
        Pinned(p) /\ EntryOf(p).loading =>
            finds[p] # <<>> \/ effected[p] # PinDepends(p)
=============================================================================
