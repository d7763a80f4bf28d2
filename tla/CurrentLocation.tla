--------------------------- MODULE CurrentLocation ---------------------------
(***************************************************************************)
(* The reader's current location on the map and its tracking: an interval  *)
(* that asks the browser for the position again and again.                 *)
(*                                                                         *)
(* Source: map-viewer/stores/pinned-locations.store.ts, the effects of     *)
(* islands/AppMapCurrentLocationBeacon.tsx and the two forms.              *)
(*                                                                         *)
(* Where the location is matters here only when a position is compared     *)
(* with the last one, and is left out.  The reader's events come when the  *)
(* effects of those before have run; the browser's answers at any time.    *)
(***************************************************************************)
EXTENDS Naturals

CONSTANTS
    Frequencies,   \* "snapshot" is the one without an interval
    LocationIds,   \* Date.now() at a first position
    MaxPositions,  \* getCurrentPosition under way, of each kind
    MaxLocates     \* getByCoordinates under way

ASSUME LocationAssumption ==
    /\ "snapshot" \in Frequencies /\ LocationIds \subseteq Nat \ {0}
    /\ MaxPositions \in Nat \ {0} /\ MaxLocates \in Nat \ {0}

VARIABLES
    locationConfig,
    current,       \* currentLocationEntry
    frequency, accuracy,
    positionLoads, \* geolocationIsLoading
    handle,        \* currentLocationTrackingInterval is set
    intervals,     \* the intervals that run
    positions,     \* getCurrentPosition under way, by what awaits it
    locates,
    beacon,        \* what the beacon's effects depended on when last run
    firstUpdate,   \* isTrackingParamsFirstUpdate
    lastId

location == <<locationConfig, current, frequency, accuracy, positionLoads, handle,
              intervals, positions, locates, beacon, firstUpdate, lastId>>

NoLocation == [id |-> 0, loading |-> FALSE]
Tracked == current # NoLocation
Awaiting == {"form", "beacon", "tick"}

LocationTypeOK ==
    /\ locationConfig \in {"unloaded", "none", "hasGeojson"}
    /\ current \in [id : LocationIds \cup {0}, loading : BOOLEAN]
    /\ frequency \in Frequencies
    /\ {accuracy, positionLoads, handle, firstUpdate} \subseteq BOOLEAN
    /\ intervals \in 0 .. 2 /\ locates \in 0 .. MaxLocates
    /\ positions \in [Awaiting -> 0 .. MaxPositions]
    /\ beacon \in [id : LocationIds \cup {0}, frequency : Frequencies,
                   accuracy : BOOLEAN]
    /\ lastId \in LocationIds \cup {0}

LocationInit ==
    /\ locationConfig = "unloaded" /\ current = NoLocation
    /\ frequency = "snapshot" /\ accuracy = FALSE /\ positionLoads = FALSE
    /\ handle = FALSE /\ intervals = 0
    /\ positions = [k \in Awaiting |-> 0] /\ locates = 0
    /\ beacon = [id |-> 0, frequency |-> "snapshot", accuracy |-> FALSE]
    /\ firstUpdate = TRUE /\ lastId = 0
-----------------------------------------------------------------------------
(* The store's operations *)

\* How many intervals run once the one of the handle is cleared.
Others == IF handle THEN intervals - 1 ELSE intervals

\* initCurrentLocationTracking: how many run after it.
Started == [handle |-> TRUE, intervals |-> Others + 1]

InitCurrentLocationTracking ==
    IF frequency = "snapshot" THEN UNCHANGED <<handle, intervals>>
    ELSE handle' = Started.handle /\ intervals' = Started.intervals

\* loadInitialCurrentLocation up to its await.
LoadInitial(from) ==
    /\ positions[from] < MaxPositions
    /\ handle' = FALSE /\ intervals' = Others
    /\ positionLoads' = TRUE
    /\ positions' = [positions EXCEPT ![from] = @ + 1]

\* loadCurrentLocationFokontany of an entry up to its await: the entry is
\* left without a request when the configuration is known to have no GeoJSON.
Locate(id) ==
    IF locationConfig = "none"
    THEN current' = [id |-> id, loading |-> FALSE] /\ UNCHANGED locates
    ELSE /\ locates < MaxLocates /\ locates' = locates + 1
         /\ current' = [id |-> id, loading |-> TRUE]

\* clearCurrentLocationTracking, by a button or by a clean-up.
Cleared ==
    /\ handle' = FALSE /\ intervals' = Others
    /\ current' = NoLocation /\ positionLoads' = FALSE
    /\ frequency' = "snapshot" /\ accuracy' = FALSE
-----------------------------------------------------------------------------
(* Events *)

BeaconDepends == [id |-> current.id, frequency |-> frequency, accuracy |-> accuracy]
BeaconIsDrawn == beacon = BeaconDepends

\* The forms put the choices in the store at once.
ChooseParams(f, a) ==
    /\ BeaconIsDrawn /\ <<f, a>> # <<frequency, accuracy>> /\ (f = frequency \/ a = accuracy)
    /\ frequency' = f /\ accuracy' = a
    /\ UNCHANGED <<locationConfig, current, positionLoads, handle, intervals, positions,
                   locates, beacon, firstUpdate, lastId>>

\* A form can be submitted while there is no location and none is awaited.
Submit ==
    /\ BeaconIsDrawn /\ ~Tracked /\ ~positionLoads /\ LoadInitial("form")
    /\ UNCHANGED <<locationConfig, current, frequency, accuracy, locates, beacon,
                   firstUpdate, lastId>>

StopTracking ==
    /\ BeaconIsDrawn /\ Tracked /\ Cleared
    /\ UNCHANGED <<locationConfig, positions, locates, beacon, firstUpdate, lastId>>

\* Mutant: the beacon starts tracking again only when there is a position.
RestartsOnSuccess(from, ok) == from = "beacon" /\ ok

\* The beacon's ".then": also when there is no position.
Restarts(from, ok) == from = "beacon"

\* The browser's answer to loadInitialCurrentLocation.
InitialPosition(from, ok) ==
    /\ positions[from] > 0 /\ from # "tick"
    /\ positions' = [positions EXCEPT ![from] = @ - 1]
    /\ positionLoads' = FALSE
    /\ \/ ok /\ Tracked /\ Locate(current.id) /\ UNCHANGED lastId
       \/ /\ ok /\ ~Tracked /\ lastId + 1 \in LocationIds
          /\ Locate(lastId + 1) /\ lastId' = lastId + 1
       \/ ~ok /\ UNCHANGED <<current, locates, lastId>>
    /\ IF Restarts(from, ok) THEN InitCurrentLocationTracking
       ELSE UNCHANGED <<handle, intervals>>
    /\ UNCHANGED <<locationConfig, frequency, accuracy, beacon, firstUpdate>>

Tick ==
    /\ intervals > 0 /\ positions["tick"] < MaxPositions
    /\ positions' = [positions EXCEPT !["tick"] = @ + 1]
    /\ UNCHANGED <<locationConfig, current, frequency, accuracy, positionLoads, handle,
                   intervals, locates, beacon, firstUpdate, lastId>>

\* The answer to a tick: an error, the same position or another.
TickPosition(same) ==
    /\ positions["tick"] > 0
    /\ positions' = [positions EXCEPT !["tick"] = @ - 1]
    /\ \/ UNCHANGED <<current, locates>>
       \/ Tracked /\ same /\ current' = [current EXCEPT !.loading = FALSE]
                  /\ UNCHANGED locates
       \/ Tracked /\ ~same /\ Locate(current.id)
    /\ UNCHANGED <<locationConfig, frequency, accuracy, positionLoads, handle, intervals,
                   beacon, firstUpdate, lastId>>

\* Mutant: an error leaves the spinner.
NotLocated(ok) == [current EXCEPT !.loading = @ /\ ~ok]

Located(ok) == [current EXCEPT !.loading = FALSE]

\* The fokontany's answer, or its error, whichever location it was asked for.
LocateAnswer(ok) ==
    /\ locates > 0 /\ locates' = locates - 1
    /\ current' = IF Tracked THEN Located(ok) ELSE current
    /\ UNCHANGED <<locationConfig, frequency, accuracy, positionLoads, handle, intervals,
                   positions, beacon, firstUpdate, lastId>>

SetLocationConfig ==
    /\ locationConfig = "unloaded" /\ locationConfig' \in {"none", "hasGeojson"}
    /\ UNCHANGED <<current, frequency, accuracy, positionLoads, handle, intervals,
                   positions, locates, beacon, firstUpdate, lastId>>
-----------------------------------------------------------------------------
(* The beacon *)

\* Another location, or none: the clean-up of the one before comes first, and
\* clears whatever location there is by then.
BeaconCleans ==
    /\ beacon.id \notin {0, current.id}
    /\ Cleared /\ firstUpdate' = TRUE
    /\ UNCHANGED positions

\* The beacon starts tracking a first location, and asks again for a position
\* whenever the parameters change.
BeaconTracks ==
    /\ beacon.id \in {0, current.id}
    /\ \/ ~Tracked /\ UNCHANGED <<firstUpdate, handle, intervals, positionLoads, positions>>
       \/ /\ Tracked /\ firstUpdate /\ firstUpdate' = FALSE
          /\ InitCurrentLocationTracking
          /\ UNCHANGED <<positionLoads, positions>>
       \/ /\ Tracked /\ ~firstUpdate /\ LoadInitial("beacon")
          /\ UNCHANGED firstUpdate
    /\ UNCHANGED <<current, frequency, accuracy>>

BeaconEffects ==
    /\ ~BeaconIsDrawn /\ beacon' = BeaconDepends
    /\ BeaconCleans \/ BeaconTracks
    /\ UNCHANGED <<locationConfig, locates, lastId>>

LocationNext ==
    \/ \E f \in Frequencies, a \in BOOLEAN : ChooseParams(f, a)
    \/ Submit \/ StopTracking \/ Tick \/ BeaconEffects \/ SetLocationConfig
    \/ \E from \in Awaiting, ok \in BOOLEAN : InitialPosition(from, ok)
    \/ \E same \in BOOLEAN : TickPosition(same)
    \/ \E ok \in BOOLEAN : LocateAnswer(ok)

LocationSpec == LocationInit /\ [][LocationNext]_location
-----------------------------------------------------------------------------
(* What the tracking promises.                                             *)

\* At most one interval runs, the one the store can stop, whatever changes of
\* the parameters, late positions and stops overlap.
OneInterval == intervals = IF handle THEN 1 ELSE 0

\* And a location that is to be tracked is: once the beacon has run its effects
\* and awaits no position, its interval runs.
TrackedByOne ==
    /\ OneInterval
    /\ (/\ Tracked /\ frequency # "snapshot"
        /\ BeaconIsDrawn /\ positions["beacon"] = 0) => intervals = 1

\* A location that says its fokontany is loading has a request under way, from
\* whichever session.
LocationAnswered == current.loading => locates > 0
=============================================================================
