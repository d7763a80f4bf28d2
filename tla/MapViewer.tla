------------------------------ MODULE MapViewer ------------------------------
(***************************************************************************)
(* The map viewer's stores.  They share the page, and nothing the modules  *)
(* model: the entries of divisions (app-map.store.ts), the layers of whole *)
(* levels (the same and adm-geojson.store.ts), and the pins and the current*)
(* location (pinned-locations.store.ts).  A fokontany found for a pin is   *)
(* what a place of MapDivisions shows.  So that an instance stays small    *)
(* enough a behaviour here is one of one of them, and the others rest.     *)
(***************************************************************************)
EXTENDS MapDivisions, MapLayers, PinnedLocations, CurrentLocation

VARIABLE part

vars == <<part, divisions, layers, pins, location>>

Parts == {"divisions", "layers", "pins", "location"}

TypeOK ==
    /\ part \in Parts
    /\ DivisionsTypeOK /\ LayersTypeOK /\ PinsTypeOK /\ LocationTypeOK

Init ==
    /\ part \in Parts
    /\ DivisionsInit /\ LayersInit /\ PinsInit /\ LocationInit
    /\ part # "divisions" => mapConfig = {}
    /\ part # "layers" => \A l \in LayerLevels : stored[l].version = 0

Next ==
    \/ /\ part = "divisions" /\ DivisionsNext
       /\ UNCHANGED <<part, layers, pins, location>>
    \/ /\ part = "layers" /\ LayersNext
       /\ UNCHANGED <<part, divisions, pins, location>>
    \/ /\ part = "pins" /\ PinsNext
       /\ UNCHANGED <<part, divisions, layers, location>>
    \/ /\ part = "location" /\ LocationNext
       /\ UNCHANGED <<part, divisions, layers, pins>>

\* Whatever says on the page that it is loading has something under way whose
\* answer, or failure, will end it: a division, a pin, the current location.
SpinnersAnswered == EntriesAnswered /\ PinsAnswered /\ LocationAnswered

Spec == Init /\ [][Next]_vars
=============================================================================
