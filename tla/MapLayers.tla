------------------------------ MODULE MapLayers ------------------------------
(***************************************************************************)
(* The map viewer's layers of whole levels: the box of a level, the        *)
(* download of its file, its copy in the browser's database and its layer. *)
(*                                                                         *)
(* Source: map-viewer/stores/adm-geojson.store.ts, stores/app-map.store.ts,*)
(* client-cache/adm-geojson.client-cache.ts, islands/AppMap.tsx and the    *)
(* islands of the data sources' page.                                      *)
(*                                                                         *)
(* A place in a level's file is a number: two units make a line, the first *)
(* its text, or some of it, the second its newline.  A version is 1        *)
(* (outdated) or 2 (the one the page was served with).                     *)
(* An action is what runs between two awaits.  The map's effects run at a  *)
(* frame that follows (useSignalEffect): until then signals are "dirty".   *)
(***************************************************************************)
EXTENDS Naturals, FiniteSets, Sequences

CONSTANTS
    LayerLevels,
    Ndjson,        \* the levels whose file has a feature on each line
    Lines,         \* of the file of each level
    Jobs,          \* the downloads between two reloads: a level and a number
    MaxReads,      \* bound: readings of one level from the browser's database
    MaxPasses,     \* bound: passes under way when something else happens
    MaxClicks,     \* bound: what the reader does on a page before reloading it
    Old            \* bound: levels the browser may have an old copy of at first

ASSUME LayersAssumption ==
    /\ IsFiniteSet(LayerLevels) /\ LayerLevels \subseteq Nat
    /\ Ndjson \subseteq LayerLevels /\ Old \subseteq LayerLevels
    /\ Lines \in [LayerLevels -> Nat \ {0}]
    /\ Jobs \subseteq LayerLevels \X (Nat \ {0})
    /\ {MaxReads, MaxPasses, MaxClicks} \subseteq Nat

VARIABLES
    box,           \* admGeoJsonLayersCheckboxesStates
    metadata,      \* cachedMetadata: a version, 0 for none
    stored,        \* the browser's database
    modal,         \* the levels the open modal is about
    modalIsOpen,
    downloads,     \* the store's list of downloads
    job,           \* the executions of downloadForAdmLevel
    reading,       \* executions of enableAdmGeoJsonLayer at an await
    passes,        \* executions of handleAdmGeoJsonDownloadsResolved at one:
                   \* those in the same state are one
    layer,         \* the static layers on the map
    synced, dirty, clicks,
    lost           \* levels whose ended download is not looked at any more

layers == <<box, metadata, stored, modal, modalIsOpen, downloads, job, reading,
            passes, layer, synced, dirty, clicks, lost>>
page == <<stored, lost>>

Item == [job : Jobs, status : {"idle", "downloading", "success", "failed"}]

\* A pass is at the head of what it has left of the list it was given; "had"
\* says that the level was cached when it came there.
Pass == [todo : Seq(Item) \ {<<>>}, had : BOOLEAN, at : {"store", "draw"}]

Ended(phase, timer) == [phase |-> phase, pos |-> 0, glued |-> FALSE, timer |-> timer]
Versions == 0 .. 2

LayersTypeOK ==
    /\ box \in [LayerLevels -> {"off", "loading", "on"}]
    /\ metadata \in [LayerLevels -> Versions]
    /\ stored \in [LayerLevels -> [version : Versions, lines : Nat]]
    /\ \A l \in LayerLevels : stored[l].lines <= Lines[l]
    /\ modal \subseteq LayerLevels /\ modalIsOpen \in BOOLEAN
    /\ downloads \in Seq(Item)
    /\ job \in [Jobs ->
            [phase : {"none", "fetch", "read", "success", "freed", "failed"},
             pos : Nat, glued : BOOLEAN, timer : BOOLEAN]]
    /\ reading \in [LayerLevels \X {"metadata", "geojson"} -> 0 .. MaxReads]
    /\ passes \subseteq Pass
    /\ layer \in [LayerLevels -> BOOLEAN]
    /\ clicks \in 0 .. MaxClicks /\ {synced, dirty} \subseteq BOOLEAN
    /\ lost \subseteq LayerLevels

LayersInit ==
    /\ box = [l \in LayerLevels |-> "off"]
    /\ metadata = [l \in LayerLevels |-> 0]
    /\ \E old \in SUBSET Old :
        stored = [l \in LayerLevels |->
                    IF l \in old THEN [version |-> 1, lines |-> Lines[l]]
                    ELSE [version |-> 0, lines |-> 0]]
    /\ modal = {} /\ modalIsOpen = FALSE
    /\ downloads = <<>>
    /\ job = [j \in Jobs |-> Ended("none", FALSE)]
    /\ reading = [r \in LayerLevels \X {"metadata", "geojson"} |-> 0]
    /\ passes = {}
    /\ layer = [l \in LayerLevels |-> FALSE]
    /\ synced = FALSE /\ dirty = FALSE /\ clicks = 0 /\ lost = {}

\* The reader reloads the page: the browser's database stays.
Reload ==
    /\ box' = [l \in LayerLevels |-> "off"]
    /\ metadata' = [l \in LayerLevels |-> 0]
    /\ modal' = {} /\ modalIsOpen' = FALSE
    /\ downloads' = <<>>
    /\ job' = [j \in Jobs |-> Ended("none", FALSE)]
    /\ reading' = [r \in LayerLevels \X {"metadata", "geojson"} |-> 0]
    /\ passes' = {}
    /\ layer' = [l \in LayerLevels |-> FALSE]
    /\ synced' = FALSE /\ dirty' = FALSE /\ clicks' = 0 /\ lost' = {}
    /\ UNCHANGED stored

\* Bound.
Free == Cardinality(passes) < MaxPasses

\* syncExistingAdmGeoJsonData
Sync ==
    /\ Free /\ ~synced /\ synced' = TRUE /\ dirty' = TRUE
    /\ metadata' = [l \in LayerLevels |-> stored[l].version]
    /\ UNCHANGED <<page, box, modal, modalIsOpen, downloads, job, reading, passes, layer,
                   clicks>>
-----------------------------------------------------------------------------
(* downloadForAdmLevel *)

PlaceOf(l) == {i \in DOMAIN downloads : downloads[i].job[1] = l}

Status(l) ==
    IF PlaceOf(l) = {} THEN "none"
    ELSE downloads[CHOOSE i \in PlaceOf(l) : TRUE].status

\* The store's record of a download, in its level's place or as the last:
\* upsertDownload.
Upsert(j, status) ==
    LET item == [job |-> j, status |-> status]
    IN  /\ downloads' =
            IF PlaceOf(j[1]) = {} THEN Append(downloads, item)
            ELSE [i \in DOMAIN downloads |->
                    IF i \in PlaceOf(j[1]) THEN item ELSE downloads[i]]
        /\ dirty' = TRUE

\* One more download of a level.
NextJob(l) ==
    CHOOSE j \in Jobs :
        /\ j[1] = l /\ job[j].phase = "none"
        /\ \A k \in Jobs : k[1] = l /\ k[2] < j[2] => job[k].phase # "none"

\* The downloads of levels begin, one after the other.
Begin(L) ==
    LET begun(l) == [job |-> NextJob(l), status |-> "idle"]
        new == {l \in L : PlaceOf(l) = {}}
    IN  /\ \A l \in L : \E j \in Jobs : j[1] = l /\ job[j].phase = "none"
        /\ job' = [j \in Jobs |-> IF j[1] \in L /\ j = NextJob(j[1])
                                  THEN Ended("fetch", FALSE) ELSE job[j]]
        /\ \E order \in [1 .. Cardinality(new) -> new] :
            /\ \A m, n \in DOMAIN order : m < n => order[m] < order[n]
            /\ downloads' =
                [i \in DOMAIN downloads |->
                    IF downloads[i].job[1] \in L THEN begun(downloads[i].job[1])
                    ELSE downloads[i]]
                \o [n \in DOMAIN order |-> begun(order[n])]
        /\ dirty' = TRUE

InJob == UNCHANGED <<page, box, metadata, modal, modalIsOpen, reading, passes, layer,
                     synced, clicks>>

Fetched(j) ==
    /\ Free /\ job[j].phase = "fetch"
    /\ job' = [job EXCEPT ![j].phase = "read"]
    /\ Upsert(j, "downloading")
    /\ InJob

\* The lines parsed once the file is read up to a place: the last one begun
\* waits in the buffer, also when it is complete.
Parsed(pos) == IF pos % 2 = 0 /\ pos > 0 THEN pos \div 2 - 1 ELSE pos \div 2

\* The newline at the end of a chunk is gone from the buffer ("filter"), so
\* that the next line is glued to the line waiting there.
Glued(j) == job[j].glued \/ (job[j].pos > 0 /\ job[j].pos % 2 = 0)

\* A chunk up to a place.  A glued line is no JSON when its turn comes.
ReadChunk(j, pos) ==
    LET glued == j[1] \in Ndjson /\ Glued(j)
        fails == glued /\ Parsed(pos) > Parsed(job[j].pos) + 1
    IN  /\ Free /\ job[j].phase = "read" /\ job[j].pos < pos
        /\ job' = [job EXCEPT ![j] =
                    IF fails THEN Ended("failed", TRUE)
                    ELSE [phase |-> "read", pos |-> pos, glued |-> glued, timer |-> TRUE]]
        /\ IF fails THEN Upsert(j, "failed")
           ELSE IF job[j].timer THEN UNCHANGED <<downloads, dirty>>
           ELSE Upsert(j, "downloading")
        /\ InJob

\* Mutant: the line left in the buffer is parsed with the others, and again.
FeaturesTwice(l) == IF l \in Ndjson THEN Parsed(2 * Lines[l]) + 2 ELSE Lines[l]

Features(l) == IF l \in Ndjson THEN Parsed(2 * Lines[l]) + 1 ELSE Lines[l]

\* The end of the file, with or without a last newline.
EndOfFile(j) ==
    LET status == IF job[j].glued THEN "failed" ELSE "success"
    IN  /\ Free /\ job[j].phase = "read" /\ job[j].pos >= 2 * Lines[j[1]] - 1
        /\ job' = [job EXCEPT ![j] = Ended(status, FALSE)]
        /\ Upsert(j, status)
        /\ InJob

\* The request or the connection fails; a timer stays.
Fail(j) ==
    /\ Free /\ job[j].phase \in {"fetch", "read"}
    /\ job' = [job EXCEPT ![j] = Ended("failed", @.timer)]
    /\ Upsert(j, "failed")
    /\ InJob

\* The throttle's timer puts the download back as it is by then, whatever has
\* become of its record.
Throttled(j) ==
    /\ Free /\ job[j].timer
    /\ job' = [job EXCEPT ![j].timer = FALSE]
    /\ Upsert(j, IF job[j].phase = "failed" THEN "failed" ELSE "downloading")
    /\ InJob
-----------------------------------------------------------------------------
(* The reader *)

Click == Free /\ clicks < MaxClicks /\ clicks' = clicks + 1

Open(L) == modal' = L /\ modalIsOpen' = TRUE

\* enableAdmGeoJsonLayer up to its first await.
Enable(l) ==
    LET r == <<l, IF metadata[l] = 0 THEN "metadata" ELSE "geojson">>
    IN  /\ reading[r] < MaxReads
        /\ box' = [box EXCEPT ![l] = IF metadata[l] = 0 THEN "loading" ELSE "on"]
        /\ reading' = [reading EXCEPT ![r] = @ + 1]
        /\ UNCHANGED layer

\* handleAdmGeoJsonLayerCheckoxChange
ClickBox(l) ==
    /\ Click /\ box[l] # "loading"
    /\ \/ /\ box[l] = "on"
          /\ box' = [box EXCEPT ![l] = "off"]
          /\ layer' = [layer EXCEPT ![l] = FALSE]
          /\ UNCHANGED reading
       \/ box[l] = "off" /\ Enable(l)
    /\ dirty' = TRUE
    /\ UNCHANGED <<page, metadata, modal, modalIsOpen, downloads, job, passes, synced>>

\* The explorer's counts enable a layer without looking at its box.
ClickPill(l) ==
    /\ Click /\ Enable(l) /\ dirty' = TRUE
    /\ UNCHANGED <<page, metadata, modal, modalIsOpen, downloads, job, passes, synced>>

\* The answer to getMetadataByCode.
MetadataRead(l) ==
    /\ Free /\ reading[<<l, "metadata">>] > 0
    /\ box' = [box EXCEPT ![l] = "on"]
    /\ IF stored[l].version = 0
       THEN /\ Open({l})
            /\ reading' = [reading EXCEPT ![<<l, "metadata">>] = @ - 1]
            /\ UNCHANGED metadata
       ELSE /\ metadata' = [metadata EXCEPT ![l] = stored[l].version]
            /\ reading[<<l, "geojson">>] < MaxReads
            /\ reading' = [reading EXCEPT ![<<l, "metadata">>] = @ - 1,
                                          ![<<l, "geojson">>] = @ + 1]
            /\ UNCHANGED <<modal, modalIsOpen>>
    /\ dirty' = TRUE
    /\ UNCHANGED <<page, downloads, job, passes, layer, synced, clicks>>

\* The answer to getGeojsonByCode: the layer is drawn, whether or not its box
\* is still checked.
GeojsonRead(l) ==
    /\ reading[<<l, "geojson">>] > 0
    /\ reading' = [reading EXCEPT ![<<l, "geojson">>] = @ - 1]
    /\ layer' = [layer EXCEPT ![l] = @ \/ stored[l].version > 0]
    /\ UNCHANGED <<page, box, metadata, modal, modalIsOpen, downloads, job, passes, synced,
                   dirty, clicks>>

\* The modal is closed by its button, which begins the downloads first, or
\* otherwise.
CloseModal(confirmed) ==
    /\ Click /\ modalIsOpen
    /\ IF confirmed THEN Begin(modal)
       ELSE UNCHANGED <<job, downloads>> /\ dirty' = TRUE
    /\ modal' = {} /\ modalIsOpen' = FALSE
    /\ UNCHANGED <<page, box, metadata, reading, passes, layer, synced>>

\* layersToDownload
Outdated == {l \in LayerLevels : metadata[l] < 2}

\* The card of a level, or the button for all levels.
ClickDownload(L) ==
    /\ Click /\ synced /\ ~modalIsOpen
    /\ \/ L = Outdated /\ Len(downloads) < Cardinality(Outdated)
       \/ \E l \in Outdated : L = {l} /\ Status(l) \in {"none", "failed"}
    /\ IF \A l \in L : metadata[l] # 0
       THEN Begin(L) /\ UNCHANGED <<modal, modalIsOpen>>
       ELSE Open(L) /\ UNCHANGED <<job, downloads, dirty>>
    /\ UNCHANGED <<page, box, metadata, reading, passes, layer, synced>>
-----------------------------------------------------------------------------
(* The map's effects *)

\* The first: the boxes of levels that are not cached.
BoxOf(l) ==
    IF ~modalIsOpen /\ box[l] = "on" /\ metadata[l] = 0
    THEN CASE Status(l) = "none" -> "off"
           [] Status(l) \in {"idle", "downloading"} -> "loading"
           [] OTHER -> "on"
    ELSE box[l]

\* Mutant: a failed download is passed over as one that goes on is.
FailedUnseen(i) == FALSE

\* What a pass finds of a download when it comes to it: a record made when the
\* download began is the download's own, and fails with it.
Failed(i) ==
    \/ i.status = "failed"
    \/ i.status = "idle" /\ job[i.job].phase = "failed"

Resolvable(i) == i.status = "success" /\ job[i.job].phase = "success"

\* A pass over a list comes to its first await at the first download whose
\* features are there, and does not see the rest before that is over.
Stop(list) ==
    IF \E i \in DOMAIN list : Resolvable(list[i])
    THEN CHOOSE i \in DOMAIN list :
            /\ Resolvable(list[i]) /\ \A n \in 1 .. i - 1 : ~Resolvable(list[n])
    ELSE Len(list) + 1

\* The boxes of the failed downloads on the way there.
Unchecked(list, boxes) ==
    [l \in LayerLevels |->
        IF boxes[l] = "loading" /\ \E i \in 1 .. Stop(list) - 1 :
                                        Failed(list[i]) /\ list[i].job[1] = l
        THEN "off" ELSE boxes[l]]

\* The pass at that await; none if it has come to the end.
PassAt(list) ==
    IF Stop(list) > Len(list) THEN {}
    ELSE {[todo |-> SubSeq(list, Stop(list), Len(list)),
           had |-> metadata[list[Stop(list)].job[1]] # 0, at |-> "store"]}

\* Both effects; the second begins a pass.
Effects ==
    /\ dirty
    /\ box' = Unchecked(downloads, [l \in LayerLevels |-> BoxOf(l)])
    /\ passes' = passes \cup PassAt(downloads)
    /\ dirty' = (box' # box)
    /\ UNCHANGED <<page, metadata, modal, modalIsOpen, downloads, job, reading, layer,
                   synced, clicks>>

\* What a pass or a box still has to learn of a download.
News(i) == Failed(i) \/ Resolvable(i)

\* The cards go with the data sources' page, and the downloads' records with
\* them, also those of downloads that have ended since the effects ran.
LeavePage ==
    /\ Click /\ downloads # <<>>
    /\ downloads' = <<>> /\ dirty' = TRUE
    /\ lost' = lost \cup {l \in LayerLevels :
                            dirty /\ \E i \in PlaceOf(l) : News(downloads[i])}
    /\ UNCHANGED <<stored, box, metadata, modal, modalIsOpen, job, reading, passes, layer,
                   synced>>
-----------------------------------------------------------------------------
(* handleAdmGeoJsonDownloadsResolved, from its first await on *)

LevelOf(p) == Head(p.todo).job[1]
JobOf(p) == Head(p.todo).job

\* Mutant: the level is called cached before its features are stored.
CachedFirst(l) ==
    /\ metadata' = [metadata EXCEPT ![l] = 2]
    /\ UNCHANGED stored

Cached(l) ==
    /\ metadata' = [metadata EXCEPT ![l] = 2]
    /\ stored' = [stored EXCEPT ![l] = [version |-> 2, lines |-> Features(l)]]

\* The pass is over, with an error nobody handles, and the downloads it had left
\* are not looked at.
Rejected(p) ==
    /\ passes' = passes \ {p}
    /\ lost' = lost \cup {p.todo[n].job[1] : n \in DOMAIN p.todo}
    /\ UNCHANGED <<job, layer>>

\* The reference to the features is deleted and the pass comes to the rest of
\* its list.
GoOn(p) ==
    /\ job' = [job EXCEPT ![JobOf(p)].phase = "freed"]
    /\ box' = Unchecked(Tail(p.todo), box)
    /\ passes' = (passes \ {p}) \cup PassAt(Tail(p.todo))
    /\ UNCHANGED <<layer, lost>>

\* The database has stored the features, in one transaction.  A level that was
\* not cached is checked and drawn; one that was is drawn again if it is drawn.
\* Drawing it over a layer, or without its features, comes to an error.
Store(p) ==
    LET l == LevelOf(p)
        there == job[JobOf(p)].phase = "success"
        checked == IF p.had THEN box ELSE [box EXCEPT ![l] = "on"]
    IN  /\ p.at = "store"
        /\ Cached(l)
        /\ \/ /\ there /\ layer[l] = p.had
              /\ layer' = [layer EXCEPT ![l] = TRUE] /\ box' = checked
              /\ passes' = (passes \ {p}) \cup {[p EXCEPT !.at = "draw"]}
              /\ UNCHANGED <<job, lost>>
           \/ ~p.had /\ (layer[l] \/ ~there) /\ Rejected(p) /\ box' = checked
           \/ p.had /\ ~(layer[l] /\ there) /\ GoOn(p)
        /\ dirty' = TRUE
        /\ UNCHANGED <<modal, modalIsOpen, downloads, reading, synced, clicks>>

\* The database has no room.
Refuse(p) ==
    /\ p.at = "store" /\ Rejected(p)
    /\ UNCHANGED <<box, metadata, stored, modal, modalIsOpen, downloads, reading, synced,
                   dirty, clicks>>

\* The bounds of the layer are known and the map is fitted to them...
Fitted(p) ==
    /\ p.at = "draw" /\ GoOn(p) /\ dirty' = (dirty \/ box' # box)
    /\ UNCHANGED <<stored, metadata, modal, modalIsOpen, downloads, reading, synced, clicks>>

\* ... or they are not after twenty seconds.
DrawTimeout(p) ==
    /\ p.at = "draw" /\ Rejected(p)
    /\ UNCHANGED <<box, metadata, stored, modal, modalIsOpen, downloads, reading, synced,
                   dirty, clicks>>
-----------------------------------------------------------------------------
Downloads(j) ==
    \/ Fetched(j) \/ EndOfFile(j) \/ Fail(j) \/ Throttled(j)
    \/ \E pos \in 1 .. 2 * Lines[j[1]] : ReadChunk(j, pos)

PassStep(p) == Store(p) \/ Refuse(p) \/ Fitted(p) \/ DrawTimeout(p)

LayersNext ==
    \/ Reload \/ Sync \/ Effects \/ LeavePage
    \/ \E l \in LayerLevels :
        MetadataRead(l) \/ GeojsonRead(l) \/ ClickBox(l) \/ ClickPill(l)
    \/ \E j \in Jobs : Downloads(j)
    \/ \E p \in passes : PassStep(p)
    \/ \E confirmed \in BOOLEAN : CloseModal(confirmed)
    \/ \E L \in SUBSET LayerLevels : L # {} /\ ClickDownload(L)

LayersSpec == LayersInit /\ [][LayersNext]_layers
-----------------------------------------------------------------------------
(* What the layers promise.                                                *)

\* A level the viewer calls cached has every line of its file in the browser's
\* database, through cut-up files, failures, overlapping downloads and reloads
\* at any moment.
CachedIsStored ==
    \A l \in LayerLevels :
        /\ metadata[l] # 0 => stored[l].version >= metadata[l]
        /\ stored[l].version # 0 => stored[l].lines = Lines[l]

\* What will end a level's "loading": a reading, a download, a pass that has the
\* level's download ahead, or the effects, which begin one.
Awaited(l) ==
    \/ reading[<<l, "metadata">>] > 0
    \/ \E j \in Jobs : j[1] = l /\ job[j].phase \in {"fetch", "read"}
    \/ \E p \in passes : \E n \in DOMAIN p.todo :
        /\ p.todo[n].job[1] = l /\ News(p.todo[n])
        /\ n = 1 => p.at = "store" /\ ~p.had
    \/ dirty /\ \E i \in PlaceOf(l) : News(downloads[i])

\* A box that says "loading", whose clicks are ignored, has something under way
\* that ends it, whatever other levels' downloads, passes and errors come before;
\* unless its own download ended and was lost.
LoadingIsAnswered ==
    \A l \in LayerLevels : box[l] = "loading" => Awaited(l) \/ l \in lost
=============================================================================
