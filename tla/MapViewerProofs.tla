--------------------------- MODULE MapViewerProofs ---------------------------
(***************************************************************************)
(* Theorems about the map viewer's stores, for any divisions, items,       *)
(* places, levels, downloads, file lengths, pins, spots and numbers of     *)
(* requests and passes under way.                                          *)
(*                                                                         *)
(* None of what the stores promise is inductive as it stands:              *)
(*   - the entries' counts need to know that a component counted itself in *)
(*     only for what it was drawn with, so that what it is drawn with next *)
(*     takes out and puts in what it should; that what is drawn is its own *)
(*     needs the same of every geometry and every request;                 *)
(*   - a pin's fokontany needs to know that ids differ, that each request  *)
(*     is for a spot of its pin and that the last one is for where its     *)
(*     effect ran, unless answers came in another order;                   *)
(*   - the interval needs to know that a beacon which has started tracking *)
(*     is past its first update (StartedOnce), and that a location found   *)
(*     later is never taken for the one the beacon drew (IdsGrow).         *)
(*   - a level that loads needs to know that what the page was told of a   *)
(*     download is what its worker is at (ItemsTold), that a worker waits  *)
(*     for the throttle only while it reads or has failed (TimersRun), that*)
(*     a level is asked about only once its copy is known (LevelsKnown),   *)
(*     and that it loads because that copy is looked for or missing        *)
(*     (LoadingUncached); a pass stands at a download that has features    *)
(*     (PassesStand).                                                      *)
(* The cached levels need that no step takes a version or a line back.     *)
(***************************************************************************)
EXTENDS MapViewer, FiniteSetTheorems, SequenceTheorems, WellFoundedInduction, TLAPS

-----------------------------------------------------------------------------
(* The entries of divisions                                                *)

\* A component counted itself in for what it was drawn with.
MountedIsDrawn == \A c \in Components : mounted[c] \subseteq Firsts(drawn[c])

\* A request is made with the id of what it asks for, or with a province's name.
Meant(e, id) ==
    \/ id = e
    \/ /\ id = WrongId /\ DivisionLevel[e] = Province
       /\ "isProvinceFkRepeated" \notin mapConfig

RequestsMeant ==
    \A e \in Divisions, id \in Divisions \cup {WrongId} :
        loads[<<e, id>>] > 0 => Meant(e, id)

\* What is not in the store does not load.
LoadingIsThere == \A e \in Divisions : entry[e].loading => entry[e].there

\* A geometry is its division's own, and what is drawn has one.
OwnGeometry ==
    \A e \in Divisions :
        /\ entry[e].geojson \in {Nothing, e}
        /\ entry[e].rendered => entry[e].geojson = e

\* The types, but for the bound of the references.
EntryFields ==
    [there : BOOLEAN, loading : BOOLEAN, geojson : Divisions \cup {Nothing},
     rendered : BOOLEAN, refs : Nat]

DivisionsTyped ==
    /\ mapConfig \in DivisionConfigs /\ listsLoaded \in BOOLEAN
    /\ entry \in [Divisions -> EntryFields]
    /\ loads \in [Divisions \X (Divisions \cup {WrongId}) -> Nat]
    /\ shown \in [Viewers -> Divisions \cup {Nothing}]
    /\ drawn \in [Components -> SUBSET (Divisions \X BOOLEAN)]
    /\ mounted \in [Components -> SUBSET Divisions]

\* The inductive invariant.
DivisionsInv ==
    /\ DivisionsTyped /\ MountedIsDrawn /\ OwnGeometry
    /\ RequestsMeant /\ LoadingIsThere
    /\ ReferencesCounted /\ EntriesAnswered

LEMMA ComponentsFinite == IsFiniteSet(Components)
<1>1. IsFiniteSet(Divisions \cup Items)
  BY DivisionsAssumption, FS_Union
<1>2. IsFiniteSet((Divisions \cup Items) \cup Parents)
  BY <1>1, DivisionsAssumption, FS_Union
<1>3. IsFiniteSet(((Divisions \cup Items) \cup Parents) \cup Places)
  BY <1>2, DivisionsAssumption, FS_Union
<1>. QED
  BY <1>3 DEF Components

LEMMA DivisionsStart == DivisionsInit => DivisionsInv
<1> SUFFICES ASSUME DivisionsInit PROVE DivisionsInv
    OBVIOUS
<1>1. DivisionsTyped
  BY DEF DivisionsInit, DivisionsTyped, NoEntry, EntryFields, Components, Viewers
<1>2. MountedIsDrawn /\ OwnGeometry
  BY DEF DivisionsInit, MountedIsDrawn, OwnGeometry, NoEntry
<1>3. ReferencesCounted
  <2>1. ASSUME NEW e \in Divisions
        PROVE  {c \in Components : e \in mounted[c]} = {} /\ entry[e].refs = 0
    BY DEF DivisionsInit, NoEntry
  <2>. QED
    BY <2>1, FS_EmptySet DEF ReferencesCounted
<1>4. EntriesAnswered /\ RequestsMeant /\ LoadingIsThere
  <2>1. \A e \in Divisions : entry[e] = NoEntry
    BY DEF DivisionsInit
  <2>2. \A e \in Divisions, id \in Divisions \cup {WrongId} : loads[<<e, id>>] = 0
    BY DEF DivisionsInit
  <2>. QED
    BY <2>1, <2>2 DEF EntriesAnswered, RequestsMeant, LoadingIsThere, NoEntry
<1>. QED
  BY <1>1, <1>2, <1>3, <1>4 DEF DivisionsInv

\* A component depends on a division in one way only.
OnceEach(pairs) ==
    /\ pairs \in SUBSET (Divisions \X BOOLEAN)
    /\ \A p, q \in pairs : p[1] = q[1] => p = q

LEMMA OfEach ==
    ASSUME NEW S \in SUBSET Divisions, NEW f \in [Divisions -> BOOLEAN],
           NEW pairs, pairs = {<<e, f[e]>> : e \in S}
    PROVE  OnceEach(pairs)
<1>1. ASSUME NEW p \in pairs
      PROVE  p[1] \in S /\ p = <<p[1], f[p[1]]>>
  OBVIOUS
<1>2. ASSUME NEW p \in pairs PROVE p \in Divisions \X BOOLEAN
  <2>1. f[p[1]] \in BOOLEAN
    BY <1>1
  <2>. QED
    BY <1>1, <2>1
<1>3. ASSUME NEW p \in pairs, NEW q \in pairs, p[1] = q[1]
      PROVE  p = q
  BY <1>1, <1>3
<1>. QED
  BY <1>2, <1>3 DEF OnceEach

LEMMA OfRendered ==
    ASSUME NEW d \in Divisions
    PROVE  OnceEach(RenderedOf(d))
<1>. DEFINE S == {x \in DivisionsOf(d) : entry[x].rendered}
            f == [e \in Divisions |-> TRUE]
<1>1. S \in SUBSET Divisions /\ f \in [Divisions -> BOOLEAN]
  BY DivisionsAssumption DEF DivisionsOf
<1>2. \A e \in S : f[e] = TRUE
  BY <1>1
<1>. HIDE DEF f
<1>3. RenderedOf(d) = {<<e, f[e]>> : e \in S}
  BY <1>2, Zenon DEF RenderedOf
<1>. QED
  BY <1>1, <1>3, OfEach

LEMMA OfParents ==
    ASSUME DivisionsTyped, NEW d \in Divisions
    PROVE  OnceEach(ParentsOf(d))
<1>. DEFINE S == DivisionsOf(d) \ {d}
            f == [e \in Divisions |-> entry[e].loading]
<1>1. S \in SUBSET Divisions
  BY DivisionsAssumption DEF DivisionsOf
<1>2. f \in [Divisions -> BOOLEAN]
  BY DEF DivisionsTyped, EntryFields
<1>3. \A e \in S : f[e] = entry[e].loading
  BY <1>1
<1>. HIDE DEF f
<1>4. ParentsOf(d) = {<<e, f[e]>> : e \in S}
  BY <1>3, Zenon DEF ParentsOf
<1>. QED
  BY <1>1, <1>2, <1>4, OfEach

LEMMA DependsFacts ==
    ASSUME DivisionsTyped, NEW c \in Components
    PROVE  OnceEach(Depends(c))
<1>0. OnceEach({})
  BY DEF OnceEach
<1>1. CASE c \in Items
  <2>1. Depends(c) =
            IF shown[c] = Nothing THEN {}
            ELSE IF Unchanged(c) THEN drawn[c]
            ELSE {<<shown[c], entry[shown[c]].geojson # Nothing>>}
    BY <1>1, DivisionsAssumption DEF Depends
  <2>2. shown[c] \in Divisions \cup {Nothing}
    BY <1>1 DEF DivisionsTyped, Viewers
  <2>3. CASE shown[c] = Nothing
    BY <1>0, <2>1, <2>3
  <2>4. CASE shown[c] # Nothing /\ Unchanged(c)
    <3>1. drawn[c] \in SUBSET (Divisions \X BOOLEAN) /\ \A p \in drawn[c] : ~p[2]
      BY <2>4 DEF DivisionsTyped, Unchanged
    <3>2. ASSUME NEW p \in drawn[c], NEW q \in drawn[c], p[1] = q[1] PROVE p = q
      <4>1. /\ p = <<p[1], p[2]>> /\ p[2] = FALSE
            /\ q = <<q[1], q[2]>> /\ q[2] = FALSE
        BY <3>1
      <4>. QED
        BY <3>2, <4>1
    <3>. QED
      BY <2>1, <2>4, <3>1, <3>2 DEF OnceEach
  <2>5. CASE shown[c] # Nothing /\ ~Unchanged(c)
    <3>. DEFINE q == <<shown[c], entry[shown[c]].geojson # Nothing>>
    <3>1. Depends(c) = {q}
      BY <2>1, <2>5
    <3>2. q \in Divisions \X BOOLEAN
      BY <2>2, <2>5
    <3>. HIDE DEF q
    <3>. QED
      BY <3>1, <3>2 DEF OnceEach
  <2>. QED
    BY <2>3, <2>4, <2>5
<1>2. CASE c \in Parents
  <2>1. c \notin Items /\ c \notin Places /\ ItemOf[c] \in Viewers
    BY <1>2, DivisionsAssumption DEF Viewers
  <2>2. Depends(c) = IF shown[ItemOf[c]] = Nothing THEN {} ELSE ParentsOf(shown[ItemOf[c]])
    BY <1>2, <2>1 DEF Depends
  <2>3. shown[ItemOf[c]] = Nothing \/ shown[ItemOf[c]] \in Divisions
    BY <2>1 DEF DivisionsTyped
  <2>. QED
    BY <1>0, <2>2, <2>3, OfParents
<1>3. CASE c \in Places
  <2>1. c \notin Items /\ c \notin Parents /\ c \in Viewers
    BY <1>3, DivisionsAssumption DEF Viewers
  <2>2. Depends(c) = IF shown[c] = Nothing THEN {} ELSE RenderedOf(shown[c])
    BY <1>3, <2>1 DEF Depends
  <2>3. shown[c] = Nothing \/ shown[c] \in Divisions
    BY <2>1 DEF DivisionsTyped
  <2>. QED
    BY <1>0, <2>2, <2>3, OfRendered
<1>4. CASE c \notin Items \cup Parents \cup Places
  <2>1. c \in Divisions
    BY <1>4 DEF Components
  <2>2. Depends(c) = IF ~entry[c].rendered THEN {} ELSE RenderedOf(c)
    BY <1>4 DEF Depends
  <2>. QED
    BY <1>0, <2>1, <2>2, OfRendered
<1>. QED
  BY <1>1, <1>2, <1>3, <1>4

\* Who counted itself in for a division.
By(e) == {c \in Components : e \in mounted[c]}

LEMMA ByFacts ==
    ASSUME NEW e \in Divisions
    PROVE  /\ By(e) \subseteq Components
           /\ IsFiniteSet(By(e)) /\ Cardinality(By(e)) \in Nat
           /\ Cardinality(By(e)) = 0 <=> By(e) = {}
<1>1. By(e) \subseteq Components
  BY DEF By
<1>2. IsFiniteSet(By(e))
  BY <1>1, ComponentsFinite, FS_Subset
<1>. QED
  BY <1>1, <1>2, FS_CardinalityType, FS_EmptySet

\* What a step that mounts nothing has to keep of the counting.
LEMMA CountingKept ==
    ASSUME ReferencesCounted, UNCHANGED mounted,
           \A e \in Divisions : /\ entry'[e].refs = entry[e].refs
                                /\ By(e) # {} /\ entry[e].there => entry'[e].there
    PROVE  ReferencesCounted'
<1>1. ASSUME NEW e \in Divisions
      PROVE  {c \in Components : e \in mounted'[c]} = By(e)
  BY DEF By
<1>. QED
  BY <1>1 DEF ReferencesCounted, By

\* The components that a drawing mounts and unmounts.
Gone(c) == mounted[c] \cap Firsts(drawn[c] \ Depends(c))
Come(c) == {e \in Firsts(Depends(c) \ drawn[c]) : CountedIn(c, e)}
Left(c, e) == IF e \in Gone(c) THEN Dereferenced(c, e) ELSE entry[e]

LEMMA DrawFacts ==
    ASSUME DivisionsInv, NEW c \in Components, Draw(c)
    PROVE  /\ entry' = [e \in Divisions |->
                  IF e \in Come(c) THEN [Left(c, e) EXCEPT !.refs = @ + 1] ELSE Left(c, e)]
           /\ drawn' = [drawn EXCEPT ![c] = Depends(c)]
           /\ mounted' = [mounted EXCEPT ![c] = (@ \ Gone(c)) \cup Come(c)]
           /\ UNCHANGED <<mapConfig, listsLoaded, loads, shown>>
           /\ Gone(c) \subseteq mounted[c] /\ Come(c) \subseteq Divisions
           /\ Come(c) \cap mounted[c] \subseteq Gone(c)
           /\ (mounted[c] \ Gone(c)) \cup Come(c) \subseteq Firsts(Depends(c))
           /\ \A e \in Come(c) : entry[e].there
<1>1. /\ entry' = [e \in Divisions |->
              IF e \in Come(c) THEN [Left(c, e) EXCEPT !.refs = @ + 1] ELSE Left(c, e)]
      /\ drawn' = [drawn EXCEPT ![c] = Depends(c)]
      /\ mounted' = [mounted EXCEPT ![c] = (@ \ Gone(c)) \cup Come(c)]
      /\ UNCHANGED <<mapConfig, listsLoaded, loads, shown>>
  BY DEF Draw, Come, Gone, Left
<1>2. Gone(c) \subseteq mounted[c]
  BY DEF Gone
<1>3. Depends(c) \in SUBSET (Divisions \X BOOLEAN)
  BY DependsFacts DEF DivisionsInv, OnceEach
<1>4. Come(c) \subseteq Divisions
  BY <1>3 DEF Come, Firsts
<1>5. ASSUME NEW e \in mounted[c], e \notin Gone(c)
      PROVE  \E q \in drawn[c] : q[1] = e /\ q \in Depends(c)
  <2>1. PICK q \in drawn[c] : q[1] = e
    BY DEF DivisionsInv, MountedIsDrawn, Firsts
  <2>. QED
    BY <1>5, <2>1 DEF Gone, Firsts
<1>6. Come(c) \cap mounted[c] \subseteq Gone(c)
  <2> SUFFICES ASSUME NEW e \in Come(c), e \in mounted[c], e \notin Gone(c) PROVE FALSE
    OBVIOUS
  <2>1. PICK p \in Depends(c) : p \notin drawn[c] /\ p[1] = e
    BY DEF Come, Firsts
  <2>2. PICK q \in drawn[c] : q[1] = e /\ q \in Depends(c)
    BY <1>5
  <2>. QED
    BY <2>1, <2>2, DependsFacts DEF DivisionsInv, OnceEach
<1>7. (mounted[c] \ Gone(c)) \cup Come(c) \subseteq Firsts(Depends(c))
  BY <1>5 DEF Come, Firsts
<1>8. \A e \in Come(c) : entry[e].there
  BY DEF Come, CountedIn
<1>. QED
  BY <1>1, <1>2, <1>4, <1>6, <1>7, <1>8

\* What a clean-up leaves of an entry.
LEMMA DereferencedFacts ==
    ASSUME DivisionsTyped, NEW c \in Components, NEW e \in Divisions
    PROVE  /\ Left(c, e) \in EntryFields
           /\ Left(c, e).there = entry[e].there
           /\ Left(c, e).loading = entry[e].loading
           /\ Left(c, e).geojson = entry[e].geojson
           /\ Left(c, e).rendered => entry[e].rendered
           /\ Left(c, e).refs = IF e \in Gone(c) /\ entry[e].there THEN Minus(entry[e].refs)
                                ELSE entry[e].refs
<1>1. entry[e] \in EntryFields
  BY DEF DivisionsTyped
<1>2. CASE e \in Gone(c) /\ entry[e].there
  <2>. DEFINE left == Minus(entry[e].refs)
              stays == entry[e].rendered /\ ~TakenOff(c, left) /\ ~LayerTakesOff(c, e, left)
  <2>1. left \in Nat
    BY <1>1 DEF Minus, EntryFields
  <2>2. stays \in BOOLEAN /\ (stays => entry[e].rendered)
    OBVIOUS
  <2>3. Left(c, e) = [entry[e] EXCEPT !.refs = left, !.rendered = stays]
    BY <1>2 DEF Left, Dereferenced
  <2>4. left = IF e \in Gone(c) /\ entry[e].there THEN Minus(entry[e].refs)
               ELSE entry[e].refs
    BY <1>2
  <2>. HIDE DEF left, stays
  <2>5. /\ Left(c, e) \in EntryFields
        /\ Left(c, e).there = entry[e].there
        /\ Left(c, e).loading = entry[e].loading
        /\ Left(c, e).geojson = entry[e].geojson
        /\ Left(c, e).rendered = stays
        /\ Left(c, e).refs = left
    BY <1>1, <2>1, <2>2, <2>3 DEF EntryFields
  <2>. QED
    BY <2>2, <2>4, <2>5
<1>3. CASE ~(e \in Gone(c) /\ entry[e].there)
  <2>1. Left(c, e) = entry[e]
    BY <1>3 DEF Left, Dereferenced
  <2>. QED
    BY <1>1, <1>3, <2>1
<1>. QED
  BY <1>2, <1>3

LEMMA DrawEntry ==
    ASSUME DivisionsInv, NEW c \in Components, Draw(c), NEW e \in Divisions
    PROVE  /\ entry'[e] \in EntryFields
           /\ entry'[e].there = entry[e].there
           /\ entry'[e].loading = entry[e].loading
           /\ entry'[e].geojson = entry[e].geojson
           /\ entry'[e].rendered => entry[e].rendered
           /\ entry'[e].refs = IF e \in Come(c) THEN Left(c, e).refs + 1 ELSE Left(c, e).refs
<1>1. entry'[e] = IF e \in Come(c) THEN [Left(c, e) EXCEPT !.refs = @ + 1] ELSE Left(c, e)
  BY DrawFacts
<1>2. Left(c, e) \in EntryFields
  BY DereferencedFacts DEF DivisionsInv
<1>3. /\ entry'[e] \in EntryFields
      /\ entry'[e].there = Left(c, e).there
      /\ entry'[e].loading = Left(c, e).loading
      /\ entry'[e].geojson = Left(c, e).geojson
      /\ entry'[e].rendered = Left(c, e).rendered
      /\ entry'[e].refs = IF e \in Come(c) THEN Left(c, e).refs + 1 ELSE Left(c, e).refs
  BY <1>1, <1>2 DEF EntryFields
<1>. QED
  BY <1>3, DereferencedFacts DEF DivisionsInv

\* A drawing counts its component in and out as it mounts and unmounts.
LEMMA DrawCounts ==
    ASSUME DivisionsInv, NEW c \in Components, Draw(c)
    PROVE  ReferencesCounted'
<1>. SUFFICES ASSUME NEW e \in Divisions
              PROVE  /\ entry'[e].refs = Cardinality(By(e)')
                     /\ By(e)' # {} => entry'[e].there
  BY DEF ReferencesCounted, By
<1>1. entry[e].refs = Cardinality(By(e)) /\ (By(e) # {} => entry[e].there)
  BY DEF DivisionsInv, ReferencesCounted, By
<1>2. c \in By(e) <=> e \in mounted[c]
  BY DEF By
<1>3. mounted \in [Components -> SUBSET Divisions]
  BY DEF DivisionsInv, DivisionsTyped
<1>4. By(e)' = IF e \in Come(c) THEN By(e) \cup {c}
               ELSE IF e \in Gone(c) THEN By(e) \ {c} ELSE By(e)
  <2>1. mounted'[c] = (mounted[c] \ Gone(c)) \cup Come(c)
    BY <1>3, DrawFacts
  <2>2. \A x \in Components : x # c => mounted'[x] = mounted[x]
    BY <1>3, DrawFacts
  <2>3. \A x \in Components : x # c => (x \in By(e)' <=> x \in By(e))
    BY <2>2 DEF By
  <2>4. c \in By(e)' <=> e \in Come(c) \/ (c \in By(e) /\ e \notin Gone(c))
    BY <2>1, <1>2 DEF By
  <2>5. By(e)' \subseteq Components /\ By(e) \subseteq Components
    BY DEF By
  <2>. QED
    BY <2>3, <2>4, <2>5
<1>5. e \in Come(c) => entry[e].there /\ (e \in mounted[c] => e \in Gone(c))
  BY DrawFacts
<1>6. e \in Gone(c) => e \in mounted[c]
  BY DrawFacts
<1>7. IsFiniteSet(By(e)) /\ Cardinality(By(e)) \in Nat
  BY ByFacts
<1>8. Cardinality(By(e) \cup {c}) =
            IF c \in By(e) THEN Cardinality(By(e)) ELSE Cardinality(By(e)) + 1
  BY <1>7, FS_AddElement
<1>9. Cardinality(By(e) \ {c}) =
            IF c \in By(e) THEN Cardinality(By(e)) - 1 ELSE Cardinality(By(e))
  BY <1>7, FS_RemoveElement
<1>10. c \in By(e) => Cardinality(By(e)) # 0
  BY <1>7, FS_EmptySet
<1>11. /\ entry'[e].there = entry[e].there
       /\ entry'[e].refs = IF e \in Come(c) THEN Left(c, e).refs + 1 ELSE Left(c, e).refs
  BY DrawEntry
<1>12. Left(c, e).refs = IF e \in Gone(c) /\ entry[e].there THEN Minus(entry[e].refs)
                         ELSE entry[e].refs
  BY DereferencedFacts DEF DivisionsInv
<1>13. c \in By(e) => entry[e].there
  BY <1>1
<1>14. c \in By(e) => Minus(entry[e].refs) = Cardinality(By(e)) - 1
  BY <1>1, <1>7, <1>10 DEF Minus
<1>15. CASE e \in Come(c)
  BY <1>15, <1>1, <1>2, <1>4, <1>5, <1>6, <1>7, <1>8, <1>11, <1>12, <1>14
<1>16. CASE e \notin Come(c) /\ e \in Gone(c)
  BY <1>16, <1>1, <1>2, <1>4, <1>6, <1>9, <1>11, <1>12, <1>13, <1>14
<1>17. CASE e \notin Come(c) /\ e \notin Gone(c)
  BY <1>17, <1>1, <1>4, <1>11, <1>12
<1>. QED
  BY <1>15, <1>16, <1>17

LEMMA DrawKeeps ==
    ASSUME DivisionsInv, NEW c \in Components, Draw(c)
    PROVE  DivisionsInv'
<1>1. DivisionsTyped'
  <2>1. DOMAIN entry' = Divisions /\ entry' = [e \in Divisions |-> entry'[e]]
    BY DrawFacts
  <2>2. entry' \in [Divisions -> EntryFields]
    BY <2>1, DrawEntry
  <2>3. Depends(c) \in SUBSET (Divisions \X BOOLEAN)
    BY DependsFacts DEF DivisionsInv, OnceEach
  <2>4. drawn' \in [Components -> SUBSET (Divisions \X BOOLEAN)]
    BY <2>3, DrawFacts DEF DivisionsInv, DivisionsTyped
  <2>5. mounted[c] \subseteq Divisions
    BY DEF DivisionsInv, DivisionsTyped
  <2>6. mounted' \in [Components -> SUBSET Divisions]
    BY <2>5, DrawFacts DEF DivisionsInv, DivisionsTyped
  <2>. QED
    BY <2>2, <2>4, <2>6, DrawFacts DEF DivisionsInv, DivisionsTyped
<1>2. MountedIsDrawn'
  <2>1. ASSUME NEW x \in Components PROVE mounted'[x] \subseteq Firsts(drawn'[x])
    BY DrawFacts DEF DivisionsInv, DivisionsTyped, MountedIsDrawn
  <2>. QED
    BY <2>1 DEF MountedIsDrawn
<1>3. OwnGeometry' /\ LoadingIsThere'
  BY DrawEntry DEF DivisionsInv, OwnGeometry, LoadingIsThere
<1>5. RequestsMeant'
  BY DrawFacts DEF DivisionsInv, RequestsMeant, Meant
<1>4. EntriesAnswered'
  BY DrawEntry, DrawFacts DEF DivisionsInv, EntriesAnswered
<1>. QED
  BY <1>1, <1>2, <1>3, <1>4, <1>5, DrawCounts DEF DivisionsInv

LEMMA RequestedFacts ==
    ASSUME NEW d \in Divisions, NEW e \in DivisionsOf(d), NEW id \in Requested(d, e)
    PROVE  Meant(e, id)
<1>1. CASE HasIdOf(d, e) \/ DivisionLevel[e] = District
  BY <1>1 DEF Requested, Meant
<1>2. CASE ~HasIdOf(d, e) /\ DivisionLevel[e] # District
  <2>1. e \in Above[d] /\ d # e
    BY <1>2 DEF HasIdOf, DivisionsOf
  <2>2. /\ DivisionLevel[e] \in 1 .. 5 /\ DivisionLevel[d] \in 1 .. 5
        /\ DivisionLevel[e] < DivisionLevel[d] /\ e \in Divisions
    BY <2>1, DivisionsAssumption DEF Levels
  <2>3. DivisionLevel[e] \notin FksRepeated(DivisionLevel[d], mapConfig)
    BY <1>2 DEF HasIdOf
  <2>4. /\ DivisionLevel[e] # DivisionLevel[d] - 1
        /\ DivisionLevel[e] = Province => "isProvinceFkRepeated" \notin mapConfig
    BY <2>2, <2>3 DEF FksRepeated, Province
  <2>5. DivisionLevel[e] \in {Province, Region}
    BY <1>2, <2>2, <2>4 DEF Province, Region, District
  <2>6. \/ id = e /\ DivisionLevel[e] = Region
        \/ id = WrongId /\ DivisionLevel[e] # Region
    BY <1>2 DEF Requested
  <2>. QED
    BY <2>4, <2>5, <2>6 DEF Meant
<1>. QED
  BY <1>1, <1>2

\* A step that touches the entry of one division, and neither counts nor mounts.
LEMMA OneEntry ==
    ASSUME DivisionsInv, NEW e \in Divisions, NEW new \in EntryFields,
           entry' = [entry EXCEPT ![e] = new],
           UNCHANGED <<mapConfig, shown, drawn, mounted>>,
           listsLoaded' \in BOOLEAN,
           loads' \in [Divisions \X (Divisions \cup {WrongId}) -> Nat],
           new.refs = entry[e].refs, entry[e].there => new.there,
           new.geojson \in {Nothing, e}, new.rendered => new.geojson = e,
           new.loading => new.there,
           new.loading => \E id \in Divisions \cup {WrongId} : loads'[<<e, id>>] > 0,
           \A x \in Divisions \ {e}, id \in Divisions \cup {WrongId} :
                loads'[<<x, id>>] = loads[<<x, id>>],
           \A id \in Divisions \cup {WrongId} : loads'[<<e, id>>] > 0 =>
                Meant(e, id)
    PROVE  DivisionsInv'
<1>1. /\ entry'[e] = new
      /\ \A x \in Divisions \ {e} : entry'[x] = entry[x]
      /\ entry' \in [Divisions -> EntryFields]
  BY DEF DivisionsInv, DivisionsTyped
<1>2. DivisionsTyped'
  BY <1>1 DEF DivisionsInv, DivisionsTyped
<1>3. MountedIsDrawn'
  BY DEF DivisionsInv, MountedIsDrawn
<1>4. OwnGeometry'
  BY <1>1 DEF DivisionsInv, OwnGeometry
<1>5. ReferencesCounted'
  <2>1. \A x \in Divisions : /\ entry'[x].refs = entry[x].refs
                             /\ entry[x].there => entry'[x].there
    BY <1>1
  <2>. QED
    BY <2>1, CountingKept DEF DivisionsInv
<1>6. EntriesAnswered'
  <2>1. ASSUME NEW x \in Divisions, x # e, entry'[x].loading
        PROVE  \E id \in Divisions \cup {WrongId} : loads'[<<x, id>>] > 0
    <3>1. entry[x].loading
      BY <1>1, <2>1
    <3>2. PICK id \in Divisions \cup {WrongId} : loads[<<x, id>>] > 0
      BY <3>1 DEF DivisionsInv, EntriesAnswered
    <3>3. loads'[<<x, id>>] = loads[<<x, id>>]
      BY <2>1
    <3>. QED
      BY <3>2, <3>3
  <2>. QED
    BY <1>1, <2>1 DEF EntriesAnswered
<1>7. RequestsMeant'
  <2> SUFFICES ASSUME NEW x \in Divisions, NEW id \in Divisions \cup {WrongId},
                      loads'[<<x, id>>] > 0
               PROVE  Meant(x, id)'
    BY DEF RequestsMeant
  <2>1. Meant(x, id)' <=> Meant(x, id)
    BY DEF Meant
  <2>2. x # e => loads[<<x, id>>] > 0
    OBVIOUS
  <2>. QED
    BY <2>1, <2>2 DEF DivisionsInv, RequestsMeant
<1>8. LoadingIsThere'
  BY <1>1 DEF DivisionsInv, LoadingIsThere
<1>. QED
  BY <1>2, <1>3, <1>4, <1>5, <1>6, <1>7, <1>8 DEF DivisionsInv

\* What holds of one entry, with its fields written out.
LEMMA EntryFacts ==
    ASSUME DivisionsInv, NEW e \in Divisions
    PROVE  /\ entry[e] \in EntryFields /\ entry[e].refs \in Nat
           /\ entry[e].geojson \in {Nothing, e}
           /\ entry[e].rendered => entry[e].geojson = e
           /\ e # Nothing
           /\ \A id \in Divisions \cup {WrongId} : loads[<<e, id>>] \in Nat
           /\ entry[e].loading => entry[e].there
           /\ entry[e].loading =>
                    \E id \in Divisions \cup {WrongId} : loads[<<e, id>>] > 0
           /\ \A id \in Divisions \cup {WrongId} : loads[<<e, id>>] > 0 =>
                Meant(e, id)
<1>1. entry[e] \in EntryFields
  BY DEF DivisionsInv, DivisionsTyped
<1>2. e # Nothing
  BY DivisionsAssumption DEF Nothing
<1>3. \A id \in Divisions \cup {WrongId} : loads[<<e, id>>] \in Nat
  BY DEF DivisionsInv, DivisionsTyped
<1>4. entry[e].refs \in Nat
  BY <1>1 DEF EntryFields
<1>5. entry[e].geojson \in {Nothing, e} /\ (entry[e].rendered => entry[e].geojson = e)
  BY DEF DivisionsInv, OwnGeometry
<1>7. entry[e].loading => entry[e].there
  BY DEF DivisionsInv, LoadingIsThere
<1>6. /\ entry[e].loading => \E id \in Divisions \cup {WrongId} : loads[<<e, id>>] > 0
      /\ \A id \in Divisions \cup {WrongId} : loads[<<e, id>>] > 0 => Meant(e, id)
  BY DEF DivisionsInv, RequestsMeant, EntriesAnswered
<1>. QED
  BY <1>1, <1>2, <1>3, <1>4, <1>5, <1>6, <1>7

LEMMA ToggledEntity ==
    ASSUME DivisionsInv, NEW c \in Components, NEW e \in Divisions, MayToggle(c, e)
    PROVE  EntityOf(c) \in Divisions /\ e \in DivisionsOf(EntityOf(c))
<1>1. CASE c \in Viewers
  <2>1. CASE shown[c] # Nothing /\ e \in DivisionsOf(shown[c])
    BY <1>1, <2>1 DEF EntityOf, DivisionsInv, DivisionsTyped
  <2>2. CASE ~(shown[c] # Nothing /\ e \in DivisionsOf(shown[c]))
    <3>1. c \in Divisions
      BY <2>2 DEF MayToggle
    <3>. QED
      BY <1>1, <2>2, <3>1, DivisionsAssumption DEF Viewers
  <2>. QED
    BY <2>1, <2>2
<1>2. CASE c \notin Viewers
  BY <1>2 DEF MayToggle, EntityOf
<1>. QED
  BY <1>1, <1>2

LEMMA LoadKeeps ==
    ASSUME DivisionsInv, NEW c \in Components, NEW e \in Divisions, MayToggle(c, e),
           Load(c, e), UNCHANGED <<mapConfig, listsLoaded, shown, drawn, mounted>>
    PROVE  DivisionsInv'
<1>. DEFINE ids == Requested(EntityOf(c), e)
            new == [entry[e] EXCEPT !.there = TRUE, !.loading = ids # {}]
<1>1. /\ entry[e].geojson = Nothing
      /\ entry' = [entry EXCEPT ![e] = new]
      /\ loads' = [r \in DOMAIN loads |-> IF r \in {e} \X ids THEN loads[r] + 1 ELSE loads[r]]
  BY DEF Load
<1>2. ASSUME NEW id \in ids
      PROVE  /\ id \in Divisions \cup {WrongId}
             /\ Meant(e, id)
  BY ToggledEntity, RequestedFacts DEF Meant
<1>. HIDE DEF ids
<1>3. /\ new \in EntryFields /\ new.there /\ new.loading = (ids # {})
      /\ new.refs = entry[e].refs /\ new.geojson = entry[e].geojson
      /\ new.rendered = entry[e].rendered
  BY EntryFacts DEF EntryFields
<1>4. /\ DOMAIN loads = Divisions \X (Divisions \cup {WrongId})
      /\ \A r \in DOMAIN loads : loads[r] \in Nat
  BY DEF DivisionsInv, DivisionsTyped
<1>5. loads' \in [Divisions \X (Divisions \cup {WrongId}) -> Nat]
  BY <1>1, <1>4
<1>6. \A x \in Divisions, id \in Divisions \cup {WrongId} :
        loads'[<<x, id>>] = IF x = e /\ id \in ids THEN loads[<<x, id>>] + 1
                            ELSE loads[<<x, id>>]
  BY <1>1, <1>4
<1>7. new.loading => \E id \in Divisions \cup {WrongId} : loads'[<<e, id>>] > 0
  <2> SUFFICES ASSUME ids # {} PROVE \E id \in Divisions \cup {WrongId} : loads'[<<e, id>>] > 0
    BY <1>3
  <2>1. PICK id \in ids : TRUE
    OBVIOUS
  <2>2. id \in Divisions \cup {WrongId} /\ loads[<<e, id>>] \in Nat
    BY <1>2, EntryFacts
  <2>3. loads'[<<e, id>>] > 0
    BY <1>6, <2>2
  <2>. QED
    BY <2>2, <2>3
<1>8. ASSUME NEW id \in Divisions \cup {WrongId}, loads'[<<e, id>>] > 0
      PROVE  Meant(e, id)
  <2>1. CASE id \in ids
    BY <1>2, <2>1
  <2>2. CASE id \notin ids
    <3>1. loads[<<e, id>>] > 0
      BY <1>6, <1>8, <2>2
    <3>. QED
      BY <3>1, EntryFacts
  <2>. QED
    BY <2>1, <2>2
<1>9. \A x \in Divisions \ {e}, id \in Divisions \cup {WrongId} :
        loads'[<<x, id>>] = loads[<<x, id>>]
  BY <1>6
<1>10. listsLoaded' \in BOOLEAN
  BY DEF DivisionsInv, DivisionsTyped
<1>11. /\ entry[e].rendered => entry[e].geojson = e
       /\ entry[e].geojson \in {Nothing, e}
  BY EntryFacts
<1>. HIDE DEF new
<1>. QED
  BY <1>1, <1>3, <1>5, <1>7, <1>8, <1>9, <1>10, <1>11, OneEntry

\* A step that touches one entry and no request.
LEMMA OneEntryOnly ==
    ASSUME DivisionsInv, NEW e \in Divisions, NEW new \in EntryFields,
           entry' = [entry EXCEPT ![e] = new],
           UNCHANGED <<mapConfig, listsLoaded, loads, shown, drawn, mounted>>,
           new.refs = entry[e].refs, entry[e].there => new.there,
           new.geojson = entry[e].geojson, new.rendered => new.geojson = e,
           new.loading => entry[e].loading /\ new.there
    PROVE  DivisionsInv'
<1>1. /\ listsLoaded' \in BOOLEAN
      /\ loads' \in [Divisions \X (Divisions \cup {WrongId}) -> Nat]
  BY DEF DivisionsInv, DivisionsTyped
<1>2. /\ new.geojson \in {Nothing, e}
      /\ new.loading => \E id \in Divisions \cup {WrongId} : loads'[<<e, id>>] > 0
      /\ \A id \in Divisions \cup {WrongId} : loads'[<<e, id>>] > 0 =>
                Meant(e, id)
  BY EntryFacts
<1>. QED
  BY <1>1, <1>2, OneEntry

LEMMA ToggleOnKeeps ==
    ASSUME DivisionsInv, NEW c \in Components, NEW e \in Divisions, ToggleOn(c, e)
    PROVE  DivisionsInv'
<1>1. CASE Render(e)
  <2>. DEFINE new == [entry[e] EXCEPT !.rendered = TRUE]
  <2>1. /\ entry' = [entry EXCEPT ![e] = new]
        /\ UNCHANGED <<mapConfig, listsLoaded, loads, shown, drawn, mounted>>
        /\ entry[e].geojson # Nothing
    BY <1>1 DEF ToggleOn, Render
  <2>2. /\ new \in EntryFields /\ new.refs = entry[e].refs
        /\ new.there = entry[e].there /\ new.geojson = entry[e].geojson
        /\ new.loading = entry[e].loading
    BY EntryFacts DEF EntryFields
  <2>3. new.geojson = e
    BY <2>1, <2>2, EntryFacts
  <2>4. entry[e].loading => entry[e].there
    BY EntryFacts
  <2>. HIDE DEF new
  <2>. QED
    BY <2>1, <2>2, <2>3, <2>4, OneEntryOnly
<1>2. CASE Load(c, e)
  BY <1>2, LoadKeeps DEF ToggleOn
<1>. QED
  BY <1>1, <1>2 DEF ToggleOn

LEMMA ToggleOffKeeps ==
    ASSUME DivisionsInv, NEW c \in Components, NEW e \in Divisions, ToggleOff(c, e)
    PROVE  DivisionsInv'
<1>. DEFINE new == [entry[e] EXCEPT !.rendered = FALSE]
<1>1. /\ entry' = [entry EXCEPT ![e] = new]
      /\ UNCHANGED <<mapConfig, listsLoaded, loads, shown, drawn, mounted>>
  BY DEF ToggleOff
<1>2. /\ new \in EntryFields /\ new.refs = entry[e].refs
      /\ new.there = entry[e].there /\ new.geojson = entry[e].geojson
      /\ new.loading = entry[e].loading /\ ~new.rendered
  BY EntryFacts DEF EntryFields
<1>3. entry[e].loading => entry[e].there
  BY EntryFacts
<1>. HIDE DEF new
<1>. QED
  BY <1>1, <1>2, <1>3, OneEntryOnly

\* An answer ends its request, and what it leaves of the entry is not loading.
LEMMA AnswerKeeps ==
    ASSUME DivisionsInv, NEW e \in Divisions, NEW id \in Divisions \cup {WrongId},
           loads[<<e, id>>] > 0, Answered(e, id),
           UNCHANGED <<mapConfig, listsLoaded, shown, drawn, mounted>>,
           NEW new \in EntryFields, entry' = [entry EXCEPT ![e] = new],
           new.refs = entry[e].refs, entry[e].there => new.there,
           new.geojson \in {Nothing, e}, new.rendered => new.geojson = e,
           ~new.loading
    PROVE  DivisionsInv'
<1>1. /\ loads' = [loads EXCEPT ![<<e, id>>] = @ - 1]
      /\ loads \in [Divisions \X (Divisions \cup {WrongId}) -> Nat]
      /\ listsLoaded' \in BOOLEAN
  BY DEF Answered, DivisionsInv, DivisionsTyped
<1>2. loads' \in [Divisions \X (Divisions \cup {WrongId}) -> Nat]
  BY <1>1
<1>3. \A x \in Divisions \ {e}, i \in Divisions \cup {WrongId} :
        loads'[<<x, i>>] = loads[<<x, i>>]
  BY <1>1
<1>4. ASSUME NEW i \in Divisions \cup {WrongId}, loads'[<<e, i>>] > 0
      PROVE  Meant(e, i)
  <2>1. loads[<<e, i>>] > 0
    BY <1>1, <1>4
  <2>. QED
    BY <2>1, EntryFacts
<1>. QED
  BY <1>1, <1>2, <1>3, <1>4, OneEntry

\* A division loads as long as its request is not answered; an entry that is not
\* there does not.
LEMMA LoadSucceedsKeeps ==
    ASSUME DivisionsInv, NEW e \in Divisions, NEW id \in Divisions \cup {WrongId},
           LoadSucceeds(e, id)
    PROVE  DivisionsInv'
<1>. DEFINE new == IF entry[e].there
                   THEN [entry[e] EXCEPT !.geojson = id, !.loading = FALSE, !.rendered = TRUE]
                   ELSE entry[e]
<1>1. /\ loads[<<e, id>>] > 0 /\ id # WrongId /\ Answered(e, id)
      /\ entry' = [entry EXCEPT ![e] = new]
      /\ UNCHANGED <<mapConfig, listsLoaded, shown, drawn, mounted>>
  BY DEF LoadSucceeds
<1>2. id = e
  BY <1>1, EntryFacts DEF Meant
<1>3. /\ new \in EntryFields /\ new.refs = entry[e].refs /\ new.there = entry[e].there
      /\ new.geojson \in {Nothing, e} /\ (new.rendered => new.geojson = e)
      /\ ~new.loading
  <2>1. CASE entry[e].there
    BY <1>2, <2>1, EntryFacts DEF EntryFields
  <2>2. CASE ~entry[e].there
    BY <2>2, EntryFacts
  <2>. QED
    BY <2>1, <2>2
<1>. HIDE DEF new
<1>. QED
  BY <1>1, <1>3, AnswerKeeps

LEMMA LoadFailsKeeps ==
    ASSUME DivisionsInv, NEW e \in Divisions, NEW id \in Divisions \cup {WrongId},
           LoadFails(e, id)
    PROVE  DivisionsInv'
<1>. DEFINE new == IF entry[e].there THEN [entry[e] EXCEPT !.loading = FALSE] ELSE entry[e]
<1>1. /\ loads[<<e, id>>] > 0 /\ Answered(e, id)
      /\ entry' = [entry EXCEPT ![e] = new]
      /\ UNCHANGED <<mapConfig, listsLoaded, shown, drawn, mounted>>
  BY DEF LoadFails, Failure
<1>2. /\ new \in EntryFields /\ new.refs = entry[e].refs /\ new.there = entry[e].there
      /\ new.geojson \in {Nothing, e} /\ (new.rendered => new.geojson = e)
      /\ ~new.loading
  <2>1. CASE entry[e].there
    BY <2>1, EntryFacts DEF EntryFields
  <2>2. CASE ~entry[e].there
    BY <2>2, EntryFacts
  <2>. QED
    BY <2>1, <2>2
<1>. HIDE DEF new
<1>. QED
  BY <1>1, <1>2, AnswerKeeps

\* The timer removes what nobody counted itself in for.
LEMMA CleanUpKeeps ==
    ASSUME DivisionsInv, CleanUp
    PROVE  DivisionsInv'
<1>1. /\ entry' = [e \in Divisions |-> IF Unreferenced(e) THEN NoEntry ELSE entry[e]]
      /\ UNCHANGED <<mapConfig, listsLoaded, loads, shown, drawn, mounted>>
  BY DEF CleanUp
<1>2. NoEntry \in EntryFields /\ ~NoEntry.loading /\ ~NoEntry.rendered
      /\ NoEntry.geojson = Nothing /\ NoEntry.refs = 0
  BY DEF NoEntry, EntryFields
<1>3. \A e \in Divisions : entry'[e] = IF Unreferenced(e) THEN NoEntry ELSE entry[e]
  BY <1>1
<1>4. DivisionsTyped'
  <2>1. entry' \in [Divisions -> EntryFields]
    BY <1>1, <1>2, EntryFacts
  <2>. QED
    BY <1>1, <2>1 DEF DivisionsInv, DivisionsTyped
<1>5. MountedIsDrawn'
  BY <1>1 DEF DivisionsInv, MountedIsDrawn
<1>6. OwnGeometry' /\ LoadingIsThere'
  BY <1>2, <1>3 DEF DivisionsInv, OwnGeometry, LoadingIsThere
<1>7. RequestsMeant'
  BY <1>1 DEF DivisionsInv, RequestsMeant, Meant
<1>8. EntriesAnswered'
  BY <1>1, <1>2, <1>3 DEF DivisionsInv, EntriesAnswered
<1>9. ReferencesCounted'
  <2>1. ASSUME NEW e \in Divisions
        PROVE  /\ entry'[e].refs = entry[e].refs
               /\ By(e) # {} /\ entry[e].there => entry'[e].there
    <3>1. entry[e].refs = Cardinality(By(e))
      BY DEF DivisionsInv, ReferencesCounted, By
    <3>2. Unreferenced(e) => By(e) = {} /\ entry[e].refs = 0
      BY <3>1, ByFacts DEF Unreferenced
    <3>. QED
      BY <1>2, <1>3, <3>2
  <2>. QED
    BY <1>1, <2>1, CountingKept DEF DivisionsInv
<1>. QED
  BY <1>4, <1>5, <1>6, <1>7, <1>8, <1>9 DEF DivisionsInv

\* What is shown and which lists are there count nothing.
LEMMA ShowKeeps ==
    ASSUME DivisionsInv, UNCHANGED <<mapConfig, entry, loads, drawn, mounted>>,
           listsLoaded' \in BOOLEAN, shown' \in [Viewers -> Divisions \cup {Nothing}]
    PROVE  DivisionsInv'
<1>1. ReferencesCounted'
  BY CountingKept DEF DivisionsInv
<1>. QED
  BY <1>1 DEF DivisionsInv, DivisionsTyped, MountedIsDrawn, OwnGeometry, LoadingIsThere,
     RequestsMeant, Meant, EntriesAnswered

LEMMA DivisionsKeep == DivisionsInv /\ [DivisionsNext]_divisions => DivisionsInv'
<1> SUFFICES ASSUME DivisionsInv, [DivisionsNext]_divisions PROVE DivisionsInv'
    OBVIOUS
<1>1. CASE UNCHANGED divisions
  BY <1>1, ShowKeeps DEF divisions, DivisionsInv, DivisionsTyped
<1>2. ASSUME NEW v \in Viewers, NEW d \in Divisions \cup {Nothing}, Show(v, d)
      PROVE  DivisionsInv'
  <2>1. shown' \in [Viewers -> Divisions \cup {Nothing}]
    BY <1>2 DEF Show, DivisionsInv, DivisionsTyped
  <2>2. listsLoaded' \in BOOLEAN /\ UNCHANGED <<mapConfig, entry, loads, drawn, mounted>>
    BY <1>2 DEF Show, DivisionsInv, DivisionsTyped
  <2>. QED
    BY <2>1, <2>2, ShowKeeps
<1>3. CASE LoadLists
  BY <1>3, ShowKeeps DEF LoadLists, DivisionsInv, DivisionsTyped
<1>4. ASSUME NEW c \in Components, Draw(c)
      PROVE  DivisionsInv'
  BY <1>4, DrawKeeps
<1>5. ASSUME NEW c \in Components, NEW e \in Divisions, ToggleOn(c, e) \/ ToggleOff(c, e)
      PROVE  DivisionsInv'
  BY <1>5, ToggleOnKeeps, ToggleOffKeeps
<1>6. ASSUME NEW e \in Divisions, NEW id \in Divisions \cup {WrongId},
             LoadSucceeds(e, id) \/ LoadFails(e, id)
      PROVE  DivisionsInv'
  BY <1>6, LoadSucceedsKeeps, LoadFailsKeeps
<1>7. CASE CleanUp
  BY <1>7, CleanUpKeeps
<1>. QED
  BY <1>1, <1>2, <1>3, <1>4, <1>5, <1>6, <1>7 DEF DivisionsNext

\* What an entry counts is bounded by the components there are.
LEMMA DivisionsPromise == DivisionsInv => DivisionsTypeOK /\ DrawnIsItsOwn
<1> SUFFICES ASSUME DivisionsInv PROVE DivisionsTypeOK /\ DrawnIsItsOwn
    OBVIOUS
<1>1. DrawnIsItsOwn
  BY DEF DivisionsInv, OwnGeometry, RequestsMeant, Meant, DrawnIsItsOwn
<1>2. ASSUME NEW e \in Divisions PROVE entry[e].refs \in 0 .. Cardinality(Components)
  <2>. DEFINE by == {c \in Components : e \in mounted[c]}
  <2>1. entry[e].refs = Cardinality(by)
    BY DEF DivisionsInv, ReferencesCounted
  <2>2. by \subseteq Components
    OBVIOUS
  <2>. HIDE DEF by
  <2>3. /\ Cardinality(by) <= Cardinality(Components) /\ Cardinality(by) \in Nat
        /\ Cardinality(Components) \in Nat
    BY <2>2, ComponentsFinite, FS_Subset, FS_CardinalityType
  <2>. QED
    BY <2>1, <2>3
<1>3. entry \in [Divisions ->
        [there : BOOLEAN, loading : BOOLEAN, geojson : Divisions \cup {Nothing},
         rendered : BOOLEAN, refs : 0 .. Cardinality(Components)]]
  <2>1. ASSUME NEW e \in Divisions
        PROVE  entry[e] \in
                [there : BOOLEAN, loading : BOOLEAN, geojson : Divisions \cup {Nothing},
                 rendered : BOOLEAN, refs : 0 .. Cardinality(Components)]
    <3>1. entry[e] \in EntryFields
      BY DEF DivisionsInv, DivisionsTyped
    <3>. QED
      BY <1>2, <3>1 DEF EntryFields
  <2>. QED
    BY <2>1 DEF DivisionsInv, DivisionsTyped
<1>4. DivisionsTypeOK
  BY <1>3 DEF DivisionsInv, DivisionsTyped, DivisionsTypeOK
<1>. QED
  BY <1>1, <1>4
-----------------------------------------------------------------------------
(* The layers of whole levels                                              *)

JobState ==
    [phase : {"none", "fetch", "read", "success", "freed", "failed"},
     pos : Nat, glued : BOOLEAN, timer : BOOLEAN]

\* The types, by what the steps change together.
CacheTyped ==
    /\ metadata \in [LayerLevels -> Versions]
    /\ stored \in [LayerLevels -> [version : Versions, lines : Nat]]
    /\ \A l \in LayerLevels : stored[l].lines <= Lines[l]

BoxesTyped ==
    /\ box \in [LayerLevels -> {"off", "loading", "on"}]
    /\ layer \in [LayerLevels -> BOOLEAN]

ReadingTyped == reading \in [LayerLevels \X {"metadata", "geojson"} -> 0 .. MaxReads]

ModalTyped ==
    /\ modal \subseteq LayerLevels /\ modalIsOpen \in BOOLEAN
    /\ clicks \in 0 .. MaxClicks

DownloadsTyped ==
    /\ downloads \in Seq(Item)
    /\ job \in [Jobs -> JobState]

PassesTyped == passes \subseteq Pass /\ lost \subseteq LayerLevels

LayersTyped ==
    /\ CacheTyped /\ BoxesTyped /\ ReadingTyped /\ ModalTyped /\ DownloadsTyped
    /\ PassesTyped /\ synced \in BOOLEAN /\ dirty \in BOOLEAN

LEMMA LayersTypes == LayersTypeOK <=> LayersTyped
BY DEF LayersTypeOK, LayersTyped, CacheTyped, BoxesTyped, ReadingTyped, ModalTyped,
       DownloadsTyped, PassesTyped, JobState

\* A download's record tells its phase, until its pass has freed its features.
PhaseOf(status) ==
    CASE status = "idle" -> {"fetch"}
      [] status = "downloading" -> {"read"}
      [] status = "success" -> {"success", "freed"}
      [] OTHER -> {"failed"}

ItemsTold == \A x \in Range(downloads) : job[x.job].phase \in PhaseOf(x.status)

\* Only a download that is read, or has failed, waits for the throttle.
TimersRun == \A j \in Jobs : job[j].timer => job[j].phase \in {"read", "failed"}

\* A level is not downloaded, nor asked about, before its copy is known.
Known(l) == metadata[l] # 0 \/ stored[l].version = 0
Begun(l) == \E j \in Jobs : j[1] = l /\ job[j].phase # "none"

LevelsKnown ==
    \A l \in LayerLevels : synced \/ l \in modal \/ Begun(l) => Known(l)

\* A pass is at a download whose features were there when it came.
Over(list) ==
    \A x \in Range(list) : x.status = "success" => job[x.job].phase \in {"success", "freed"}

PassesStand ==
    \A p \in passes :
        /\ Over(p.todo) /\ p.todo[1].status = "success"
        /\ p.had \/ p.at = "draw" => metadata[LevelOf(p)] # 0

\* A level loads because its copy is looked for, or because it has none.
LoadingUncached ==
    \A l \in LayerLevels :
        box[l] = "loading" =>
            \/ reading[<<l, "metadata">>] > 0
            \/ metadata[l] = 0 /\ stored[l].version = 0

\* The inductive invariant.
LayersInv ==
    /\ LayersTyped /\ CachedIsStored /\ TimersRun /\ ItemsTold
    /\ LevelsKnown /\ PassesStand /\ LoadingUncached /\ LoadingIsAnswered

\* Awaited, in parts.
Active(l) == \E j \in Jobs : j[1] = l /\ job[j].phase \in {"fetch", "read"}
Due(l) == \E x \in Range(downloads) : x.job[1] = l /\ News(x)
Ahead(p, l) ==
    \E n \in DOMAIN p.todo :
        /\ p.todo[n].job[1] = l /\ News(p.todo[n])
        /\ n = 1 => p.at = "store" /\ ~p.had

Answering(l) ==
    \/ reading[<<l, "metadata">>] > 0
    \/ Active(l) \/ (\E p \in passes : Ahead(p, l)) \/ (dirty /\ Due(l))

LEMMA AnsweringIs == \A l : Answering(l) <=> Awaited(l)
BY DEF Answering, Active, Due, Ahead, Awaited, PlaceOf, Range

LEMMA AnsweringIsNext == \A l : Answering(l)' <=> Awaited(l)'
BY DEF Answering, Active, Due, Ahead, Awaited, PlaceOf, Range

\* What "loading" comes to in a state, and what it has to come to in the next.
LEMMA LoadingNow ==
    ASSUME LayersInv, NEW l \in LayerLevels, box[l] = "loading",
           ~(reading[<<l, "metadata">>] > 0), l \notin lost
    PROVE  /\ metadata[l] = 0 /\ stored[l].version = 0
           /\ Active(l) \/ (\E p \in passes : Ahead(p, l)) \/ (dirty /\ Due(l))
BY AnsweringIs DEF LayersInv, LoadingIsAnswered, LoadingUncached, Answering

LEMMA LoadingNext ==
    ASSUME \A l \in LayerLevels :
                box'[l] = "loading" => Answering(l)' \/ l \in lost'
    PROVE  LoadingIsAnswered'
BY AnsweringIsNext DEF LoadingIsAnswered

LEMMA ListFacts ==
    ASSUME NEW list \in Seq(Item)
    PROVE  /\ Len(list) \in Nat /\ DOMAIN list = 1 .. Len(list)
           /\ Range(list) \subseteq Item
           /\ \A n \in DOMAIN list : list[n] \in Item /\ list[n] \in Range(list)
<1>1. Len(list) \in Nat /\ DOMAIN list = 1 .. Len(list)
  BY LenProperties
<1>2. \A n \in DOMAIN list : list[n] \in Item
  BY <1>1, ElementOfSeq
<1>. QED
  BY <1>1, <1>2 DEF Range

LEMMA ItemFacts ==
    ASSUME NEW x \in Item
    PROVE  /\ x.job \in Jobs /\ x.job[1] \in LayerLevels
           /\ x.status \in {"idle", "downloading", "success", "failed"}
BY LayersAssumption DEF Item

\* News is kept as long as ended downloads are.
LEMMA NewsKept ==
    ASSUME NEW x \in Item, News(x),
           job[x.job].phase \in {"success", "failed"} => job'[x.job].phase = job[x.job].phase
    PROVE  News(x)'
BY DEF News, Failed, Resolvable

LEMMA AheadKept ==
    ASSUME NEW p \in Pass, NEW l \in LayerLevels, Ahead(p, l),
           \A x \in Item : x.job[1] = l /\ News(x) => News(x)'
    PROVE  Ahead(p, l)'
<1>1. PICK n \in DOMAIN p.todo :
        /\ p.todo[n].job[1] = l /\ News(p.todo[n])
        /\ n = 1 => p.at = "store" /\ ~p.had
  BY DEF Ahead
<1>2. p.todo[n] \in Item
  BY ListFacts DEF Pass
<1>. QED
  BY <1>1, <1>2 DEF Ahead


\* Where a pass over a list stops.
LEMMA StopFacts ==
    ASSUME NEW list \in Seq(Item)
    PROVE  /\ Stop(list) \in 1 .. Len(list) + 1
           /\ Stop(list) <= Len(list) => Resolvable(list[Stop(list)])
           /\ \A n \in 1 .. Stop(list) - 1 : ~Resolvable(list[n])
<1>1. Len(list) \in Nat /\ DOMAIN list = 1 .. Len(list)
  BY ListFacts
<1>2. CASE \E i \in DOMAIN list : Resolvable(list[i])
  <2>. DEFINE T == {i \in DOMAIN list : Resolvable(list[i])}
  <2>1. T # {} /\ T \subseteq Nat
    BY <1>1, <1>2
  <2>2. \A i \in T : i \in DOMAIN list /\ Resolvable(list[i])
    OBVIOUS
  <2>3. \A i \in DOMAIN list : Resolvable(list[i]) => i \in T
    OBVIOUS
  <2>. HIDE DEF T
  <2>4. PICK i \in T : \A n \in T : ~(<<n, i>> \in OpToRel(<, Nat))
    BY <2>1, NatLessThanWellFounded, WFMin
  <2>5. \A n \in T : ~(n < i)
    BY <2>1, <2>4 DEF OpToRel
  <2>6. \E k \in DOMAIN list : Resolvable(list[k]) /\ \A n \in 1 .. k - 1 : ~Resolvable(list[n])
    <3>1. \A n \in 1 .. i - 1 : ~Resolvable(list[n])
      BY <1>1, <2>2, <2>3, <2>5
    <3>. QED
      BY <2>2, <3>1
  <2>7. /\ Stop(list) \in DOMAIN list /\ Resolvable(list[Stop(list)])
        /\ \A n \in 1 .. Stop(list) - 1 : ~Resolvable(list[n])
    BY <1>2, <2>6 DEF Stop
  <2>. QED
    BY <1>1, <2>7
<1>3. CASE ~\E i \in DOMAIN list : Resolvable(list[i])
  <2>1. Stop(list) = Len(list) + 1
    BY <1>3 DEF Stop
  <2>. QED
    BY <1>1, <1>3, <2>1
<1>. QED
  BY <1>2, <1>3

\* The pass over a list: it has a rest of the list, and is at its head.
LEMMA PassAtFacts ==
    ASSUME NEW list \in Seq(Item), CacheTyped, NEW p \in PassAt(list)
    PROVE  /\ p \in Pass /\ p.at = "store"
           /\ p.had <=> metadata[LevelOf(p)] # 0
           /\ p.todo[1].status = "success"
           /\ Range(p.todo) \subseteq Range(list)
           /\ Stop(list) \in DOMAIN list
           /\ Len(p.todo) = Len(list) - Stop(list) + 1
           /\ \A n \in DOMAIN p.todo : p.todo[n] = list[Stop(list) + n - 1]
<1>. DEFINE s == Stop(list)
            rest == SubSeq(list, s, Len(list))
<1>1. /\ s \in 1 .. Len(list) + 1
      /\ s <= Len(list) => Resolvable(list[s])
      /\ Len(list) \in Nat /\ DOMAIN list = 1 .. Len(list)
  BY StopFacts, ListFacts
<1>2. /\ s <= Len(list)
      /\ p = [todo |-> rest, had |-> metadata[list[s].job[1]] # 0, at |-> "store"]
  BY <1>1 DEF PassAt
<1>. HIDE DEF s
<1>3. \A i \in s .. Len(list) : list[i] \in Item
  BY <1>1, ListFacts
<1>4. /\ rest \in Seq(Item) /\ Len(rest) = Len(list) - s + 1
      /\ \A i \in 1 .. Len(list) - s + 1 : rest[i] = list[s + i - 1]
  BY <1>1, <1>2, <1>3, SubSeqProperties
<1>. HIDE DEF rest
<1>5. rest # <<>> /\ rest[1] = list[s] /\ Head(rest) = rest[1] /\ DOMAIN rest = 1 .. Len(rest)
  BY <1>1, <1>2, <1>4, EmptySeq, ListFacts
<1>6. p \in Pass /\ p.todo = rest /\ p.at = "store" /\ p.had = (metadata[list[s].job[1]] # 0)
  BY <1>2, <1>4, <1>5 DEF Pass
<1>7. p.had <=> metadata[LevelOf(p)] # 0
  BY <1>5, <1>6 DEF LevelOf
<1>8. p.todo[1].status = "success"
  BY <1>1, <1>2, <1>5, <1>6 DEF Resolvable
<1>9. ASSUME NEW n \in DOMAIN rest
      PROVE  rest[n] = list[s + n - 1] /\ s + n - 1 \in DOMAIN list
  BY <1>1, <1>2, <1>4, <1>5
<1>10. Range(rest) \subseteq Range(list)
  BY <1>9 DEF Range
<1>. QED
  BY <1>1, <1>2, <1>4, <1>6, <1>7, <1>8, <1>9, <1>10 DEF s

\* A pass over a list unchecks the box of a download that has failed, or has
\* the download ahead.
LEMMA SeenOrAhead ==
    ASSUME NEW list \in Seq(Item), CacheTyped, NEW boxes \in [LayerLevels -> {"off", "loading", "on"}],
           NEW l \in LayerLevels, NEW n \in DOMAIN list,
           list[n].job[1] = l, News(list[n]), metadata[l] = 0
    PROVE  \/ Unchecked(list, boxes)[l] # "loading"
           \/ \E p \in PassAt(list) : Ahead(p, l)
<1>1. /\ Stop(list) \in 1 .. Len(list) + 1
      /\ \A k \in 1 .. Stop(list) - 1 : ~Resolvable(list[k])
      /\ Len(list) \in Nat /\ DOMAIN list = 1 .. Len(list)
  BY StopFacts, ListFacts
<1>2. CASE n < Stop(list)
  <2>1. n \in 1 .. Stop(list) - 1
    BY <1>1, <1>2
  <2>2. Failed(list[n])
    BY <1>1, <2>1 DEF News
  <2>. QED
    BY <2>1, <2>2 DEF Unchecked
<1>3. CASE n >= Stop(list)
  <2>. DEFINE s == Stop(list)
  <2>1. s <= Len(list)
    BY <1>1, <1>3
  <2>2. PICK p \in PassAt(list) : TRUE
    <3>1. ~(Stop(list) > Len(list))
      BY <1>1, <2>1
    <3>2. PassAt(list) # {}
      BY <3>1, Zenon DEF PassAt
    <3>. QED
      BY <3>2
  <2>3. /\ p \in Pass /\ p.at = "store" /\ Len(p.todo) = Len(list) - s + 1
        /\ p.had <=> metadata[LevelOf(p)] # 0
        /\ \A k \in DOMAIN p.todo : p.todo[k] = list[s + k - 1]
    BY PassAtFacts
  <2>4. DOMAIN p.todo = 1 .. Len(p.todo) /\ p.todo # <<>> /\ Head(p.todo) = p.todo[1]
    BY <2>3, ListFacts DEF Pass
  <2>. HIDE DEF s
  <2>. DEFINE k == n - s + 1
  <2>5. k \in DOMAIN p.todo /\ s + k - 1 = n
    BY <1>1, <1>3, <2>1, <2>3, <2>4 DEF s
  <2>6. p.todo[k] = list[n]
    BY <2>3, <2>5
  <2>7. k = 1 => ~p.had
    BY <2>3, <2>4, <2>6 DEF LevelOf
  <2>. HIDE DEF k
  <2>8. Ahead(p, l)
    BY <2>3, <2>5, <2>6, <2>7 DEF Ahead
  <2>. QED
    BY <2>8
<1>. QED
  BY <1>1, <1>2, <1>3

\* Unchecking leaves boxes boxes, and makes none load.
LEMMA UncheckedFacts ==
    ASSUME NEW list, NEW boxes \in [LayerLevels -> {"off", "loading", "on"}]
    PROVE  /\ Unchecked(list, boxes) \in [LayerLevels -> {"off", "loading", "on"}]
           /\ \A l \in LayerLevels :
                Unchecked(list, boxes)[l] = "loading" => boxes[l] = "loading"
BY DEF Unchecked


\* A download's record takes its level's place among the others.
LEMMA UpsertFacts ==
    ASSUME downloads \in Seq(Item), NEW j \in Jobs,
           NEW status \in {"idle", "downloading", "success", "failed"}, Upsert(j, status)
    PROVE  /\ downloads' \in Seq(Item) /\ dirty' = TRUE
           /\ Range(downloads') = {[job |-> j, status |-> status]}
                                    \cup {x \in Range(downloads) : x.job[1] # j[1]}
<1>. DEFINE item == [job |-> j, status |-> status]
            others == {x \in Range(downloads) : x.job[1] # j[1]}
<1>1. item \in Item /\ item.job = j
  BY DEF Item
<1>2. Len(downloads) \in Nat /\ DOMAIN downloads = 1 .. Len(downloads)
  BY ListFacts
<1>3. \A i \in DOMAIN downloads : i \in PlaceOf(j[1]) <=> downloads[i].job[1] = j[1]
  BY DEF PlaceOf
<1>4. PlaceOf(j[1]) \subseteq DOMAIN downloads
  BY DEF PlaceOf
<1>5. /\ dirty' = TRUE
      /\ downloads' =
            IF PlaceOf(j[1]) = {} THEN Append(downloads, item)
            ELSE [i \in DOMAIN downloads |->
                    IF i \in PlaceOf(j[1]) THEN item ELSE downloads[i]]
  BY DEF Upsert
<1>. HIDE DEF item
<1>6. CASE PlaceOf(j[1]) = {}
  <2>1. /\ downloads' \in Seq(Item) /\ DOMAIN downloads' = 1 .. Len(downloads) + 1
        /\ downloads'[Len(downloads) + 1] = item
        /\ \A i \in 1 .. Len(downloads) : downloads'[i] = downloads[i]
    BY <1>1, <1>2, <1>5, <1>6, AppendProperties, ListFacts
  <2>2. \A i \in DOMAIN downloads : downloads[i].job[1] # j[1]
    BY <1>3, <1>6
  <2>3. Range(downloads') = {item} \cup Range(downloads)
    BY <1>2, <2>1 DEF Range
  <2>4. others = Range(downloads)
    BY <2>2 DEF Range
  <2>. QED
    BY <1>5, <2>1, <2>3, <2>4 DEF item
<1>7. CASE PlaceOf(j[1]) # {}
  <2>1. /\ DOMAIN downloads' = DOMAIN downloads
        /\ \A i \in DOMAIN downloads :
                downloads'[i] = IF downloads[i].job[1] = j[1] THEN item ELSE downloads[i]
    BY <1>3, <1>5, <1>7
  <2>2. downloads' \in Seq(Item)
    <3>1. downloads' \in [1 .. Len(downloads) -> Item]
      BY <1>1, <1>2, <1>5, <1>7, ListFacts
    <3>. QED
      BY <1>2, <3>1, SeqDef
  <2>3. PICK k \in DOMAIN downloads : downloads[k].job[1] = j[1]
    BY <1>3, <1>4, <1>7
  <2>4. \A x \in Range(downloads') : x = item \/ x \in others
    BY <2>1 DEF Range
  <2>5. item \in Range(downloads')
    BY <2>1, <2>3 DEF Range
  <2>6. \A x \in others : x \in Range(downloads')
    BY <2>1 DEF Range
  <2>7. Range(downloads') = {item} \cup others
    BY <2>4, <2>5, <2>6
  <2>. QED
    BY <1>5, <2>2, <2>7 DEF item
<1>. QED
  BY <1>6, <1>7

\* The number of a download that begins.
LEMMA FreeJob ==
    ASSUME NEW l \in LayerLevels, \E j \in Jobs : j[1] = l /\ job[j].phase = "none"
    PROVE  NextJob(l) \in Jobs /\ NextJob(l)[1] = l /\ job[NextJob(l)].phase = "none"
<1>. DEFINE T == {n \in Nat : \E j \in Jobs : j[1] = l /\ j[2] = n /\ job[j].phase = "none"}
<1>0. \A j \in Jobs : j[2] \in Nat
  BY LayersAssumption
<1>1. T # {} /\ T \subseteq Nat
  BY <1>0
<1>2. \A j \in Jobs : j[1] = l /\ job[j].phase = "none" => j[2] \in T
  BY <1>0
<1>3. \A n \in T : \E j \in Jobs : j[1] = l /\ j[2] = n /\ job[j].phase = "none"
  OBVIOUS
<1>. HIDE DEF T
<1>4. PICK n \in T : \A m \in T : ~(<<m, n>> \in OpToRel(<, Nat))
  BY <1>1, NatLessThanWellFounded, WFMin
<1>5. \A m \in T : ~(m < n)
  BY <1>1, <1>4 DEF OpToRel
<1>6. PICK j \in Jobs : j[1] = l /\ j[2] = n /\ job[j].phase = "none"
  BY <1>3
<1>7. \A k \in Jobs : k[1] = l /\ k[2] < j[2] => job[k].phase # "none"
  BY <1>2, <1>5, <1>6
<1>. QED
  BY <1>6, <1>7 DEF NextJob

\* The downloads of some levels begin, and their records with them.
LEMMA BeginFacts ==
    ASSUME DownloadsTyped, NEW L \in SUBSET LayerLevels, Begin(L)
    PROVE  /\ DownloadsTyped' /\ dirty' = TRUE
           /\ \A j \in Jobs :
                \/ job'[j] = job[j]
                \/ j[1] \in L /\ job[j].phase = "none" /\ job'[j] = Ended("fetch", FALSE)
           /\ \A l \in L : Active(l)'
           /\ \A x \in Range(downloads') :
                \/ x \in Range(downloads) /\ x.job[1] \notin L
                \/ x.status = "idle" /\ job'[x.job].phase = "fetch"
           /\ \A x \in Range(downloads) : x.job[1] \notin L => x \in Range(downloads')
<1>. DEFINE begun(l) == [job |-> NextJob(l), status |-> "idle"]
            new == {l \in L : PlaceOf(l) = {}}
            old == [i \in DOMAIN downloads |->
                    IF downloads[i].job[1] \in L THEN begun(downloads[i].job[1])
                    ELSE downloads[i]]
<1>1. PICK order \in [1 .. Cardinality(new) -> new] :
        downloads' = old \o [n \in DOMAIN order |-> begun(order[n])]
  BY DEF Begin
<1>2. /\ \A l \in L : \E j \in Jobs : j[1] = l /\ job[j].phase = "none"
      /\ job' = [j \in Jobs |-> IF j[1] \in L /\ j = NextJob(j[1])
                                THEN Ended("fetch", FALSE) ELSE job[j]]
      /\ dirty' = TRUE
  BY DEF Begin
<1>3. \A l \in L : /\ NextJob(l) \in Jobs /\ NextJob(l)[1] = l
                   /\ job[NextJob(l)].phase = "none"
  BY <1>2, FreeJob
<1>4. Ended("fetch", FALSE) \in JobState /\ Ended("fetch", FALSE).phase = "fetch"
  BY DEF Ended, JobState
<1>5. job' \in [Jobs -> JobState]
  BY <1>2, <1>4 DEF DownloadsTyped
<1>6. \A l \in L : job'[NextJob(l)] = Ended("fetch", FALSE)
  BY <1>2, <1>3
<1>7. \A j \in Jobs : \/ job'[j] = job[j]
                      \/ /\ j[1] \in L /\ job[j].phase = "none"
                         /\ job'[j] = Ended("fetch", FALSE)
  BY <1>2, <1>3
<1>8. \A l \in L : Active(l)'
  BY <1>3, <1>4, <1>6 DEF Active
<1>9. \A l \in L : /\ begun(l) \in Item /\ begun(l).status = "idle"
                   /\ job'[begun(l).job].phase = "fetch"
  BY <1>3, <1>4, <1>6 DEF Item
<1>10. Len(downloads) \in Nat /\ DOMAIN downloads = 1 .. Len(downloads)
  BY ListFacts DEF DownloadsTyped
<1>11. IsFiniteSet(new) /\ Cardinality(new) \in Nat
  BY LayersAssumption, FS_Subset, FS_CardinalityType
<1>12. \A l \in new : l \in L
  OBVIOUS
<1>. HIDE DEF begun, new
<1>. DEFINE put == [n \in DOMAIN order |-> begun(order[n])]
<1>13. /\ old \in Seq(Item) /\ DOMAIN old = 1 .. Len(downloads) /\ Len(old) = Len(downloads)
       /\ \A i \in 1 .. Len(downloads) :
            old[i] = IF downloads[i].job[1] \in L THEN begun(downloads[i].job[1])
                     ELSE downloads[i]
  <2>1. old \in [1 .. Len(downloads) -> Item]
    BY <1>9, <1>10, ListFacts DEF DownloadsTyped
  <2>2. old \in Seq(Item)
    BY <1>10, <2>1, SeqDef
  <2>. HIDE DEF old
  <2>3. DOMAIN old = 1 .. Len(downloads)
    BY <2>1
  <2>4. Len(old) = Len(downloads)
    BY <1>10, <2>1
  <2>. QED
    BY <1>10, <2>2, <2>3, <2>4 DEF old
<1>14. put \in Seq(Item) /\ \A n \in 1 .. Cardinality(new) : put[n] = begun(order[n])
  <2>1. DOMAIN order = 1 .. Cardinality(new)
    OBVIOUS
  <2>2. put \in [1 .. Cardinality(new) -> Item]
    BY <1>9, <1>12, <2>1
  <2>. QED
    BY <1>11, <2>1, <2>2, SeqDef
<1>15. DOMAIN put = 1 .. Cardinality(new)
  OBVIOUS
<1>16. Len(put) = Cardinality(new)
  BY <1>11, <1>14, <1>15, ListFacts
<1>. HIDE DEF old, put
<1>17. /\ downloads' \in Seq(Item) /\ Len(downloads') = Len(old) + Len(put)
       /\ \A i \in 1 .. Len(old) + Len(put) :
            downloads'[i] = IF i <= Len(old) THEN old[i] ELSE put[i - Len(old)]
  BY <1>1, <1>13, <1>14, ConcatProperties DEF put
<1>18. DOMAIN downloads' = 1 .. Len(old) + Len(put)
  BY <1>17, ListFacts
<1>19. ASSUME NEW i \in DOMAIN downloads'
       PROVE  \/ downloads'[i] \in Range(downloads) /\ downloads'[i].job[1] \notin L
              \/ downloads'[i].status = "idle" /\ job'[downloads'[i].job].phase = "fetch"
  <2>1. CASE i <= Len(old)
    BY <1>9, <1>10, <1>13, <1>17, <1>18, <2>1 DEF Range
  <2>2. CASE i > Len(old)
    <3>1. i - Len(old) \in 1 .. Cardinality(new)
      BY <1>10, <1>11, <1>13, <1>16, <1>18, <2>2
    <3>2. downloads'[i] = begun(order[i - Len(old)])
      BY <1>10, <1>13, <1>14, <1>17, <1>18, <2>2, <3>1
    <3>3. order[i - Len(old)] \in L
      BY <1>12, <3>1
    <3>. QED
      BY <1>9, <3>2, <3>3
  <2>. QED
    BY <1>10, <1>13, <1>18, <2>1, <2>2
<1>20. ASSUME NEW i \in DOMAIN downloads, downloads[i].job[1] \notin L
       PROVE  i \in DOMAIN downloads' /\ downloads'[i] = downloads[i]
  BY <1>10, <1>11, <1>13, <1>16, <1>17, <1>18, <1>20
<1>21. \A x \in Range(downloads') :
            \/ x \in Range(downloads) /\ x.job[1] \notin L
            \/ x.status = "idle" /\ job'[x.job].phase = "fetch"
  BY <1>19 DEF Range
<1>22. \A x \in Range(downloads) : x.job[1] \notin L => x \in Range(downloads')
  BY <1>20 DEF Range
<1>. QED
  BY <1>2, <1>5, <1>7, <1>8, <1>17, <1>21, <1>22 DEF DownloadsTyped


LEMMA Bounds == MaxReads \in Nat /\ MaxPasses \in Nat /\ MaxClicks \in Nat
BY LayersAssumption

LEMMA LayersStart == LayersInit => LayersInv
<1> SUFFICES ASSUME LayersInit PROVE LayersInv
    OBVIOUS
<1>1. stored \in [LayerLevels -> [version : Versions, lines : Nat]]
  BY LayersAssumption DEF LayersInit, Versions
<1>2. \A l \in LayerLevels : /\ stored[l].lines <= Lines[l]
                             /\ stored[l].version # 0 => stored[l].lines = Lines[l]
  BY LayersAssumption DEF LayersInit
<1>3. LayersTyped
  <2>1. CacheTyped
    BY <1>1, <1>2 DEF LayersInit, CacheTyped, Versions
  <2>2. BoxesTyped
    BY DEF LayersInit, BoxesTyped
  <2>3. ReadingTyped
    BY LayersAssumption DEF LayersInit, ReadingTyped
  <2>4. ModalTyped
    <3>1. 0 \in 0 .. MaxClicks
      BY Bounds
    <3>2. modal = {} /\ modalIsOpen = FALSE /\ clicks = 0
      BY DEF LayersInit
    <3>. QED
      BY <3>1, <3>2 DEF ModalTyped
  <2>5. DownloadsTyped
    BY EmptySeq DEF LayersInit, DownloadsTyped, JobState, Ended
  <2>. QED
    BY <2>1, <2>2, <2>3, <2>4, <2>5 DEF LayersInit, LayersTyped, PassesTyped
<1>4. CachedIsStored
  BY <1>2 DEF LayersInit, CachedIsStored
<1>5. TimersRun
  BY DEF LayersInit, TimersRun, Ended
<1>6. ItemsTold
  BY DEF LayersInit, ItemsTold, Range
<1>7. LevelsKnown
  BY DEF LayersInit, LevelsKnown, Begun, Ended
<1>8. PassesStand /\ LoadingUncached /\ LoadingIsAnswered
  BY DEF LayersInit, PassesStand, LoadingUncached, LoadingIsAnswered
<1>. QED
  BY <1>3, <1>4, <1>5, <1>6, <1>7, <1>8 DEF LayersInv

LEMMA ReloadKeeps == ASSUME LayersInv, Reload PROVE LayersInv'
<1>1. LayersTyped'
  <2>1. CacheTyped'
    BY DEF Reload, CacheTyped, LayersInv, LayersTyped, Versions
  <2>2. BoxesTyped'
    BY DEF Reload, BoxesTyped
  <2>3. ReadingTyped'
    BY LayersAssumption DEF Reload, ReadingTyped
  <2>4. ModalTyped'
    <3>1. 0 \in 0 .. MaxClicks
      BY Bounds
    <3>2. modal' = {} /\ modalIsOpen' = FALSE /\ clicks' = 0
      BY DEF Reload
    <3>. QED
      BY <3>1, <3>2 DEF ModalTyped
  <2>5. DownloadsTyped'
    BY EmptySeq DEF Reload, DownloadsTyped, JobState, Ended
  <2>. QED
    BY <2>1, <2>2, <2>3, <2>4, <2>5 DEF Reload, LayersTyped, PassesTyped
<1>2. CachedIsStored'
  BY DEF Reload, CachedIsStored, LayersInv
<1>3. TimersRun'
  BY DEF Reload, TimersRun, Ended
<1>4. ItemsTold'
  BY DEF Reload, ItemsTold, Range
<1>5. LevelsKnown'
  BY DEF Reload, LevelsKnown, Begun, Ended
<1>6. PassesStand' /\ LoadingUncached' /\ LoadingIsAnswered'
  BY DEF Reload, PassesStand, LoadingUncached, LoadingIsAnswered
<1>. QED
  BY <1>1, <1>2, <1>3, <1>4, <1>5, <1>6 DEF LayersInv

\* A step of a download, with or without its record.
LEMMA JobKeeps ==
    ASSUME LayersInv, NEW j \in Jobs, NEW new \in JobState,
           NEW status \in {"idle", "downloading", "success", "failed"},
           job' = [job EXCEPT ![j] = new], InJob, job[j].phase # "none",
           job[j].phase \in {"fetch", "read"} \/ new.phase = job[j].phase,
           new.timer => new.phase \in {"read", "failed"},
           \/ /\ Upsert(j, status) /\ new.phase \in PhaseOf(status)
              /\ new.phase # "freed"
           \/ UNCHANGED <<downloads, dirty>> /\ new.phase = job[j].phase
    PROVE  LayersInv'
<1>. DEFINE item == [job |-> j, status |-> status]
            others == {x \in Range(downloads) : x.job[1] # j[1]}
<1>1. /\ UNCHANGED <<stored, lost, box, metadata, modal, modalIsOpen, reading, passes, layer,
                     synced, clicks>>
      /\ LayersTyped
  BY DEF InJob, page, LayersInv
<1>2. /\ job \in [Jobs -> JobState] /\ job' \in [Jobs -> JobState]
      /\ job'[j] = new /\ \A k \in Jobs : k # j => job'[k] = job[k]
      /\ downloads \in Seq(Item) /\ passes \subseteq Pass
  BY DEF LayersInv, LayersTyped, DownloadsTyped, PassesTyped
<1>3. new.phase # "none" /\ new.phase \in {"fetch", "read", "success", "freed", "failed"}
  BY DEF JobState, PhaseOf
<1>4. /\ downloads' \in Seq(Item) /\ dirty' \in BOOLEAN
      /\ \/ /\ dirty' = TRUE /\ Range(downloads') = {item} \cup others
            /\ new.phase \in PhaseOf(status) /\ new.phase # "freed"
         \/ UNCHANGED <<downloads, dirty>> /\ new.phase = job[j].phase
  <2>1. CASE Upsert(j, status)
    BY <1>1, <1>2, <2>1, UpsertFacts
  <2>2. CASE UNCHANGED <<downloads, dirty>> /\ new.phase = job[j].phase
    BY <1>1, <1>2, <2>2 DEF LayersTyped
  <2>. QED
    BY <2>1, <2>2
<1>5. LayersTyped'
  BY <1>1, <1>2, <1>4
  DEF LayersTyped, CacheTyped, BoxesTyped, ReadingTyped, ModalTyped, DownloadsTyped, PassesTyped
<1>6. CachedIsStored' /\ LoadingUncached'
  BY <1>1 DEF LayersInv, CachedIsStored, LoadingUncached
<1>7. TimersRun'
  BY <1>2 DEF LayersInv, TimersRun
<1>8. ItemsTold'
  <2> SUFFICES ASSUME NEW x \in Range(downloads')
               PROVE  job'[x.job].phase \in PhaseOf(x.status)
    BY DEF ItemsTold
  <2>1. CASE x = item /\ new.phase \in PhaseOf(status)
    BY <1>2, <2>1
  <2>2. CASE x \in Range(downloads) /\ (x.job = j => new.phase = job[j].phase)
    <3>1. x.job \in Jobs /\ job[x.job].phase \in PhaseOf(x.status)
      BY <1>2, <2>2, ListFacts, ItemFacts DEF LayersInv, ItemsTold
    <3>. QED
      BY <1>2, <2>2, <3>1
  <2>. QED
    BY <1>4, <2>1, <2>2
<1>9. LevelsKnown'
  <2>1. \A l : Begun(l)' => Begun(l)
    BY <1>2 DEF Begun
  <2>. QED
    BY <1>1, <2>1 DEF LayersInv, LevelsKnown, Known
<1>10. PassesStand'
  <2>1. ASSUME NEW p \in passes PROVE Over(p.todo)'
    <3> SUFFICES ASSUME NEW x \in Range(p.todo), x.status = "success"
                 PROVE  job'[x.job].phase \in {"success", "freed"}
      BY DEF Over
    <3>1. job[x.job].phase \in {"success", "freed"} /\ x.job \in Jobs
      BY <1>2, ListFacts, ItemFacts DEF LayersInv, PassesStand, Over, Pass
    <3>. QED
      BY <1>2, <3>1
  <2>. QED
    BY <1>1, <2>1 DEF LayersInv, PassesStand, LevelOf
<1>11. \A x \in Item : News(x) => News(x)'
  <2> SUFFICES ASSUME NEW x \in Item, News(x) PROVE News(x)'
    OBVIOUS
  <2>1. job[x.job].phase \in {"success", "failed"} => job'[x.job].phase = job[x.job].phase
    BY <1>2, ItemFacts
  <2>. QED
    BY <2>1, NewsKept
<1>12. new.phase \in PhaseOf(status) /\ new.phase # "freed" =>
            \/ new.phase \in {"fetch", "read"}
            \/ News(item)'
  BY <1>2, <1>3 DEF PhaseOf, News, Failed, Resolvable
<1>13. LoadingIsAnswered'
  <2> SUFFICES ASSUME NEW l \in LayerLevels, box'[l] = "loading", l \notin lost',
                      ~(reading[<<l, "metadata">>] > 0)
               PROVE  Answering(l)'
    BY <1>1, LoadingNext DEF Answering
  <2>1. Active(l) \/ (\E p \in passes : Ahead(p, l)) \/ (dirty /\ Due(l))
    BY <1>1, LoadingNow
  <2>2. ASSUME l = j[1], dirty' = TRUE, Range(downloads') = {item} \cup others,
               new.phase \in PhaseOf(status), new.phase # "freed"
        PROVE  Active(l)' \/ (dirty' /\ Due(l)')
    <3>1. CASE new.phase \in {"fetch", "read"}
      BY <1>2, <2>2, <3>1 DEF Active
    <3>2. CASE News(item)'
      BY <2>2, <3>2 DEF Due
    <3>. QED
      BY <1>12, <2>2, <3>1, <3>2
  <2>3. CASE Active(l)
    <3>1. PICK k \in Jobs : k[1] = l /\ job[k].phase \in {"fetch", "read"}
      BY <2>3 DEF Active
    <3>2. CASE job'[k].phase = job[k].phase
      BY <3>1, <3>2 DEF Active, Answering
    <3>3. CASE job'[k].phase # job[k].phase
      <4>1. k = j /\ new.phase # job[j].phase
        BY <1>2, <3>3
      <4>. QED
        BY <1>4, <2>2, <3>1, <4>1 DEF Answering
    <3>. QED
      BY <3>2, <3>3
  <2>4. CASE \E p \in passes : Ahead(p, l)
    <3>1. PICK p \in passes : Ahead(p, l)
      BY <2>4
    <3>2. Ahead(p, l)'
      BY <1>2, <1>11, <3>1, AheadKept
    <3>. QED
      BY <1>1, <3>1, <3>2 DEF Answering
  <2>5. CASE dirty /\ Due(l)
    <3>1. PICK x \in Range(downloads) : x.job[1] = l /\ News(x)
      BY <2>5 DEF Due
    <3>2. News(x)'
      BY <1>2, <1>11, <3>1, ListFacts
    <3>3. CASE UNCHANGED <<downloads, dirty>>
      BY <2>5, <3>1, <3>2, <3>3 DEF Due, Answering
    <3>4. CASE dirty' = TRUE /\ Range(downloads') = {item} \cup others /\ l # j[1]
      BY <3>1, <3>2, <3>4 DEF Due, Answering
    <3>. QED
      BY <1>4, <2>2, <3>3, <3>4 DEF Answering
  <2>. QED
    BY <2>1, <2>3, <2>4, <2>5
<1>. QED
  BY <1>5, <1>6, <1>7, <1>8, <1>9, <1>10, <1>13 DEF LayersInv


LEMMA DownloadsKeep ==
    ASSUME LayersInv, NEW j \in Jobs, Downloads(j)
    PROVE  LayersInv'
<1>1. /\ job[j] \in JobState /\ job[j].timer \in BOOLEAN /\ j[1] \in LayerLevels
      /\ job[j].timer => job[j].phase \in {"read", "failed"}
      /\ Lines[j[1]] \in Nat
  BY LayersAssumption DEF LayersInv, LayersTyped, DownloadsTyped, TimersRun, JobState
<1>2. ASSUME NEW phase \in {"success", "failed"}, NEW timer \in BOOLEAN
      PROVE  /\ Ended(phase, timer) \in JobState
             /\ Ended(phase, timer).phase = phase /\ Ended(phase, timer).timer = timer
  BY DEF Ended, JobState
<1>3. CASE Fetched(j)
  <2>. DEFINE new == [job[j] EXCEPT !.phase = "read"]
  <2>1. new \in JobState /\ new.phase = "read"
    BY <1>1 DEF JobState
  <2>2. job' = [job EXCEPT ![j] = new]
    BY <1>3 DEF Fetched
  <2>3. job[j].phase = "fetch" /\ Upsert(j, "downloading") /\ InJob
    BY <1>3 DEF Fetched
  <2>. HIDE DEF new
  <2>4. new.phase \in PhaseOf("downloading")
    BY <2>1 DEF PhaseOf
  <2>. QED
    BY <2>1, <2>2, <2>3, <2>4, JobKeeps
<1>4. CASE EndOfFile(j)
  <2>1. PICK status \in {"success", "failed"} :
            /\ job' = [job EXCEPT ![j] = Ended(status, FALSE)] /\ Upsert(j, status)
    BY <1>4 DEF EndOfFile
  <2>. DEFINE new == Ended(status, FALSE)
  <2>2. new \in JobState /\ new.phase = status /\ ~new.timer
    BY <1>2
  <2>3. job[j].phase = "read" /\ InJob
    BY <1>4 DEF EndOfFile
  <2>4. job' = [job EXCEPT ![j] = new]
    BY <2>1
  <2>. HIDE DEF new
  <2>5. new.phase \in PhaseOf(status)
    BY <2>2 DEF PhaseOf
  <2>. QED
    BY <2>1, <2>2, <2>3, <2>4, <2>5, JobKeeps
<1>5. CASE Fail(j)
  <2>. DEFINE new == Ended("failed", job[j].timer)
  <2>1. new \in JobState /\ new.phase = "failed"
    BY <1>1, <1>2
  <2>2. /\ job' = [job EXCEPT ![j] = new] /\ Upsert(j, "failed") /\ InJob
        /\ job[j].phase \in {"fetch", "read"}
    BY <1>5 DEF Fail
  <2>. HIDE DEF new
  <2>3. new.phase \in PhaseOf("failed")
    BY <2>1 DEF PhaseOf
  <2>. QED
    BY <2>1, <2>2, <2>3, JobKeeps
<1>6. CASE Throttled(j)
  <2>. DEFINE new == [job[j] EXCEPT !.timer = FALSE]
  <2>1. new \in JobState /\ new.phase = job[j].phase /\ ~new.timer
    BY <1>1 DEF JobState
  <2>2. job[j].phase \in {"read", "failed"} /\ InJob
    BY <1>1, <1>6 DEF Throttled
  <2>3. job' = [job EXCEPT ![j] = new]
    BY <1>6 DEF Throttled
  <2>4. PICK status \in {"downloading", "failed"} :
            Upsert(j, status) /\ job[j].phase \in PhaseOf(status)
    BY <1>6, <2>2 DEF Throttled, PhaseOf
  <2>. HIDE DEF new
  <2>. QED
    BY <2>1, <2>2, <2>3, <2>4, JobKeeps
<1>7. ASSUME NEW pos \in 1 .. 2 * Lines[j[1]], ReadChunk(j, pos) PROVE LayersInv'
  <2>. DEFINE glued == j[1] \in Ndjson /\ Glued(j)
              fails == glued /\ Parsed(pos) > Parsed(job[j].pos) + 1
              went == [phase |-> "read", pos |-> pos, glued |-> glued, timer |-> TRUE]
  <2>1. pos \in Nat /\ glued \in BOOLEAN /\ fails \in BOOLEAN
    BY <1>1
  <2>2. /\ job' = [job EXCEPT ![j] = IF fails THEN Ended("failed", TRUE) ELSE went]
        /\ IF fails THEN Upsert(j, "failed")
           ELSE IF job[j].timer THEN UNCHANGED <<downloads, dirty>>
           ELSE Upsert(j, "downloading")
        /\ InJob /\ job[j].phase = "read"
    BY <1>7 DEF ReadChunk
  <2>. HIDE DEF glued, fails
  <2>3. went \in JobState /\ went.phase = "read" /\ went.timer
    BY <2>1 DEF JobState
  <2>. HIDE DEF went
  <2>4. CASE fails
    <3>. DEFINE new == Ended("failed", TRUE)
    <3>1. new \in JobState /\ new.phase = "failed"
      BY <1>2
    <3>2. job' = [job EXCEPT ![j] = new] /\ Upsert(j, "failed")
      BY <2>2, <2>4
    <3>. HIDE DEF new
    <3>3. new.phase \in PhaseOf("failed")
      BY <3>1 DEF PhaseOf
    <3>. QED
      BY <2>2, <3>1, <3>2, <3>3, JobKeeps
  <2>5. CASE ~fails
    <3>1. /\ job' = [job EXCEPT ![j] = went]
          /\ UNCHANGED <<downloads, dirty>> \/ Upsert(j, "downloading")
      BY <2>2, <2>5
    <3>2. went.phase \in PhaseOf("downloading")
      BY <2>3 DEF PhaseOf
    <3>. QED
      BY <2>2, <2>3, <3>1, <3>2, JobKeeps
  <2>. QED
    BY <2>4, <2>5
<1>. QED
  BY <1>3, <1>4, <1>5, <1>6, <1>7 DEF Downloads

\* Downloads begin, of levels whose copies are known.
LEMMA BeginKeeps ==
    ASSUME LayersInv, NEW L \in SUBSET LayerLevels, Begin(L), \A l \in L : Known(l),
           UNCHANGED <<page, box, metadata, reading, passes, layer, synced>>,
           ModalTyped', modal' \subseteq modal
    PROVE  LayersInv'
<1>1. /\ DownloadsTyped' /\ dirty' = TRUE
      /\ \A j \in Jobs :
            \/ job'[j] = job[j]
            \/ j[1] \in L /\ job[j].phase = "none" /\ job'[j] = Ended("fetch", FALSE)
      /\ \A l \in L : Active(l)'
      /\ \A x \in Range(downloads') :
            \/ x \in Range(downloads) /\ x.job[1] \notin L
            \/ x.status = "idle" /\ job'[x.job].phase = "fetch"
      /\ \A x \in Range(downloads) : x.job[1] \notin L => x \in Range(downloads')
  BY BeginFacts DEF LayersInv, LayersTyped
<1>2. /\ UNCHANGED <<stored, lost, box, metadata, reading, passes, layer, synced>>
      /\ LayersTyped /\ downloads \in Seq(Item) /\ passes \subseteq Pass
  BY DEF page, LayersInv, LayersTyped, DownloadsTyped, PassesTyped
<1>3. Ended("fetch", FALSE).phase = "fetch" /\ ~Ended("fetch", FALSE).timer
  BY DEF Ended
<1>4. LayersTyped'
  BY <1>1, <1>2 DEF LayersTyped, CacheTyped, BoxesTyped, ReadingTyped, PassesTyped
<1>5. CachedIsStored' /\ LoadingUncached'
  BY <1>2 DEF LayersInv, CachedIsStored, LoadingUncached
<1>6. TimersRun'
  BY <1>1, <1>3 DEF LayersInv, TimersRun
<1>7. ItemsTold'
  <2> SUFFICES ASSUME NEW x \in Range(downloads')
               PROVE  job'[x.job].phase \in PhaseOf(x.status)
    BY DEF ItemsTold
  <2>1. CASE x \in Range(downloads) /\ x.job[1] \notin L
    <3>1. x.job \in Jobs /\ job[x.job].phase \in PhaseOf(x.status)
      BY <1>2, <2>1, ListFacts, ItemFacts DEF LayersInv, ItemsTold
    <3>. QED
      BY <1>1, <2>1, <3>1
  <2>2. CASE x.status = "idle" /\ job'[x.job].phase = "fetch"
    BY <2>2 DEF PhaseOf
  <2>. QED
    BY <1>1, <2>1, <2>2
<1>8. LevelsKnown'
  <2>1. ASSUME NEW l \in LayerLevels, Begun(l)' PROVE Begun(l) \/ l \in L
    BY <1>1, <2>1 DEF Begun
  <2>. QED
    BY <1>2, <2>1 DEF LayersInv, LevelsKnown, Known
<1>9. PassesStand'
  <2>1. ASSUME NEW p \in passes PROVE Over(p.todo)'
    <3> SUFFICES ASSUME NEW x \in Range(p.todo), x.status = "success"
                 PROVE  job'[x.job].phase \in {"success", "freed"}
      BY DEF Over
    <3>1. job[x.job].phase \in {"success", "freed"} /\ x.job \in Jobs
      BY <1>2, ListFacts, ItemFacts DEF LayersInv, PassesStand, Over, Pass
    <3>. QED
      BY <1>1, <3>1
  <2>. QED
    BY <1>2, <2>1 DEF LayersInv, PassesStand, LevelOf
<1>10. \A x \in Item : News(x) => News(x)'
  <2> SUFFICES ASSUME NEW x \in Item, News(x) PROVE News(x)'
    OBVIOUS
  <2>1. job[x.job].phase \in {"success", "failed"} => job'[x.job].phase = job[x.job].phase
    BY <1>1, ItemFacts
  <2>. QED
    BY <2>1, NewsKept
<1>11. LoadingIsAnswered'
  <2> SUFFICES ASSUME NEW l \in LayerLevels, box'[l] = "loading", l \notin lost',
                      ~(reading[<<l, "metadata">>] > 0)
               PROVE  Answering(l)'
    BY <1>2, LoadingNext DEF Answering
  <2>1. Active(l) \/ (\E p \in passes : Ahead(p, l)) \/ (dirty /\ Due(l))
    BY <1>2, LoadingNow
  <2>2. CASE Active(l)
    <3>1. PICK k \in Jobs : k[1] = l /\ job[k].phase \in {"fetch", "read"}
      BY <2>2 DEF Active
    <3>. QED
      BY <1>1, <3>1 DEF Active, Answering
  <2>3. CASE \E p \in passes : Ahead(p, l)
    <3>1. PICK p \in passes : Ahead(p, l)
      BY <2>3
    <3>2. Ahead(p, l)'
      BY <1>2, <1>10, <3>1, AheadKept
    <3>. QED
      BY <1>2, <3>1, <3>2 DEF Answering
  <2>4. CASE dirty /\ Due(l)
    <3>1. PICK x \in Range(downloads) : x.job[1] = l /\ News(x)
      BY <2>4 DEF Due
    <3>2. News(x)'
      BY <1>2, <1>10, <3>1, ListFacts
    <3>3. CASE l \in L
      BY <1>1, <3>3 DEF Answering
    <3>4. CASE l \notin L
      BY <1>1, <3>1, <3>2, <3>4 DEF Due, Answering
    <3>. QED
      BY <3>3, <3>4
  <2>. QED
    BY <2>1, <2>2, <2>3, <2>4
<1>. QED
  BY <1>4, <1>5, <1>6, <1>7, <1>8, <1>9, <1>11 DEF LayersInv

\* A step that leaves downloads and passes alone.
LEMMA QuietKeeps ==
    ASSUME LayersInv, UNCHANGED <<page, downloads, job, passes>>,
           CacheTyped', BoxesTyped', ReadingTyped', ModalTyped',
           synced' \in BOOLEAN, dirty' \in BOOLEAN, dirty => dirty',
           CachedIsStored', LevelsKnown',
           \A l \in LayerLevels : metadata[l] # 0 => metadata'[l] # 0,
           \A l \in LayerLevels : box'[l] = "loading" =>
                \/ reading'[<<l, "metadata">>] > 0
                \/ /\ box[l] = "loading" /\ ~(reading[<<l, "metadata">>] > 0)
                   /\ metadata'[l] = metadata[l]
    PROVE  LayersInv'
<1>1. UNCHANGED <<stored, lost, downloads, job, passes>> /\ passes \subseteq Pass
  BY DEF page, LayersInv, LayersTyped, PassesTyped
<1>2. LayersTyped'
  BY <1>1 DEF LayersInv, LayersTyped, DownloadsTyped, PassesTyped
<1>3. TimersRun' /\ ItemsTold'
  BY <1>1 DEF LayersInv, TimersRun, ItemsTold
<1>4. PassesStand'
  <2>1. ASSUME NEW p \in passes
        PROVE  /\ Over(p.todo)' /\ p.todo[1].status = "success"
               /\ p.had \/ p.at = "draw" => metadata'[LevelOf(p)] # 0
    <3>1. /\ Over(p.todo) /\ p.todo[1].status = "success"
          /\ p.had \/ p.at = "draw" => metadata[LevelOf(p)] # 0
      BY DEF LayersInv, PassesStand
    <3>2. Over(p.todo)'
      BY <1>1, <3>1 DEF Over
    <3>3. LevelOf(p) \in LayerLevels
      BY <1>1, HeadTailProperties, ItemFacts DEF LevelOf, Pass
    <3>. QED
      BY <3>1, <3>2, <3>3
  <2>. QED
    BY <1>1, <2>1 DEF PassesStand, LevelOf
<1>5. LoadingUncached'
  BY <1>1 DEF LayersInv, LoadingUncached
<1>6. LoadingIsAnswered'
  <2> SUFFICES ASSUME NEW l \in LayerLevels, box'[l] = "loading", l \notin lost'
               PROVE  Answering(l)'
    BY LoadingNext
  <2>1. CASE reading'[<<l, "metadata">>] > 0
    BY <2>1 DEF Answering
  <2>2. CASE box[l] = "loading" /\ ~(reading[<<l, "metadata">>] > 0)
    <3>1. Active(l) \/ (\E p \in passes : Ahead(p, l)) \/ (dirty /\ Due(l))
      BY <1>1, <2>2, LoadingNow
    <3>2. /\ Active(l)' <=> Active(l)
          /\ \A p : Ahead(p, l)' <=> Ahead(p, l)
          /\ Due(l)' <=> Due(l)
      BY <1>1 DEF Active, Ahead, Due, News, Failed, Resolvable
    <3>. QED
      BY <1>1, <3>1, <3>2 DEF Answering
  <2>. QED
    BY <2>1, <2>2
<1>. QED
  BY <1>2, <1>3, <1>4, <1>5, <1>6 DEF LayersInv


\* The count of one kind of reading goes up or down.
LEMMA CountFacts ==
    ASSUME NEW S, NEW n \in Nat, NEW f \in [S -> 0 .. n], NEW a \in S
    PROVE  /\ f[a] < n => [f EXCEPT ![a] = @ + 1] \in [S -> 0 .. n]
           /\ f[a] > 0 => [f EXCEPT ![a] = @ - 1] \in [S -> 0 .. n]
           /\ \A b \in S \ {a} : f[a] > 0 /\ f[b] < n =>
                [f EXCEPT ![a] = @ - 1, ![b] = @ + 1] \in [S -> 0 .. n]
<1>1. ASSUME f[a] < n PROVE [f EXCEPT ![a] = @ + 1] \in [S -> 0 .. n]
  BY <1>1
<1>2. ASSUME f[a] > 0 PROVE [f EXCEPT ![a] = @ - 1] \in [S -> 0 .. n]
  BY <1>2
<1>3. ASSUME NEW b \in S \ {a}, f[a] > 0, f[b] < n
      PROVE  [f EXCEPT ![a] = @ - 1, ![b] = @ + 1] \in [S -> 0 .. n]
  BY <1>3
<1>. QED
  BY <1>1, <1>2, <1>3

\* What the invariant says of its variables one by one.
LEMMA LayersFacts ==
    ASSUME LayersInv
    PROVE  /\ CacheTyped /\ BoxesTyped /\ ReadingTyped /\ ModalTyped /\ DownloadsTyped
           /\ PassesTyped /\ synced \in BOOLEAN /\ dirty \in BOOLEAN
           /\ LevelsKnown /\ CachedIsStored
BY DEF LayersInv, LayersTyped

LEMMA SyncKeeps == ASSUME LayersInv, Sync PROVE LayersInv'
<1>1. /\ metadata' = [l \in LayerLevels |-> stored[l].version] /\ stored' = stored
      /\ synced' = TRUE /\ dirty' = TRUE
      /\ UNCHANGED <<page, downloads, job, passes, box, layer, reading, modal, modalIsOpen, clicks>>
  BY DEF Sync, page
<1>2. CacheTyped' /\ CachedIsStored'
  BY <1>1, LayersFacts DEF CacheTyped, CachedIsStored, Versions
<1>3. BoxesTyped' /\ ReadingTyped' /\ ModalTyped'
  BY <1>1, LayersFacts DEF BoxesTyped, ReadingTyped, ModalTyped
<1>4. \A l \in LayerLevels : metadata[l] # 0 => metadata'[l] # 0
  BY <1>1, LayersFacts DEF CacheTyped, CachedIsStored, Versions
<1>5. LevelsKnown'
  BY <1>1 DEF LevelsKnown, Known
<1>6. \A l \in LayerLevels : box'[l] = "loading" =>
            \/ reading'[<<l, "metadata">>] > 0
            \/ /\ box[l] = "loading" /\ ~(reading[<<l, "metadata">>] > 0)
               /\ metadata'[l] = metadata[l]
  BY <1>1 DEF LayersInv, LoadingUncached
<1>. QED
  BY <1>1, <1>2, <1>3, <1>4, <1>5, <1>6, QuietKeeps

LEMMA EnableFacts ==
    ASSUME LayersInv, NEW l \in LayerLevels, Enable(l)
    PROVE  /\ box' \in [LayerLevels -> {"off", "loading", "on"}] /\ ReadingTyped'
           /\ layer' = layer
           /\ \A m \in LayerLevels : box'[m] = "loading" =>
                \/ reading'[<<m, "metadata">>] > 0
                \/ box[m] = "loading" /\ ~(reading[<<m, "metadata">>] > 0)
<1>. DEFINE R == LayerLevels \X {"metadata", "geojson"}
            r == <<l, IF metadata[l] = 0 THEN "metadata" ELSE "geojson">>
<1>1. /\ reading[r] < MaxReads /\ reading' = [reading EXCEPT ![r] = @ + 1] /\ layer' = layer
      /\ box' = [box EXCEPT ![l] = IF metadata[l] = 0 THEN "loading" ELSE "on"]
  BY DEF Enable
<1>2. r \in R /\ reading \in [R -> 0 .. MaxReads] /\ MaxReads \in Nat
  BY LayersFacts, Bounds DEF ReadingTyped
<1>3. metadata[l] = 0 => r = <<l, "metadata">>
  OBVIOUS
<1>. HIDE DEF r
<1>4. ReadingTyped'
  <2>1. reading' \in [R -> 0 .. MaxReads]
    BY <1>1, <1>2, CountFacts
  <2>. QED
    BY <2>1 DEF ReadingTyped
<1>5. box' \in [LayerLevels -> {"off", "loading", "on"}]
  BY <1>1, LayersFacts DEF BoxesTyped
<1>6. ASSUME NEW m \in LayerLevels, box'[m] = "loading"
      PROVE  \/ reading'[<<m, "metadata">>] > 0
             \/ box[m] = "loading" /\ ~(reading[<<m, "metadata">>] > 0)
  <2>1. CASE m = l
    <3>1. metadata[l] = 0
      BY <1>1, <1>6, <2>1, LayersFacts DEF BoxesTyped
    <3>2. reading'[r] = reading[r] + 1 /\ reading[r] \in Nat
      BY <1>1, <1>2
    <3>. QED
      BY <1>3, <2>1, <3>1, <3>2
  <2>2. CASE m # l
    <3>1. box[m] = "loading"
      BY <1>1, <1>6, <2>2, LayersFacts DEF BoxesTyped
    <3>2. <<m, "metadata">> \in R /\ <<m, "metadata">> # r
      BY <2>2 DEF r
    <3>3. reading'[<<m, "metadata">>] = reading[<<m, "metadata">>]
      BY <1>1, <1>2, <3>2
    <3>. QED
      BY <3>1, <3>3
  <2>. QED
    BY <2>1, <2>2
<1>. QED
  BY <1>1, <1>4, <1>5, <1>6

LEMMA ClickFacts ==
    ASSUME LayersInv, Click, UNCHANGED <<modal, modalIsOpen>>
    PROVE  ModalTyped'
<1>1. /\ clicks \in 0 .. MaxClicks /\ clicks < MaxClicks /\ clicks' = clicks + 1
      /\ modal \subseteq LayerLevels /\ modalIsOpen \in BOOLEAN /\ MaxClicks \in Nat
  BY LayersFacts, Bounds DEF Click, ModalTyped
<1>2. clicks' \in 0 .. MaxClicks
  BY <1>1
<1>. QED
  BY <1>1, <1>2 DEF ModalTyped

LEMMA ClicksKeep ==
    ASSUME LayersInv, NEW l \in LayerLevels, ClickBox(l) \/ ClickPill(l)
    PROVE  LayersInv'
<1>1. /\ UNCHANGED <<page, metadata, modal, modalIsOpen, downloads, job, passes, synced>>
      /\ dirty' = TRUE /\ Click
  BY DEF ClickBox, ClickPill
<1>2. CacheTyped' /\ CachedIsStored' /\ ModalTyped'
  BY <1>1, LayersFacts, ClickFacts DEF page, CacheTyped, CachedIsStored
<1>3. LevelsKnown'
  BY <1>1, LayersFacts DEF page, LevelsKnown, Known, Begun
<1>4. /\ BoxesTyped' /\ ReadingTyped'
      /\ \A m \in LayerLevels : box'[m] = "loading" =>
                \/ reading'[<<m, "metadata">>] > 0
                \/ box[m] = "loading" /\ ~(reading[<<m, "metadata">>] > 0)
  <2>1. CASE Enable(l)
    BY <2>1, LayersFacts, EnableFacts DEF BoxesTyped
  <2>2. CASE /\ box' = [box EXCEPT ![l] = "off"] /\ layer' = [layer EXCEPT ![l] = FALSE]
             /\ UNCHANGED reading
    BY <2>2, LayersFacts DEF BoxesTyped, ReadingTyped
  <2>. QED
    BY <2>1, <2>2 DEF ClickBox, ClickPill
<1>. QED
  BY <1>1, <1>2, <1>3, <1>4, LayersFacts, QuietKeeps

LEMMA MetadataReadKeeps ==
    ASSUME LayersInv, NEW l \in LayerLevels, MetadataRead(l)
    PROVE  LayersInv'
<1>. DEFINE R == LayerLevels \X {"metadata", "geojson"}
            a == <<l, "metadata">>
            b == <<l, "geojson">>
<1>1. /\ UNCHANGED <<page, downloads, job, passes, layer, synced, clicks>> /\ stored' = stored
      /\ dirty' = TRUE /\ box' = [box EXCEPT ![l] = "on"] /\ reading[a] > 0
  BY DEF MetadataRead, page
<1>2. a \in R /\ b \in R \ {a} /\ reading \in [R -> 0 .. MaxReads] /\ MaxReads \in Nat
  BY LayersFacts, Bounds DEF ReadingTyped
<1>3. \A m \in LayerLevels \ {l} : <<m, "metadata">> \in R \ {a, b}
  OBVIOUS
<1>4. \/ /\ stored[l].version = 0 /\ modal' = {l} /\ modalIsOpen' = TRUE
         /\ reading' = [reading EXCEPT ![a] = @ - 1] /\ metadata' = metadata
      \/ /\ stored[l].version # 0 /\ UNCHANGED <<modal, modalIsOpen>> /\ reading[b] < MaxReads
         /\ reading' = [reading EXCEPT ![a] = @ - 1, ![b] = @ + 1]
         /\ metadata' = [metadata EXCEPT ![l] = stored[l].version]
  BY DEF MetadataRead, Open
<1>. HIDE DEF a, b, R
<1>5. ReadingTyped' /\ \A r \in R \ {a, b} : reading'[r] = reading[r]
  <2>1. reading' \in [R -> 0 .. MaxReads]
    BY <1>1, <1>2, <1>4, CountFacts
  <2>2. \A r \in R \ {a, b} : reading'[r] = reading[r]
    BY <1>2, <1>4
  <2>. QED
    BY <2>1, <2>2 DEF ReadingTyped, R
<1>6. /\ CacheTyped' /\ CachedIsStored'
      /\ \A m \in LayerLevels : metadata[m] # 0 => metadata'[m] # 0
      /\ \A m \in LayerLevels \ {l} : metadata'[m] = metadata[m]
  BY <1>1, <1>4, LayersFacts DEF CacheTyped, CachedIsStored, Versions
<1>7. BoxesTyped' /\ ModalTyped'
  BY <1>1, <1>4, LayersFacts DEF BoxesTyped, ModalTyped
<1>8. LevelsKnown'
  BY <1>1, <1>4, <1>6, LayersFacts DEF LevelsKnown, Known, Begun
<1>9. ASSUME NEW m \in LayerLevels, box'[m] = "loading"
      PROVE  \/ reading'[<<m, "metadata">>] > 0
             \/ /\ box[m] = "loading" /\ ~(reading[<<m, "metadata">>] > 0)
                /\ metadata'[m] = metadata[m]
  <2>1. m # l /\ box[m] = "loading"
    BY <1>1, <1>9, LayersFacts DEF BoxesTyped
  <2>. QED
    BY <1>3, <1>5, <1>6, <2>1
<1>. QED
  BY <1>1, <1>5, <1>6, <1>7, <1>8, <1>9, LayersFacts, QuietKeeps

LEMMA GeojsonReadKeeps ==
    ASSUME LayersInv, NEW l \in LayerLevels, GeojsonRead(l)
    PROVE  LayersInv'
<1>. DEFINE R == LayerLevels \X {"metadata", "geojson"}
            b == <<l, "geojson">>
<1>1. /\ UNCHANGED <<page, box, metadata, modal, modalIsOpen, downloads, job, passes, synced,
                     dirty, clicks>>
      /\ reading[b] > 0 /\ reading' = [reading EXCEPT ![b] = @ - 1]
      /\ layer' = [layer EXCEPT ![l] = @ \/ stored[l].version > 0]
  BY DEF GeojsonRead
<1>2. b \in R /\ reading \in [R -> 0 .. MaxReads] /\ MaxReads \in Nat
  BY LayersFacts, Bounds DEF ReadingTyped
<1>3. \A m \in LayerLevels : <<m, "metadata">> \in R \ {b}
  OBVIOUS
<1>. HIDE DEF b, R
<1>4. ReadingTyped' /\ \A r \in R \ {b} : reading'[r] = reading[r]
  <2>1. reading' \in [R -> 0 .. MaxReads]
    BY <1>1, <1>2, CountFacts
  <2>2. \A r \in R \ {b} : reading'[r] = reading[r]
    BY <1>1, <1>2
  <2>. QED
    BY <2>1, <2>2 DEF ReadingTyped, R
<1>5. BoxesTyped'
  <2>1. PICK d \in BOOLEAN : layer' = [layer EXCEPT ![l] = d]
    BY <1>1, LayersFacts DEF BoxesTyped
  <2>. QED
    BY <1>1, <2>1, LayersFacts DEF BoxesTyped
<1>6. CacheTyped' /\ CachedIsStored' /\ ModalTyped' /\ LevelsKnown'
  BY <1>1, LayersFacts
  DEF page, CacheTyped, CachedIsStored, ModalTyped, LevelsKnown, Known, Begun
<1>. QED
  BY <1>1, <1>3, <1>4, <1>5, <1>6, LayersFacts, QuietKeeps


LEMMA CloseModalKeeps ==
    ASSUME LayersInv, NEW confirmed \in BOOLEAN, CloseModal(confirmed)
    PROVE  LayersInv'
<1>1. /\ UNCHANGED <<page, box, metadata, reading, passes, layer, synced>>
      /\ modal' = {} /\ modalIsOpen' = FALSE /\ Click
      /\ Begin(modal) \/ (UNCHANGED <<job, downloads>> /\ dirty' = TRUE)
  BY DEF CloseModal
<1>2. ModalTyped'
  <2>1. clicks' \in 0 .. MaxClicks
    BY <1>1, LayersFacts, Bounds DEF Click, ModalTyped
  <2>. QED
    BY <1>1, <2>1 DEF ModalTyped
<1>3. CASE Begin(modal)
  <2>1. modal \in SUBSET LayerLevels /\ \A l \in modal : Known(l)
    BY LayersFacts DEF LevelsKnown, ModalTyped
  <2>2. modal' \subseteq modal
    BY <1>1
  <2>. QED
    BY <1>1, <1>2, <1>3, <2>1, <2>2, BeginKeeps
<1>4. CASE UNCHANGED <<job, downloads>> /\ dirty' = TRUE
  <2>1. CacheTyped' /\ CachedIsStored' /\ BoxesTyped' /\ ReadingTyped'
    BY <1>1, LayersFacts DEF page, CacheTyped, CachedIsStored, BoxesTyped, ReadingTyped
  <2>2. LevelsKnown'
    BY <1>1, <1>4, LayersFacts DEF page, LevelsKnown, Known, Begun
  <2>. QED
    BY <1>1, <1>2, <1>4, <2>1, <2>2, LayersFacts, QuietKeeps
<1>. QED
  BY <1>1, <1>3, <1>4

LEMMA ClickDownloadKeeps ==
    ASSUME LayersInv, NEW L \in SUBSET LayerLevels, ClickDownload(L)
    PROVE  LayersInv'
<1>1. /\ UNCHANGED <<page, box, metadata, reading, passes, layer, synced>> /\ Click /\ synced
      /\ \/ Begin(L) /\ UNCHANGED <<modal, modalIsOpen>>
         \/ Open(L) /\ UNCHANGED <<job, downloads, dirty>>
  BY DEF ClickDownload
<1>2. CASE Begin(L) /\ UNCHANGED <<modal, modalIsOpen>>
  <2>1. ModalTyped' /\ modal' \subseteq modal
    BY <1>1, <1>2, ClickFacts
  <2>2. \A l \in L : Known(l)
    BY <1>1, LayersFacts DEF LevelsKnown
  <2>. QED
    BY <1>1, <1>2, <2>1, <2>2, BeginKeeps
<1>3. CASE Open(L) /\ UNCHANGED <<job, downloads, dirty>>
  <2>1. CacheTyped' /\ CachedIsStored' /\ BoxesTyped' /\ ReadingTyped'
    BY <1>1, LayersFacts DEF page, CacheTyped, CachedIsStored, BoxesTyped, ReadingTyped
  <2>2. ModalTyped'
    <3>1. clicks' \in 0 .. MaxClicks
      BY <1>1, LayersFacts, Bounds DEF Click, ModalTyped
    <3>. QED
      BY <1>3, <3>1 DEF ModalTyped, Open
  <2>3. LevelsKnown'
    BY <1>1, LayersFacts DEF page, LevelsKnown, Known
  <2>. QED
    BY <1>1, <1>3, <2>1, <2>2, <2>3, LayersFacts, QuietKeeps
<1>. QED
  BY <1>1, <1>2, <1>3

\* A record that says its download goes on tells the truth.
LEMMA StatusActive ==
    ASSUME LayersInv, NEW l \in LayerLevels, Status(l) \in {"idle", "downloading"}
    PROVE  Active(l)
<1>1. PlaceOf(l) # {}
  BY DEF Status
<1>2. PICK i \in PlaceOf(l) : Status(l) = downloads[i].status
  BY <1>1 DEF Status
<1>3. i \in DOMAIN downloads /\ downloads[i].job[1] = l
  BY DEF PlaceOf
<1>4. downloads[i] \in Range(downloads) /\ downloads[i].job \in Jobs
  BY <1>3, ListFacts, ItemFacts DEF LayersInv, LayersTyped, DownloadsTyped
<1>5. job[downloads[i].job].phase \in PhaseOf(downloads[i].status)
  BY <1>4 DEF LayersInv, ItemsTold
<1>6. job[downloads[i].job].phase \in {"fetch", "read"}
  BY <1>2, <1>5 DEF PhaseOf
<1>. QED
  BY <1>3, <1>4, <1>6 DEF Active

LEMMA EffectsKeep == ASSUME LayersInv, Effects PROVE LayersInv'
<1>. DEFINE boxes == [l \in LayerLevels |-> BoxOf(l)]
<1>1. /\ box' = Unchecked(downloads, boxes) /\ passes' = passes \cup PassAt(downloads)
      /\ dirty /\ dirty' = (box' # box)
      /\ UNCHANGED <<stored, lost, metadata, modal, modalIsOpen, downloads, job, reading, layer,
                     synced, clicks>>
  BY DEF Effects, page
<1>2. /\ LayersTyped /\ downloads \in Seq(Item) /\ passes \subseteq Pass /\ CacheTyped
      /\ box \in [LayerLevels -> {"off", "loading", "on"}]
  BY DEF LayersInv, LayersTyped, DownloadsTyped, PassesTyped, BoxesTyped
<1>3. boxes \in [LayerLevels -> {"off", "loading", "on"}]
  BY <1>2 DEF BoxOf
<1>4. ASSUME NEW l \in LayerLevels, boxes[l] = "loading"
      PROVE  \/ box[l] = "loading"
             \/ Active(l) /\ metadata[l] = 0 /\ stored[l].version = 0
  <2>1. CASE BoxOf(l) = box[l]
    BY <1>4, <2>1
  <2>2. CASE BoxOf(l) # box[l]
    <3>1. metadata[l] = 0 /\ Status(l) \in {"idle", "downloading"}
      BY <1>4, <2>2 DEF BoxOf
    <3>2. Active(l)
      BY <3>1, StatusActive
    <3>3. Begun(l)
      BY <3>2 DEF Active, Begun
    <3>4. Known(l)
      BY <3>3 DEF LayersInv, LevelsKnown
    <3>. QED
      BY <3>1, <3>2, <3>4 DEF Known
  <2>. QED
    BY <2>1, <2>2
<1>. HIDE DEF boxes
<1>5. /\ box' \in [LayerLevels -> {"off", "loading", "on"}]
      /\ \A l \in LayerLevels : box'[l] = "loading" => boxes[l] = "loading"
  BY <1>1, <1>3, UncheckedFacts
<1>6. LayersTyped'
  <2>1. passes' \subseteq Pass /\ dirty' \in BOOLEAN
    BY <1>1, <1>2, PassAtFacts
  <2>. QED
    BY <1>1, <1>2, <1>5, <2>1
    DEF LayersTyped, CacheTyped, BoxesTyped, ReadingTyped, ModalTyped, DownloadsTyped, PassesTyped
<1>7. CachedIsStored' /\ TimersRun' /\ ItemsTold' /\ LevelsKnown'
  BY <1>1 DEF LayersInv, CachedIsStored, TimersRun, ItemsTold, LevelsKnown, Known, Begun
<1>8. PassesStand'
  <2> SUFFICES ASSUME NEW p \in passes'
               PROVE  /\ Over(p.todo)' /\ p.todo[1].status = "success"
                      /\ p.had \/ p.at = "draw" => metadata'[LevelOf(p)] # 0
    BY DEF PassesStand, LevelOf
  <2>1. Over(p.todo)' <=> Over(p.todo)
    BY <1>1 DEF Over
  <2>2. CASE p \in passes
    BY <1>1, <2>1, <2>2 DEF LayersInv, PassesStand
  <2>3. CASE p \in PassAt(downloads)
    <3>1. Over(downloads)
      BY DEF LayersInv, ItemsTold, Over, PhaseOf
    <3>2. /\ Range(p.todo) \subseteq Range(downloads) /\ p.todo[1].status = "success"
          /\ p.at = "store" /\ (p.had <=> metadata[LevelOf(p)] # 0)
      BY <1>2, <2>3, PassAtFacts
    <3>3. Over(p.todo)
      BY <3>1, <3>2 DEF Over
    <3>. QED
      BY <1>1, <2>1, <3>2, <3>3
  <2>. QED
    BY <1>1, <2>2, <2>3
<1>9. LoadingUncached'
  BY <1>1, <1>4, <1>5 DEF LayersInv, LoadingUncached
<1>10. LoadingIsAnswered'
  <2> SUFFICES ASSUME NEW l \in LayerLevels, box'[l] = "loading", l \notin lost',
                      ~(reading[<<l, "metadata">>] > 0)
               PROVE  Answering(l)'
    BY <1>1, LoadingNext DEF Answering
  <2>1. \A p : Ahead(p, l)' <=> Ahead(p, l)
    BY <1>1 DEF Ahead, News, Failed, Resolvable
  <2>2. CASE Active(l)
    BY <1>1, <2>2 DEF Active, Answering
  <2>3. CASE ~Active(l)
    <3>1. box[l] = "loading"
      BY <1>4, <1>5, <2>3
    <3>2. /\ metadata[l] = 0
          /\ (\E p \in passes : Ahead(p, l)) \/ (dirty /\ Due(l))
      BY <1>1, <2>3, <3>1, LoadingNow
    <3>3. CASE \E p \in passes : Ahead(p, l)
      BY <1>1, <2>1, <3>3 DEF Answering
    <3>4. CASE Due(l)
      <4>1. PICK n \in DOMAIN downloads : downloads[n].job[1] = l /\ News(downloads[n])
        BY <3>4 DEF Due, Range
      <4>2. PICK p \in PassAt(downloads) : Ahead(p, l)
        BY <1>1, <1>2, <1>3, <3>2, <4>1, SeenOrAhead
      <4>. QED
        BY <1>1, <2>1, <4>2 DEF Answering
    <3>. QED
      BY <3>2, <3>3, <3>4
  <2>. QED
    BY <2>2, <2>3
<1>. QED
  BY <1>6, <1>7, <1>8, <1>9, <1>10 DEF LayersInv

LEMMA LeavePageKeeps == ASSUME LayersInv, LeavePage PROVE LayersInv'
<1>1. /\ UNCHANGED <<stored, box, metadata, modal, modalIsOpen, job, reading, passes, layer,
                     synced>>
      /\ downloads' = <<>> /\ dirty' = TRUE /\ Click
      /\ lost' = lost \cup {l \in LayerLevels :
                              dirty /\ \E i \in PlaceOf(l) : News(downloads[i])}
  BY DEF LeavePage
<1>2. Range(downloads') = {} /\ downloads' \in Seq(Item)
  BY <1>1, EmptySeq DEF Range
<1>3. ModalTyped'
  BY <1>1, ClickFacts
<1>4. LayersTyped'
  BY <1>1, <1>2, <1>3
  DEF LayersInv, LayersTyped, CacheTyped, BoxesTyped, ReadingTyped, DownloadsTyped, PassesTyped
<1>5. CachedIsStored' /\ TimersRun' /\ LevelsKnown' /\ LoadingUncached'
  BY <1>1 DEF LayersInv, CachedIsStored, TimersRun, LevelsKnown, Known, Begun, LoadingUncached
<1>6. ItemsTold'
  BY <1>2 DEF ItemsTold
<1>7. PassesStand'
  BY <1>1 DEF LayersInv, PassesStand, Over, LevelOf
<1>8. LoadingIsAnswered'
  <2> SUFFICES ASSUME NEW l \in LayerLevels, box'[l] = "loading", l \notin lost',
                      ~(reading[<<l, "metadata">>] > 0)
               PROVE  Answering(l)'
    BY <1>1, LoadingNext DEF Answering
  <2>1. Active(l) \/ (\E p \in passes : Ahead(p, l)) \/ (dirty /\ Due(l))
    BY <1>1, LoadingNow
  <2>2. ~(dirty /\ Due(l))
    BY <1>1 DEF Due, Range, PlaceOf
  <2>3. /\ Active(l)' <=> Active(l)
        /\ \A p : Ahead(p, l)' <=> Ahead(p, l)
    BY <1>1 DEF Active, Ahead, News, Failed, Resolvable
  <2>. QED
    BY <1>1, <2>1, <2>2, <2>3 DEF Answering
<1>. QED
  BY <1>4, <1>5, <1>6, <1>7, <1>8 DEF LayersInv


\* A pass is at a download of a level.
LEMMA PassFacts ==
    ASSUME LayersInv, NEW p \in passes
    PROVE  /\ p \in Pass /\ p.todo \in Seq(Item) /\ p.todo # <<>>
           /\ LevelOf(p) \in LayerLevels /\ JobOf(p) \in Jobs /\ JobOf(p)[1] = LevelOf(p)
           /\ p.todo[1].job = JobOf(p) /\ p.todo[1].job[1] = LevelOf(p)
           /\ job[JobOf(p)].phase \in {"success", "freed"}
           /\ Over(p.todo) /\ p.todo[1].status = "success"
           /\ p.had \/ p.at = "draw" => metadata[LevelOf(p)] # 0
           /\ Tail(p.todo) \in Seq(Item) /\ Range(Tail(p.todo)) \subseteq Range(p.todo)
           /\ \A n \in DOMAIN p.todo : n # 1 =>
                n - 1 \in DOMAIN Tail(p.todo) /\ Tail(p.todo)[n - 1] = p.todo[n]
           /\ \A n \in DOMAIN p.todo : p.todo[n].job[1] \in LayerLevels
<1>1. p \in Pass /\ p.todo \in Seq(Item) /\ p.todo # <<>>
  BY DEF LayersInv, LayersTyped, PassesTyped, Pass
<1>2. /\ Over(p.todo) /\ p.todo[1].status = "success"
      /\ p.had \/ p.at = "draw" => metadata[LevelOf(p)] # 0
  BY DEF LayersInv, PassesStand
<1>3. /\ Tail(p.todo) \in Seq(Item) /\ Len(Tail(p.todo)) = Len(p.todo) - 1
      /\ \A i \in 1 .. Len(Tail(p.todo)) : Tail(p.todo)[i] = p.todo[i + 1]
  BY <1>1, HeadTailProperties
<1>4. /\ Len(p.todo) \in Nat /\ DOMAIN p.todo = 1 .. Len(p.todo) /\ Len(p.todo) # 0
      /\ DOMAIN Tail(p.todo) = 1 .. Len(Tail(p.todo))
      /\ \A n \in DOMAIN p.todo : p.todo[n] \in Item /\ p.todo[n] \in Range(p.todo)
  BY <1>1, <1>3, ListFacts, EmptySeq
<1>5. 1 \in DOMAIN p.todo /\ Head(p.todo) = p.todo[1] /\ p.todo[1] \in Item
  BY <1>1, <1>4
<1>6. /\ p.todo[1].job = JobOf(p) /\ p.todo[1].job[1] = LevelOf(p) /\ JobOf(p)[1] = LevelOf(p)
      /\ JobOf(p) \in Jobs /\ LevelOf(p) \in LayerLevels
  BY <1>5, ItemFacts DEF JobOf, LevelOf
<1>7. job[JobOf(p)].phase \in {"success", "freed"}
  BY <1>2, <1>4, <1>5, <1>6 DEF Over
<1>8. \A n \in DOMAIN p.todo : n # 1 =>
            n - 1 \in DOMAIN Tail(p.todo) /\ Tail(p.todo)[n - 1] = p.todo[n]
  BY <1>3, <1>4
<1>9. Range(Tail(p.todo)) \subseteq Range(p.todo)
  <2>1. ASSUME NEW i \in DOMAIN Tail(p.todo) PROVE Tail(p.todo)[i] \in Range(p.todo)
    BY <1>3, <1>4
  <2>. QED
    BY <2>1 DEF Range
<1>10. \A n \in DOMAIN p.todo : p.todo[n].job[1] \in LayerLevels
  BY <1>4, ItemFacts
<1>. QED
  BY <1>1, <1>2, <1>3, <1>6, <1>7, <1>8, <1>9, <1>10

\* What a step of a pass leaves of the other levels.
ElsewhereSame(l) ==
    \A m \in LayerLevels \ {l} : metadata'[m] = metadata[m] /\ stored'[m] = stored[m]

LEMMA PassKeeps ==
    ASSUME LayersInv, NEW p \in passes,
           UNCHANGED <<modal, modalIsOpen, downloads, reading, synced, clicks>>,
           CacheTyped', CachedIsStored', BoxesTyped', ElsewhereSame(LevelOf(p)),
           UNCHANGED <<metadata, stored>> \/ metadata'[LevelOf(p)] # 0,
           job' = job \/ job' = [job EXCEPT ![JobOf(p)].phase = "freed"],
           dirty' \in BOOLEAN, dirty => dirty',
           lost \subseteq lost', lost' \subseteq LayerLevels,
           passes \ {p} \subseteq passes', passes' \subseteq Pass,
           \A q \in passes' \ passes :
                /\ Over(q.todo) /\ q.todo[1].status = "success"
                /\ q.had \/ q.at = "draw" => metadata'[LevelOf(q)] # 0,
           \A l \in LayerLevels : box'[l] = "loading" => box[l] = "loading",
           box'[LevelOf(p)] = "loading" =>
                \/ reading[<<LevelOf(p), "metadata">>] > 0
                \/ LevelOf(p) \in lost' /\ UNCHANGED <<metadata, stored>>,
           \A l \in LayerLevels \ {LevelOf(p)} :
                box'[l] = "loading" /\ Ahead(p, l) /\ metadata[l] = 0 =>
                    l \in lost' \/ \E q \in passes' : Ahead(q, l)
    PROVE  LayersInv'
<1>. DEFINE h == LevelOf(p)
<1>1. /\ LayersTyped /\ job \in [Jobs -> JobState] /\ downloads \in Seq(Item)
      /\ passes \subseteq Pass /\ h \in LayerLevels /\ JobOf(p) \in Jobs /\ JobOf(p)[1] = h
      /\ job[JobOf(p)].phase \in {"success", "freed"}
  BY PassFacts DEF LayersInv, LayersTyped, DownloadsTyped, PassesTyped
<1>2. /\ job' \in [Jobs -> JobState]
      /\ \A j \in Jobs :
            /\ j # JobOf(p) => job'[j] = job[j]
            /\ job'[j].timer = job[j].timer
            /\ job'[j].phase = job[j].phase \/ (j[1] = h /\ job'[j].phase = "freed"
                                                /\ job[j].phase \in {"success", "freed"})
  <2>1. CASE job' = job
    BY <1>1, <2>1
  <2>2. CASE job' = [job EXCEPT ![JobOf(p)].phase = "freed"]
    <3>1. [job[JobOf(p)] EXCEPT !.phase = "freed"] \in JobState
      BY <1>1 DEF JobState
    <3>2. /\ [job[JobOf(p)] EXCEPT !.phase = "freed"].phase = "freed"
          /\ [job[JobOf(p)] EXCEPT !.phase = "freed"].timer = job[JobOf(p)].timer
      BY <1>1 DEF JobState
    <3>. QED
      BY <1>1, <2>2, <3>1, <3>2
  <2>. QED
    BY <2>1, <2>2
<1>3. LayersTyped'
  BY <1>1, <1>2 DEF LayersTyped, ReadingTyped, ModalTyped, DownloadsTyped, PassesTyped
<1>4. TimersRun'
  <2> SUFFICES ASSUME NEW j \in Jobs, job'[j].timer PROVE job'[j].phase \in {"read", "failed"}
    BY DEF TimersRun
  <2>1. job[j].phase \in {"read", "failed"}
    BY <1>2 DEF LayersInv, TimersRun
  <2>. QED
    BY <1>2, <2>1
<1>5. ItemsTold'
  <2> SUFFICES ASSUME NEW x \in Range(downloads) PROVE job'[x.job].phase \in PhaseOf(x.status)
    BY DEF ItemsTold
  <2>1. x.job \in Jobs /\ job[x.job].phase \in PhaseOf(x.status)
    BY <1>1, ListFacts, ItemFacts DEF LayersInv, ItemsTold
  <2>2. x.status \in {"idle", "downloading", "success", "failed"}
    BY <1>1, ListFacts, ItemFacts
  <2>3. job[x.job].phase \in {"success", "freed"} => x.status = "success"
    BY <2>1, <2>2 DEF PhaseOf
  <2>. QED
    BY <1>2, <2>1, <2>3 DEF PhaseOf
<1>6. \A j \in Jobs : job'[j].phase # "none" => job[j].phase # "none"
  BY <1>2
<1>7. \A l \in LayerLevels : Known(l) => Known(l)'
  BY DEF Known, ElsewhereSame
<1>8. LevelsKnown'
  BY <1>6, <1>7 DEF LayersInv, LevelsKnown, Begun
<1>9. PassesStand'
  <2> SUFFICES ASSUME NEW q \in passes'
               PROVE  /\ Over(q.todo)' /\ q.todo[1].status = "success"
                      /\ q.had \/ q.at = "draw" => metadata'[LevelOf(q)] # 0
    BY DEF PassesStand, LevelOf
  <2>1. /\ Over(q.todo) /\ q.todo[1].status = "success"
        /\ q.had \/ q.at = "draw" => metadata'[LevelOf(q)] # 0
    <3>1. CASE q \in passes
      <4>1. LevelOf(q) \in LayerLevels /\ Over(q.todo) /\ q.todo[1].status = "success"
        BY <3>1, PassFacts
      <4>2. q.had \/ q.at = "draw" => metadata[LevelOf(q)] # 0
        BY <3>1, PassFacts
      <4>. QED
        BY <4>1, <4>2 DEF ElsewhereSame
    <3>2. CASE q \notin passes
      BY <3>2
    <3>. QED
      BY <3>1, <3>2
  <2>2. Over(q.todo)'
    <3> SUFFICES ASSUME NEW x \in Range(q.todo), x.status = "success"
                 PROVE  job'[x.job].phase \in {"success", "freed"}
      BY DEF Over
    <3>1. x.job \in Jobs
      BY ListFacts, ItemFacts DEF Pass
    <3>2. job[x.job].phase \in {"success", "freed"}
      BY <2>1 DEF Over
    <3>. QED
      BY <1>2, <3>1, <3>2
  <2>. QED
    BY <2>1, <2>2
<1>10. LoadingUncached'
  <2> SUFFICES ASSUME NEW l \in LayerLevels, box'[l] = "loading",
                      ~(reading[<<l, "metadata">>] > 0)
               PROVE  metadata'[l] = 0 /\ stored'[l].version = 0
    BY DEF LoadingUncached
  <2>1. metadata[l] = 0 /\ stored[l].version = 0
    BY DEF LayersInv, LoadingUncached
  <2>2. CASE l = h
    BY <2>1, <2>2
  <2>3. CASE l # h
    BY <2>1, <2>3 DEF ElsewhereSame
  <2>. QED
    BY <2>2, <2>3
<1>11. LoadingIsAnswered'
  <2> SUFFICES ASSUME NEW l \in LayerLevels, box'[l] = "loading", l \notin lost',
                      ~(reading[<<l, "metadata">>] > 0)
               PROVE  Answering(l)'
    BY LoadingNext DEF Answering
  <2>1. l # h /\ l \notin lost /\ box[l] = "loading"
    OBVIOUS
  <2>2. /\ metadata[l] = 0
        /\ Active(l) \/ (\E q \in passes : Ahead(q, l)) \/ (dirty /\ Due(l))
    BY <2>1, LoadingNow
  <2>3. \A x \in Item : x.job[1] = l /\ News(x) => News(x)'
    <3> SUFFICES ASSUME NEW x \in Item, x.job[1] = l, News(x) PROVE News(x)'
      OBVIOUS
    <3>1. job'[x.job].phase = job[x.job].phase
      BY <1>2, <2>1, ItemFacts
    <3>. QED
      BY <3>1, NewsKept
  <2>4. CASE Active(l)
    <3>1. PICK k \in Jobs : k[1] = l /\ job[k].phase \in {"fetch", "read"}
      BY <2>4 DEF Active
    <3>2. job'[k].phase \in {"fetch", "read"}
      BY <1>2, <3>1
    <3>. QED
      BY <3>1, <3>2 DEF Active, Answering
  <2>5. CASE \E q \in passes : Ahead(q, l)
    <3>1. PICK q \in passes' : Ahead(q, l)
      BY <2>1, <2>2, <2>5
    <3>2. Ahead(q, l)'
      BY <2>3, <3>1, AheadKept
    <3>. QED
      BY <3>2 DEF Answering
  <2>6. CASE dirty /\ Due(l)
    <3>1. PICK x \in Range(downloads) : x.job[1] = l /\ News(x)
      BY <2>6 DEF Due
    <3>2. News(x)'
      BY <1>1, <2>3, <3>1, ListFacts
    <3>. QED
      BY <2>6, <3>1, <3>2 DEF Due, Answering
  <2>. QED
    BY <2>2, <2>4, <2>5, <2>6
<1>. QED
  BY <1>3, <1>4, <1>5, <1>8, <1>9, <1>10, <1>11 DEF LayersInv


\* A download that succeeds has every line of the file, whichever of the two
\* forms the file has: the line left in the buffer at its end is counted in.
LEMMA FeaturesAreLines == ASSUME NEW l \in LayerLevels PROVE Features(l) = Lines[l]
<1>1. Lines[l] \in Nat \ {0}
  BY LayersAssumption
<1>. QED
  BY <1>1 DEF Features, Parsed

LEMMA CachedFacts ==
    ASSUME LayersInv, NEW l \in LayerLevels, Cached(l)
    PROVE  CacheTyped' /\ CachedIsStored' /\ ElsewhereSame(l) /\ metadata'[l] # 0
<1>1. /\ metadata' = [metadata EXCEPT ![l] = 2]
      /\ stored' = [stored EXCEPT ![l] = [version |-> 2, lines |-> Lines[l]]]
  BY FeaturesAreLines DEF Cached
<1>2. Lines[l] \in Nat /\ [version |-> 2, lines |-> Lines[l]] \in [version : Versions, lines : Nat]
  BY LayersAssumption DEF Versions
<1>3. /\ metadata \in [LayerLevels -> Versions]
      /\ stored \in [LayerLevels -> [version : Versions, lines : Nat]]
  BY LayersFacts DEF CacheTyped
<1>4. CacheTyped'
  BY <1>1, <1>2, <1>3, LayersFacts DEF CacheTyped, Versions
<1>5. ASSUME NEW m \in LayerLevels
      PROVE  /\ metadata'[m] # 0 => stored'[m].version >= metadata'[m]
             /\ stored'[m].version # 0 => stored'[m].lines = Lines[m]
  <2>1. CASE m = l
    BY <1>1, <1>3, <2>1
  <2>2. CASE m # l
    BY <1>1, <1>3, <2>2, LayersFacts DEF CachedIsStored
  <2>. QED
    BY <2>1, <2>2
<1>6. ElsewhereSame(l) /\ metadata'[l] = 2
  BY <1>1, <1>3 DEF ElsewhereSame
<1>. QED
  BY <1>4, <1>5, <1>6 DEF CachedIsStored

\* A pass that goes on: what it has ahead stays ahead, of a pass over its rest,
\* or is seen on the way.
LEMMA GoOnFacts ==
    ASSUME LayersInv, NEW p \in passes, GoOn(p), metadata[LevelOf(p)] # 0,
           \A m \in LayerLevels : metadata[m] # 0 => metadata'[m] # 0
    PROVE  /\ box' \in [LayerLevels -> {"off", "loading", "on"}]
           /\ job' = [job EXCEPT ![JobOf(p)].phase = "freed"]
           /\ UNCHANGED <<layer, lost>>
           /\ passes \ {p} \subseteq passes' /\ passes' \subseteq Pass
           /\ \A q \in passes' \ passes :
                /\ Over(q.todo) /\ q.todo[1].status = "success"
                /\ q.had \/ q.at = "draw" => metadata'[LevelOf(q)] # 0
           /\ \A l \in LayerLevels : box'[l] = "loading" => box[l] = "loading"
           /\ box'[LevelOf(p)] = "loading" => reading[<<LevelOf(p), "metadata">>] > 0
           /\ \A l \in LayerLevels \ {LevelOf(p)} :
                box'[l] = "loading" /\ Ahead(p, l) /\ metadata[l] = 0 =>
                    \E q \in passes' : Ahead(q, l)
<1>. DEFINE rest == Tail(p.todo)
<1>1. /\ job' = [job EXCEPT ![JobOf(p)].phase = "freed"] /\ UNCHANGED <<layer, lost>>
      /\ box' = Unchecked(rest, box) /\ passes' = (passes \ {p}) \cup PassAt(rest)
  BY DEF GoOn
<1>2. /\ rest \in Seq(Item) /\ Range(rest) \subseteq Range(p.todo) /\ Over(p.todo)
      /\ LevelOf(p) \in LayerLevels /\ p.todo[1].job[1] = LevelOf(p)
      /\ \A n \in DOMAIN p.todo : n # 1 =>
            n - 1 \in DOMAIN rest /\ rest[n - 1] = p.todo[n]
  BY PassFacts
<1>. HIDE DEF rest
<1>3. /\ box \in [LayerLevels -> {"off", "loading", "on"}] /\ CacheTyped /\ passes \subseteq Pass
  BY LayersFacts DEF BoxesTyped, PassesTyped
<1>4. /\ box' \in [LayerLevels -> {"off", "loading", "on"}]
      /\ \A l \in LayerLevels : box'[l] = "loading" => box[l] = "loading"
  BY <1>1, <1>3, UncheckedFacts
<1>5. ASSUME NEW q \in PassAt(rest)
      PROVE  /\ q \in Pass /\ Over(q.todo) /\ q.todo[1].status = "success"
             /\ q.had \/ q.at = "draw" => metadata'[LevelOf(q)] # 0
  <2>1. /\ q \in Pass /\ q.at = "store" /\ Range(q.todo) \subseteq Range(rest)
        /\ q.had <=> metadata[LevelOf(q)] # 0
        /\ q.todo[1].status = "success"
    BY <1>2, <1>3, PassAtFacts
  <2>2. LevelOf(q) \in LayerLevels
    BY <2>1, HeadTailProperties, ItemFacts DEF LevelOf, Pass
  <2>3. Over(q.todo)
    BY <1>2, <2>1 DEF Over
  <2>. QED
    BY <2>1, <2>2, <2>3
<1>6. box'[LevelOf(p)] = "loading" => reading[<<LevelOf(p), "metadata">>] > 0
  BY <1>2, <1>4 DEF LayersInv, LoadingUncached
<1>7. ASSUME NEW l \in LayerLevels, l # LevelOf(p), box'[l] = "loading", Ahead(p, l),
             metadata[l] = 0
      PROVE  \E q \in passes' : Ahead(q, l)
  <2>1. PICK n \in DOMAIN p.todo : p.todo[n].job[1] = l /\ News(p.todo[n])
    BY <1>7 DEF Ahead
  <2>2. n - 1 \in DOMAIN rest /\ rest[n - 1].job[1] = l /\ News(rest[n - 1])
    BY <1>2, <1>7, <2>1
  <2>3. PICK q \in PassAt(rest) : Ahead(q, l)
    BY <1>1, <1>2, <1>3, <1>7, <2>2, SeenOrAhead
  <2>. QED
    BY <1>1, <2>3
<1>. QED
  BY <1>1, <1>3, <1>4, <1>5, <1>6, <1>7

\* A pass that ends with an error loses what it had left.
LEMMA RejectedFacts ==
    ASSUME LayersInv, NEW p \in passes, Rejected(p)
    PROVE  /\ job' = job /\ layer' = layer
           /\ lost \subseteq lost' /\ lost' \subseteq LayerLevels /\ LevelOf(p) \in lost'
           /\ passes \ {p} \subseteq passes' /\ passes' \subseteq passes
           /\ \A l \in LayerLevels : Ahead(p, l) => l \in lost'
<1>1. /\ passes' = passes \ {p} /\ UNCHANGED <<job, layer>>
      /\ lost' = lost \cup {p.todo[n].job[1] : n \in DOMAIN p.todo}
  BY DEF Rejected
<1>2. /\ \A n \in DOMAIN p.todo : p.todo[n].job[1] \in LayerLevels
      /\ p.todo \in Seq(Item) /\ p.todo # <<>> /\ p.todo[1].job[1] = LevelOf(p)
  BY PassFacts
<1>3. 1 \in DOMAIN p.todo
  BY <1>2, ListFacts, EmptySeq
<1>4. lost' \subseteq LayerLevels
  BY <1>1, <1>2, LayersFacts DEF PassesTyped
<1>5. \A l \in LayerLevels : Ahead(p, l) => l \in lost'
  BY <1>1 DEF Ahead
<1>. QED
  BY <1>1, <1>2, <1>3, <1>4, <1>5

LEMMA StoreKeeps ==
    ASSUME LayersInv, NEW p \in passes, Store(p)
    PROVE  LayersInv'
<1>. DEFINE h == LevelOf(p)
            checked == IF p.had THEN box ELSE [box EXCEPT ![h] = "on"]
<1>1. /\ Cached(h) /\ dirty' = TRUE
      /\ UNCHANGED <<modal, modalIsOpen, downloads, reading, synced, clicks>>
      /\ h \in LayerLevels /\ p \in Pass
      /\ p.had \/ p.at = "draw" => metadata[h] # 0
  BY PassFacts DEF Store
<1>2. CacheTyped' /\ CachedIsStored' /\ ElsewhereSame(h) /\ metadata'[h] # 0
  BY <1>1, CachedFacts
<1>3. \A m \in LayerLevels : metadata[m] # 0 => metadata'[m] # 0
  BY <1>2 DEF ElsewhereSame
<1>4. /\ box \in [LayerLevels -> {"off", "loading", "on"}]
      /\ layer \in [LayerLevels -> BOOLEAN] /\ passes \subseteq Pass /\ lost \subseteq LayerLevels
  BY LayersFacts DEF BoxesTyped, PassesTyped
<1>5. /\ checked \in [LayerLevels -> {"off", "loading", "on"}]
      /\ \A l \in LayerLevels : checked[l] = "loading" => box[l] = "loading"
      /\ checked[h] = "loading" => p.had
  BY <1>1, <1>4
<1>6. checked[h] = "loading" => reading[<<h, "metadata">>] > 0
  BY <1>1, <1>5 DEF LayersInv, LoadingUncached
<1>7. \/ /\ layer' = [layer EXCEPT ![h] = TRUE] /\ box' = checked
         /\ passes' = (passes \ {p}) \cup {[p EXCEPT !.at = "draw"]}
         /\ UNCHANGED <<job, lost>>
      \/ Rejected(p) /\ box' = checked
      \/ p.had /\ GoOn(p)
  BY DEF Store
<1>. HIDE DEF checked
<1>8. CASE /\ layer' = [layer EXCEPT ![h] = TRUE] /\ box' = checked
           /\ passes' = (passes \ {p}) \cup {[p EXCEPT !.at = "draw"]}
           /\ UNCHANGED <<job, lost>>
  <2>. DEFINE q == [p EXCEPT !.at = "draw"]
  <2>1. q \in Pass /\ q.todo = p.todo /\ q.had = p.had /\ q.at = "draw"
    BY <1>1 DEF Pass
  <2>2. LevelOf(q) = h
    BY <2>1 DEF LevelOf
  <2>. HIDE DEF q
  <2>3. passes' = (passes \ {p}) \cup {q}
    BY <1>8 DEF q
  <2>4. Over(q.todo) /\ q.todo[1].status = "success" /\ metadata'[LevelOf(q)] # 0
    BY <1>2, <2>1, <2>2, PassFacts
  <2>5. \A l \in LayerLevels \ {h} : Ahead(p, l) => Ahead(q, l)
    <3> SUFFICES ASSUME NEW l \in LayerLevels \ {h}, Ahead(p, l) PROVE Ahead(q, l)
      OBVIOUS
    <3>1. PICK n \in DOMAIN p.todo : p.todo[n].job[1] = l /\ News(p.todo[n])
      BY DEF Ahead
    <3>2. n # 1
      BY <3>1, PassFacts
    <3>. QED
      BY <2>1, <3>1, <3>2 DEF Ahead
  <2>6. BoxesTyped'
    BY <1>1, <1>4, <1>5, <1>8 DEF BoxesTyped
  <2>7. /\ passes \ {p} \subseteq passes' /\ passes' \subseteq Pass /\ q \in passes'
        /\ \A r \in passes' \ passes : r = q
    BY <1>4, <2>1, <2>3
  <2>. QED
    BY <1>1, <1>2, <1>4, <1>5, <1>6, <1>8, <2>4, <2>5, <2>6, <2>7, PassKeeps
<1>9. CASE Rejected(p) /\ box' = checked
  <2>1. BoxesTyped'
    BY <1>4, <1>5, <1>9, RejectedFacts DEF BoxesTyped
  <2>. QED
    BY <1>1, <1>2, <1>4, <1>5, <1>6, <1>9, <2>1, RejectedFacts, PassKeeps
<1>10. CASE p.had /\ GoOn(p)
  <2>1. metadata[h] # 0
    BY <1>1, <1>10
  <2>2. /\ box' \in [LayerLevels -> {"off", "loading", "on"}]
        /\ job' = [job EXCEPT ![JobOf(p)].phase = "freed"]
        /\ UNCHANGED <<layer, lost>>
        /\ passes \ {p} \subseteq passes' /\ passes' \subseteq Pass
        /\ \A q \in passes' \ passes :
             /\ Over(q.todo) /\ q.todo[1].status = "success"
             /\ q.had \/ q.at = "draw" => metadata'[LevelOf(q)] # 0
        /\ \A l \in LayerLevels : box'[l] = "loading" => box[l] = "loading"
        /\ box'[h] = "loading" => reading[<<h, "metadata">>] > 0
        /\ \A l \in LayerLevels \ {h} :
             box'[l] = "loading" /\ Ahead(p, l) /\ metadata[l] = 0 =>
                 \E q \in passes' : Ahead(q, l)
    BY <1>3, <1>10, <2>1, GoOnFacts
  <2>3. BoxesTyped'
    BY <1>4, <2>2 DEF BoxesTyped
  <2>. QED
    BY <1>1, <1>2, <1>4, <2>2, <2>3, PassKeeps
<1>. QED
  BY <1>7, <1>8, <1>9, <1>10

\* The steps of a pass that store nothing.
LEMMA OtherPassKeeps ==
    ASSUME LayersInv, NEW p \in passes, Refuse(p) \/ Fitted(p) \/ DrawTimeout(p)
    PROVE  LayersInv'
<1>. DEFINE h == LevelOf(p)
<1>1. /\ UNCHANGED <<stored, metadata, modal, modalIsOpen, downloads, reading, synced, clicks>>
      /\ h \in LayerLevels /\ p.at = "draw" => metadata[h] # 0
  BY PassFacts DEF Refuse, Fitted, DrawTimeout
<1>2. CacheTyped' /\ CachedIsStored' /\ ElsewhereSame(h)
  BY <1>1, LayersFacts DEF CacheTyped, CachedIsStored, ElsewhereSame
<1>3. /\ box \in [LayerLevels -> {"off", "loading", "on"}] /\ dirty \in BOOLEAN
      /\ layer \in [LayerLevels -> BOOLEAN] /\ passes \subseteq Pass /\ lost \subseteq LayerLevels
  BY LayersFacts DEF BoxesTyped, PassesTyped
<1>4. CASE Rejected(p) /\ UNCHANGED <<box, dirty>>
  <2>1. BoxesTyped'
    BY <1>3, <1>4, RejectedFacts DEF BoxesTyped
  <2>. QED
    BY <1>1, <1>2, <1>3, <1>4, <2>1, RejectedFacts, PassKeeps
<1>5. CASE Fitted(p)
  <2>1. /\ GoOn(p) /\ dirty' \in BOOLEAN /\ (dirty => dirty') /\ metadata[h] # 0
    BY <1>1, <1>3, <1>5, PassFacts DEF Fitted
  <2>2. /\ box' \in [LayerLevels -> {"off", "loading", "on"}]
        /\ job' = [job EXCEPT ![JobOf(p)].phase = "freed"]
        /\ UNCHANGED <<layer, lost>>
        /\ passes \ {p} \subseteq passes' /\ passes' \subseteq Pass
        /\ \A q \in passes' \ passes :
             /\ Over(q.todo) /\ q.todo[1].status = "success"
             /\ q.had \/ q.at = "draw" => metadata'[LevelOf(q)] # 0
        /\ \A l \in LayerLevels : box'[l] = "loading" => box[l] = "loading"
        /\ box'[h] = "loading" => reading[<<h, "metadata">>] > 0
        /\ \A l \in LayerLevels \ {h} :
             box'[l] = "loading" /\ Ahead(p, l) /\ metadata[l] = 0 =>
                 \E q \in passes' : Ahead(q, l)
    BY <1>1, <2>1, GoOnFacts
  <2>3. BoxesTyped'
    BY <1>3, <2>2 DEF BoxesTyped
  <2>. QED
    BY <1>1, <1>2, <1>3, <2>1, <2>2, <2>3, PassKeeps
<1>. QED
  BY <1>4, <1>5 DEF Refuse, DrawTimeout

LEMMA LayersKeep == LayersInv /\ [LayersNext]_layers => LayersInv'
<1> SUFFICES ASSUME LayersInv, [LayersNext]_layers PROVE LayersInv'
    OBVIOUS
<1>1. CASE UNCHANGED layers
  <2>1. /\ UNCHANGED <<page, downloads, job, passes>>
        /\ UNCHANGED <<metadata, box, layer, reading, modal, modalIsOpen, clicks, synced, dirty>>
        /\ stored' = stored
    BY <1>1 DEF layers, page
  <2>2. /\ CacheTyped' /\ BoxesTyped' /\ ReadingTyped' /\ ModalTyped'
        /\ CachedIsStored' /\ LevelsKnown'
    BY <2>1, LayersFacts DEF CacheTyped, BoxesTyped, ReadingTyped, ModalTyped, CachedIsStored,
                             LevelsKnown, Known, Begun
  <2>. QED
    BY <2>1, <2>2, LayersFacts, QuietKeeps
<1>2. CASE LayersNext
  <2>1. CASE Reload \/ Sync \/ Effects \/ LeavePage
    BY <2>1, ReloadKeeps, SyncKeeps, EffectsKeep, LeavePageKeeps
  <2>2. ASSUME NEW l \in LayerLevels,
               MetadataRead(l) \/ GeojsonRead(l) \/ ClickBox(l) \/ ClickPill(l)
        PROVE  LayersInv'
    BY <2>2, MetadataReadKeeps, GeojsonReadKeeps, ClicksKeep
  <2>3. ASSUME NEW j \in Jobs, Downloads(j) PROVE LayersInv'
    BY <2>3, DownloadsKeep
  <2>4. ASSUME NEW p \in passes, PassStep(p) PROVE LayersInv'
    BY <2>4, StoreKeeps, OtherPassKeeps DEF PassStep
  <2>5. ASSUME NEW confirmed \in BOOLEAN, CloseModal(confirmed) PROVE LayersInv'
    BY <2>5, CloseModalKeeps
  <2>6. ASSUME NEW L \in SUBSET LayerLevels, ClickDownload(L) PROVE LayersInv'
    BY <2>6, ClickDownloadKeeps
  <2>. QED
    BY <1>2, <2>1, <2>2, <2>3, <2>4, <2>5, <2>6 DEF LayersNext
<1>. QED
  BY <1>1, <1>2
-----------------------------------------------------------------------------
(* The pins                                                                *)

IdsDiffer ==
    \A i, k \in DOMAIN pinnedLocations :
        pinnedLocations[i].id = pinnedLocations[k].id => i = k

\* What the sequences' operators do, entry by entry.
LEMMA RemoveAtFacts ==
    ASSUME NEW E, NEW s \in Seq(E), NEW i \in DOMAIN s
    PROVE  /\ RemoveAt(s, i) \in Seq(E)
           /\ Len(RemoveAt(s, i)) = Len(s) - 1
           /\ \A k \in 1 .. Len(s) - 1 :
                RemoveAt(s, i)[k] = IF k < i THEN s[k] ELSE s[k + 1]
<1>. DEFINE a == SubSeq(s, 1, i - 1)
            b == SubSeq(s, i + 1, Len(s))
<1>1. Len(s) \in Nat /\ i \in 1 .. Len(s)
  OBVIOUS
<1>2. a \in Seq(E) /\ Len(a) = i - 1 /\ \A k \in 1 .. i - 1 : a[k] = s[k]
  BY <1>1
<1>3. b \in Seq(E) /\ Len(b) = Len(s) - i /\ \A k \in 1 .. Len(s) - i : b[k] = s[i + k]
  BY <1>1
<1>4. RemoveAt(s, i) = a \o b
  BY DEF RemoveAt
<1>. HIDE DEF a, b
<1>5. RemoveAt(s, i) \in Seq(E) /\ Len(RemoveAt(s, i)) = Len(s) - 1
  BY <1>1, <1>2, <1>3, <1>4
<1>6. ASSUME NEW k \in 1 .. Len(s) - 1
      PROVE  RemoveAt(s, i)[k] = IF k < i THEN s[k] ELSE s[k + 1]
  <2>1. CASE k < i
    BY <1>1, <1>2, <1>3, <1>4, <2>1
  <2>2. CASE ~(k < i)
    <3>1. (a \o b)[k] = b[k - (i - 1)]
      BY <1>1, <1>2, <1>3, <2>2
    <3>2. b[k - (i - 1)] = s[i + (k - (i - 1))]
      BY <1>1, <1>3, <2>2
    <3>3. i + (k - (i - 1)) = k + 1
      BY <1>1
    <3>. QED
      BY <1>4, <2>2, <3>1, <3>2, <3>3
  <2>. QED
    BY <2>1, <2>2
<1>. QED
  BY <1>5, <1>6

LEMMA ConcatFacts ==
    ASSUME NEW E, NEW a \in Seq(E), NEW b \in Seq(E)
    PROVE  a \o b \in Seq(E) /\ Len(a \o b) = Len(a) + Len(b)
OBVIOUS

LEMMA InsertAtFacts ==
    ASSUME NEW E, NEW s \in Seq(E), NEW i \in 1 .. Len(s) + 1, NEW e \in E
    PROVE  /\ InsertAt(s, i, e) \in Seq(E)
           /\ Len(InsertAt(s, i, e)) = Len(s) + 1
           /\ \A k \in 1 .. Len(s) + 1 :
                InsertAt(s, i, e)[k] = IF k < i THEN s[k] ELSE IF k = i THEN e ELSE s[k - 1]
<1>. DEFINE a == SubSeq(s, 1, i - 1)
            b == SubSeq(s, i, Len(s))
<1>1. Len(s) \in Nat
  OBVIOUS
<1>2. a \in Seq(E) /\ Len(a) = i - 1 /\ \A k \in 1 .. i - 1 : a[k] = s[k]
  BY <1>1
<1>3. /\ b \in Seq(E) /\ Len(b) = Len(s) - i + 1
      /\ \A k \in 1 .. Len(s) - i + 1 : b[k] = s[i + k - 1]
  BY <1>1
<1>. DEFINE c == a \o <<e>>
<1>4. InsertAt(s, i, e) = c \o b
  BY DEF InsertAt
<1>. HIDE DEF a, b
<1>5. /\ c \in Seq(E) /\ Len(c) = i
      /\ \A k \in 1 .. i : c[k] = IF k < i THEN s[k] ELSE e
  BY <1>1, <1>2
<1>. HIDE DEF c
<1>6. InsertAt(s, i, e) \in Seq(E) /\ Len(InsertAt(s, i, e)) = Len(s) + 1
  <2>1. c \o b \in Seq(E) /\ Len(c \o b) = Len(c) + Len(b)
    BY <1>3, <1>5, ConcatFacts
  <2>2. Len(c) + Len(b) = Len(s) + 1
    BY <1>1, <1>3, <1>5
  <2>. QED
    BY <1>4, <2>1, <2>2
<1>7. ASSUME NEW k \in 1 .. Len(s) + 1
      PROVE  InsertAt(s, i, e)[k] = IF k < i THEN s[k] ELSE IF k = i THEN e ELSE s[k - 1]
  <2>1. CASE k <= i
    <3>1. (c \o b)[k] = c[k]
      BY <1>1, <1>3, <1>5, <2>1
    <3>. QED
      BY <1>1, <1>4, <1>5, <2>1, <3>1
  <2>2. CASE k > i
    <3>1. (c \o b)[k] = b[k - i]
      BY <1>1, <1>3, <1>5, <2>2
    <3>2. k - i \in 1 .. Len(s) - i + 1
      BY <1>1, <2>2
    <3>3. b[k - i] = s[i + (k - i) - 1]
      BY <1>3, <3>2
    <3>4. i + (k - i) - 1 = k - 1
      BY <1>1
    <3>. QED
      BY <1>4, <2>2, <3>1, <3>3, <3>4
  <2>. QED
    BY <1>1, <2>1, <2>2
<1>. QED
  BY <1>6, <1>7

LEMMA ExceptFacts ==
    ASSUME NEW E, NEW s \in Seq(E), NEW i \in DOMAIN s, NEW e \in E
    PROVE  [s EXCEPT ![i] = e] \in Seq(E)
<1>1. [s EXCEPT ![i] = e] \in [1 .. Len(s) -> E]
  OBVIOUS
<1>2. Len(s) \in Nat
  OBVIOUS
<1>. QED
  BY <1>1, <1>2

\* A pin is found where it is, and nowhere else.
LEMMA IndexFacts ==
    ASSUME PinsTypeOK, IdsDiffer, NEW p \in Pins
    PROVE  /\ IndexOfPin(p) \in 0 .. Len(pinnedLocations)
           /\ Pinned(p) => /\ IndexOfPin(p) \in DOMAIN pinnedLocations
                           /\ pinnedLocations[IndexOfPin(p)].id = p
           /\ \A i \in DOMAIN pinnedLocations :
                pinnedLocations[i].id = p => IndexOfPin(p) = i
<1>. DEFINE I == {i \in 1 .. Len(pinnedLocations) : pinnedLocations[i].id = p}
<1>1. IndexOfPin(p) = IF I # {} THEN Min(I) ELSE 0
  BY DEF IndexOfPin, SelectInSeq
<1>2. DOMAIN pinnedLocations = 1 .. Len(pinnedLocations)
  BY DEF PinsTypeOK
<1>3. Len(pinnedLocations) \in Nat
  BY DEF PinsTypeOK
<1>4. ASSUME NEW i \in I PROVE I = {i}
  BY <1>2, <1>4 DEF IdsDiffer
<1>5. ASSUME NEW i \in I PROVE IndexOfPin(p) = i
  <2>1. Min({i}) = i
    BY <1>3 DEF Min
  <2>. QED
    BY <1>1, <1>4, <2>1
<1>. QED
  BY <1>1, <1>2, <1>3, <1>5 DEF Pinned

\* A pin there has never been has no request and no effect that ran.
NotAdded ==
    \A p \in Pins \ added :
        finds[p] = <<>> /\ effected[p] = [at |-> Nowhere, marked |-> FALSE]

\* A request is made under a configuration with geometries.
FindsConfigured == \A p \in Pins : finds[p] # <<>> => pinConfig = "hasGeojson"

\* A request asks for a spot of its pin; the last one for where the effect ran.
FindsAsked ==
    \A p \in Pins :
        /\ \A n \in DOMAIN finds[p] : finds[p][n].at \in SpotsOf[p]
        /\ finds[p] # <<>> /\ p \notin overtaken =>
                finds[p][Len(finds[p])].at = effected[p].at

\* A pin shows what was found of its last request, or an error; and as long as
\* it loads its effect has not run or a request is under way.
EntryOK(e) ==
    /\ e \in Entries /\ e.id \in added /\ e.at \in SpotsOf[e.id]
    /\ e.fokontany \in SpotsOf[e.id] \cup {Nowhere}
    /\ finds[e.id] = <<>> /\ effected[e.id].at # Nowhere => ~e.loading
    /\ finds[e.id] = <<>> /\ effected[e.id].at # Nowhere /\ e.id \notin overtaken =>
            e.fokontany = effected[e.id].at \/ e.error # "none"

ListOK == \A i \in DOMAIN pinnedLocations : EntryOK(pinnedLocations[i])

\* The inductive invariant.
PinsInv ==
    /\ PinsTypeOK /\ IdsDiffer /\ NotAdded /\ FindsConfigured /\ FindsAsked /\ ListOK

LEMMA PinsStart == PinsInit => PinsInv
<1> SUFFICES ASSUME PinsInit PROVE PinsInv
    OBVIOUS
<1>1. \A p \in Pins : finds[p] = <<>>
  BY DEF PinsInit
<1>2. DOMAIN pinnedLocations = {}
  BY DEF PinsInit
<1>3. PinsTypeOK
  <2>1. <<>> \in Seq(Entries) /\ <<>> \in Seq([at : Spots, index : Nat])
    OBVIOUS
  <2>2. Nowhere \in Spots
    BY DEF Spots
  <2>3. effected \in [Pins -> [at : Spots, marked : BOOLEAN]]
    BY <2>2 DEF PinsInit
  <2>4. finds \in [Pins -> Seq([at : Spots, index : Nat])]
    BY <2>1, Zenon DEF PinsInit
  <2>5. pinnedLocations \in Seq(Entries)
    BY <2>1 DEF PinsInit
  <2>. QED
    BY <2>3, <2>4, <2>5 DEF PinsInit, PinsTypeOK
<1>4. IdsDiffer /\ ListOK
  BY <1>2 DEF IdsDiffer, ListOK
<1>5. NotAdded /\ FindsConfigured /\ FindsAsked
  BY <1>1 DEF PinsInit, NotAdded, FindsConfigured, FindsAsked
<1>. QED
  BY <1>3, <1>4, <1>5 DEF PinsInv

\* What the invariant says of the pins' promises.
LEMMA PinsPromise == PinsInv => PinIsRight /\ PinsAnswered
<1> SUFFICES ASSUME PinsInv PROVE PinIsRight /\ PinsAnswered
    OBVIOUS
<1>1. ASSUME NEW i \in DOMAIN pinnedLocations
      PROVE  /\ EntryOK(pinnedLocations[i]) /\ pinnedLocations[i].id \in Pins
             /\ EntryOf(pinnedLocations[i].id) = pinnedLocations[i]
             /\ pinnedLocations[i].at # Nowhere
  <2>1. EntryOK(pinnedLocations[i])
    BY DEF PinsInv, ListOK
  <2>2. pinnedLocations[i].id \in Pins
    BY <2>1 DEF EntryOK, Entries
  <2>3. IndexOfPin(pinnedLocations[i].id) = i
    BY <2>2, IndexFacts DEF PinsInv
  <2>4. pinnedLocations[i].at # Nowhere
    BY <2>1, <2>2, PinsAssumption DEF EntryOK, Nowhere
  <2>. QED
    BY <2>1, <2>2, <2>3, <2>4 DEF EntryOf
<1>2. PinIsRight
  <2> SUFFICES ASSUME NEW i \in DOMAIN pinnedLocations
      PROVE  /\ pinnedLocations[i].fokontany \in SpotsOf[pinnedLocations[i].id] \cup {Nowhere}
             /\ finds[pinnedLocations[i].id] = <<>>
                /\ effected[pinnedLocations[i].id] = PinDepends(pinnedLocations[i].id)
                /\ pinnedLocations[i].id \notin overtaken
                => \/ pinnedLocations[i].fokontany = pinnedLocations[i].at
                   \/ pinnedLocations[i].error # "none"
    BY DEF PinIsRight
  <2>. QED
    BY <1>1 DEF EntryOK, PinDepends
<1>3. PinsAnswered
  <2> SUFFICES ASSUME NEW p \in Pins, Pinned(p), EntryOf(p).loading, finds[p] = <<>>,
                      effected[p] = PinDepends(p)
               PROVE  FALSE
    BY DEF PinsAnswered
  <2>1. IndexOfPin(p) \in DOMAIN pinnedLocations /\ EntryOf(p).id = p
    BY IndexFacts DEF PinsInv, EntryOf
  <2>2. EntryOK(EntryOf(p)) /\ EntryOf(p).at # Nowhere
    BY <1>1, <2>1 DEF EntryOf
  <2>3. effected[p].at = EntryOf(p).at
    BY DEF PinDepends
  <2>. QED
    BY <2>1, <2>2, <2>3 DEF EntryOK
<1>. QED
  BY <1>2, <1>3

\* The list is put in another order, or an entry is taken out.
LEMMA Rearranged ==
    ASSUME PinsInv, UNCHANGED <<pinConfig, added, effected, finds, overtaken>>,
           pinnedLocations' \in Seq(Entries),
           NEW f \in [DOMAIN pinnedLocations' -> DOMAIN pinnedLocations],
           \A i, k \in DOMAIN pinnedLocations' : f[i] = f[k] => i = k,
           \A k \in DOMAIN pinnedLocations' : pinnedLocations'[k] = pinnedLocations[f[k]]
    PROVE  PinsInv'
<1>1. PinsTypeOK'
  BY DEF PinsInv, PinsTypeOK
<1>2. IdsDiffer'
  BY DEF PinsInv, IdsDiffer
<1>3. ListOK'
  <2>1. ASSUME NEW k \in DOMAIN pinnedLocations' PROVE EntryOK(pinnedLocations[f[k]])
    BY DEF PinsInv, ListOK
  <2>. QED
    BY <2>1 DEF ListOK, EntryOK
<1>4. NotAdded' /\ FindsConfigured' /\ FindsAsked'
  BY DEF PinsInv, NotAdded, FindsConfigured, FindsAsked
<1>. QED
  BY <1>1, <1>2, <1>3, <1>4 DEF PinsInv

LEMMA DeleteKeeps ==
    ASSUME PinsInv, NEW p \in Pins, Delete(p)
    PROVE  PinsInv'
<1>. DEFINE s == pinnedLocations
            i == IndexOfPin(p)
            f == [k \in 1 .. Len(s) - 1 |-> IF k < i THEN k ELSE k + 1]
<1>1. i \in DOMAIN s /\ s \in Seq(Entries)
  BY IndexFacts DEF Delete, PinsInv, PinsTypeOK
<1>2. pinnedLocations' = RemoveAt(s, i)
  BY DEF Delete
<1>. HIDE DEF i
<1>3. /\ pinnedLocations' \in Seq(Entries) /\ Len(pinnedLocations') = Len(s) - 1
      /\ \A k \in 1 .. Len(s) - 1 : pinnedLocations'[k] = IF k < i THEN s[k] ELSE s[k + 1]
  BY <1>1, <1>2, RemoveAtFacts
<1>4. DOMAIN pinnedLocations' = 1 .. Len(s) - 1
  BY <1>3
<1>5. f \in [DOMAIN pinnedLocations' -> DOMAIN s]
  BY <1>1, <1>4
<1>6. \A k \in DOMAIN pinnedLocations' : pinnedLocations'[k] = s[f[k]]
  BY <1>3, <1>4
<1>7. \A j, k \in DOMAIN pinnedLocations' : f[j] = f[k] => j = k
  BY <1>1, <1>4
<1>. HIDE DEF f
<1>. QED
  BY <1>3, <1>5, <1>6, <1>7, Rearranged DEF Delete

LEMMA MoveKeeps ==
    ASSUME PinsInv, NEW p \in Pins, NEW to \in 1 .. Len(pinnedLocations), Move(p, to)
    PROVE  PinsInv'
<1>. DEFINE s == pinnedLocations
            i == IndexOfPin(p)
            t == RemoveAt(s, i)
            g(k) == IF k < i THEN k ELSE k + 1
            f == [k \in 1 .. Len(s) |-> IF k < to THEN g(k) ELSE IF k = to THEN i ELSE g(k - 1)]
<1>1. i \in DOMAIN s /\ s \in Seq(Entries)
  BY IndexFacts DEF Move, PinsInv, PinsTypeOK
<1>2. pinnedLocations' = InsertAt(t, to, s[i])
  BY DEF Move, EntryOf
<1>. HIDE DEF i
<1>3. /\ t \in Seq(Entries) /\ Len(t) = Len(s) - 1
      /\ \A k \in 1 .. Len(s) - 1 : t[k] = IF k < i THEN s[k] ELSE s[k + 1]
  BY <1>1, RemoveAtFacts
<1>. HIDE DEF t
<1>4. to \in 1 .. Len(t) + 1 /\ s[i] \in Entries
  BY <1>1, <1>3
<1>5. /\ pinnedLocations' \in Seq(Entries) /\ Len(pinnedLocations') = Len(t) + 1
      /\ \A k \in 1 .. Len(t) + 1 :
            pinnedLocations'[k] = IF k < to THEN t[k] ELSE IF k = to THEN s[i] ELSE t[k - 1]
  <2>1. PICK u \in Seq(Entries) : u = t
    BY <1>3
  <2>2. PICK e \in Entries : e = s[i]
    BY <1>4
  <2>3. to \in 1 .. Len(u) + 1
    BY <1>4, <2>1
  <2>4. /\ InsertAt(u, to, e) \in Seq(Entries)
        /\ Len(InsertAt(u, to, e)) = Len(u) + 1
        /\ \A k \in 1 .. Len(u) + 1 :
                InsertAt(u, to, e)[k] = IF k < to THEN u[k] ELSE IF k = to THEN e ELSE u[k - 1]
    <3>1. u \in Seq(Entries) /\ e \in Entries
      OBVIOUS
    <3>. QED
      BY ONLY <2>3, <3>1, InsertAtFacts
  <2>5. pinnedLocations' = InsertAt(u, to, e)
    BY <1>2, <2>1, <2>2
  <2>. QED
    BY <2>1, <2>2, <2>4, <2>5
<1>6. DOMAIN pinnedLocations' = 1 .. Len(s) /\ Len(s) \in Nat /\ i \in 1 .. Len(s)
  BY <1>1, <1>3, <1>5
<1>7. f \in [DOMAIN pinnedLocations' -> DOMAIN s]
  BY <1>6
<1>8. ASSUME NEW k \in DOMAIN pinnedLocations' PROVE pinnedLocations'[k] = s[f[k]]
  <2>1. CASE k < to
    <3>1. k \in 1 .. Len(s) - 1
      BY <1>6, <2>1
    <3>2. f[k] = IF k < i THEN k ELSE k + 1
      BY <1>6, <2>1
    <3>3. pinnedLocations'[k] = t[k]
      BY <1>3, <1>5, <1>6, <2>1
    <3>. QED
      BY <1>3, <3>1, <3>2, <3>3
  <2>2. CASE k = to
    BY <1>3, <1>5, <1>6, <2>2
  <2>3. CASE k > to
    <3>1. k - 1 \in 1 .. Len(s) - 1 /\ ~(k < to) /\ k # to
      BY <1>6, <2>3
    <3>2. f[k] = IF k - 1 < i THEN k - 1 ELSE k - 1 + 1
      BY <1>6, <3>1
    <3>3. pinnedLocations'[k] = t[k - 1]
      BY <1>3, <1>5, <1>6, <3>1
    <3>4. t[k - 1] = IF k - 1 < i THEN s[k - 1] ELSE s[k - 1 + 1]
      BY <1>3, <3>1
    <3>. QED
      BY <3>2, <3>3, <3>4
  <2>. QED
    BY <1>6, <2>1, <2>2, <2>3
<1>9. \A j, k \in DOMAIN pinnedLocations' : f[j] = f[k] => j = k
  BY <1>6
<1>. HIDE DEF f
<1>. QED
  BY <1>5, <1>7, <1>8, <1>9, Rearranged DEF Move

\* A step that changes one entry, and what belongs to its pin.
LEMMA OneChanged ==
    ASSUME PinsInv, NEW p \in Pins, NEW i \in DOMAIN pinnedLocations,
           pinnedLocations[i].id = p, NEW new, EntryOK(new)', new.id = p,
           pinnedLocations' = [pinnedLocations EXCEPT ![i] = new],
           PinsTypeOK', NotAdded', FindsConfigured', FindsAsked', added' = added,
           \A q \in Pins \ {p} :
                /\ finds'[q] = finds[q] /\ effected'[q] = effected[q]
                /\ q \in overtaken' <=> q \in overtaken
    PROVE  PinsInv'
<1>1. /\ DOMAIN pinnedLocations' = DOMAIN pinnedLocations
      /\ pinnedLocations'[i] = new
      /\ \A k \in DOMAIN pinnedLocations : k # i => pinnedLocations'[k] = pinnedLocations[k]
  BY DEF PinsInv, PinsTypeOK
<1>2. IdsDiffer'
  BY <1>1 DEF PinsInv, IdsDiffer
<1>3. ListOK'
  <2>1. ASSUME NEW k \in DOMAIN pinnedLocations, k # i
        PROVE  EntryOK(pinnedLocations[k])'
    <3>1. EntryOK(pinnedLocations[k]) /\ pinnedLocations'[k] = pinnedLocations[k]
      BY <1>1, <2>1 DEF PinsInv, ListOK
    <3>2. pinnedLocations[k].id \in Pins \ {p}
      BY <2>1, <3>1 DEF PinsInv, IdsDiffer, EntryOK, Entries
    <3>. QED
      BY <3>1, <3>2 DEF EntryOK
  <2>2. EntryOK(pinnedLocations[i])'
    BY <1>1 DEF EntryOK
  <2>. QED
    BY <1>1, <2>1, <2>2 DEF ListOK
<1>. QED
  BY <1>2, <1>3 DEF PinsInv

\* A step that moves only what the list and the requests are not about.
LEMMA PinsSame ==
    ASSUME PinsInv, UNCHANGED <<pinnedLocations, added, effected, finds, overtaken>>,
           pinConfig' = pinConfig \/ (pinConfig = "none" /\ pinConfig' \in {"plain", "hasGeojson"})
    PROVE  PinsInv'
<1>1. PinsTypeOK'
  BY DEF PinsInv, PinsTypeOK
<1>2. IdsDiffer' /\ NotAdded' /\ FindsConfigured' /\ FindsAsked'
  BY DEF PinsInv, IdsDiffer, NotAdded, FindsConfigured, FindsAsked
<1>3. ListOK'
  BY DEF PinsInv, ListOK, EntryOK
<1>. QED
  BY <1>1, <1>2, <1>3 DEF PinsInv

LEMMA AddKeeps ==
    ASSUME PinsInv, NEW p \in Pins, NEW at \in SpotsOf[p], Add(p, at)
    PROVE  PinsInv'
<1>. DEFINE s == pinnedLocations
            new == [id |-> p, at |-> at, fokontany |-> Nowhere, loading |-> TRUE,
                    error |-> "none"]
<1>1. /\ p \notin added /\ added' = added \cup {p}
      /\ pinnedLocations' = <<new>> \o s
      /\ UNCHANGED <<pinConfig, effected, finds, overtaken>>
  BY DEF Add
<1>2. new \in Entries
  <2>1. at \in Spots /\ Nowhere \in Spots
    BY DEF Spots
  <2>. QED
    BY <2>1 DEF Entries, Errors
<1>3. s \in Seq(Entries) /\ Len(s) \in Nat
  BY DEF PinsInv, PinsTypeOK
<1>4. new.id = p /\ new.at = at /\ new.fokontany = Nowhere
  OBVIOUS
<1>5. finds[p] = <<>> /\ effected[p].at = Nowhere
  BY <1>1 DEF PinsInv, NotAdded
<1>. HIDE DEF new
<1>6. /\ pinnedLocations' \in Seq(Entries)
      /\ DOMAIN pinnedLocations' = 1 .. Len(s) + 1
      /\ pinnedLocations'[1] = new
      /\ \A k \in 2 .. Len(s) + 1 : pinnedLocations'[k] = s[k - 1] /\ k - 1 \in DOMAIN s
  BY <1>1, <1>2, <1>3
<1>7. PinsTypeOK'
  BY <1>1, <1>6 DEF PinsInv, PinsTypeOK
<1>8. \A k \in DOMAIN s : EntryOK(s[k]) /\ s[k].id \in added
  BY DEF PinsInv, ListOK, EntryOK
<1>9. IdsDiffer'
  <2> SUFFICES ASSUME NEW i \in 1 .. Len(s) + 1, NEW k \in 1 .. Len(s) + 1,
                      pinnedLocations'[i].id = pinnedLocations'[k].id
               PROVE  i = k
    BY <1>6 DEF IdsDiffer
  <2>1. CASE i = 1 /\ k # 1
    BY <1>1, <1>4, <1>6, <1>8, <2>1
  <2>2. CASE k = 1 /\ i # 1
    BY <1>1, <1>4, <1>6, <1>8, <2>2
  <2>3. CASE i # 1 /\ k # 1
    <3>1. /\ i - 1 \in DOMAIN s /\ k - 1 \in DOMAIN s
          /\ s[i - 1].id = s[k - 1].id
      BY <1>6, <2>3
    <3>2. i - 1 = k - 1
      BY <3>1 DEF PinsInv, IdsDiffer
    <3>. QED
      BY <3>2
  <2>. QED
    BY <2>1, <2>2, <2>3
<1>10. ListOK'
  <2>1. EntryOK(new)'
    BY <1>1, <1>2, <1>4, <1>5 DEF EntryOK
  <2>2. ASSUME NEW e, EntryOK(e) PROVE EntryOK(e)'
    BY <1>1, <2>2 DEF EntryOK
  <2>3. ASSUME NEW k \in 1 .. Len(s) + 1 PROVE EntryOK(pinnedLocations[k])'
    <3>1. CASE k = 1
      BY <1>6, <2>1, <3>1 DEF EntryOK
    <3>2. CASE k # 1
      <4>1. pinnedLocations'[k] = s[k - 1] /\ k - 1 \in DOMAIN s
        BY <1>6, <3>2
      <4>. QED
        BY <1>8, <2>2, <4>1
    <3>. QED
      BY <3>1, <3>2
  <2>. QED
    BY <1>6, <2>3 DEF ListOK
<1>11. NotAdded' /\ FindsConfigured' /\ FindsAsked'
  BY <1>1 DEF PinsInv, NotAdded, FindsConfigured, FindsAsked
<1>. QED
  BY <1>7, <1>9, <1>10, <1>11 DEF PinsInv

LEMMA RelocateKeeps ==
    ASSUME PinsInv, NEW p \in Pins, NEW at \in SpotsOf[p], Relocate(p, at)
    PROVE  PinsInv'
<1>1. PICK i \in DOMAIN pinnedLocations : i = IndexOfPin(p) /\ pinnedLocations[i].id = p
  BY IndexFacts DEF Relocate, PinsInv
<1>2. PICK new : new = [pinnedLocations[i] EXCEPT !.at = at]
  OBVIOUS
<1>3. /\ pinnedLocations' = [pinnedLocations EXCEPT ![i] = new]
      /\ UNCHANGED <<pinConfig, added, effected, finds, overtaken>>
  BY <1>1, <1>2 DEF Relocate
<1>4. EntryOK(pinnedLocations[i]) /\ pinnedLocations[i] \in Entries
  BY <1>1 DEF PinsInv, ListOK, EntryOK
<1>5. /\ new \in Entries /\ new.id = p /\ new.at = at
      /\ new.fokontany = pinnedLocations[i].fokontany
      /\ new.loading = pinnedLocations[i].loading
      /\ new.error = pinnedLocations[i].error
  <2>1. at \in Spots
    BY DEF Spots
  <2>. QED
    BY <1>1, <1>2, <1>4, <2>1 DEF Entries
<1>6. EntryOK(new)'
  <2>1. /\ p \in added /\ pinnedLocations[i].fokontany \in SpotsOf[p] \cup {Nowhere}
        /\ finds[p] = <<>> /\ effected[p].at # Nowhere => ~pinnedLocations[i].loading
        /\ finds[p] = <<>> /\ effected[p].at # Nowhere /\ p \notin overtaken =>
                \/ pinnedLocations[i].fokontany = effected[p].at
                \/ pinnedLocations[i].error # "none"
    BY <1>1, <1>4 DEF EntryOK
  <2>2. UNCHANGED <<added, effected, finds, overtaken>>
    BY <1>3
  <2>. QED
    BY <1>5, <2>1, <2>2 DEF EntryOK
<1>7. PinsTypeOK'
  BY <1>1, <1>3, <1>5, ExceptFacts DEF PinsInv, PinsTypeOK
<1>8. NotAdded' /\ FindsConfigured' /\ FindsAsked'
  BY <1>3 DEF PinsInv, NotAdded, FindsConfigured, FindsAsked
<1>. QED
  BY <1>1, <1>3, <1>5, <1>6, <1>7, <1>8, OneChanged

LEMMA LoadFokontanyKeeps ==
    ASSUME PinsInv, NEW p \in Pins, LoadFokontany(p)
    PROVE  PinsInv'
<1>1. PICK i \in DOMAIN pinnedLocations : i = IndexOfPin(p) /\ pinnedLocations[i].id = p
  BY IndexFacts DEF LoadFokontany, PinsInv
<1>2. PICK old \in Entries : old = pinnedLocations[i] /\ old.id = p
  BY <1>1 DEF PinsInv, ListOK, EntryOK
<1>3. /\ EntryOf(p) = old /\ p \in added /\ old.at \in SpotsOf[p] /\ old.at \in Spots
      /\ old.fokontany \in SpotsOf[p] \cup {Nowhere}
  <2>1. EntryOK(old)
    BY <1>1, <1>2 DEF PinsInv, ListOK
  <2>. QED
    BY <1>1, <1>2, <2>1 DEF EntryOK, EntryOf, Spots
<1>4. PICK m \in BOOLEAN : effected' = [effected EXCEPT ![p] = [at |-> old.at, marked |-> m]]
  BY <1>3 DEF LoadFokontany, PinDepends
<1>5. /\ UNCHANGED <<pinConfig, added>>
      /\ overtaken' = IF finds[p] = <<>> THEN overtaken \ {p} ELSE overtaken
  BY DEF LoadFokontany
<1>6. effected' \in [Pins -> [at : Spots, marked : BOOLEAN]] /\ overtaken' \subseteq Pins
  BY <1>3, <1>4, <1>5 DEF PinsInv, PinsTypeOK
<1>7. /\ effected'[p].at = old.at
      /\ \A q \in Pins \ {p} : effected'[q] = effected[q] /\ (q \in overtaken' <=> q \in overtaken)
  BY <1>4, <1>5 DEF PinsInv, PinsTypeOK
<1>8. ASSUME NEW error \in Errors \ {"none"}, pinConfig # "hasGeojson", finds' = finds,
             pinnedLocations' =
                [pinnedLocations EXCEPT ![i].loading = FALSE, ![i].error = error]
      PROVE  PinsInv'
  <2>1. PICK new \in Entries : new = [old EXCEPT !.loading = FALSE, !.error = error]
    BY <1>2, <1>8 DEF Entries
  <2>2. /\ new.id = p /\ new.at = old.at /\ new.fokontany = old.fokontany
        /\ new.loading = FALSE /\ new.error # "none"
    BY <1>2, <1>8, <2>1 DEF Entries
  <2>3. pinnedLocations' = [pinnedLocations EXCEPT ![i] = new]
    BY <1>1, <1>2, <1>8, <2>1 DEF PinsInv, PinsTypeOK
  <2>4. finds'[p] = <<>>
    BY <1>8 DEF PinsInv, FindsConfigured
  <2>5. EntryOK(new)'
    BY <1>3, <1>5, <2>2 DEF EntryOK
  <2>6. PinsTypeOK'
    <3>1. pinnedLocations' \in Seq(Entries)
      BY <2>3, ExceptFacts DEF PinsInv, PinsTypeOK
    <3>2. finds' = finds
      BY <1>8
    <3>. QED
      BY <1>5, <1>6, <3>1, <3>2 DEF PinsInv, PinsTypeOK
  <2>7. NotAdded' /\ FindsConfigured' /\ FindsAsked'
    BY <1>3, <1>5, <1>7, <1>8, <2>4 DEF PinsInv, NotAdded, FindsConfigured, FindsAsked
  <2>. QED
    <3>1. finds' = finds
      BY <1>8
    <3>. QED
      BY <1>1, <1>5, <1>7, <2>2, <2>3, <2>5, <2>6, <2>7, <3>1, OneChanged
<1>9. ASSUME pinConfig = "hasGeojson",
             pinnedLocations' = [pinnedLocations EXCEPT ![i].loading = TRUE],
             finds' = [finds EXCEPT ![p] = Append(@, [at |-> old.at, index |-> i])]
      PROVE  PinsInv'
  <2>1. PICK new \in Entries : new = [old EXCEPT !.loading = TRUE]
    BY <1>2 DEF Entries
  <2>2. new.id = p /\ new.at = old.at /\ new.fokontany = old.fokontany
    BY <1>2, <2>1 DEF Entries
  <2>3. pinnedLocations' = [pinnedLocations EXCEPT ![i] = new]
    BY <1>1, <1>2, <1>9, <2>1 DEF PinsInv, PinsTypeOK
  <2>4. PICK r \in [at : Spots, index : Nat] :
            r.at = old.at /\ finds' = [finds EXCEPT ![p] = Append(@, r)]
    <3>1. i \in Nat
      BY DEF PinsInv, PinsTypeOK
    <3>2. PICK r : r = [at |-> old.at, index |-> i]
      OBVIOUS
    <3>3. r \in [at : Spots, index : Nat] /\ r.at = old.at
      BY <1>3, <3>1, <3>2
    <3>4. finds' = [finds EXCEPT ![p] = Append(@, r)]
      BY <1>9, <3>2
    <3>. QED
      BY <3>3, <3>4
  <2>5. PICK l \in Seq([at : Spots, index : Nat]) : l = finds[p]
    BY DEF PinsInv, PinsTypeOK
  <2>6. /\ Append(l, r) \in Seq([at : Spots, index : Nat])
        /\ Len(Append(l, r)) = Len(l) + 1 /\ Append(l, r) # <<>>
        /\ DOMAIN Append(l, r) = 1 .. Len(l) + 1
        /\ Append(l, r)[Len(l) + 1] = r
        /\ \A n \in 1 .. Len(l) : Append(l, r)[n] = l[n]
    BY <2>5
  <2>7. /\ finds'[p] = Append(l, r)
        /\ \A q \in Pins \ {p} : finds'[q] = finds[q]
        /\ finds' \in [Pins -> Seq([at : Spots, index : Nat])]
    BY <2>4, <2>5, <2>6 DEF PinsInv, PinsTypeOK
  <2>8. EntryOK(new)'
    BY <1>3, <1>5, <2>2, <2>6, <2>7 DEF EntryOK
  <2>9. PinsTypeOK'
    BY <1>5, <1>6, <2>3, <2>7, ExceptFacts DEF PinsInv, PinsTypeOK
  <2>10. NotAdded' /\ FindsConfigured'
    BY <1>3, <1>5, <1>7, <1>9, <2>7 DEF PinsInv, NotAdded, FindsConfigured
  <2>11. FindsAsked'
    <3>1. ASSUME NEW n \in 1 .. Len(l) + 1 PROVE Append(l, r)[n].at \in SpotsOf[p]
      <4>1. CASE n = Len(l) + 1
        BY <1>3, <2>4, <2>6, <4>1
      <4>2. CASE n # Len(l) + 1
        <5>1. n \in DOMAIN l
          BY <2>5, <4>2
        <5>. QED
          BY <2>5, <2>6, <5>1 DEF PinsInv, FindsAsked
      <4>. QED
        BY <4>1, <4>2
    <3>2. finds'[p][Len(finds'[p])].at = effected'[p].at
      BY <1>7, <2>4, <2>6, <2>7
    <3>3. \A n \in DOMAIN (finds'[p]) : finds'[p][n].at \in SpotsOf[p]
      BY <2>6, <2>7, <3>1
    <3>4. \A q \in Pins \ {p} :
            /\ \A n \in DOMAIN (finds'[q]) : finds'[q][n].at \in SpotsOf[q]
            /\ finds'[q] # <<>> /\ q \notin overtaken' =>
                    finds'[q][Len(finds'[q])].at = effected'[q].at
      BY <1>7, <2>7 DEF PinsInv, FindsAsked
    <3>. QED
      BY <3>2, <3>3, <3>4 DEF FindsAsked
  <2>. QED
    BY <1>1, <1>5, <1>7, <2>2, <2>3, <2>7, <2>8, <2>9, <2>10, <2>11, OneChanged
<1>. DEFINE Unable(error) ==
                /\ pinnedLocations' =
                    [pinnedLocations EXCEPT ![i].loading = FALSE, ![i].error = error]
                /\ UNCHANGED finds
<1>10. \/ pinConfig = "none" /\ Unable("UnavailableConfig")
       \/ pinConfig = "plain" /\ Unable("GeoJsonNotSupported")
       \/ /\ pinConfig = "hasGeojson"
          /\ pinnedLocations' = [pinnedLocations EXCEPT ![i].loading = TRUE]
          /\ finds' = [finds EXCEPT ![p] = Append(@, [at |-> old.at, index |-> i])]
  BY <1>1, <1>3 DEF LoadFokontany
<1>11. ASSUME NEW error \in Errors \ {"none"}, pinConfig # "hasGeojson", Unable(error)
       PROVE  PinsInv'
  BY <1>8, <1>11
<1>. HIDE DEF Unable
<1>12. {"UnavailableConfig", "GeoJsonNotSupported"} \subseteq Errors \ {"none"}
  BY DEF Errors
<1>. QED
  BY <1>9, <1>10, <1>11, <1>12

\* The answer is taken off the requests under way, whether its pin is there or not.
LEMMA AnswerTaken ==
    ASSUME PinsInv, NEW p \in Pins, NEW n \in Nat, NEW found \in BOOLEAN,
           FokontanyFound(p, n, found)
    PROVE  /\ n \in DOMAIN finds[p] /\ finds[p][n].at \in SpotsOf[p]
           /\ finds' \in [Pins -> Seq([at : Spots, index : Nat])]
           /\ overtaken' \subseteq Pins
           /\ \A q \in Pins \ {p} :
                finds'[q] = finds[q] /\ (q \in overtaken' <=> q \in overtaken)
           /\ finds'[p] = <<>> /\ p \notin overtaken' => finds[p][n].at = effected[p].at
           /\ NotAdded' /\ FindsConfigured' /\ FindsAsked'
<1>. DEFINE R == [at : Spots, index : Nat]
<1>1. /\ n \in 1 .. Len(finds[p])
      /\ finds' = [finds EXCEPT ![p] = RemoveAt(@, n)]
      /\ overtaken' = IF n > 1 THEN overtaken \cup {p} ELSE overtaken
      /\ UNCHANGED <<pinConfig, added, effected>>
  BY DEF FokontanyFound
<1>2. PICK l \in Seq(R) : l = finds[p]
  BY DEF PinsInv, PinsTypeOK
<1>3. Len(l) \in Nat /\ n \in DOMAIN l /\ l # <<>> /\ DOMAIN l = 1 .. Len(l)
  BY <1>1, <1>2
<1>. HIDE DEF R
<1>4. PICK t \in Seq(R) :
        /\ t = RemoveAt(l, n) /\ Len(t) = Len(l) - 1
        /\ \A k \in 1 .. Len(l) - 1 : t[k] = IF k < n THEN l[k] ELSE l[k + 1]
  <2>1. /\ RemoveAt(l, n) \in Seq(R) /\ Len(RemoveAt(l, n)) = Len(l) - 1
        /\ \A k \in 1 .. Len(l) - 1 :
                RemoveAt(l, n)[k] = IF k < n THEN l[k] ELSE l[k + 1]
    BY <1>3, RemoveAtFacts
  <2>. QED
    BY <2>1
<1>5. DOMAIN t = 1 .. Len(l) - 1 /\ (t = <<>> <=> Len(l) = 1)
  BY <1>3, <1>4
<1>6. /\ finds'[p] = t /\ \A q \in Pins \ {p} : finds'[q] = finds[q]
      /\ finds' \in [Pins -> Seq(R)]
  BY <1>1, <1>2, <1>4 DEF PinsInv, PinsTypeOK, R
<1>7. \A k \in DOMAIN l : l[k].at \in SpotsOf[p]
  BY <1>2 DEF PinsInv, FindsAsked
<1>8. p \notin overtaken => l[Len(l)].at = effected[p].at
  BY <1>2, <1>3 DEF PinsInv, FindsAsked
<1>9. p \notin overtaken' => n = 1 /\ p \notin overtaken
  BY <1>1, <1>3
<1>10. NotAdded'
  BY <1>1, <1>2, <1>3, <1>6 DEF PinsInv, NotAdded
<1>11. FindsConfigured'
  BY <1>1, <1>2, <1>3, <1>6 DEF PinsInv, FindsConfigured
<1>12. FindsAsked'
  <2>1. ASSUME NEW k \in DOMAIN t PROVE t[k].at \in SpotsOf[p]
    BY <1>3, <1>4, <1>5, <1>7
  <2>2. t # <<>> /\ p \notin overtaken' => t[Len(t)].at = effected[p].at
    <3> SUFFICES ASSUME t # <<>>, p \notin overtaken' PROVE t[Len(t)] = l[Len(l)]
      BY <1>8, <1>9
    <3>1. Len(t) \in 1 .. Len(l) - 1 /\ ~(Len(t) < n) /\ Len(t) + 1 = Len(l)
      BY <1>3, <1>4, <1>5, <1>9
    <3>. QED
      BY <1>4, <3>1
  <2>3. \A q \in Pins \ {p} : q \in overtaken' <=> q \in overtaken
    BY <1>1
  <2>4. ASSUME NEW q \in Pins \ {p}
        PROVE  /\ \A k \in DOMAIN (finds'[q]) : finds'[q][k].at \in SpotsOf[q]
               /\ finds'[q] # <<>> /\ q \notin overtaken' =>
                        finds'[q][Len(finds'[q])].at = effected'[q].at
    BY <1>1, <1>6, <2>3 DEF PinsInv, FindsAsked
  <2>5. /\ \A k \in DOMAIN (finds'[p]) : finds'[p][k].at \in SpotsOf[p]
        /\ finds'[p] # <<>> /\ p \notin overtaken' =>
                finds'[p][Len(finds'[p])].at = effected'[p].at
    BY <1>1, <1>6, <2>1, <2>2
  <2>. QED
    BY <2>4, <2>5 DEF FindsAsked
<1>13. finds'[p] = <<>> /\ p \notin overtaken' => finds[p][n].at = effected[p].at
  BY <1>2, <1>3, <1>5, <1>6, <1>8, <1>9
<1>14. /\ overtaken' \subseteq Pins
       /\ \A q \in Pins \ {p} : q \in overtaken' <=> q \in overtaken
  BY <1>1 DEF PinsInv, PinsTypeOK
<1>. QED
  BY <1>1, <1>2, <1>3, <1>6, <1>7, <1>10, <1>11, <1>12, <1>13, <1>14 DEF R

LEMMA FokontanyFoundKeeps ==
    ASSUME PinsInv, NEW p \in Pins, NEW n \in Nat, NEW found \in BOOLEAN,
           FokontanyFound(p, n, found)
    PROVE  PinsInv'
<1>1. /\ n \in DOMAIN finds[p] /\ finds[p][n].at \in SpotsOf[p]
      /\ finds' \in [Pins -> Seq([at : Spots, index : Nat])]
      /\ overtaken' \subseteq Pins
      /\ \A q \in Pins \ {p} :
            finds'[q] = finds[q] /\ (q \in overtaken' <=> q \in overtaken)
      /\ finds'[p] = <<>> /\ p \notin overtaken' => finds[p][n].at = effected[p].at
      /\ NotAdded' /\ FindsConfigured' /\ FindsAsked'
  BY AnswerTaken
<1>2. UNCHANGED <<pinConfig, added, effected>>
  BY DEF FokontanyFound
<1>3. CASE ~Pinned(p)
  <2>1. pinnedLocations' = pinnedLocations
    BY <1>3 DEF FokontanyFound, IndexAfter, Pinned
  <2>2. PinsTypeOK' /\ IdsDiffer'
    BY <1>1, <1>2, <2>1 DEF PinsInv, PinsTypeOK, IdsDiffer
  <2>3. ASSUME NEW k \in DOMAIN pinnedLocations PROVE EntryOK(pinnedLocations[k])'
    <3>1. EntryOK(pinnedLocations[k]) /\ pinnedLocations'[k] = pinnedLocations[k]
      BY <2>1 DEF PinsInv, ListOK
    <3>2. pinnedLocations[k].id # p
      <4> SUFFICES ASSUME pinnedLocations[k].id = p PROVE FALSE
        OBVIOUS
      <4>1. IndexOfPin(p) = k
        BY IndexFacts DEF PinsInv
      <4>2. k # 0
        BY DEF PinsInv, PinsTypeOK
      <4>. QED
        BY <1>3, <4>1, <4>2 DEF Pinned
    <3>3. pinnedLocations[k].id \in Pins \ {p}
      BY <3>1, <3>2 DEF EntryOK, Entries
    <3>. QED
      BY <1>1, <1>2, <3>1, <3>3 DEF EntryOK
  <2>. QED
    BY <1>1, <2>1, <2>2, <2>3 DEF PinsInv, ListOK
<1>4. CASE Pinned(p)
  <2>1. PICK i \in DOMAIN pinnedLocations : i = IndexOfPin(p) /\ pinnedLocations[i].id = p
    BY <1>4, IndexFacts DEF PinsInv
  <2>2. PICK old \in Entries : old = pinnedLocations[i] /\ old.id = p /\ EntryOK(old)
    BY <2>1 DEF PinsInv, ListOK, EntryOK
  <2>3. PICK at \in SpotsOf[p] : at = finds[p][n].at
    BY <1>1
  <2>4. at \in Spots /\ Nowhere \in Spots
    BY DEF Spots
  <2>5. PICK new :
            new = IF found THEN [old EXCEPT !.fokontany = at, !.loading = FALSE,
                                            !.error = "none"]
                  ELSE [old EXCEPT !.fokontany = Nowhere, !.loading = FALSE,
                                   !.error = "NotFound"]
    OBVIOUS
  <2>6. /\ new \in Entries /\ new.id = p /\ new.at = old.at /\ new.loading = FALSE
        /\ \/ new.fokontany = at
           \/ new.fokontany = Nowhere /\ new.error = "NotFound"
    BY <2>2, <2>4, <2>5 DEF Entries, Errors
  <2>7. pinnedLocations' = [pinnedLocations EXCEPT ![i] = new]
    <3>1. i # 0
      BY DEF PinsInv, PinsTypeOK
    <3>. QED
      BY <2>1, <2>2, <2>3, <2>5, <3>1 DEF FokontanyFound, IndexAfter, Unfound
  <2>8. PinsTypeOK'
    <3>1. pinnedLocations' \in Seq(Entries)
      BY <2>6, <2>7, ExceptFacts DEF PinsInv, PinsTypeOK
    <3>. QED
      BY <1>1, <1>2, <3>1 DEF PinsInv, PinsTypeOK
  <2>9. EntryOK(new)'
    <3>1. p \in added /\ old.at \in SpotsOf[p]
      BY <2>2 DEF EntryOK
    <3>. QED
      BY <1>1, <1>2, <2>3, <2>6, <3>1 DEF EntryOK
  <2>. QED
    BY <1>1, <1>2, <2>1, <2>6, <2>7, <2>8, <2>9, OneChanged
<1>. QED
  BY <1>3, <1>4

LEMMA PinsKeep == PinsInv /\ [PinsNext]_pins => PinsInv'
<1> SUFFICES ASSUME PinsInv, [PinsNext]_pins PROVE PinsInv'
    OBVIOUS
<1>1. CASE UNCHANGED pins
  BY <1>1, PinsSame DEF pins
<1>2. CASE SetPinConfig
  BY <1>2, PinsSame DEF SetPinConfig
<1>3. ASSUME NEW p \in Pins, LoadFokontany(p) PROVE PinsInv'
  BY <1>3, LoadFokontanyKeeps
<1>4. ASSUME NEW p \in Pins, FokontanyAnswered(p) PROVE PinsInv'
  <2>1. PICK n \in 1 .. MaxFinds, found \in BOOLEAN : FokontanyFound(p, n, found)
    BY <1>4 DEF FokontanyAnswered
  <2>2. n \in Nat
    BY PinsAssumption
  <2>. QED
    BY <2>1, <2>2, FokontanyFoundKeeps
<1>5. ASSUME NEW p \in Pins, Delete(p) PROVE PinsInv'
  BY <1>5, DeleteKeeps
<1>6. ASSUME NEW p \in Pins, NEW at \in SpotsOf[p], Add(p, at) \/ Relocate(p, at)
      PROVE  PinsInv'
  BY <1>6, AddKeeps, RelocateKeeps
<1>7. ASSUME NEW p \in Pins, NEW to \in 1 .. Len(pinnedLocations), Move(p, to)
      PROVE  PinsInv'
  BY <1>7, MoveKeeps
<1>. QED
  BY <1>1, <1>2, <1>3, <1>4, <1>5, <1>6, <1>7 DEF PinsNext
-----------------------------------------------------------------------------
(* The current location                                                    *)

\* Identifiers are given in increasing order.
IdsGrow == current.id <= lastId /\ beacon.id <= lastId

\* A beacon that has drawn its location is past its first update.
StartedOnce == Tracked /\ beacon.id = current.id => ~firstUpdate

\* There is a location exactly when it has an identifier.
NoneIsIdle == current.id = 0 => ~current.loading

LocationInv ==
    /\ LocationTypeOK /\ TrackedByOne
    /\ IdsGrow /\ StartedOnce /\ NoneIsIdle /\ LocationAnswered

LEMMA LocationStart == LocationInit => LocationInv
<1> SUFFICES ASSUME LocationInit PROVE LocationInv
    OBVIOUS
<1> USE LocationAssumption DEF LocationInit, NoLocation, Tracked
<1>1. LocationTypeOK
  <2>1. /\ locationConfig \in {"unloaded", "none", "hasGeojson"}
        /\ current \in [id : LocationIds \cup {0}, loading : BOOLEAN]
        /\ frequency \in Frequencies
    OBVIOUS
  <2>2. {accuracy, positionLoads, handle, firstUpdate} \subseteq BOOLEAN
    OBVIOUS
  <2>3. intervals \in 0 .. 2 /\ locates \in 0 .. MaxLocates
    OBVIOUS
  <2>4. positions \in [Awaiting -> 0 .. MaxPositions]
    OBVIOUS
  <2>5. beacon \in [id : LocationIds \cup {0}, frequency : Frequencies,
                   accuracy : BOOLEAN]
    OBVIOUS
  <2> QED
    BY <2>1, <2>2, <2>3, <2>4, <2>5 DEF LocationTypeOK
<1>2. TrackedByOne /\ IdsGrow /\ StartedOnce /\ NoneIsIdle /\ LocationAnswered
    BY DEF TrackedByOne, OneInterval, IdsGrow, StartedOnce, NoneIsIdle, LocationAnswered
<1> QED
    BY <1>1, <1>2 DEF LocationInv

-----------------------------------------------------------------------------
(* What the store's operations do.                                         *)

\* Locate leaves a location of the identifier it was given, and a request under
\* way if it says it is loading.
LEMMA LocateFacts ==
    ASSUME LocationInv, NEW id \in LocationIds, Locate(id)
    PROVE  /\ current' \in [id : LocationIds \cup {0}, loading : BOOLEAN]
           /\ current'.id = id
           /\ locates' \in 0 .. MaxLocates
           /\ current'.loading => locates' > 0
<1>0. /\ locates \in 0 .. MaxLocates /\ MaxLocates \in Nat
  BY LocationAssumption DEF LocationInv, LocationTypeOK
<1>1. CASE locationConfig = "none"
  <2>1. current' = [id |-> id, loading |-> FALSE] /\ locates' = locates
    BY <1>1 DEF Locate
  <2>2. current' \in [id : LocationIds \cup {0}, loading : BOOLEAN]
    BY <2>1
  <2>3. current'.id = id /\ current'.loading = FALSE
    BY <2>1
  <2> QED
    BY <1>0, <2>1, <2>2, <2>3
<1>2. CASE locationConfig # "none"
  <2>1. /\ current' = [id |-> id, loading |-> TRUE]
        /\ locates < MaxLocates /\ locates' = locates + 1
    BY <1>2 DEF Locate
  <2>2. current' \in [id : LocationIds \cup {0}, loading : BOOLEAN]
    BY <2>1
  <2>3. current'.id = id
    BY <2>1
  <2>4. locates' \in 0 .. MaxLocates /\ locates' > 0
    BY <1>0, <2>1
  <2> QED
    BY <2>2, <2>3, <2>4
<1> QED
  BY <1>1, <1>2

\* A tracked location has an identifier.
LEMMA TrackedHasId == LocationInv /\ Tracked => current.id \in LocationIds
BY DEF LocationInv, LocationTypeOK, Tracked, NoneIsIdle, NoLocation

\* Starting the interval stops the one before: one runs, or none for a
\* snapshot that had none.
LEMMA InitFacts ==
    ASSUME LocationInv, InitCurrentLocationTracking
    PROVE  /\ handle' \in BOOLEAN /\ intervals' = IF handle' THEN 1 ELSE 0
           /\ frequency # "snapshot" => intervals' = 1
<1>1. handle \in BOOLEAN /\ intervals = IF handle THEN 1 ELSE 0
  BY DEF LocationInv, LocationTypeOK, TrackedByOne, OneInterval
<1>2. CASE frequency = "snapshot"
  BY <1>1, <1>2 DEF InitCurrentLocationTracking
<1>3. CASE frequency # "snapshot"
  <2>1. Others = 0
    BY <1>1 DEF Others
  <2>2. handle' = TRUE /\ intervals' = Others + 1
    BY <1>3 DEF InitCurrentLocationTracking, Started
  <2> QED
    BY <2>1, <2>2
<1> QED
  BY <1>2, <1>3

\* What the clean-up leaves.
LEMMA ClearedFacts ==
    ASSUME LocationInv, Cleared
    PROVE  /\ handle' = FALSE /\ intervals' = 0
           /\ current' = NoLocation /\ ~Tracked'
           /\ positionLoads' = FALSE /\ accuracy' = FALSE /\ frequency' \in Frequencies
BY LocationAssumption
DEF Cleared, Others, Tracked, LocationInv, LocationTypeOK, TrackedByOne, OneInterval

\* Asking for a first position stops the interval.
LEMMA LoadInitialFacts ==
    ASSUME LocationInv, NEW from \in Awaiting, LoadInitial(from)
    PROVE  /\ handle' = FALSE /\ intervals' = 0 /\ positionLoads' = TRUE
           /\ positions' \in [Awaiting -> 0 .. MaxPositions]
           /\ positions'[from] > 0
BY LocationAssumption
DEF LoadInitial, Others, LocationInv, LocationTypeOK, TrackedByOne, OneInterval, Awaiting
-----------------------------------------------------------------------------
(* Every action keeps the invariant.                                       *)

LEMMA InitialKeeps ==
    ASSUME LocationInv, NEW from \in Awaiting, NEW ok \in BOOLEAN,
           InitialPosition(from, ok)
    PROVE  LocationInv'
<1> USE LocationAssumption
<1>1. /\ current' \in [id : LocationIds \cup {0}, loading : BOOLEAN]
      /\ locates' \in 0 .. MaxLocates /\ lastId' \in LocationIds \cup {0}
      /\ current'.loading => locates' > 0
      /\ current'.id = 0 => ~current'.loading
      /\ current'.id <= lastId' /\ lastId <= lastId'
      /\ \/ current'.id = current.id /\ (Tracked' <=> Tracked)
         \/ current'.id = lastId + 1
  <2>0. /\ current \in [id : LocationIds \cup {0}, loading : BOOLEAN]
        /\ locates \in 0 .. MaxLocates /\ lastId \in LocationIds \cup {0}
        /\ lastId \in Nat /\ current.id <= lastId
        /\ current.id = 0 => ~current.loading
        /\ current.loading => locates > 0
    BY DEF LocationInv, LocationTypeOK, IdsGrow, NoneIsIdle, LocationAnswered
  <2>1. CASE ok /\ Tracked /\ Locate(current.id) /\ UNCHANGED lastId
    <3>1. current.id \in LocationIds /\ current.id # 0
      BY <2>1, TrackedHasId
    <3>2. /\ current' \in [id : LocationIds \cup {0}, loading : BOOLEAN]
          /\ current'.id = current.id
          /\ locates' \in 0 .. MaxLocates
          /\ current'.loading => locates' > 0
      BY <2>1, <3>1, LocateFacts
    <3>3. Tracked'
      BY <3>1, <3>2 DEF Tracked, NoLocation
    <3> QED
      BY <2>0, <2>1, <3>1, <3>2, <3>3
  <2>2. CASE /\ ok /\ ~Tracked /\ lastId + 1 \in LocationIds
             /\ Locate(lastId + 1) /\ lastId' = lastId + 1
    <3>1. /\ current' \in [id : LocationIds \cup {0}, loading : BOOLEAN]
          /\ current'.id = lastId + 1
          /\ locates' \in 0 .. MaxLocates
          /\ current'.loading => locates' > 0
      BY <2>2, LocateFacts
    <3> QED
      BY <2>0, <2>2, <3>1
  <2>3. CASE UNCHANGED <<current, locates, lastId>>
    <3>1. Tracked' <=> Tracked
      BY <2>3 DEF Tracked
    <3> QED
      BY <2>0, <2>3, <3>1
  <2> QED
    BY <2>1, <2>2, <2>3 DEF InitialPosition
<1>2. /\ UNCHANGED <<locationConfig, frequency, accuracy, beacon, firstUpdate>>
      /\ positionLoads' = FALSE
      /\ positions' \in [Awaiting -> 0 .. MaxPositions]
      /\ from # "beacon" => positions'["beacon"] = positions["beacon"]
  BY DEF InitialPosition, LocationInv, LocationTypeOK, Awaiting
<1>3. /\ handle' \in BOOLEAN /\ intervals' = IF handle' THEN 1 ELSE 0
      /\ from = "beacon" /\ frequency # "snapshot" => intervals' = 1
      /\ from # "beacon" => UNCHANGED <<handle, intervals>>
  BY InitFacts
  DEF InitialPosition, Restarts, LocationInv, LocationTypeOK, TrackedByOne, OneInterval
<1>4. LocationTypeOK'
  <2>1. intervals' \in 0 .. 2
    BY <1>3
  <2> QED
    BY <1>1, <1>2, <1>3, <2>1 DEF LocationInv, LocationTypeOK
<1>5. TrackedByOne'
  <2> SUFFICES ASSUME Tracked', frequency' # "snapshot", BeaconIsDrawn',
                      positions'["beacon"] = 0
               PROVE  intervals' = 1
    BY <1>3 DEF TrackedByOne, OneInterval
  <2>1. CASE from = "beacon"
    BY <2>1, <1>2, <1>3
  <2>2. CASE from # "beacon"
    <3>1. current'.id = current.id /\ Tracked /\ BeaconIsDrawn
      BY <1>1, <1>2 DEF BeaconIsDrawn, BeaconDepends, LocationInv, LocationTypeOK, IdsGrow
    <3> QED
      BY <2>2, <3>1, <1>2, <1>3 DEF LocationInv, TrackedByOne
  <2> QED
    BY <2>1, <2>2
<1>6. IdsGrow' /\ StartedOnce' /\ NoneIsIdle' /\ LocationAnswered'
  <2>1. IdsGrow'
    <3>1. beacon.id \in LocationIds \cup {0} /\ lastId \in LocationIds \cup {0}
      BY DEF LocationInv, LocationTypeOK
    <3>2. beacon.id \in Nat /\ lastId \in Nat
      <4>1. LocationIds \cup {0} \subseteq Nat
        BY LocationAssumption
      <4> QED
        BY ONLY <3>1, <4>1
    <3>3. lastId' \in Nat
      BY <1>1
    <3>4. beacon.id <= lastId
      BY DEF LocationInv, IdsGrow
    <3>5. beacon'.id = beacon.id /\ beacon'.id <= lastId'
      BY <1>1, <1>2, <3>2, <3>3, <3>4
    <3> QED
      BY <3>5, <1>1 DEF IdsGrow
  <2>2. StartedOnce'
    BY <1>1, <1>2 DEF LocationInv, LocationTypeOK, IdsGrow, StartedOnce
  <2> QED
    BY <1>1, <2>1, <2>2 DEF NoneIsIdle, LocationAnswered
<1> QED
  BY <1>4, <1>5, <1>6 DEF LocationInv

LEMMA TickPositionKeeps ==
    ASSUME LocationInv, NEW same \in BOOLEAN, TickPosition(same)
    PROVE  LocationInv'
<1>1. /\ current' \in [id : LocationIds \cup {0}, loading : BOOLEAN]
      /\ current'.id = current.id /\ (Tracked' <=> Tracked)
      /\ locates' \in 0 .. MaxLocates
      /\ current'.loading => locates' > 0
      /\ current'.id = 0 => ~current'.loading
  <2>1. CASE UNCHANGED <<current, locates>>
    BY <2>1 DEF LocationInv, LocationTypeOK, Tracked, NoneIsIdle, LocationAnswered
  <2>2. CASE /\ Tracked /\ current' = [current EXCEPT !.loading = FALSE]
             /\ UNCHANGED locates
    BY <2>2, TrackedHasId, LocationAssumption
    DEF LocationInv, LocationTypeOK, Tracked, NoLocation
  <2>3. CASE Tracked /\ Locate(current.id)
    <3>1. current.id \in LocationIds /\ current.id # 0
      BY <2>3, TrackedHasId, LocationAssumption
    <3>2. /\ current' \in [id : LocationIds \cup {0}, loading : BOOLEAN]
          /\ current'.id = current.id
          /\ locates' \in 0 .. MaxLocates
          /\ current'.loading => locates' > 0
      BY <2>3, <3>1, LocateFacts
    <3>3. Tracked'
      BY <3>1, <3>2 DEF Tracked, NoLocation
    <3> QED
      BY <2>3, <3>1, <3>2, <3>3
  <2> QED
    BY <2>1, <2>2, <2>3 DEF TickPosition
<1>2. /\ positions' \in [Awaiting -> 0 .. MaxPositions]
      /\ positions'["beacon"] = positions["beacon"]
  BY LocationAssumption DEF TickPosition, LocationInv, LocationTypeOK, Awaiting
<1> QED
  BY <1>1, <1>2
  DEF TickPosition, LocationInv, LocationTypeOK, TrackedByOne, OneInterval, IdsGrow,
      StartedOnce, NoneIsIdle, LocationAnswered, BeaconIsDrawn, BeaconDepends

LEMMA BeaconKeeps ==
    ASSUME LocationInv, BeaconEffects
    PROVE  LocationInv'
<1> USE LocationAssumption
<1>1. /\ beacon' = [id |-> current.id, frequency |-> frequency, accuracy |-> accuracy]
      /\ beacon' \in [id : LocationIds \cup {0}, frequency : Frequencies,
                      accuracy : BOOLEAN]
      /\ beacon'.id = current.id
      /\ UNCHANGED <<locationConfig, locates, lastId>>
  BY DEF BeaconEffects, BeaconDepends, LocationInv, LocationTypeOK
<1>2. CASE BeaconCleans
  <2>1. /\ firstUpdate' = TRUE /\ UNCHANGED positions /\ handle' = FALSE
        /\ intervals' = 0 /\ current' = [id |-> 0, loading |-> FALSE] /\ ~Tracked'
        /\ positionLoads' = FALSE /\ accuracy' = FALSE /\ frequency' \in Frequencies
    BY <1>2, ClearedFacts DEF BeaconCleans, NoLocation
  <2>2. LocationTypeOK'
    <3>1. current' \in [id : LocationIds \cup {0}, loading : BOOLEAN]
      BY <2>1
    <3>2. {accuracy', positionLoads', handle', firstUpdate'} \subseteq BOOLEAN
      BY <2>1
    <3>3. intervals' \in 0 .. 2
      BY <2>1
    <3> QED
      BY <1>1, <2>1, <3>1, <3>2, <3>3 DEF LocationInv, LocationTypeOK
  <2>3. TrackedByOne' /\ StartedOnce' /\ NoneIsIdle' /\ LocationAnswered'
    BY <2>1 DEF TrackedByOne, OneInterval, StartedOnce, NoneIsIdle, LocationAnswered
  <2>4. IdsGrow'
    BY <1>1, <2>1 DEF LocationInv, LocationTypeOK, IdsGrow
  <2> QED
    BY <2>2, <2>3, <2>4 DEF LocationInv
<1>3. CASE BeaconTracks
  <2>1. UNCHANGED <<current, frequency, accuracy>> /\ (Tracked' <=> Tracked)
    BY <1>3 DEF BeaconTracks, Tracked
  <2>2. /\ handle' \in BOOLEAN /\ intervals' = IF handle' THEN 1 ELSE 0
        /\ {positionLoads', firstUpdate'} \subseteq BOOLEAN
        /\ positions' \in [Awaiting -> 0 .. MaxPositions]
        /\ Tracked => ~firstUpdate'
        /\ Tracked /\ frequency # "snapshot" =>
                intervals' = 1 \/ positions'["beacon"] > 0
    <3>1. CASE ~Tracked
      BY <1>3, <3>1
      DEF BeaconTracks, LocationInv, LocationTypeOK, TrackedByOne, OneInterval
    <3>2. CASE Tracked /\ firstUpdate
      BY <1>3, <3>2, InitFacts DEF BeaconTracks, LocationInv, LocationTypeOK
    <3>3. CASE Tracked /\ ~firstUpdate
      <4>1. "beacon" \in Awaiting
        BY DEF Awaiting
      <4>2. LoadInitial("beacon") /\ UNCHANGED firstUpdate
        BY <1>3, <3>3 DEF BeaconTracks
      <4>3. /\ handle' = FALSE /\ intervals' = 0 /\ positionLoads' = TRUE
            /\ positions' \in [Awaiting -> 0 .. MaxPositions]
            /\ positions'["beacon"] > 0
        BY <4>1, <4>2, LoadInitialFacts
      <4> QED
        BY <3>3, <4>2, <4>3 DEF LocationInv, LocationTypeOK
    <3> QED
      BY <3>1, <3>2, <3>3
  <2>3. LocationTypeOK'
    <3>1. intervals' \in 0 .. 2
      BY <2>2
    <3> QED
      BY <1>1, <2>1, <2>2, <3>1 DEF LocationInv, LocationTypeOK
  <2>4. TrackedByOne'
    BY <2>1, <2>2, <2>3 DEF TrackedByOne, OneInterval, LocationTypeOK, Awaiting
  <2>5. IdsGrow' /\ StartedOnce' /\ NoneIsIdle' /\ LocationAnswered'
    BY <1>1, <2>1, <2>2
    DEF LocationInv, IdsGrow, StartedOnce, NoneIsIdle, LocationAnswered
  <2> QED
    BY <2>3, <2>4, <2>5 DEF LocationInv
<1> QED
  BY <1>2, <1>3 DEF BeaconEffects

LEMMA SubmitKeeps ==
    ASSUME LocationInv, Submit
    PROVE  LocationInv'
<1>1. /\ UNCHANGED <<locationConfig, current, frequency, accuracy, locates, beacon,
                    firstUpdate, lastId>>
      /\ ~Tracked /\ ~Tracked'
  BY DEF Submit, Tracked
<1>2. "form" \in Awaiting /\ LoadInitial("form")
  BY DEF Submit, Awaiting
<1>3. /\ handle' = FALSE /\ intervals' = 0 /\ positionLoads' = TRUE
      /\ positions' \in [Awaiting -> 0 .. MaxPositions]
  BY <1>2, LoadInitialFacts
<1>4. LocationTypeOK'
  <2>1. intervals' \in 0 .. 2
    BY <1>3
  <2> QED
    BY <1>1, <1>3, <2>1 DEF LocationInv, LocationTypeOK
<1>5. TrackedByOne' /\ StartedOnce'
  BY <1>1, <1>3 DEF TrackedByOne, OneInterval, StartedOnce
<1>6. IdsGrow' /\ NoneIsIdle' /\ LocationAnswered'
  BY <1>1 DEF LocationInv, IdsGrow, NoneIsIdle, LocationAnswered
<1> QED
  BY <1>4, <1>5, <1>6 DEF LocationInv

LEMMA StopKeeps ==
    ASSUME LocationInv, StopTracking
    PROVE  LocationInv'
<1>1. UNCHANGED <<locationConfig, positions, locates, beacon, firstUpdate, lastId>>
  BY DEF StopTracking
<1>2. /\ handle' = FALSE /\ intervals' = 0
      /\ current' = [id |-> 0, loading |-> FALSE] /\ ~Tracked'
      /\ positionLoads' = FALSE /\ accuracy' = FALSE /\ frequency' \in Frequencies
  BY ClearedFacts DEF StopTracking, NoLocation
<1>3. LocationTypeOK'
  <2>1. current' \in [id : LocationIds \cup {0}, loading : BOOLEAN]
    BY <1>2
  <2>2. {accuracy', positionLoads', handle', firstUpdate'} \subseteq BOOLEAN
    BY <1>1, <1>2 DEF LocationInv, LocationTypeOK
  <2>3. intervals' \in 0 .. 2
    BY <1>2
  <2> QED
    BY <1>1, <1>2, <2>1, <2>2, <2>3 DEF LocationInv, LocationTypeOK
<1>4. TrackedByOne' /\ StartedOnce' /\ NoneIsIdle' /\ LocationAnswered'
  BY <1>2 DEF TrackedByOne, OneInterval, StartedOnce, NoneIsIdle, LocationAnswered
<1>5. IdsGrow'
  BY <1>1, <1>2, LocationAssumption DEF LocationInv, LocationTypeOK, IdsGrow
<1> QED
  BY <1>3, <1>4, <1>5 DEF LocationInv

LEMMA LocateAnswerKeeps ==
    ASSUME LocationInv, NEW ok \in BOOLEAN, LocateAnswer(ok)
    PROVE  LocationInv'
<1>1. /\ UNCHANGED <<locationConfig, frequency, accuracy, positionLoads, handle, intervals,
                    positions, beacon, firstUpdate, lastId>>
      /\ locates > 0 /\ locates' = locates - 1
  BY DEF LocateAnswer
<1>2. locates' \in 0 .. MaxLocates
  BY <1>1, LocationAssumption DEF LocationInv, LocationTypeOK
<1>3. /\ current' \in [id : LocationIds \cup {0}, loading : BOOLEAN]
      /\ current'.id = current.id /\ ~current'.loading /\ (Tracked' <=> Tracked)
  <2>1. CASE Tracked
    <3>1. current.id \in LocationIds /\ current.id # 0
      BY <2>1, TrackedHasId, LocationAssumption
    <3>2. current' = [current EXCEPT !.loading = FALSE]
      BY <2>1 DEF LocateAnswer, Located
    <3>3. /\ current' \in [id : LocationIds \cup {0}, loading : BOOLEAN]
          /\ current'.id = current.id /\ ~current'.loading
      BY <3>2 DEF LocationInv, LocationTypeOK
    <3>4. Tracked'
      BY <3>1, <3>3 DEF Tracked, NoLocation
    <3> QED
      BY <2>1, <3>3, <3>4
  <2>2. CASE ~Tracked
    <3>1. current' = current
      BY <2>2 DEF LocateAnswer
    <3>2. current.id = 0 /\ ~current.loading
      BY <2>2 DEF Tracked, NoLocation
    <3>3. ~Tracked'
      BY <2>2, <3>1 DEF Tracked
    <3> QED
      BY <2>2, <3>1, <3>2, <3>3 DEF LocationInv, LocationTypeOK
  <2> QED
    BY <2>1, <2>2
<1>4. LocationTypeOK'
  BY <1>1, <1>2, <1>3 DEF LocationInv, LocationTypeOK
<1>5. TrackedByOne'
  BY <1>1, <1>3 DEF LocationInv, TrackedByOne, OneInterval, BeaconIsDrawn, BeaconDepends
<1>6. IdsGrow' /\ StartedOnce' /\ NoneIsIdle' /\ LocationAnswered'
  BY <1>1, <1>3
  DEF LocationInv, IdsGrow, StartedOnce, NoneIsIdle, LocationAnswered
<1> QED
  BY <1>4, <1>5, <1>6 DEF LocationInv

LEMMA LocationKeep == LocationInv /\ [LocationNext]_location => LocationInv'
<1> SUFFICES ASSUME LocationInv, [LocationNext]_location PROVE LocationInv'
    OBVIOUS
<1>1. ASSUME NEW f \in Frequencies, NEW a \in BOOLEAN, ChooseParams(f, a)
      PROVE  LocationInv'
    BY <1>1, LocationAssumption
    DEF ChooseParams, LocationInv, LocationTypeOK, TrackedByOne, OneInterval, IdsGrow, StartedOnce,
           NoneIsIdle, LocationAnswered, Tracked, Awaiting, BeaconIsDrawn, BeaconDepends
<1>2. CASE Submit
    BY <1>2, SubmitKeeps
<1>3. CASE StopTracking
    BY <1>3, StopKeeps
<1>4. ASSUME NEW from \in Awaiting, NEW ok \in BOOLEAN, InitialPosition(from, ok)
      PROVE  LocationInv'
    BY <1>4, InitialKeeps
<1>5. CASE Tick
    BY <1>5, LocationAssumption
    DEF Tick, LocationInv, LocationTypeOK, TrackedByOne, OneInterval, IdsGrow, StartedOnce,
           NoneIsIdle, LocationAnswered, Tracked, Awaiting, BeaconIsDrawn, BeaconDepends
<1>6. ASSUME NEW same \in BOOLEAN, TickPosition(same)
      PROVE  LocationInv'
    BY <1>6, TickPositionKeeps
<1>7. ASSUME NEW ok \in BOOLEAN, LocateAnswer(ok)
      PROVE  LocationInv'
    BY <1>7, LocateAnswerKeeps
<1>8. CASE SetLocationConfig
    BY <1>8, LocationAssumption
    DEF SetLocationConfig, LocationInv, LocationTypeOK, TrackedByOne, OneInterval, IdsGrow,
           StartedOnce, NoneIsIdle, LocationAnswered, Tracked, Awaiting, BeaconIsDrawn, BeaconDepends
<1>9. CASE BeaconEffects
    BY <1>9, BeaconKeeps
<1>10. CASE UNCHANGED location
    BY <1>10, LocationAssumption
    DEF location, LocationInv, LocationTypeOK, TrackedByOne, OneInterval, IdsGrow, StartedOnce,
           NoneIsIdle, LocationAnswered, Tracked, Awaiting, BeaconIsDrawn, BeaconDepends
<1> QED
    BY ONLY [LocationNext]_location, <1>1, <1>2, <1>3, <1>4, <1>5, <1>6, <1>7, <1>8, <1>9,
       <1>10 DEF LocationNext
-----------------------------------------------------------------------------
(* Theorems                                                                *)

\* What the divisions' theorems rest on: MountedIsDrawn, OwnGeometry, RequestsMeant,
\* LoadingIsThere and the counts, kept by every event of app-map.store.ts.
THEOREM DivisionsInvariance == DivisionsSpec => []DivisionsInv
BY DivisionsStart, DivisionsKeep, PTL DEF DivisionsSpec

\* What the pins' theorems rest on: IdsDiffer, FindsAsked and ListOK, kept by every
\* operation of pinned-locations.store.ts on the list.
THEOREM PinsInvariance == PinsSpec => []PinsInv
BY PinsStart, PinsKeep, PTL DEF PinsSpec

\* What TrackingIsOne rests on: StartedOnce and IdsGrow, kept by the beacon's effects
\* and by every answer of the browser.
THEOREM LocationInvariance == LocationSpec => []LocationInv
BY LocationStart, LocationKeep, PTL DEF LocationSpec

\* An entry of the map's store counts exactly the components that refer to it,
\* and is there as long as one does: the effects and clean-ups of the islands,
\* however they, the toggles, the answers and the timer come in turn.
THEOREM CountsAreExact == DivisionsSpec => []ReferencesCounted
<1>1. DivisionsInv => ReferencesCounted
  BY DEF DivisionsInv
<1>. QED
  BY <1>1, DivisionsInvariance, PTL

\* What the map draws of a division is the division's own geometry: toggles
\* never render an entry without one, and loadAdmEntityGeoJsonFromApi() asks
\* with the division's own id, but for a province whose id is not repeated.
THEOREM DrawnIsOwn == DivisionsSpec => []DrawnIsItsOwn
BY DivisionsInvariance, DivisionsPromise, PTL

\* A pin's fokontany is never another's and, once its requests are answered in
\* their order, is that of where it is now: loadPinnedLocationFokontany() looks
\* its entry up again after its await.
THEOREM PinsAreRight == PinsSpec => []PinIsRight
BY PinsInvariance, PinsPromise, PTL

\* What the layers' theorems rest on: LayersInv, kept by every event of the viewer's
\* levels, of the downloads' workers and of the passes over what they ended with.
THEOREM LayersInvariance == LayersSpec => []LayersInv
BY LayersStart, LayersKeep, PTL DEF LayersSpec

\* A level the viewer calls cached is stored whole, for files of any length and
\* any number of downloads, passes over them, failures and reloads of the page.
THEOREM CacheIsWhole == LayersSpec => []CachedIsStored
<1>1. LayersInv => CachedIsStored
  BY DEF LayersInv
<1>. QED
  BY <1>1, LayersInvariance, PTL

\* A level the viewer calls loading has something under way that will end it, or
\* is one that a rejected pass of handleAdmGeoJsonDownloadsResolved() left behind.
THEOREM LoadingAnswered == LayersSpec => []LoadingIsAnswered
<1>1. LayersInv => LoadingIsAnswered
  BY DEF LayersInv
<1>. QED
  BY <1>1, LayersInvariance, PTL

\* At most one interval runs, the one the store can stop, and it runs whenever a
\* location is to be tracked: initCurrentLocationTracking() and the beacon's
\* effects keep this through every order of answers, changes and stops.
THEOREM TrackingIsOne == LocationSpec => []TrackedByOne
<1>1. LocationInv => TrackedByOne
  BY DEF LocationInv
<1>. QED
  BY <1>1, LocationInvariance, PTL

\* The four together, as MapViewer puts them on a page.
PageInv ==
    /\ part \in Parts
    /\ DivisionsInv /\ LayersInv /\ PinsInv /\ LocationInv

\* Every step of one store keeps its own invariant and leaves the others alone.
THEOREM PageInvariance == Spec => []PageInv
<1>1. Init => PageInv
  BY DivisionsStart, LayersStart, PinsStart, LocationStart DEF Init, PageInv
<1>2. PageInv /\ [Next]_vars => PageInv'
  <2> SUFFICES ASSUME PageInv, [Next]_vars PROVE PageInv'
    OBVIOUS
  <2>1. /\ [DivisionsNext]_divisions /\ [LayersNext]_layers /\ [PinsNext]_pins
        /\ [LocationNext]_location /\ part' = part
    BY DEF Next, vars
  <2>. QED
    BY <2>1, DivisionsKeep, LayersKeep, PinsKeep, LocationKeep DEF PageInv
<1>. QED
  BY <1>1, <1>2, PTL DEF Spec

\* Every reachable state of the page's stores is typed.
THEOREM TypeCorrect == Spec => []TypeOK
<1>1. PageInv => TypeOK
  BY DivisionsPromise, LayersTypes DEF PageInv, LayersInv, PinsInv, LocationInv, TypeOK
<1>. QED
  BY <1>1, PageInvariance, PTL

\* Whatever says on the page that it is loading, a division, a pin or the current
\* location, has something under way that will end it.
THEOREM SpinnersAreAnswered == Spec => []SpinnersAnswered
<1>1. PageInv => SpinnersAnswered
  BY PinsPromise DEF PageInv, DivisionsInv, LocationInv, SpinnersAnswered
<1>. QED
  BY <1>1, PageInvariance, PTL
=============================================================================
