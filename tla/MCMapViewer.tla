----------------------------- MODULE MCMapViewer -----------------------------
(* A province, a region and a fokontany, one in the other; two levels, one  *)
(* with two overlapping downloads, one with a file of two lines; two pins,  *)
(* one of which is moved; two sessions of tracking.                         *)
EXTENDS MapViewer, TLC

MCDivisionLevel == 1 :> Province @@ 2 :> Region @@ 3 :> Fokontany
MCAbove == 1 :> {} @@ 2 :> {1} @@ 3 :> {1, 2}
MCItemOf == [a \in Parents |-> CHOOSE i \in Items : TRUE]
MCConfigs == {{}, {"isFkRepeated", "isProvinceFkRepeated"}}
MCLines == 3 :> 1 @@ 4 :> 2
MCJobs == {<<3, 1>>, <<3, 2>>, <<4, 1>>}
MCSpots == 1 :> {1, 2} @@ 2 :> {3}
=============================================================================
