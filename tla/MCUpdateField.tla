---------------------------- MODULE MCUpdateField ----------------------------
(* Two regions with a district each, and a commune and a fokontany below one. *)
EXTENDS UpdateField, TLC

CONSTANTS p, r1, r2, d1, d2, c1, f1, ivo, ony, first, second

MCRows == {p, r1, r2, d1, d2, c1, f1}
MCLineage ==
    p :> <<p>> @@ r1 :> <<p, r1>> @@ r2 :> <<p, r2>>
    @@ d1 :> <<p, r1, d1>> @@ d2 :> <<p, r2, d2>>
    @@ c1 :> <<p, r1, d1, c1>> @@ f1 :> <<p, r1, d1, c1, f1>>
MCNames == {ivo, ony}
MCFirstName == [r \in MCRows |-> IF r = r2 THEN ony ELSE ivo]
MCCommands == {first, second}
MCConfigs == {{"hasGeojson"}, {"isProvinceRepeated"}}
=============================================================================
