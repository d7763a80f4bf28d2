---------------------------- MODULE MongoAdapter -----------------------------
(***************************************************************************)
(* The ADM collections of MongoDB: the validator each create() installs,   *)
(* and the fields the data manipulation names.                             *)
(*                                                                         *)
(* Source: adapters/mongo.  A validator requires fields and lets others    *)
(* in, there are no foreign keys, and a second createCollection() fails.   *)
(***************************************************************************)
EXTENDS AdmTables

ProvincesTable(config) ==
    LET geojson == When("hasGeojson" \in config, {"geojson"})
        required ==
            {"province", "createdAt", "updatedAt"}
            \cup When("hasAdmLevel" \in config, {"admLevel"})
            \cup geojson
    IN  [columns |-> {"_id"} \cup required,
         required |-> required,
         references |-> {},
         indexed |-> {"province"}
            \cup When("hasGeojson" \in config, {"geojson"})]

RegionsTable(config) ==
    LET geojson == When("hasGeojson" \in config, {"geojson"})
        required ==
            {"region", "province", "provinceId", "createdAt", "updatedAt"}
            \cup When("hasAdmLevel" \in config, {"admLevel"})
            \cup geojson
    IN  [columns |-> {"_id"} \cup required,
         required |-> required,
         references |-> {},
         indexed |-> {"region", "provinceId"}
            \cup When("hasGeojson" \in config, {"geojson"})]

DistrictsTable(config) ==
    LET provinceId ==
            When("isProvinceFkRepeated" \in config, {"provinceId"})
        geojson == When("hasGeojson" \in config, {"geojson"})
        required ==
            {"district", "region", "regionId", "createdAt", "updatedAt"}
            \cup When("isProvinceRepeated" \in config, {"province"})
            \cup When("hasAdmLevel" \in config, {"admLevel"})
            \cup provinceId \cup geojson
    IN  [columns |-> {"_id"} \cup required,
         required |-> required,
         references |-> {},
         indexed |-> {"district", "regionId"}
            \cup When("isProvinceFkRepeated" \in config, {"provinceId"})
            \cup When("hasGeojson" \in config, {"geojson"})]

CommunesTable(config) ==
    LET provinceId ==
            When("isProvinceFkRepeated" \in config, {"provinceId"})
        ancestorIds ==
            When("isFkRepeated" \in config, {"regionId"})
        geojson == When("hasGeojson" \in config, {"geojson"})
        required ==
            {"commune", "district", "region", "districtId",
             "createdAt", "updatedAt"}
            \cup When("isProvinceRepeated" \in config, {"province"})
            \cup When("hasAdmLevel" \in config, {"admLevel"})
            \cup provinceId \cup ancestorIds \cup geojson
    IN  [columns |-> {"_id"} \cup required,
         required |-> required,
         references |-> {},
         indexed |-> {"commune", "districtId"}
            \cup When("isProvinceFkRepeated" \in config, {"provinceId"})
            \cup When("isFkRepeated" \in config, {"regionId"})
            \cup When("hasGeojson" \in config, {"geojson"})]

FokontanysTable(config) ==
    LET provinceId ==
            When("isProvinceFkRepeated" \in config, {"provinceId"})
        ancestorIds ==
            When("isFkRepeated" \in config, {"regionId", "districtId"})
        geojson == When("hasGeojson" \in config, {"geojson"})
        required ==
            {"fokontany", "commune", "district", "region",
             "communeId", "createdAt", "updatedAt"}
            \cup When("isProvinceRepeated" \in config, {"province"})
            \cup When("hasAdmLevel" \in config, {"admLevel"})
            \cup provinceId \cup ancestorIds \cup geojson
    IN  [columns |-> {"_id"} \cup required,
         required |-> required,
         references |-> {},
         indexed |-> {"fokontany", "communeId", "_id"}
            \cup When("isProvinceFkRepeated" \in config, {"provinceId"})
            \cup When("isFkRepeated" \in config, {"regionId", "districtId"})
            \cup When("hasGeojson" \in config, {"geojson"})]

Table(config) ==
    <<ProvincesTable(config), RegionsTable(config), DistrictsTable(config),
      CommunesTable(config), FokontanysTable(config)>>
-----------------------------------------------------------------------------
(* Data manipulation.  A table's class chooses which attributes identify a *)
(* row for a lookup and for an update of its geometry, and the levels whose *)
(* names updateFieldByIds() may set; the base class writes the statements. *)

ProvincesDML ==
    [lookup |-> {"province"}, fields |-> {Province},
     geojson |-> {"province"}]
RegionsDML ==
    [lookup |-> {"region"}, fields |-> 1 .. Region,
     geojson |-> {"region"}]
DistrictsDML ==
    [lookup |-> {"district"}, fields |-> 1 .. District,
     geojson |-> {"district"}]
CommunesDML ==
    [lookup |-> {"commune", "district"}, fields |-> 1 .. Commune,
     geojson |-> {"commune", "district"}]
FokontanysDML ==
    [lookup |-> {"fokontany", "commune", "district"},
     fields |-> 1 .. Fokontany,
     geojson |-> {"fokontany", "commune", "district"}]

DML ==
    <<ProvincesDML, RegionsDML, DistrictsDML, CommunesDML, FokontanysDML>>

GetManyByAttributes(l) == DML[l].lookup

UpdateGeojsonByIdentifiers(l) ==
    DML[l].geojson \cup {"geojson"}

\* The fields of a document, of those the record has.
CreateMany(l, config) ==
    {"createdAt", "updatedAt"} \cup {Titles[l]}
    \cup {Titles[a] : a \in {b \in 1 .. l - 1 : b > Province \/ l = Region}}
    \cup When(l > Province, {FkField[l - 1]})
    \cup (Records[l] \cap
            (When(l >= District /\ "isProvinceRepeated" \in config, {"province"})
             \cup When(l = Fokontany /\ "isFkRepeated" \in config,
                       {"districtId", "regionId"})
             \cup When(l = Commune /\ "isFkRepeated" \in config, {"regionId"})
             \cup When(l >= District /\ "isProvinceFkRepeated" \in config,
                       {"provinceId"})
             \cup When("hasAdmLevel" \in config, {"admLevel"})
             \cup When("hasGeojson" \in config, {"geojson"})))

\* The group whose first document stays.
DeleteDuplicates(l) ==
    CASE l = Commune -> {"commune", "district"}
      [] l = Fokontany -> {"fokontany", "commune", "district"}
      [] OTHER -> {Titles[l]}

GetManyByParentsIds(l) == IF l = Province THEN {} ELSE {FkField[l - 1]}

UpdateFieldByIds(l, field) == {Titles[field]}
=============================================================================
