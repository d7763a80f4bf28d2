---------------------------- MODULE MySQLAdapter -----------------------------
(***************************************************************************)
(* The ADM tables on MySQL: what each table's create() builds, and the     *)
(* columns its data manipulation names.                                    *)
(*                                                                         *)
(* Source: adapters/mysql.  The optional indexes are added by ALTER TABLE, *)
(* whose failure create() ignores.                                         *)
(***************************************************************************)
EXTENDS AdmTables

ProvincesTable(config) ==
    LET geojson == When("hasGeojson" \in config, {"geojson"})
        required ==
            {"province"}
            \cup geojson
    IN  [columns |-> SystemColumns(config) \cup required,
         required |-> required,
         references |-> {},
         indexed |-> {"province"}
            \cup When("hasGeojson" \in config, {"geojson"})]

RegionsTable(config) ==
    LET geojson == When("hasGeojson" \in config, {"geojson"})
        required ==
            {"region", "province", "province_id"}
            \cup geojson
    IN  [columns |-> SystemColumns(config) \cup required,
         required |-> required,
         references |->
            {<<"province_id", Province>>},
         indexed |-> {"region", "province_id"}
            \cup When("hasGeojson" \in config, {"geojson"})]

DistrictsTable(config) ==
    LET provinceId ==
            When("isProvinceFkRepeated" \in config, {"province_id"})
        geojson == When("hasGeojson" \in config, {"geojson"})
        required ==
            {"district", "region", "region_id"}
            \cup When("isProvinceRepeated" \in config, {"province"})
            \cup provinceId \cup geojson
    IN  [columns |-> SystemColumns(config) \cup required,
         required |-> required,
         references |->
            {<<"region_id", Region>>}
            \cup {<<c, Province>> : c \in provinceId},
         indexed |-> {"district", "region_id"}
            \cup When("isProvinceFkRepeated" \in config, {"province_id"})
            \cup When("hasGeojson" \in config, {"geojson"})]

CommunesTable(config) ==
    LET provinceId ==
            When("isProvinceFkRepeated" \in config, {"province_id"})
        ancestorIds ==
            When("isFkRepeated" \in config, {"region_id"})
        geojson == When("hasGeojson" \in config, {"geojson"})
        required ==
            {"commune", "district", "region", "district_id"}
            \cup When("isProvinceRepeated" \in config, {"province"})
            \cup provinceId \cup ancestorIds \cup geojson
    IN  [columns |-> SystemColumns(config) \cup required,
         required |-> required,
         references |->
            {<<"district_id", District>>}
            \cup {<<c, Province>> : c \in provinceId}
            \cup {<<c, Region>> : c \in ancestorIds},
         indexed |-> {"commune", "district_id"}
            \cup When("isProvinceFkRepeated" \in config, {"province_id"})
            \cup When("isFkRepeated" \in config, {"region_id"})
            \cup When("hasGeojson" \in config, {"geojson"})]

FokontanysTable(config) ==
    LET provinceId ==
            When("isProvinceFkRepeated" \in config, {"province_id"})
        ancestorIds ==
            When("isFkRepeated" \in config, {"region_id", "district_id"})
        geojson == When("hasGeojson" \in config, {"geojson"})
        required ==
            {"fokontany", "commune", "district", "region", "commune_id"}
            \cup When("isProvinceRepeated" \in config, {"province"})
            \cup provinceId \cup ancestorIds \cup geojson
    IN  [columns |-> SystemColumns(config) \cup required,
         required |-> required,
         references |->
            {<<"commune_id", Commune>>}
            \cup {<<c, Province>> : c \in provinceId}
            \cup When("isFkRepeated" \in config,
                      {<<"region_id", Region>>, <<"district_id", District>>}),
         indexed |-> {"fokontany", "commune_id", "id"}
            \cup When("isProvinceFkRepeated" \in config, {"province_id"})
            \cup When("isFkRepeated" \in config, {"region_id", "district_id"})
            \cup When("hasGeojson" \in config, {"geojson"})]

Table(config) ==
    <<ProvincesTable(config), RegionsTable(config), DistrictsTable(config),
      CommunesTable(config), FokontanysTable(config)>>
-----------------------------------------------------------------------------
(* Data manipulation.  A table's class chooses which attributes identify a *)
(* row for a lookup and for an update of its geometry, and the levels whose *)
(* names updateFieldByIds() may set; the base class writes the statements. *)

ProvincesDML ==
    [lookup |-> {"province"}, fields |-> {Province},
     geojson |-> {"province"}]
RegionsDML ==
    [lookup |-> {"region"}, fields |-> 1 .. Region,
     geojson |-> {"region"}]
DistrictsDML ==
    [lookup |-> {"district"}, fields |-> 1 .. District,
     geojson |-> {"district"}]
CommunesDML ==
    [lookup |-> {"commune", "district"}, fields |-> 1 .. Commune,
     geojson |-> {"commune", "district"}]
FokontanysDML ==
    [lookup |-> {"fokontany", "commune", "district"},
     fields |-> 1 .. Fokontany,
     geojson |-> {"fokontany", "commune", "district"}]

DML ==
    <<ProvincesDML, RegionsDML, DistrictsDML, CommunesDML, FokontanysDML>>

GetManyByAttributes(l) == DML[l].lookup

UpdateGeojsonByIdentifiers(l) ==
    DML[l].geojson \cup {"geojson", "updated_at"}

CreateMany(l, config) ==
    LET skipped ==
            When("hasGeojson" \notin config, {"geojson"})
            \cup When(l >= District /\ "isProvinceRepeated" \notin config,
                      {"province"})
            \cup When(l >= District /\ "isProvinceFkRepeated" \notin config,
                      {"provinceId"})
            \cup When(l = Commune /\ "isFkRepeated" \notin config,
                      {"regionId"})
            \cup When(l = Fokontany /\ "isFkRepeated" \notin config,
                      {"regionId", "districtId"})
    IN  {CamelToSnakeCase(a) : a \in Records[l] \ skipped}

\* The partition whose first row stays.
DeleteDuplicates(l) == {Titles[l]} \cup {Titles[a] : a \in District .. l - 1}

GetManyByParentsIds(l) == IF l = Province THEN {} ELSE {FkColumn[l - 1]}

UpdateFieldByIds(l, field) == {Titles[field]} \cup {"updated_at"}
=============================================================================
