------------------------------ MODULE AdmTables ------------------------------
(***************************************************************************)
(* What the code of every database agrees on about an ADM table: the       *)
(* levels, the names of the columns that refer to them, and which columns  *)
(* the reading commands ask for under a configuration.                     *)
(*                                                                         *)
(* Source: helpers/db.helper.ts, consts/models.const.ts and the processing *)
(* worker of the seeding command.                                          *)
(*                                                                         *)
(* A configuration is the set of its options that are on; the tables       *)
(* prefix plays no part here (SeedJob has it).  Sets of columns stand for  *)
(* the lists of the code.                                                  *)
(***************************************************************************)
EXTENDS Naturals, FiniteSets

Options == {"isFkRepeated", "isProvinceRepeated", "isProvinceFkRepeated",
            "hasGeojson", "hasAdmLevel"}

\* ADM_LEVEL_CODES_INDEXED, counted from one.
Titles == <<"province", "region", "district", "commune", "fokontany">>
Levels == 1 .. 5
Province == 1  Region == 2  District == 3  Commune == 4  Fokontany == 5

\* The column, and the document's or record's field, with an ancestor's id.
FkColumn ==
    <<"province_id", "region_id", "district_id", "commune_id", "fokontany_id">>
FkField == <<"provinceId", "regionId", "districtId", "communeId", "fokontanyId">>

\* What depends on an option.
When(condition, S) == IF condition THEN S ELSE {}

\* StringUtils.camelToSnakeCase on a record's attributes.
CamelToSnakeCase(attribute) ==
    LET fks == {l \in Levels : FkField[l] = attribute}
    IN  IF fks # {} THEN FkColumn[CHOOSE l \in fks : TRUE]
        ELSE IF attribute = "admLevel" THEN "adm_level" ELSE attribute
-----------------------------------------------------------------------------
(* A table, as its DDL builds it: its columns (or the fields its validator *)
(* knows), those an INSERT must supply ("required"), the foreign keys      *)
(* ("references") and the columns of its indexes ("indexed").              *)

\* The columns every SQL table has besides its names and foreign keys.
SystemColumns(config) ==
    {"id", "created_at", "updated_at"}
    \cup When("hasAdmLevel" \in config, {"adm_level"})
-----------------------------------------------------------------------------
(* Reading *)

\* The ancestors whose names a table repeats.
NamesRepeated(l, config) ==
    {a \in 1 .. l - 1 :
        a > Province \/ l = Region \/ "isProvinceRepeated" \in config}

\* Mutant: only the parent's id is selected.
FkOfParent(l, config) == {a \in Levels : a = l - 1}

\* The ancestors whose ids it has.
FksRepeated(l, config) ==
    {a \in 1 .. l - 1 :
        \/ a = l - 1
        \/ a = Province /\ "isProvinceFkRepeated" \in config
        \/ a > Province /\ "isFkRepeated" \in config}

\* The columns of a SELECT on one table.
GetAdmTableColumns(l, config, fk, mongo, excludeGeojson) ==
    {Titles[a] : a \in NamesRepeated(l, config) \cup {l}}
    \cup {fk[a] : a \in FksRepeated(l, config)}
    \cup When("hasGeojson" \in config /\ ~excludeGeojson, {"geojson"})
    \cup IF mongo
         THEN {"createdAt", "updatedAt"}
              \cup When("hasAdmLevel" \in config, {"admLevel"})
         ELSE SystemColumns(config)

\* The columns of a level's part of the union of all levels that are read
\* from its table; every other one is an aliased NULL or constant, so that
\* the parts of a union have the same columns.
GetAdmEntityUnionSetColumns(l, config) ==
    LET ancestors == 2 .. l - 2
        provinceBelow == l > Region
    IN  {"id", "created_at", "updated_at", Titles[l]}
        \cup When("hasAdmLevel" \in config, {"adm_level"})
        \cup When(l > Province, {Titles[l - 1], FkColumn[l - 1]})
        \cup When(provinceBelow /\ "isProvinceRepeated" \in config, {"province"})
        \cup When(provinceBelow /\ "isProvinceFkRepeated" \in config,
                  {"province_id"})
        \cup {Titles[a] : a \in ancestors}
        \cup When("isFkRepeated" \in config, {FkColumn[a] : a \in ancestors})
-----------------------------------------------------------------------------
(* The records the processing worker hands to the insert worker: the      *)
(* attributes of the input (names, and the geometry when it has one) and   *)
(* the ids of the parent the worker looked up.                             *)

InputAttributes(l) == {Titles[a] : a \in 1 .. l} \cup {"geojson"}

ProvinceRecord == InputAttributes(Province)
RegionRecord == InputAttributes(Region) \cup {"provinceId"}
DistrictRecord == InputAttributes(District) \cup {"regionId", "provinceId"}
CommuneRecord ==
    InputAttributes(Commune) \cup {"districtId", "regionId", "provinceId"}
FokontanyRecord ==
    InputAttributes(Fokontany)
    \cup {"communeId", "districtId", "regionId", "provinceId"}

Records ==
    <<ProvinceRecord, RegionRecord, DistrictRecord, CommuneRecord,
      FokontanyRecord>>

\* What a row of the parent's table, read back, gives the worker: an id it
\* does not have leaves the record's attribute undefined.
Supplied(l, config) ==
    LET parent == l - 1
    IN  InputAttributes(l)
        \cup When(l > Province, {FkField[parent]})
        \cup {FkField[a] : a \in {b \in FksRepeated(parent, config) :
                                     FkField[b] \in Records[l]}}
=============================================================================
