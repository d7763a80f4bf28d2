------------------------------- MODULE Queries -------------------------------
(***************************************************************************)
(* The statements of the query classes, which the query command and the    *)
(* REST API share.  The base class of a level refuses what the             *)
(* configuration has no column for; the class of a database writes the     *)
(* statements.                                                             *)
(*                                                                         *)
(* Source: queries.  A class is a record of its methods.  All select the   *)
(* columns of AdmTables!GetAdmTableColumns; a method is given by the other *)
(* columns its statement names and by whether it returns the connection it *)
(* took from the pool, which on PostgreSQL is up to the caller.            *)
(***************************************************************************)
EXTENDS AdmTables

Returning(columns) == [columns |-> columns, returns |-> TRUE]
Keeping(columns) == [columns |-> columns, returns |-> FALSE]
-----------------------------------------------------------------------------
ProvinceSqliteQueries ==
    [getAll |-> Returning({}),
     getById |-> Returning({"id"}),
     getByPointCoordinates |-> Returning({"geojson"})]

RegionSqliteQueries ==
    [getAll |-> Returning({}),
     getById |-> Returning({"id"}),
     getByPointCoordinates |-> Returning({"geojson"})]

DistrictSqliteQueries ==
    [getMany |-> Returning({"region_id", "province_id", "district", "id"}),
     getById |-> Returning({"id"}),
     getByPointCoordinates |-> Returning({"geojson"}),
     getByFokontanyGeoJson |-> Returning({"geojson"})]

CommuneSqliteQueries ==
    [getMany |->
        Returning({"district_id", "region_id", "province_id",
                  "commune", "id"}),
     getById |-> Returning({"id"}),
     getByPointCoordinates |-> Returning({"geojson"})]

FokontanySqliteQueries ==
    [getMany |->
        Returning({"commune_id", "district_id", "region_id",
                  "province_id", "fokontany", "id"}),
     getById |-> Returning({"id"}),
     getByPointCoordinates |-> Returning({"geojson"})]

ProvincePostgresQueries ==
    [getAll |-> Keeping({}),
     getById |-> Keeping({"id"}),
     getByPointCoordinates |-> Keeping({"geojson"})]

RegionPostgresQueries ==
    [getAll |-> Returning({}),
     getById |-> Keeping({"id"}),
     getByPointCoordinates |-> Keeping({"geojson"})]

\* Mutant: the pages keep their connection too.
DistrictPostgresQueriesKeeping ==
    [getMany |-> Keeping({"region_id", "province_id", "district", "id"}),
     getById |-> Keeping({"id"}),
     getByPointCoordinates |-> Keeping({"geojson"}),
     getByFokontanyGeoJson |-> Returning({"geojson"})]

DistrictPostgresQueries ==
    [getMany |-> Returning({"region_id", "province_id", "district", "id"}),
     getById |-> Keeping({"id"}),
     getByPointCoordinates |-> Keeping({"geojson"}),
     getByFokontanyGeoJson |-> Returning({"geojson"})]

CommunePostgresQueries ==
    [getMany |->
        Returning({"district_id", "region_id", "province_id",
                  "commune", "id"}),
     getById |-> Returning({"id"}),
     getByPointCoordinates |-> Returning({"geojson"})]

FokontanyPostgresQueries ==
    [getMany |->
        Returning({"commune_id", "district_id", "region_id",
                  "province_id", "fokontany", "id"}),
     getById |-> Returning({"id"}),
     getByPointCoordinates |-> Returning({"geojson"})]

ProvinceMySQLQueries ==
    [getAll |-> Returning({}),
     getById |-> Returning({"id"}),
     getByPointCoordinates |-> Returning({"geojson"})]

RegionMySQLQueries ==
    [getAll |-> Returning({}),
     getById |-> Returning({"id"}),
     getByPointCoordinates |-> Returning({"geojson"})]

DistrictMySQLQueries ==
    [getMany |-> Returning({"region_id", "province_id", "district", "id"}),
     getById |-> Returning({"id"}),
     getByPointCoordinates |-> Returning({"geojson"}),
     getByFokontanyGeoJson |-> Returning({"geojson"})]

CommuneMySQLQueries ==
    [getMany |->
        Returning({"district_id", "region_id", "province_id",
                  "commune", "id"}),
     getById |-> Returning({"id"}),
     getByPointCoordinates |-> Returning({"geojson"})]

FokontanyMySQLQueries ==
    [getMany |->
        Returning({"commune_id", "district_id", "region_id",
                  "province_id", "fokontany", "id"}),
     getById |-> Returning({"id"}),
     getByPointCoordinates |-> Returning({"geojson"})]

ProvinceMongoQueries ==
    [getAll |-> Returning({}),
     getById |-> Returning({"_id"}),
     getByPointCoordinates |-> Returning({"geojson"})]

RegionMongoQueries ==
    [getAll |-> Returning({}),
     getById |-> Returning({"_id"}),
     getByPointCoordinates |-> Returning({"geojson"})]

DistrictMongoQueries ==
    [getMany |-> Returning({"regionId", "provinceId", "district", "_id"}),
     getById |-> Returning({"_id"}),
     getByPointCoordinates |-> Returning({"geojson"}),
     getByFokontanyGeoJson |-> Returning({"geojson"})]

CommuneMongoQueries ==
    [getMany |->
        Returning({"districtId", "regionId", "provinceId", "commune",
                  "_id"}),
     getById |-> Returning({"_id"}),
     getByPointCoordinates |-> Returning({"geojson"})]

FokontanyMongoQueries ==
    [getMany |->
        Returning({"communeId", "districtId", "regionId", "provinceId",
                  "fokontany", "_id"}),
     getById |-> Returning({"_id"}),
     getByPointCoordinates |-> Returning({"geojson"})]

(* The union of all levels: the columns it names in each level's table.    *)

AdmEntitySqliteQueries(l) == [getUnion |-> Returning({Titles[l], "id"})]
AdmEntityPostgresQueries(l) == [getUnion |-> Keeping({Titles[l], "id"})]
AdmEntityMySQLQueries(l) == [getUnion |-> Returning({Titles[l], "id"})]
AdmEntityMongoQueries(l) == [getUnion |-> Returning({Titles[l], "_id"})]

UnionOf(db, l) ==
    CASE db = "sqlite" -> AdmEntitySqliteQueries(l)
      [] db = "postgres" -> AdmEntityPostgresQueries(l)
      [] db = "mysql" -> AdmEntityMySQLQueries(l)
      [] db = "mongo" -> AdmEntityMongoQueries(l)

QueriesOf(db) ==
    CASE db = "sqlite" ->
            <<ProvinceSqliteQueries, RegionSqliteQueries, DistrictSqliteQueries,
              CommuneSqliteQueries, FokontanySqliteQueries>>
      [] db = "postgres" ->
            <<ProvincePostgresQueries, RegionPostgresQueries,
              DistrictPostgresQueries, CommunePostgresQueries,
              FokontanyPostgresQueries>>
      [] db = "mysql" ->
            <<ProvinceMySQLQueries, RegionMySQLQueries, DistrictMySQLQueries,
              CommuneMySQLQueries, FokontanyMySQLQueries>>
      [] db = "mongo" ->
            <<ProvinceMongoQueries, RegionMongoQueries, DistrictMongoQueries,
              CommuneMongoQueries, FokontanyMongoQueries>>
-----------------------------------------------------------------------------
(* What the base classes refuse: the ancestors by whose id the pages are   *)
(* not filtered, and lookups by geometry.                                  *)

DistrictRefuses(config) ==
    When("isProvinceFkRepeated" \notin config, {Province})

\* Mutant: the configuration is not asked.
CommuneRefusesNothing(config) == {}

CommuneRefuses(config) ==
    When("isProvinceFkRepeated" \notin config, {Province})
    \cup When("isFkRepeated" \notin config, {Region})

FokontanyRefuses(config) ==
    When("isProvinceFkRepeated" \notin config, {Province})
    \cup When("isFkRepeated" \notin config, {Region, District})

RefusedFilters(l, config) ==
    CASE l = District -> DistrictRefuses(config)
      [] l = Commune -> CommuneRefuses(config)
      [] l = Fokontany -> FokontanyRefuses(config)
      [] OTHER -> {}

RefusesGeometry(config) == "hasGeojson" \notin config

\* The columns named by what the base class of a level lets through.
Named(db, l, config) ==
    LET class == QueriesOf(db)[l]
        fk == IF db = "mongo" THEN FkField ELSE FkColumn
        refused == {fk[a] : a \in RefusedFilters(l, config)}
                   \cup When(RefusesGeometry(config), {"geojson"})
    IN  ((UNION {class[method].columns : method \in DOMAIN class}) \ refused)
        \cup UnionOf(db, l).getUnion.columns
=============================================================================
