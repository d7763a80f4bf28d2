-------------------------- MODULE SchemaLifeProofs --------------------------
(***************************************************************************)
(* Theorems about the layout of the ADM tables, for any databases and any  *)
(* set of configurations the user may enter.                               *)
(*                                                                         *)
(* LayoutIsJobs speaks of the moment a job fills tables.  It holds because *)
(* the same is kept of the job that waits in Redis (LayoutIsContexts), and *)
(* because the DDL singletons of a seeding process are those of the saved  *)
(* configuration whenever it may create tables (DdlIsSaved).               *)
(*                                                                         *)
(* InsertFits and StatementsFit are that invariant and facts about columns *)
(* for every configuration: on SQL the tables of a level have the columns  *)
(* SqlColumns, on MongoDB the fields MongoFields, and what each adapter    *)
(* and each query class names is shown to be among them.                   *)
(***************************************************************************)
EXTENDS SchemaLife, TLAPS

\* The tables that stand are those of the persisted job, or were built anew.
LayoutIsContexts == built # None /\ context # None => built = context \/ rebuilt

\* The DDLs a process has when it may create tables, and none before.
DdlIsSaved ==
    /\ pc = "prompt" => ddl = None
    /\ pc \in {"tables", "fresh", "confirm", "create", "recreate"} => ddl = saved
    /\ pc \in {"tables", "fresh", "confirm", "create", "rebuild", "recreate"} =>
            saved # None

\* What is filled is filled for a job.
JobIsThere == pc = "insert" => job # None

LayoutInv == TypeOK /\ LayoutIsJobs /\ LayoutIsContexts /\ DdlIsSaved /\ JobIsThere

LEMMA InitHolds == Init => LayoutInv
BY DEF Init, LayoutInv, TypeOK, LayoutIsJobs, LayoutIsContexts, DdlIsSaved,
       JobIsThere
-----------------------------------------------------------------------------
(* What the operations on the tables leave, whatever their columns.        *)

LEMMA DropFacts ==
    ASSUME LayoutInv, NEW config \in Configs \cup {None}, Drop(config)
    PROVE  /\ built' = None /\ geometry' = FALSE /\ rebuilt' = rebuilt
           /\ recorded' \in BOOLEAN
BY DEF Drop, LayoutInv, TypeOK, S!RecordedAfterDrop

LEMMA CreateFacts ==
    ASSUME LayoutInv, NEW config \in Configs, Create(config)
    PROVE  /\ built' = config /\ rebuilt' = (context # None)
           /\ {geometry', recorded'} \subseteq BOOLEAN
           /\ geometry' => built' # None /\ "hasGeojson" \in built'
<1>1. built' = config /\ rebuilt' = (context # None)
  BY DEF Create
<1>2. recorded' \in BOOLEAN
  BY DEF Create
<1>3. geometry' \in BOOLEAN
  BY DEF Create
<1>4. ASSUME geometry' PROVE "hasGeojson" \in config
  <2>1. "geojson" \in S!Create(Province, config, recorded).columns
    BY <1>4 DEF Create
  <2>2. "geojson" \notin S!Table(config)[Province].columns
    BY DEF S!Table, S!ProvincesTable, S!SystemColumns, S!When, Province, S!Province
  <2> QED
    BY <2>1, <2>2 DEF S!Create
<1>5. config # None
  BY ConstantsAssumption
<1> QED
  BY <1>1, <1>2, <1>3, <1>4, <1>5
-----------------------------------------------------------------------------
(* Every step keeps the invariant.                                         *)

LEMMA StepKeeps == LayoutInv /\ [Next]_vars => LayoutInv'
<1> SUFFICES ASSUME LayoutInv, [Next]_vars PROVE LayoutInv'
    OBVIOUS
<1> USE ConstantsAssumption
<1> USE DEF LayoutInv, TypeOK, LayoutIsJobs, LayoutIsContexts, DdlIsSaved,
            JobIsThere, tables, process, Injected
<1>1. CASE Seed
    BY <1>1 DEF Seed
<1>2. CASE KeepConfig
    BY <1>2 DEF KeepConfig
<1>3. CASE DropPrevious
  <2>1. built # None => Drop(saved)
    BY <1>3 DEF DropPrevious
  <2>2. CASE built # None
    BY <1>3, <2>1, <2>2, DropFacts DEF DropPrevious
  <2>3. CASE built = None
    BY <1>3, <2>3 DEF DropPrevious
  <2> QED
    BY <2>2, <2>3
<1>4. CASE UpdateConfig
    BY <1>4 DEF UpdateConfig
<1>5. CASE Resume
    BY <1>5 DEF Resume
<1>6. CASE StartFresh
    BY <1>6 DEF StartFresh
<1>7. CASE ConfirmDrop
    BY <1>7, DropFacts DEF ConfirmDrop
<1>8. CASE CreateTables
  <2>1. ddl \in Configs /\ ddl = saved /\ Create(ddl)
    BY <1>8 DEF CreateTables
  <2>2. /\ built' = ddl /\ rebuilt' = (context # None)
        /\ {geometry', recorded'} \subseteq BOOLEAN
        /\ geometry' => built' # None /\ "hasGeojson" \in built'
    BY <2>1, CreateFacts
  <2> QED
    BY <1>8, <2>1, <2>2 DEF CreateTables
<1>9. CASE Finish
    BY <1>9 DEF Finish, Exit
<1>10. CASE SetConfig
    BY <1>10 DEF SetConfig
<1>11. CASE DropBuilt
    BY <1>11, DropFacts DEF DropBuilt
<1>12. CASE Recreate
  <2>1. ddl \in Configs
    BY <1>12 DEF Recreate
  <2>2. CASE built = None
    <3>1. Create(ddl)
      BY <1>12, <2>2 DEF Recreate
    <3>2. /\ built' = ddl /\ rebuilt' = (context # None)
          /\ {geometry', recorded'} \subseteq BOOLEAN
          /\ geometry' => built' # None /\ "hasGeojson" \in built'
      BY <2>1, <3>1, CreateFacts
    <3> QED
      BY <1>12, <3>2 DEF Recreate, Exit
  <2>3. CASE built # None
    BY <1>12, <2>3 DEF Recreate, Exit
  <2> QED
    BY <2>2, <2>3
<1>13. CASE Clear
  <2>1. built # None => Drop(saved)
    BY <1>13 DEF Clear
  <2>2. CASE built # None
    BY <1>13, <2>1, <2>2, DropFacts DEF Clear
  <2>3. CASE built = None
    BY <1>13, <2>3 DEF Clear
  <2> QED
    BY <2>2, <2>3
<1>14. CASE WipeConfig
    BY <1>14 DEF WipeConfig, Exit
<1>15. CASE Stop
    BY <1>15 DEF Stop, Exit
<1>16. CASE UNCHANGED vars
    BY <1>16 DEF vars
<1> QED
    BY ONLY [Next]_vars, <1>1, <1>2, <1>3, <1>4, <1>5, <1>6, <1>7, <1>8, <1>9, <1>10,
       <1>11, <1>12, <1>13, <1>14, <1>15, <1>16 DEF Next
-----------------------------------------------------------------------------
(* Columns.  A level at a time, the sets of columns are what they are      *)
(* written to be, whatever the configuration.                              *)

LEMMA LevelsAre ==
    /\ Levels = {1, 2, 3, 4, 5} /\ Province = 1 /\ Region = 2 /\ District = 3
    /\ Commune = 4 /\ Fokontany = 5
BY DEF Levels, Province, Region, District, Commune, Fokontany

LEMMA TitlesAre ==
    /\ Titles[1] = "province" /\ Titles[2] = "region" /\ Titles[3] = "district"
    /\ Titles[4] = "commune" /\ Titles[5] = "fokontany"
BY DEF Titles

LEMMA FkColumnsAre ==
    /\ FkColumn[1] = "province_id" /\ FkColumn[2] = "region_id"
    /\ FkColumn[3] = "district_id" /\ FkColumn[4] = "commune_id"
    /\ FkColumn[5] = "fokontany_id"
BY DEF FkColumn

LEMMA FkFieldsAre ==
    /\ FkField[1] = "provinceId" /\ FkField[2] = "regionId"
    /\ FkField[3] = "districtId" /\ FkField[4] = "communeId"
    /\ FkField[5] = "fokontanyId"
BY DEF FkField

LEMMA NamesAre ==
    ASSUME NEW config
    PROVE  LET province == When("isProvinceRepeated" \in config, {1})
           IN  /\ NamesRepeated(1, config) = {}
               /\ NamesRepeated(2, config) = {1}
               /\ NamesRepeated(3, config) = {2} \cup province
               /\ NamesRepeated(4, config) = {2, 3} \cup province
               /\ NamesRepeated(5, config) = {2, 3, 4} \cup province
BY DEF NamesRepeated, When, Province, Region

LEMMA FksAre ==
    ASSUME NEW config
    PROVE  LET province == When("isProvinceFkRepeated" \in config, {1})
           IN  /\ FksRepeated(0, config) = {}
               /\ FksRepeated(1, config) = {}
               /\ FksRepeated(2, config) = {1}
               /\ FksRepeated(3, config) = {2} \cup province
               /\ FksRepeated(4, config) =
                    {3} \cup province \cup When("isFkRepeated" \in config, {2})
               /\ FksRepeated(5, config) =
                    {4} \cup province \cup When("isFkRepeated" \in config, {2, 3})
BY DEF FksRepeated, When, Province, Region

\* The columns of the five tables on SQL, and the fields on MongoDB.
SqlColumns(config) ==
    LET all == {"id", "created_at", "updated_at"}
               \cup When("hasAdmLevel" \in config, {"adm_level"})
               \cup When("hasGeojson" \in config, {"geojson"})
        province == When("isProvinceRepeated" \in config, {"province"})
                    \cup When("isProvinceFkRepeated" \in config, {"province_id"})
        fks(ids) == When("isFkRepeated" \in config, ids)
    IN  <<all \cup {"province"},
          all \cup {"region", "province", "province_id"},
          all \cup {"district", "region", "region_id"} \cup province,
          all \cup {"commune", "district", "region", "district_id"} \cup province
              \cup fks({"region_id"}),
          all \cup {"fokontany", "commune", "district", "region", "commune_id"}
              \cup province \cup fks({"region_id", "district_id"})>>

MongoFields(config) ==
    LET all == {"_id", "createdAt", "updatedAt"}
               \cup When("hasAdmLevel" \in config, {"admLevel"})
               \cup When("hasGeojson" \in config, {"geojson"})
        province == When("isProvinceRepeated" \in config, {"province"})
                    \cup When("isProvinceFkRepeated" \in config, {"provinceId"})
        fks(ids) == When("isFkRepeated" \in config, ids)
    IN  <<all \cup {"province"},
          all \cup {"region", "province", "provinceId"},
          all \cup {"district", "region", "regionId"} \cup province,
          all \cup {"commune", "district", "region", "districtId"} \cup province
              \cup fks({"regionId"}),
          all \cup {"fokontany", "commune", "district", "region", "communeId"}
              \cup province \cup fks({"regionId", "districtId"})>>

\* What is selected of a table is what it has.
LEMMA SqlSelected ==
    ASSUME NEW config, NEW l \in Levels
    PROVE  GetAdmTableColumns(l, config, FkColumn, FALSE, FALSE) = SqlColumns(config)[l]
BY LevelsAre, NamesAre, FksAre, TitlesAre, FkColumnsAre
DEF GetAdmTableColumns, When, SystemColumns, SqlColumns

LEMMA MongoSelected ==
    ASSUME NEW config, NEW l \in Levels
    PROVE  GetAdmTableColumns(l, config, FkField, TRUE, FALSE)
                \subseteq MongoFields(config)[l]
BY LevelsAre, NamesAre, FksAre, TitlesAre, FkFieldsAre
DEF GetAdmTableColumns, When, MongoFields
-----------------------------------------------------------------------------
(* What the adapters create, and what the other statements of their data   *)
(* manipulation name.                                                      *)

LEMMA SqliteTables ==
    ASSUME NEW config, NEW l \in Levels
    PROVE  (IF "hasGeojson" \in config THEN S!Create(l, config, FALSE)
            ELSE S!Table(config)[l]).columns = SqlColumns(config)[l]
<1>. DEFINE made(k) == IF "hasGeojson" \in config THEN S!Create(k, config, FALSE)
                       ELSE S!Table(config)[k]
<1>1. made(1).columns = SqlColumns(config)[1]
  BY DEF S!Create, S!Table, S!ProvincesTable, S!SystemColumns, S!When, When, SqlColumns
<1>2. made(2).columns = SqlColumns(config)[2]
  BY DEF S!Create, S!Table, S!RegionsTable, S!SystemColumns, S!When, When, SqlColumns
<1>3. made(3).columns = SqlColumns(config)[3]
  BY DEF S!Create, S!Table, S!DistrictsTable, S!SystemColumns, S!When, When, SqlColumns
<1>4. made(4).columns = SqlColumns(config)[4]
  BY DEF S!Create, S!Table, S!CommunesTable, S!SystemColumns, S!When, When, SqlColumns
<1>5. made(5).columns = SqlColumns(config)[5]
  BY DEF S!Create, S!Table, S!FokontanysTable, S!SystemColumns, S!When, When, SqlColumns
<1>. QED
  BY <1>1, <1>2, <1>3, <1>4, <1>5, LevelsAre

LEMMA PostgresTables ==
    ASSUME NEW config, NEW l \in Levels
    PROVE  P!Table(config)[l].columns = SqlColumns(config)[l]
<1>1. P!Table(config)[1].columns = SqlColumns(config)[1]
  BY DEF P!Table, P!ProvincesTable, P!SystemColumns, P!When, When, SqlColumns
<1>2. P!Table(config)[2].columns = SqlColumns(config)[2]
  BY DEF P!Table, P!RegionsTable, P!SystemColumns, P!When, When, SqlColumns
<1>3. P!Table(config)[3].columns = SqlColumns(config)[3]
  BY DEF P!Table, P!DistrictsTable, P!SystemColumns, P!When, When, SqlColumns
<1>4. P!Table(config)[4].columns = SqlColumns(config)[4]
  BY DEF P!Table, P!CommunesTable, P!SystemColumns, P!When, When, SqlColumns
<1>5. P!Table(config)[5].columns = SqlColumns(config)[5]
  BY DEF P!Table, P!FokontanysTable, P!SystemColumns, P!When, When, SqlColumns
<1>. QED
  BY <1>1, <1>2, <1>3, <1>4, <1>5, LevelsAre

LEMMA MySQLTables ==
    ASSUME NEW config, NEW l \in Levels
    PROVE  M!Table(config)[l].columns = SqlColumns(config)[l]
<1>1. M!Table(config)[1].columns = SqlColumns(config)[1]
  BY DEF M!Table, M!ProvincesTable, M!SystemColumns, M!When, When, SqlColumns
<1>2. M!Table(config)[2].columns = SqlColumns(config)[2]
  BY DEF M!Table, M!RegionsTable, M!SystemColumns, M!When, When, SqlColumns
<1>3. M!Table(config)[3].columns = SqlColumns(config)[3]
  BY DEF M!Table, M!DistrictsTable, M!SystemColumns, M!When, When, SqlColumns
<1>4. M!Table(config)[4].columns = SqlColumns(config)[4]
  BY DEF M!Table, M!CommunesTable, M!SystemColumns, M!When, When, SqlColumns
<1>5. M!Table(config)[5].columns = SqlColumns(config)[5]
  BY DEF M!Table, M!FokontanysTable, M!SystemColumns, M!When, When, SqlColumns
<1>. QED
  BY <1>1, <1>2, <1>3, <1>4, <1>5, LevelsAre

LEMMA MongoTables ==
    ASSUME NEW config, NEW l \in Levels
    PROVE  D!Table(config)[l].columns = MongoFields(config)[l]
<1>1. D!Table(config)[1].columns = MongoFields(config)[1]
  BY DEF D!Table, D!ProvincesTable, D!When, When, MongoFields
<1>2. D!Table(config)[2].columns = MongoFields(config)[2]
  BY DEF D!Table, D!RegionsTable, D!When, When, MongoFields
<1>3. D!Table(config)[3].columns = MongoFields(config)[3]
  BY DEF D!Table, D!DistrictsTable, D!When, When, MongoFields
<1>4. D!Table(config)[4].columns = MongoFields(config)[4]
  BY DEF D!Table, D!CommunesTable, D!When, When, MongoFields
<1>5. D!Table(config)[5].columns = MongoFields(config)[5]
  BY DEF D!Table, D!FokontanysTable, D!When, When, MongoFields
<1>. QED
  BY <1>1, <1>2, <1>3, <1>4, <1>5, LevelsAre

\* Lookups, de-duplications and updates, of names and of geometries.
LEMMA SqliteManipulates ==
    ASSUME NEW config, NEW l \in Levels, db = "sqlite"
    PROVE  /\ Manipulated(l, config) \subseteq SqlColumns(config)[l]
           /\ "hasGeojson" \in config => UpdatesGeojson(l) \subseteq SqlColumns(config)[l]
<1>1. S!GetManyByAttributes(l) \subseteq SqlColumns(config)[l]
  BY LevelsAre
  DEF S!GetManyByAttributes, S!DML, S!ProvincesDML, S!RegionsDML, S!DistrictsDML,
      S!CommunesDML, S!FokontanysDML, SqlColumns
<1>2. S!GetManyByParentsIds(l) \subseteq SqlColumns(config)[l]
  BY LevelsAre, FkColumnsAre
  DEF S!GetManyByParentsIds, S!Province, S!FkColumn, FkColumn, SqlColumns
<1>3. S!DeleteDuplicates(l) \subseteq SqlColumns(config)[l]
  BY LevelsAre, TitlesAre
  DEF S!DeleteDuplicates, S!District, S!Commune, S!Fokontany, S!Titles, Titles, SqlColumns
<1>4. ASSUME NEW f \in S!DML[l].fields,
             f # Province \/ l <= Region \/ "isProvinceRepeated" \in config
      PROVE  S!UpdateFieldByIds(l, f) \subseteq SqlColumns(config)[l]
  BY <1>4, LevelsAre, TitlesAre
  DEF S!UpdateFieldByIds, S!DML, S!ProvincesDML, S!RegionsDML, S!DistrictsDML,
      S!CommunesDML, S!FokontanysDML, S!Titles, Titles, SqlColumns, When,
      S!Province, S!Region, S!District, S!Commune, S!Fokontany
<1>5. "hasGeojson" \in config =>
        S!UpdateGeojsonByIdentifiers(l) \subseteq SqlColumns(config)[l]
  BY LevelsAre
  DEF S!UpdateGeojsonByIdentifiers, S!DML, S!ProvincesDML, S!RegionsDML, S!DistrictsDML,
      S!CommunesDML, S!FokontanysDML, SqlColumns, When
<1>6. Manipulated(l, config) =
        S!GetManyByAttributes(l) \cup S!GetManyByParentsIds(l)
        \cup S!DeleteDuplicates(l)
        \cup UNION {S!UpdateFieldByIds(l, f) : f \in {f \in S!DML[l].fields :
                f # Province \/ l <= Region \/ "isProvinceRepeated" \in config}}
  BY DEF Manipulated
<1>7. UpdatesGeojson(l) = S!UpdateGeojsonByIdentifiers(l)
  BY DEF UpdatesGeojson
<1>. QED
  BY <1>1, <1>2, <1>3, <1>4, <1>5, <1>6, <1>7

LEMMA PostgresManipulates ==
    ASSUME NEW config, NEW l \in Levels, db = "postgres"
    PROVE  /\ Manipulated(l, config) \subseteq SqlColumns(config)[l]
           /\ "hasGeojson" \in config => UpdatesGeojson(l) \subseteq SqlColumns(config)[l]
<1>1. P!GetManyByAttributes(l) \subseteq SqlColumns(config)[l]
  BY LevelsAre
  DEF P!GetManyByAttributes, P!DML, P!ProvincesDML, P!RegionsDML, P!DistrictsDML,
      P!CommunesDML, P!FokontanysDML, SqlColumns
<1>2. P!GetManyByParentsIds(l) \subseteq SqlColumns(config)[l]
  BY LevelsAre, FkColumnsAre
  DEF P!GetManyByParentsIds, P!Province, P!FkColumn, FkColumn, SqlColumns
<1>3. P!DeleteDuplicates(l) \subseteq SqlColumns(config)[l]
  BY LevelsAre, TitlesAre
  DEF P!DeleteDuplicates, P!District, P!Commune, P!Fokontany, P!Titles, Titles, SqlColumns
<1>4. ASSUME NEW f \in P!DML[l].fields,
             f # Province \/ l <= Region \/ "isProvinceRepeated" \in config
      PROVE  P!UpdateFieldByIds(l, f) \subseteq SqlColumns(config)[l]
  BY <1>4, LevelsAre, TitlesAre
  DEF P!UpdateFieldByIds, P!DML, P!ProvincesDML, P!RegionsDML, P!DistrictsDML,
      P!CommunesDML, P!FokontanysDML, P!Titles, Titles, SqlColumns, When,
      P!Province, P!Region, P!District, P!Commune, P!Fokontany
<1>5. "hasGeojson" \in config =>
        P!UpdateGeojsonByIdentifiers(l) \subseteq SqlColumns(config)[l]
  BY LevelsAre
  DEF P!UpdateGeojsonByIdentifiers, P!DML, P!ProvincesDML, P!RegionsDML, P!DistrictsDML,
      P!CommunesDML, P!FokontanysDML, SqlColumns, When
<1>6. Manipulated(l, config) =
        P!GetManyByAttributes(l) \cup P!GetManyByParentsIds(l)
        \cup P!DeleteDuplicates(l)
        \cup UNION {P!UpdateFieldByIds(l, f) : f \in {f \in P!DML[l].fields :
                f # Province \/ l <= Region \/ "isProvinceRepeated" \in config}}
  BY DEF Manipulated
<1>7. UpdatesGeojson(l) = P!UpdateGeojsonByIdentifiers(l)
  BY DEF UpdatesGeojson
<1>. QED
  BY <1>1, <1>2, <1>3, <1>4, <1>5, <1>6, <1>7

LEMMA MySQLManipulates ==
    ASSUME NEW config, NEW l \in Levels, db = "mysql"
    PROVE  /\ Manipulated(l, config) \subseteq SqlColumns(config)[l]
           /\ "hasGeojson" \in config => UpdatesGeojson(l) \subseteq SqlColumns(config)[l]
<1>1. M!GetManyByAttributes(l) \subseteq SqlColumns(config)[l]
  BY LevelsAre
  DEF M!GetManyByAttributes, M!DML, M!ProvincesDML, M!RegionsDML, M!DistrictsDML,
      M!CommunesDML, M!FokontanysDML, SqlColumns
<1>2. M!GetManyByParentsIds(l) \subseteq SqlColumns(config)[l]
  BY LevelsAre, FkColumnsAre
  DEF M!GetManyByParentsIds, M!Province, M!FkColumn, FkColumn, SqlColumns
<1>3. M!DeleteDuplicates(l) \subseteq SqlColumns(config)[l]
  BY LevelsAre, TitlesAre
  DEF M!DeleteDuplicates, M!District, M!Commune, M!Fokontany, M!Titles, Titles, SqlColumns
<1>4. ASSUME NEW f \in M!DML[l].fields,
             f # Province \/ l <= Region \/ "isProvinceRepeated" \in config
      PROVE  M!UpdateFieldByIds(l, f) \subseteq SqlColumns(config)[l]
  BY <1>4, LevelsAre, TitlesAre
  DEF M!UpdateFieldByIds, M!DML, M!ProvincesDML, M!RegionsDML, M!DistrictsDML,
      M!CommunesDML, M!FokontanysDML, M!Titles, Titles, SqlColumns, When,
      M!Province, M!Region, M!District, M!Commune, M!Fokontany
<1>5. "hasGeojson" \in config =>
        M!UpdateGeojsonByIdentifiers(l) \subseteq SqlColumns(config)[l]
  BY LevelsAre
  DEF M!UpdateGeojsonByIdentifiers, M!DML, M!ProvincesDML, M!RegionsDML, M!DistrictsDML,
      M!CommunesDML, M!FokontanysDML, SqlColumns, When
<1>6. Manipulated(l, config) =
        M!GetManyByAttributes(l) \cup M!GetManyByParentsIds(l)
        \cup M!DeleteDuplicates(l)
        \cup UNION {M!UpdateFieldByIds(l, f) : f \in {f \in M!DML[l].fields :
                f # Province \/ l <= Region \/ "isProvinceRepeated" \in config}}
  BY DEF Manipulated
<1>7. UpdatesGeojson(l) = M!UpdateGeojsonByIdentifiers(l)
  BY DEF UpdatesGeojson
<1>. QED
  BY <1>1, <1>2, <1>3, <1>4, <1>5, <1>6, <1>7

LEMMA MongoManipulates ==
    ASSUME NEW config, NEW l \in Levels, db = "mongo"
    PROVE  /\ Manipulated(l, config) \subseteq MongoFields(config)[l]
           /\ "hasGeojson" \in config => UpdatesGeojson(l) \subseteq MongoFields(config)[l]
<1>1. D!GetManyByAttributes(l) \subseteq MongoFields(config)[l]
  BY LevelsAre
  DEF D!GetManyByAttributes, D!DML, D!ProvincesDML, D!RegionsDML, D!DistrictsDML,
      D!CommunesDML, D!FokontanysDML, MongoFields
<1>2. D!GetManyByParentsIds(l) \subseteq MongoFields(config)[l]
  BY LevelsAre, FkFieldsAre
  DEF D!GetManyByParentsIds, D!Province, D!FkField, FkField, MongoFields
<1>3. D!DeleteDuplicates(l) \subseteq MongoFields(config)[l]
  BY LevelsAre, TitlesAre
  DEF D!DeleteDuplicates, D!District, D!Commune, D!Fokontany, D!Titles, Titles, MongoFields
<1>4. ASSUME NEW f \in D!DML[l].fields,
             f # Province \/ l <= Region \/ "isProvinceRepeated" \in config
      PROVE  D!UpdateFieldByIds(l, f) \subseteq MongoFields(config)[l]
  BY <1>4, LevelsAre, TitlesAre
  DEF D!UpdateFieldByIds, D!DML, D!ProvincesDML, D!RegionsDML, D!DistrictsDML,
      D!CommunesDML, D!FokontanysDML, D!Titles, Titles, MongoFields, When,
      D!Province, D!Region, D!District, D!Commune, D!Fokontany
<1>5. "hasGeojson" \in config =>
        D!UpdateGeojsonByIdentifiers(l) \subseteq MongoFields(config)[l]
  BY LevelsAre
  DEF D!UpdateGeojsonByIdentifiers, D!DML, D!ProvincesDML, D!RegionsDML, D!DistrictsDML,
      D!CommunesDML, D!FokontanysDML, MongoFields, When
<1>6. Manipulated(l, config) =
        D!GetManyByAttributes(l) \cup D!GetManyByParentsIds(l)
        \cup D!DeleteDuplicates(l)
        \cup UNION {D!UpdateFieldByIds(l, f) : f \in {f \in D!DML[l].fields :
                f # Province \/ l <= Region \/ "isProvinceRepeated" \in config}}
  BY DEF Manipulated
<1>7. UpdatesGeojson(l) = D!UpdateGeojsonByIdentifiers(l)
  BY DEF UpdatesGeojson
<1>. QED
  BY <1>1, <1>2, <1>3, <1>4, <1>5, <1>6, <1>7
-----------------------------------------------------------------------------
(* The queries.                                                            *)

\* What the methods of a level's class name, on SQL and on MongoDB.
SqlNamed ==
    LET one == {"id", "geojson"}
    IN  <<one, one,
          one \cup {"region_id", "province_id", "district"},
          one \cup {"district_id", "region_id", "province_id", "commune"},
          one \cup {"commune_id", "district_id", "region_id", "province_id", "fokontany"}>>

MongoNamed ==
    LET one == {"_id", "geojson"}
    IN  <<one, one,
          one \cup {"regionId", "provinceId", "district"},
          one \cup {"districtId", "regionId", "provinceId", "commune"},
          one \cup {"communeId", "districtId", "regionId", "provinceId", "fokontany"}>>

MethodsOf(class) == UNION {class[method].columns : method \in DOMAIN class}

LEMMA SqliteMethods ==
    ASSUME NEW l \in Levels
    PROVE  /\ MethodsOf(Q!QueriesOf("sqlite")[l]) = SqlNamed[l]
           /\ Q!UnionOf("sqlite", l).getUnion.columns = {Titles[l], "id"}
<1>1. MethodsOf(Q!QueriesOf("sqlite")[1]) = SqlNamed[1]
  BY DEF Q!QueriesOf, Q!ProvinceSqliteQueries, Q!Returning, Q!Keeping, SqlNamed,
         MethodsOf
<1>2. MethodsOf(Q!QueriesOf("sqlite")[2]) = SqlNamed[2]
  BY DEF Q!QueriesOf, Q!RegionSqliteQueries, Q!Returning, Q!Keeping, SqlNamed,
         MethodsOf
<1>3. MethodsOf(Q!QueriesOf("sqlite")[3]) = SqlNamed[3]
  BY DEF Q!QueriesOf, Q!DistrictSqliteQueries, Q!Returning, Q!Keeping, SqlNamed,
         MethodsOf
<1>4. MethodsOf(Q!QueriesOf("sqlite")[4]) = SqlNamed[4]
  BY DEF Q!QueriesOf, Q!CommuneSqliteQueries, Q!Returning, Q!Keeping, SqlNamed,
         MethodsOf
<1>5. MethodsOf(Q!QueriesOf("sqlite")[5]) = SqlNamed[5]
  BY DEF Q!QueriesOf, Q!FokontanySqliteQueries, Q!Returning, Q!Keeping, SqlNamed,
         MethodsOf
<1>6. Q!UnionOf("sqlite", l).getUnion.columns = {Titles[l], "id"}
  BY DEF Q!UnionOf, Q!AdmEntitySqliteQueries, Q!Returning, Q!Keeping, Q!Titles, Titles
<1>. QED
  BY <1>1, <1>2, <1>3, <1>4, <1>5, <1>6, LevelsAre

LEMMA PostgresMethods ==
    ASSUME NEW l \in Levels
    PROVE  /\ MethodsOf(Q!QueriesOf("postgres")[l]) = SqlNamed[l]
           /\ Q!UnionOf("postgres", l).getUnion.columns = {Titles[l], "id"}
<1>1. MethodsOf(Q!QueriesOf("postgres")[1]) = SqlNamed[1]
  BY DEF Q!QueriesOf, Q!ProvincePostgresQueries, Q!Returning, Q!Keeping, SqlNamed,
         MethodsOf
<1>2. MethodsOf(Q!QueriesOf("postgres")[2]) = SqlNamed[2]
  BY DEF Q!QueriesOf, Q!RegionPostgresQueries, Q!Returning, Q!Keeping, SqlNamed,
         MethodsOf
<1>3. MethodsOf(Q!QueriesOf("postgres")[3]) = SqlNamed[3]
  BY DEF Q!QueriesOf, Q!DistrictPostgresQueries, Q!Returning, Q!Keeping, SqlNamed,
         MethodsOf
<1>4. MethodsOf(Q!QueriesOf("postgres")[4]) = SqlNamed[4]
  BY DEF Q!QueriesOf, Q!CommunePostgresQueries, Q!Returning, Q!Keeping, SqlNamed,
         MethodsOf
<1>5. MethodsOf(Q!QueriesOf("postgres")[5]) = SqlNamed[5]
  BY DEF Q!QueriesOf, Q!FokontanyPostgresQueries, Q!Returning, Q!Keeping, SqlNamed,
         MethodsOf
<1>6. Q!UnionOf("postgres", l).getUnion.columns = {Titles[l], "id"}
  BY DEF Q!UnionOf, Q!AdmEntityPostgresQueries, Q!Returning, Q!Keeping, Q!Titles, Titles
<1>. QED
  BY <1>1, <1>2, <1>3, <1>4, <1>5, <1>6, LevelsAre

LEMMA MySQLMethods ==
    ASSUME NEW l \in Levels
    PROVE  /\ MethodsOf(Q!QueriesOf("mysql")[l]) = SqlNamed[l]
           /\ Q!UnionOf("mysql", l).getUnion.columns = {Titles[l], "id"}
<1>1. MethodsOf(Q!QueriesOf("mysql")[1]) = SqlNamed[1]
  BY DEF Q!QueriesOf, Q!ProvinceMySQLQueries, Q!Returning, Q!Keeping, SqlNamed,
         MethodsOf
<1>2. MethodsOf(Q!QueriesOf("mysql")[2]) = SqlNamed[2]
  BY DEF Q!QueriesOf, Q!RegionMySQLQueries, Q!Returning, Q!Keeping, SqlNamed,
         MethodsOf
<1>3. MethodsOf(Q!QueriesOf("mysql")[3]) = SqlNamed[3]
  BY DEF Q!QueriesOf, Q!DistrictMySQLQueries, Q!Returning, Q!Keeping, SqlNamed,
         MethodsOf
<1>4. MethodsOf(Q!QueriesOf("mysql")[4]) = SqlNamed[4]
  BY DEF Q!QueriesOf, Q!CommuneMySQLQueries, Q!Returning, Q!Keeping, SqlNamed,
         MethodsOf
<1>5. MethodsOf(Q!QueriesOf("mysql")[5]) = SqlNamed[5]
  BY DEF Q!QueriesOf, Q!FokontanyMySQLQueries, Q!Returning, Q!Keeping, SqlNamed,
         MethodsOf
<1>6. Q!UnionOf("mysql", l).getUnion.columns = {Titles[l], "id"}
  BY DEF Q!UnionOf, Q!AdmEntityMySQLQueries, Q!Returning, Q!Keeping, Q!Titles, Titles
<1>. QED
  BY <1>1, <1>2, <1>3, <1>4, <1>5, <1>6, LevelsAre

LEMMA MongoMethods ==
    ASSUME NEW l \in Levels
    PROVE  /\ MethodsOf(Q!QueriesOf("mongo")[l]) = MongoNamed[l]
           /\ Q!UnionOf("mongo", l).getUnion.columns = {Titles[l], "_id"}
<1>1. MethodsOf(Q!QueriesOf("mongo")[1]) = MongoNamed[1]
  BY DEF Q!QueriesOf, Q!ProvinceMongoQueries, Q!Returning, Q!Keeping, MongoNamed,
         MethodsOf
<1>2. MethodsOf(Q!QueriesOf("mongo")[2]) = MongoNamed[2]
  BY DEF Q!QueriesOf, Q!RegionMongoQueries, Q!Returning, Q!Keeping, MongoNamed,
         MethodsOf
<1>3. MethodsOf(Q!QueriesOf("mongo")[3]) = MongoNamed[3]
  BY DEF Q!QueriesOf, Q!DistrictMongoQueries, Q!Returning, Q!Keeping, MongoNamed,
         MethodsOf
<1>4. MethodsOf(Q!QueriesOf("mongo")[4]) = MongoNamed[4]
  BY DEF Q!QueriesOf, Q!CommuneMongoQueries, Q!Returning, Q!Keeping, MongoNamed,
         MethodsOf
<1>5. MethodsOf(Q!QueriesOf("mongo")[5]) = MongoNamed[5]
  BY DEF Q!QueriesOf, Q!FokontanyMongoQueries, Q!Returning, Q!Keeping, MongoNamed,
         MethodsOf
<1>6. Q!UnionOf("mongo", l).getUnion.columns = {Titles[l], "_id"}
  BY DEF Q!UnionOf, Q!AdmEntityMongoQueries, Q!Returning, Q!Keeping, Q!Titles, Titles
<1>. QED
  BY <1>1, <1>2, <1>3, <1>4, <1>5, <1>6, LevelsAre

\* The query classes name no column a table lacks: those of absent ones the base
\* class refuses.
LEMMA RefusedAre ==
    ASSUME NEW config
    PROVE  LET province == When("isProvinceFkRepeated" \notin config, {1})
               fks(ids) == When("isFkRepeated" \notin config, ids)
           IN  /\ Q!RefusedFilters(1, config) = {} /\ Q!RefusedFilters(2, config) = {}
               /\ Q!RefusedFilters(3, config) = province
               /\ Q!RefusedFilters(4, config) = province \cup fks({2})
               /\ Q!RefusedFilters(5, config) = province \cup fks({2, 3})
BY DEF Q!RefusedFilters, Q!DistrictRefuses, Q!CommuneRefuses, Q!FokontanyRefuses, Q!When,
       When, Q!Province, Q!Region, Q!District, Q!Commune, Q!Fokontany

LEMMA NamedFits ==
    ASSUME NEW config, NEW l \in Levels,
           NEW d \in {"sqlite", "postgres", "mysql"}
    PROVE  Q!Named(d, l, config) \subseteq SqlColumns(config)[l]
<1>1. MethodsOf(Q!QueriesOf(d)[l]) = SqlNamed[l]
      /\ Q!UnionOf(d, l).getUnion.columns = {Titles[l], "id"}
  BY SqliteMethods, PostgresMethods, MySQLMethods
<1>2. Q!Named(d, l, config) =
        (SqlNamed[l] \ ({FkColumn[a] : a \in Q!RefusedFilters(l, config)}
                         \cup When("hasGeojson" \notin config, {"geojson"})))
        \cup {Titles[l], "id"}
  BY <1>1 DEF Q!Named, MethodsOf, Q!RefusesGeometry, Q!When, When, Q!FkColumn, FkColumn
<1>. QED
  BY <1>2, LevelsAre, RefusedAre, TitlesAre, FkColumnsAre DEF SqlNamed, SqlColumns, When

LEMMA MongoNamedFits ==
    ASSUME NEW config, NEW l \in Levels
    PROVE  Q!Named("mongo", l, config) \subseteq MongoFields(config)[l]
<1>1. MethodsOf(Q!QueriesOf("mongo")[l]) = MongoNamed[l]
      /\ Q!UnionOf("mongo", l).getUnion.columns = {Titles[l], "_id"}
  BY MongoMethods
<1>2. Q!Named("mongo", l, config) =
        (MongoNamed[l] \ ({FkField[a] : a \in Q!RefusedFilters(l, config)}
                         \cup When("hasGeojson" \notin config, {"geojson"})))
        \cup {Titles[l], "_id"}
  BY <1>1 DEF Q!Named, MethodsOf, Q!RefusesGeometry, Q!When, When, Q!FkField, FkField
<1>. QED
  BY <1>2, LevelsAre, RefusedAre, TitlesAre, FkFieldsAre DEF MongoNamed, MongoFields, When

LEMMA UnionSetFits ==
    ASSUME NEW config, NEW l \in Levels
    PROVE  GetAdmEntityUnionSetColumns(l, config) \subseteq SqlColumns(config)[l]
BY LevelsAre, TitlesAre, FkColumnsAre DEF GetAdmEntityUnionSetColumns, SqlColumns, When
-----------------------------------------------------------------------------
(* Insertions.                                                             *)

\* What an insertion must name, the geometry and the ids it is to repeat included.
SqlInserted(config) ==
    LET all == When("hasGeojson" \in config, {"geojson"})
        province == When("isProvinceRepeated" \in config, {"province"})
                    \cup When("isProvinceFkRepeated" \in config, {"province_id"})
        fks(ids) == When("isFkRepeated" \in config, ids)
    IN  <<all \cup {"province"},
          all \cup {"region", "province", "province_id"},
          all \cup {"district", "region", "region_id"} \cup province,
          all \cup {"commune", "district", "region", "district_id"} \cup province
              \cup fks({"region_id"}),
          all \cup {"fokontany", "commune", "district", "region", "commune_id"}
              \cup province \cup fks({"region_id", "district_id"})>>

LEMMA InsertedIsColumns ==
    ASSUME NEW config, NEW l \in Levels
    PROVE  SqlInserted(config)[l] \subseteq SqlColumns(config)[l]
BY LevelsAre DEF SqlInserted, SqlColumns, When

LEMMA CamelsAre ==
    /\ CamelToSnakeCase("provinceId") = "province_id"
    /\ CamelToSnakeCase("regionId") = "region_id"
    /\ CamelToSnakeCase("districtId") = "district_id"
    /\ CamelToSnakeCase("communeId") = "commune_id"
    /\ \A a \in {"province", "region", "district", "commune", "fokontany", "geojson"} :
            CamelToSnakeCase(a) = a
<1>1. /\ {l \in Levels : FkField[l] = "provinceId"} = {1}
      /\ {l \in Levels : FkField[l] = "regionId"} = {2}
      /\ {l \in Levels : FkField[l] = "districtId"} = {3}
      /\ {l \in Levels : FkField[l] = "communeId"} = {4}
      /\ \A a \in {"province", "region", "district", "commune", "fokontany", "geojson"} :
            {l \in Levels : FkField[l] = a} = {}
  BY LevelsAre, FkFieldsAre
<1>2. \A n : (CHOOSE l \in {n} : TRUE) = n
  OBVIOUS
<1>. QED
  BY <1>1, <1>2, FkColumnsAre DEF CamelToSnakeCase

LEMMA RecordsAre ==
    /\ Records[1] = {"province", "geojson"}
    /\ Records[2] = {"region", "province", "geojson", "provinceId"}
    /\ Records[3] = {"district", "region", "province", "geojson", "regionId", "provinceId"}
    /\ Records[4] = {"commune", "district", "region", "province", "geojson", "districtId",
                     "regionId", "provinceId"}
    /\ Records[5] = {"fokontany", "commune", "district", "region", "province", "geojson",
                     "communeId", "districtId", "regionId", "provinceId"}
<1>1. /\ InputAttributes(1) = {"province", "geojson"}
      /\ InputAttributes(2) = {"region", "province", "geojson"}
      /\ InputAttributes(3) = {"district", "region", "province", "geojson"}
      /\ InputAttributes(4) = {"commune", "district", "region", "province", "geojson"}
      /\ InputAttributes(5) =
            {"fokontany", "commune", "district", "region", "province", "geojson"}
  BY TitlesAre DEF InputAttributes
<1>. QED
  BY <1>1, LevelsAre
  DEF Records, ProvinceRecord, RegionRecord, DistrictRecord, CommuneRecord, FokontanyRecord

LEMMA SuppliedAre ==
    ASSUME NEW config
    PROVE  LET province == When("isProvinceFkRepeated" \in config, {"provinceId"})
           IN  /\ Supplied(1, config) = {"province", "geojson"}
               /\ Supplied(2, config) = {"region", "province", "geojson", "provinceId"}
               /\ Supplied(3, config) =
                    {"district", "region", "province", "geojson", "regionId", "provinceId"}
               /\ Supplied(4, config) =
                    {"commune", "district", "region", "province", "geojson", "districtId",
                     "regionId"} \cup province
               /\ Supplied(5, config) =
                    {"fokontany", "commune", "district", "region", "province", "geojson",
                     "communeId", "districtId"} \cup province
                    \cup When("isFkRepeated" \in config, {"regionId"})
<1>1. /\ InputAttributes(1) = {"province", "geojson"}
      /\ InputAttributes(2) = {"region", "province", "geojson"}
      /\ InputAttributes(3) = {"district", "region", "province", "geojson"}
      /\ InputAttributes(4) = {"commune", "district", "region", "province", "geojson"}
      /\ InputAttributes(5) =
            {"fokontany", "commune", "district", "region", "province", "geojson"}
  BY TitlesAre DEF InputAttributes
<1>. QED
  BY <1>1, LevelsAre, FksAre, FkFieldsAre, RecordsAre DEF Supplied, When

\* The records have what must be named.
LEMMA SuppliedIsEnough ==
    ASSUME NEW config, NEW l \in Levels
    PROVE  SqlInserted(config)[l]
                \subseteq {CamelToSnakeCase(a) : a \in Supplied(l, config)}
BY LevelsAre, SuppliedAre, CamelsAre DEF SqlInserted, When

LEMMA SqliteInserts ==
    ASSUME NEW config, NEW l \in Levels
    PROVE  /\ S!CreateMany(l, config) = SqlInserted(config)[l]
           /\ LET table == IF "hasGeojson" \in config THEN S!Create(l, config, FALSE)
                        ELSE S!Table(config)[l]
              IN  /\ table.required = SqlInserted(config)[l]
                  /\ table.indexed \subseteq SqlColumns(config)[l]
                  /\ \A r \in table.references : r[1] \in SqlColumns(config)[l] /\ r[2] < l
<1>. DEFINE made(k) == IF "hasGeojson" \in config THEN S!Create(k, config, FALSE)
                       ELSE S!Table(config)[k]
<1>1. LET table == made(1)
      IN  /\ table.required = SqlInserted(config)[1]
          /\ table.indexed \subseteq SqlColumns(config)[1]
          /\ \A r \in table.references : r[1] \in SqlColumns(config)[1] /\ r[2] < 1
  BY DEF S!Create, S!Table, S!ProvincesTable, S!SystemColumns, S!When, When, SqlInserted,
         SqlColumns, S!Province, S!Region, S!District, S!Commune
<1>2. LET table == made(2)
      IN  /\ table.required = SqlInserted(config)[2]
          /\ table.indexed \subseteq SqlColumns(config)[2]
          /\ \A r \in table.references : r[1] \in SqlColumns(config)[2] /\ r[2] < 2
  BY DEF S!Create, S!Table, S!RegionsTable, S!SystemColumns, S!When, When, SqlInserted,
         SqlColumns, S!Province, S!Region, S!District, S!Commune
<1>3. LET table == made(3)
      IN  /\ table.required = SqlInserted(config)[3]
          /\ table.indexed \subseteq SqlColumns(config)[3]
          /\ \A r \in table.references : r[1] \in SqlColumns(config)[3] /\ r[2] < 3
  BY DEF S!Create, S!Table, S!DistrictsTable, S!SystemColumns, S!When, When, SqlInserted,
         SqlColumns, S!Province, S!Region, S!District, S!Commune
<1>4. LET table == made(4)
      IN  /\ table.required = SqlInserted(config)[4]
          /\ table.indexed \subseteq SqlColumns(config)[4]
          /\ \A r \in table.references : r[1] \in SqlColumns(config)[4] /\ r[2] < 4
  BY DEF S!Create, S!Table, S!CommunesTable, S!SystemColumns, S!When, When, SqlInserted,
         SqlColumns, S!Province, S!Region, S!District, S!Commune
<1>5. LET table == made(5)
      IN  /\ table.required = SqlInserted(config)[5]
          /\ table.indexed \subseteq SqlColumns(config)[5]
          /\ \A r \in table.references : r[1] \in SqlColumns(config)[5] /\ r[2] < 5
  BY DEF S!Create, S!Table, S!FokontanysTable, S!SystemColumns, S!When, When, SqlInserted,
         SqlColumns, S!Province, S!Region, S!District, S!Commune
<1>6. /\ \A a : S!CamelToSnakeCase(a) = CamelToSnakeCase(a)
      /\ S!Records = Records
  BY DEF S!CamelToSnakeCase, CamelToSnakeCase, S!FkField, FkField, S!FkColumn, FkColumn,
         S!Levels, Levels, S!Records, Records, S!ProvinceRecord, ProvinceRecord,
         S!RegionRecord, RegionRecord, S!DistrictRecord, DistrictRecord,
         S!CommuneRecord, CommuneRecord, S!FokontanyRecord, FokontanyRecord,
         S!InputAttributes, InputAttributes, S!Titles, Titles,
         S!Province, S!Region, S!District, S!Commune, S!Fokontany,
         Province, Region, District, Commune, Fokontany
<1>7. S!CreateMany(l, config) = SqlInserted(config)[l]
  BY <1>6, LevelsAre, RecordsAre, CamelsAre
  DEF S!CreateMany, S!When, When, SqlInserted, S!District, S!Commune, S!Fokontany
<1>. QED
  BY <1>1, <1>2, <1>3, <1>4, <1>5, <1>7, LevelsAre

LEMMA PostgresInserts ==
    ASSUME NEW config, NEW l \in Levels
    PROVE  /\ P!CreateMany(l, config) = SqlInserted(config)[l]
           /\ LET table == P!Table(config)[l]
              IN  /\ table.required = SqlInserted(config)[l]
                  /\ table.indexed \subseteq SqlColumns(config)[l]
                  /\ \A r \in table.references : r[1] \in SqlColumns(config)[l] /\ r[2] < l
<1>1. LET table == P!Table(config)[1]
      IN  /\ table.required = SqlInserted(config)[1]
          /\ table.indexed \subseteq SqlColumns(config)[1]
          /\ \A r \in table.references : r[1] \in SqlColumns(config)[1] /\ r[2] < 1
  BY DEF P!Table, P!ProvincesTable, P!SystemColumns, P!When, When, SqlInserted,
         SqlColumns, P!Province, P!Region, P!District, P!Commune
<1>2. LET table == P!Table(config)[2]
      IN  /\ table.required = SqlInserted(config)[2]
          /\ table.indexed \subseteq SqlColumns(config)[2]
          /\ \A r \in table.references : r[1] \in SqlColumns(config)[2] /\ r[2] < 2
  BY DEF P!Table, P!RegionsTable, P!SystemColumns, P!When, When, SqlInserted,
         SqlColumns, P!Province, P!Region, P!District, P!Commune
<1>3. LET table == P!Table(config)[3]
      IN  /\ table.required = SqlInserted(config)[3]
          /\ table.indexed \subseteq SqlColumns(config)[3]
          /\ \A r \in table.references : r[1] \in SqlColumns(config)[3] /\ r[2] < 3
  BY DEF P!Table, P!DistrictsTable, P!SystemColumns, P!When, When, SqlInserted,
         SqlColumns, P!Province, P!Region, P!District, P!Commune
<1>4. LET table == P!Table(config)[4]
      IN  /\ table.required = SqlInserted(config)[4]
          /\ table.indexed \subseteq SqlColumns(config)[4]
          /\ \A r \in table.references : r[1] \in SqlColumns(config)[4] /\ r[2] < 4
  BY DEF P!Table, P!CommunesTable, P!SystemColumns, P!When, When, SqlInserted,
         SqlColumns, P!Province, P!Region, P!District, P!Commune
<1>5. LET table == P!Table(config)[5]
      IN  /\ table.required = SqlInserted(config)[5]
          /\ table.indexed \subseteq SqlColumns(config)[5]
          /\ \A r \in table.references : r[1] \in SqlColumns(config)[5] /\ r[2] < 5
  BY DEF P!Table, P!FokontanysTable, P!SystemColumns, P!When, When, SqlInserted,
         SqlColumns, P!Province, P!Region, P!District, P!Commune
<1>6. /\ \A a : P!CamelToSnakeCase(a) = CamelToSnakeCase(a)
      /\ P!Records = Records
  BY DEF P!CamelToSnakeCase, CamelToSnakeCase, P!FkField, FkField, P!FkColumn, FkColumn,
         P!Levels, Levels, P!Records, Records, P!ProvinceRecord, ProvinceRecord,
         P!RegionRecord, RegionRecord, P!DistrictRecord, DistrictRecord,
         P!CommuneRecord, CommuneRecord, P!FokontanyRecord, FokontanyRecord,
         P!InputAttributes, InputAttributes, P!Titles, Titles,
         P!Province, P!Region, P!District, P!Commune, P!Fokontany,
         Province, Region, District, Commune, Fokontany
<1>7. P!CreateMany(l, config) = SqlInserted(config)[l]
  BY <1>6, LevelsAre, RecordsAre, CamelsAre
  DEF P!CreateMany, P!When, When, SqlInserted, P!District, P!Commune, P!Fokontany
<1>. QED
  BY <1>1, <1>2, <1>3, <1>4, <1>5, <1>7, LevelsAre

LEMMA MySQLInserts ==
    ASSUME NEW config, NEW l \in Levels
    PROVE  /\ M!CreateMany(l, config) = SqlInserted(config)[l]
           /\ LET table == M!Table(config)[l]
              IN  /\ table.required = SqlInserted(config)[l]
                  /\ table.indexed \subseteq SqlColumns(config)[l]
                  /\ \A r \in table.references : r[1] \in SqlColumns(config)[l] /\ r[2] < l
<1>1. LET table == M!Table(config)[1]
      IN  /\ table.required = SqlInserted(config)[1]
          /\ table.indexed \subseteq SqlColumns(config)[1]
          /\ \A r \in table.references : r[1] \in SqlColumns(config)[1] /\ r[2] < 1
  BY DEF M!Table, M!ProvincesTable, M!SystemColumns, M!When, When, SqlInserted,
         SqlColumns, M!Province, M!Region, M!District, M!Commune
<1>2. LET table == M!Table(config)[2]
      IN  /\ table.required = SqlInserted(config)[2]
          /\ table.indexed \subseteq SqlColumns(config)[2]
          /\ \A r \in table.references : r[1] \in SqlColumns(config)[2] /\ r[2] < 2
  BY DEF M!Table, M!RegionsTable, M!SystemColumns, M!When, When, SqlInserted,
         SqlColumns, M!Province, M!Region, M!District, M!Commune
<1>3. LET table == M!Table(config)[3]
      IN  /\ table.required = SqlInserted(config)[3]
          /\ table.indexed \subseteq SqlColumns(config)[3]
          /\ \A r \in table.references : r[1] \in SqlColumns(config)[3] /\ r[2] < 3
  BY DEF M!Table, M!DistrictsTable, M!SystemColumns, M!When, When, SqlInserted,
         SqlColumns, M!Province, M!Region, M!District, M!Commune
<1>4. LET table == M!Table(config)[4]
      IN  /\ table.required = SqlInserted(config)[4]
          /\ table.indexed \subseteq SqlColumns(config)[4]
          /\ \A r \in table.references : r[1] \in SqlColumns(config)[4] /\ r[2] < 4
  BY DEF M!Table, M!CommunesTable, M!SystemColumns, M!When, When, SqlInserted,
         SqlColumns, M!Province, M!Region, M!District, M!Commune
<1>5. LET table == M!Table(config)[5]
      IN  /\ table.required = SqlInserted(config)[5]
          /\ table.indexed \subseteq SqlColumns(config)[5]
          /\ \A r \in table.references : r[1] \in SqlColumns(config)[5] /\ r[2] < 5
  BY DEF M!Table, M!FokontanysTable, M!SystemColumns, M!When, When, SqlInserted,
         SqlColumns, M!Province, M!Region, M!District, M!Commune
<1>6. /\ \A a : M!CamelToSnakeCase(a) = CamelToSnakeCase(a)
      /\ M!Records = Records
  BY DEF M!CamelToSnakeCase, CamelToSnakeCase, M!FkField, FkField, M!FkColumn, FkColumn,
         M!Levels, Levels, M!Records, Records, M!ProvinceRecord, ProvinceRecord,
         M!RegionRecord, RegionRecord, M!DistrictRecord, DistrictRecord,
         M!CommuneRecord, CommuneRecord, M!FokontanyRecord, FokontanyRecord,
         M!InputAttributes, InputAttributes, M!Titles, Titles,
         M!Province, M!Region, M!District, M!Commune, M!Fokontany,
         Province, Region, District, Commune, Fokontany
<1>7. M!CreateMany(l, config) = SqlInserted(config)[l]
  BY <1>6, LevelsAre, RecordsAre, CamelsAre
  DEF M!CreateMany, M!When, When, SqlInserted, M!District, M!Commune, M!Fokontany
<1>. QED
  BY <1>1, <1>2, <1>3, <1>4, <1>5, <1>7, LevelsAre

LEMMA MongoInserts ==
    ASSUME NEW config, NEW l \in Levels
    PROVE  LET table == D!Table(config)[l]
               named == D!CreateMany(l, config)
           IN  /\ named \subseteq MongoFields(config)[l]
               /\ table.required \ {"admLevel"} \subseteq named
               /\ table.required \ {"admLevel"} \subseteq
                        Supplied(l, config) \cup {"createdAt", "updatedAt"}
               /\ table.references = {}
               /\ table.indexed \subseteq MongoFields(config)[l]
<1>. DEFINE named(k) == D!CreateMany(k, config)
<1>0. D!Records = Records
  BY DEF D!Records, Records, D!ProvinceRecord, ProvinceRecord, D!RegionRecord, RegionRecord,
         D!DistrictRecord, DistrictRecord, D!CommuneRecord, CommuneRecord,
         D!FokontanyRecord, FokontanyRecord, D!InputAttributes, InputAttributes,
         D!Titles, Titles, D!Province, D!Region, D!District, D!Commune, D!Fokontany,
         Province, Region, District, Commune, Fokontany
<1>1. LET table == D!Table(config)[1]
      IN  /\ named(1) \subseteq MongoFields(config)[1]
          /\ table.required \ {"admLevel"} \subseteq named(1)
          /\ table.required \ {"admLevel"} \subseteq
                Supplied(1, config) \cup {"createdAt", "updatedAt"}
          /\ table.references = {}
          /\ table.indexed \subseteq MongoFields(config)[1]
  BY <1>0, RecordsAre, SuppliedAre
  DEF D!Table, D!ProvincesTable, D!When, When, MongoFields, D!CreateMany,
      D!Titles, D!FkField, D!Province, D!Region, D!District, D!Commune, D!Fokontany
<1>2. LET table == D!Table(config)[2]
      IN  /\ named(2) \subseteq MongoFields(config)[2]
          /\ table.required \ {"admLevel"} \subseteq named(2)
          /\ table.required \ {"admLevel"} \subseteq
                Supplied(2, config) \cup {"createdAt", "updatedAt"}
          /\ table.references = {}
          /\ table.indexed \subseteq MongoFields(config)[2]
  BY <1>0, RecordsAre, SuppliedAre
  DEF D!Table, D!RegionsTable, D!When, When, MongoFields, D!CreateMany,
      D!Titles, D!FkField, D!Province, D!Region, D!District, D!Commune, D!Fokontany
<1>3. LET table == D!Table(config)[3]
      IN  /\ named(3) \subseteq MongoFields(config)[3]
          /\ table.required \ {"admLevel"} \subseteq named(3)
          /\ table.required \ {"admLevel"} \subseteq
                Supplied(3, config) \cup {"createdAt", "updatedAt"}
          /\ table.references = {}
          /\ table.indexed \subseteq MongoFields(config)[3]
  BY <1>0, RecordsAre, SuppliedAre
  DEF D!Table, D!DistrictsTable, D!When, When, MongoFields, D!CreateMany,
      D!Titles, D!FkField, D!Province, D!Region, D!District, D!Commune, D!Fokontany
<1>4. LET table == D!Table(config)[4]
      IN  /\ named(4) \subseteq MongoFields(config)[4]
          /\ table.required \ {"admLevel"} \subseteq named(4)
          /\ table.required \ {"admLevel"} \subseteq
                Supplied(4, config) \cup {"createdAt", "updatedAt"}
          /\ table.references = {}
          /\ table.indexed \subseteq MongoFields(config)[4]
  BY <1>0, RecordsAre, SuppliedAre
  DEF D!Table, D!CommunesTable, D!When, When, MongoFields, D!CreateMany,
      D!Titles, D!FkField, D!Province, D!Region, D!District, D!Commune, D!Fokontany
<1>5. LET table == D!Table(config)[5]
      IN  /\ named(5) \subseteq MongoFields(config)[5]
          /\ table.required \ {"admLevel"} \subseteq named(5)
          /\ table.required \ {"admLevel"} \subseteq
                Supplied(5, config) \cup {"createdAt", "updatedAt"}
          /\ table.references = {}
          /\ table.indexed \subseteq MongoFields(config)[5]
  BY <1>0, RecordsAre, SuppliedAre
  DEF D!Table, D!FokontanysTable, D!When, When, MongoFields, D!CreateMany,
      D!Titles, D!FkField, D!Province, D!Region, D!District, D!Commune, D!Fokontany
<1>. QED
  BY <1>1, <1>2, <1>3, <1>4, <1>5, LevelsAre
-----------------------------------------------------------------------------
(* The tables as they are.                                                 *)

LEMMA BuiltIs ==
    ASSUME LayoutInv, built # None, ~GeometryLeftOut, NEW l
    PROVE  /\ db \in {"sqlite", "postgres", "mysql", "mongo"}
           /\ db = "sqlite" => BuiltTable(l) =
                (IF "hasGeojson" \in built THEN S!Create(l, built, FALSE)
                 ELSE S!Table(built)[l])
           /\ db = "postgres" => BuiltTable(l) = P!Table(built)[l]
           /\ db = "mysql" => BuiltTable(l) = M!Table(built)[l]
           /\ db = "mongo" => BuiltTable(l) = D!Table(built)[l]
<1>1. db \in {"sqlite", "postgres", "mysql", "mongo"}
  BY ConstantsAssumption DEF LayoutInv, TypeOK
<1>2. db = "sqlite" => (geometry <=> "hasGeojson" \in built) /\ geometry \in BOOLEAN
  BY DEF LayoutInv, TypeOK, GeometryLeftOut
<1>. QED
  BY <1>1, <1>2 DEF BuiltTable

LEMMA BuiltColumns ==
    ASSUME LayoutInv, built # None, ~GeometryLeftOut, NEW l \in Levels
    PROVE  BuiltTable(l).columns =
            IF InSql THEN SqlColumns(built)[l] ELSE MongoFields(built)[l]
<1>. DEFINE sqlite == IF "hasGeojson" \in built THEN S!Create(l, built, FALSE)
                      ELSE S!Table(built)[l]
<1>1. sqlite.columns = SqlColumns(built)[l]
  BY SqliteTables
<1>2. db = "sqlite" => BuiltTable(l) = sqlite
  BY BuiltIs
<1>. HIDE DEF sqlite
<1>. QED
  BY <1>1, <1>2, BuiltIs, PostgresTables, MySQLTables, MongoTables DEF InSql

LEMMA StatementsFitBuilt ==
    ASSUME LayoutInv
    PROVE  StatementsFit
<1>. SUFFICES ASSUME built # None, built = saved, ~GeometryLeftOut, NEW l \in Levels
              PROVE  LET fk == IF InSql THEN FkColumn ELSE FkField
                     IN  GetAdmTableColumns(l, saved, fk, ~InSql, FALSE)
                         \cup Q!Named(db, l, saved)
                         \cup Manipulated(l, saved)
                         \cup When(InSql, GetAdmEntityUnionSetColumns(l, saved))
                         \cup When("hasGeojson" \in saved, UpdatesGeojson(l))
                         \subseteq BuiltTable(l).columns
  BY DEF StatementsFit
<1>1. db \in {"sqlite", "postgres", "mysql", "mongo"}
  BY BuiltIs
<1>2. CASE InSql
  <2>1. db \in {"sqlite", "postgres", "mysql"}
    BY <1>1, <1>2 DEF InSql
  <2>2. BuiltTable(l).columns = SqlColumns(saved)[l]
    BY <1>2, BuiltColumns
  <2>3. GetAdmTableColumns(l, saved, FkColumn, FALSE, FALSE) = SqlColumns(saved)[l]
    BY SqlSelected
  <2>4. Q!Named(db, l, saved) \subseteq SqlColumns(saved)[l]
    BY <2>1, NamedFits
  <2>5. /\ Manipulated(l, saved) \subseteq SqlColumns(saved)[l]
        /\ "hasGeojson" \in saved => UpdatesGeojson(l) \subseteq SqlColumns(saved)[l]
    BY <2>1, SqliteManipulates, PostgresManipulates, MySQLManipulates
  <2>6. GetAdmEntityUnionSetColumns(l, saved) \subseteq SqlColumns(saved)[l]
    BY UnionSetFits
  <2>. QED
    BY <1>2, <2>2, <2>3, <2>4, <2>5, <2>6 DEF When
<1>3. CASE ~InSql
  <2>1. db = "mongo"
    BY <1>3 DEF InSql
  <2>2. BuiltTable(l).columns = MongoFields(saved)[l]
    BY <1>3, BuiltColumns
  <2>3. GetAdmTableColumns(l, saved, FkField, TRUE, FALSE) \subseteq MongoFields(saved)[l]
    BY MongoSelected
  <2>4. Q!Named(db, l, saved) \subseteq MongoFields(saved)[l]
    BY <2>1, MongoNamedFits
  <2>5. /\ Manipulated(l, saved) \subseteq MongoFields(saved)[l]
        /\ "hasGeojson" \in saved => UpdatesGeojson(l) \subseteq MongoFields(saved)[l]
    BY <2>1, MongoManipulates
  <2>. QED
    BY <1>3, <2>2, <2>3, <2>4, <2>5 DEF When
<1>. QED
  BY <1>2, <1>3

LEMMA InsertFitsBuilt ==
    ASSUME LayoutInv
    PROVE  InsertFits
<1>. SUFFICES ASSUME pc = "insert", built = job, ~GeometryLeftOut, NEW l \in Levels
              PROVE  LET named == CreateMany(l, job)
                         given == IF InSql
                                  THEN {CamelToSnakeCase(a) : a \in Supplied(l, job)}
                                  ELSE Supplied(l, job) \cup {"createdAt", "updatedAt"}
                         table == BuiltTable(l)
                     IN  /\ named \subseteq table.columns
                         /\ table.required \ {"admLevel"} \subseteq named \cap given
                         /\ \A r \in table.references : r[1] \in table.columns /\ r[2] < l
                         /\ table.indexed \subseteq table.columns
  BY DEF InsertFits
<1>0. built # None
  BY DEF LayoutInv, JobIsThere
<1>1. db \in {"sqlite", "postgres", "mysql", "mongo"}
  BY <1>0, BuiltIs
<1>2. CASE InSql
  <2>1. BuiltTable(l).columns = SqlColumns(job)[l]
    BY <1>0, <1>2, BuiltColumns
  <2>2. /\ CreateMany(l, job) = SqlInserted(job)[l]
        /\ BuiltTable(l).required = SqlInserted(job)[l]
        /\ BuiltTable(l).indexed \subseteq SqlColumns(job)[l]
        /\ \A r \in BuiltTable(l).references : r[1] \in SqlColumns(job)[l] /\ r[2] < l
    <3>1. CASE db = "sqlite"
      <4>. DEFINE sqlite == IF "hasGeojson" \in job THEN S!Create(l, job, FALSE)
                            ELSE S!Table(job)[l]
      <4>1. BuiltTable(l) = sqlite
        BY <1>0, <3>1, BuiltIs
      <4>2. /\ S!CreateMany(l, job) = SqlInserted(job)[l]
            /\ sqlite.required = SqlInserted(job)[l]
            /\ sqlite.indexed \subseteq SqlColumns(job)[l]
            /\ \A r \in sqlite.references : r[1] \in SqlColumns(job)[l] /\ r[2] < l
        BY SqliteInserts
      <4>. HIDE DEF sqlite
      <4>. QED
        BY <3>1, <4>1, <4>2 DEF CreateMany
    <3>2. CASE db = "postgres"
      BY <3>2, <1>0, BuiltIs, PostgresInserts DEF CreateMany
    <3>3. CASE db = "mysql"
      BY <3>3, <1>0, BuiltIs, MySQLInserts DEF CreateMany
    <3>. QED
      BY <1>1, <1>2, <3>1, <3>2, <3>3 DEF InSql
  <2>3. SqlInserted(job)[l] \subseteq {CamelToSnakeCase(a) : a \in Supplied(l, job)}
        /\ SqlInserted(job)[l] \subseteq SqlColumns(job)[l]
    BY SuppliedIsEnough, InsertedIsColumns
  <2>. QED
    BY <1>2, <2>1, <2>2, <2>3
<1>3. CASE ~InSql
  <2>1. db = "mongo" /\ BuiltTable(l) = D!Table(job)[l]
        /\ CreateMany(l, job) = D!CreateMany(l, job)
    BY <1>0, <1>3, BuiltIs DEF InSql, CreateMany
  <2>2. BuiltTable(l).columns = MongoFields(job)[l]
    BY <1>0, <1>3, BuiltColumns
  <2>. QED
    BY <1>3, <2>1, <2>2, MongoInserts
<1>. QED
  BY <1>2, <1>3
-----------------------------------------------------------------------------
(* Theorems                                                                *)

\* The invariant both of the following rest on.
THEOREM LayoutInvariance == Spec => []LayoutInv
BY InitHolds, StepKeeps, PTL DEF Spec

\* Every reachable state of the schema's life is typed (SchemaLife.tla).
THEOREM TypeCorrect == Spec => []TypeOK
<1>1. LayoutInv => TypeOK
    BY DEF LayoutInv
<1> QED
    BY <1>1, LayoutInvariance, PTL

\* A job that inserts does so into tables of its own configuration, or into
\* tables that were built anew while it waited: the DDL singletons, the saved
\* configuration, the tables and the persisted context of index.command.ts keep
\* in step through every order of commands and every interruption.
THEOREM LayoutKept == Spec => []LayoutIsJobs
<1>1. LayoutInv => LayoutIsJobs
    BY DEF LayoutInv
<1> QED
    BY <1>1, LayoutInvariance, PTL

\* What a job inserts fits its tables (createMany() names no column they lack and
\* supplies every one that must have a value), on the four databases, for every
\* one of the configurations, as long as the tables are those of the job.
THEOREM InsertsFit == Spec => []InsertFits
<1>1. LayoutInv => InsertFits
    BY InsertFitsBuilt
<1> QED
    BY <1>1, LayoutInvariance, PTL

\* With tables of the saved configuration, every read, update and de-duplication
\* names columns they have, on the four databases, for every configuration.
THEOREM EveryStatementFits == Spec => []StatementsFit
<1>1. LayoutInv => StatementsFit
    BY StatementsFitBuilt
<1> QED
    BY <1>1, LayoutInvariance, PTL
=============================================================================
