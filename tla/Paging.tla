------------------------------- MODULE Paging -------------------------------
(***************************************************************************)
(* Pages of divisions: the statements that read them and the paginator     *)
(* that cuts them.                                                         *)
(*                                                                         *)
(* Source: queries/helpers/query-cursor-paginator.helper.ts, the           *)
(* getManyCursorPaginator of the districts, communes and fokontanys, and   *)
(* the union of all levels in queries/adm-entity.                          *)
(*                                                                         *)
(* A row is its id.  A name is a number, its place in the collation; a     *)
(* search is the set of the names that begin with its text.                *)
(***************************************************************************)
EXTENDS AdmTables

CONSTANTS
    Rows,
    Level,         \* the level in whose table a row is
    Names,
    DefaultLimit,
    MaxLimit,
    None           \* null and undefined

ASSUME PagingAssumption ==
    /\ Rows \subseteq Nat \ {0} /\ IsFiniteSet(Rows)
    /\ Level \in [Rows -> Levels]
    /\ Names \subseteq Nat \ {0}
    /\ DefaultLimit \in Nat \ {0} /\ MaxLimit \in Nat \ {0}

NoName == 0      \* of a row that is not there
NoCursor == [level |-> 0, value |-> 0, id |-> 0]

Present(table) == {r \in Rows : table[r] # NoName}

ParseLimitQueryParam(limit) ==
    LET asked == IF limit = None THEN DefaultLimit ELSE limit
    IN  IF asked < MaxLimit THEN asked ELSE MaxLimit
-----------------------------------------------------------------------------
(* Cursors *)

\* toCursor of a level's pages.
ToCursor(table, r) == [level |-> Level[r], value |-> table[r], id |-> r]

\* getGetAdmEntitiesUnionRecordToCursor: the upper levels' have no id.
ToUnionCursor(table, r) ==
    [ToCursor(table, r) EXCEPT !.id = IF Level[r] >= Commune THEN r ELSE 0]

\* Mutant: the cursor's own record is left out.
StrictlyAfter(table, r, cursor) ==
    table[r] > cursor.value \/ (table[r] = cursor.value /\ r > cursor.id)

\* The condition (name, id) >= (cursor's name, cursor's id).
AtOrAfter(table, r, cursor) ==
    table[r] > cursor.value \/ (table[r] = cursor.value /\ r >= cursor.id)
-----------------------------------------------------------------------------
(* Statements: what they select from, and in which order.                  *)

GetMany(table, l, search, cursor) ==
    {r \in Present(table) :
        Level[r] = l /\ table[r] \in search /\ AtOrAfter(table, r, cursor)}

\* ORDER BY the name alone: the pairs of a row and one that comes after it.
ByName(table) == {p \in Rows \X Rows : table[p[1]] < table[p[2]]}

\* The cursor's condition is put on the levels below its own too.
GetUnion(table, from, search, cursor) ==
    LET start == IF cursor.level > from THEN cursor.level ELSE from
    IN  {r \in Present(table) :
            /\ Level[r] >= start
            /\ table[r] \in search /\ AtOrAfter(table, r, cursor)}

\* ORDER BY the level, the name and the id.
ByLevel(table) ==
    {p \in Rows \X Rows :
        \/ Level[p[1]] < Level[p[2]]
        \/ Level[p[1]] = Level[p[2]] /\ table[p[1]] < table[p[2]]
        \/ Level[p[1]] = Level[p[2]] /\ table[p[1]] = table[p[2]] /\ p[1] < p[2]}

\* LIMIT n: the order leaves open which of equals come first.
First(S, n, before) ==
    {T \in SUBSET S :
        /\ Cardinality(T) = IF Cardinality(S) < n THEN Cardinality(S) ELSE n
        /\ ((S \ T) \X T) \cap before = {}}

\* The records of a page that none follows.
Last(T, before) == {x \in T : ({x} \X T) \cap before = {}}

\* QueryCursorPaginator.query: one record more than asked for is where the
\* next page begins (0 when there is none).
Pages(S, limit, before) ==
    UNION {IF Cardinality(T) <= limit THEN {[records |-> T, next |-> 0]}
           ELSE {[records |-> T \ {x}, next |-> x] : x \in Last(T, before)} :
             T \in First(S, limit + 1, before)}
=============================================================================
