------------------------------ MODULE MCRestApi ------------------------------
(* Rows of three levels, read by a client that turns pages, by two at once,  *)
(* by one that asks for anything else or by a query command.                 *)
EXTENDS RestApi, TLC

CONSTANTS c1, c2, c3, c4, u1

MCRows == 1 .. 4
MCLevel == 1 :> District @@ 2 :> Commune @@ 3 :> Commune @@ 4 :> Fokontany
MCNames == 1 .. 3
MCConfigs == {{}, {"isFkRepeated", "isProvinceFkRepeated"}}
MCRequests ==
    c1 :> {PageOf(Commune, {Province}), Reads(Union, "getUnion")}
    @@ c2 :> {PageOf(District, {}), Reads(Province, "getById")}
    @@ c3 :> {PageOf(District, {}), Reads(Region, "getAll")}
    @@ c4 :> Routes \ Walks
MCReaders == {{c1}, {c2, c3}, {c4}, {u1}}
MCAll == [search |-> MCNames, from |-> Province, limit |-> 1]
MCViews ==
    c1 :> {MCAll, [MCAll EXCEPT !.from = Commune], [MCAll EXCEPT !.limit = 3],
           [MCAll EXCEPT !.search = {2, 3}, !.limit = None]}
    @@ c2 :> {MCAll} @@ c3 :> {MCAll} @@ c4 :> {}
    @@ u1 :> {MCAll, [MCAll EXCEPT !.search = {1, 2}, !.limit = 2]}
MCInitialTable == {<<2, 1, 3, 1>>, <<1, 2, 2, 0>>}
=============================================================================
