---------------------------- MODULE MCSchemaLife ----------------------------
(* Configurations for TLC: none and all of the options, all but one, and the *)
(* two that add foreign keys alone.                                          *)
EXTENDS SchemaLife

MCConfigs ==
    {{}, Options, {"isFkRepeated"}, {"isProvinceFkRepeated"}}
    \cup {Options \ {o} : o \in Options}
=============================================================================
