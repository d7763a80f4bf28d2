----------------------------- MODULE MCSeedJob ------------------------------
(* Constants for checking SeedJob with TLC. *)
EXTENDS SeedJob, TLC

CONSTANTS c1, c2, c3, p1, p2

ThreeConfigs == {c1, c2, c3}
TwoPrefixes == {p1, p2}

\* Two layouts of the same tables, and another set of tables.
Prefixed == [c \in Configs |-> IF c = c3 THEN p2 ELSE p1]
=============================================================================
