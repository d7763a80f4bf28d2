---------------------------- MODULE MCRedisQueue ----------------------------
(* Constants for checking RedisQueue with TLC. *)
EXTENDS RedisQueue, TLC

CONSTANTS w1, w2

TwoWorkers == {w1, w2}
FullCrew == {TwoWorkers}
AnyCrew == {TwoWorkers, {w1}, {w2}}

Symmetry == Permutations(TwoWorkers)
=============================================================================
