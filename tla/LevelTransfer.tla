--------------------------- MODULE LevelTransfer ----------------------------
(***************************************************************************)
(* What QueueWorkersMediator.queue() promises its caller, whichever way    *)
(* the messages travel (lib/workers-mediators/workers-mediators.d.ts): the *)
(* messages of one level enter in the input's order, each one ends up in   *)
(* the database, and the call returns after the last of them.  What an     *)
(* interruption takes along is counted, not hidden.                        *)
(***************************************************************************)
EXTENDS Naturals

CONSTANT N

VARIABLES
    entered,   \* how many messages of the input have entered the pipeline
    stored,    \* the messages in the database
    lost,      \* the messages an interruption took
    returned

transferVars == <<entered, stored, lost, returned>>

LevelInit == entered = 0 /\ stored = {} /\ lost = {} /\ returned = FALSE

\* The next messages of the input enter, in order.
Enter ==
    /\ \E n \in entered + 1 .. N : entered' = n
    /\ UNCHANGED <<stored, lost, returned>>

\* Messages that entered are stored (a batch at a time).
Store ==
    /\ \E S \in SUBSET ((1 .. entered) \ stored) : S # {} /\ stored' = stored \cup S
    /\ UNCHANGED <<entered, lost, returned>>

\* An interruption takes messages that entered and are not stored.
Interrupt ==
    /\ \E S \in SUBSET ((1 .. entered) \ stored) : S # {} /\ lost' = lost \cup S
    /\ UNCHANGED <<entered, stored, returned>>

\* The call returns once everything has entered and been dealt with.
Return ==
    /\ entered = N /\ 1 .. N \subseteq stored \cup lost
    /\ returned' = TRUE
    /\ UNCHANGED <<entered, stored, lost>>

LevelNext == ~returned /\ (Enter \/ Store \/ Interrupt \/ Return)

LevelSpec == LevelInit /\ [][LevelNext]_transferVars
=============================================================================
