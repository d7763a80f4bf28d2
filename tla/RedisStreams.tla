---------------------------- MODULE RedisStreams ----------------------------
(***************************************************************************)
(* The part of Redis Streams the mediator relies on: a stream that only    *)
(* ever grows, read by exactly one consumer group.  Redis is not under     *)
(* src/: each operator is what the commands in                             *)
(* lib/workers-mediators/redis/redis-queue.workers-mediator.ts expect.     *)
(*                                                                         *)
(* An entry's id is its position in the log.  The group is created at      *)
(* position 0 (XGROUP CREATE key group 0 MKSTREAM) by every worker, and    *)
(* creation is idempotent, so a group exists whenever it is read.          *)
(***************************************************************************)
EXTENDS Naturals, Sequences

\* A stream with its group: the entries, the last delivered position, and the
\* pending entries list (delivered, not acknowledged) of each consumer.
Stream(Entry, Consumers) ==
    [log: Seq(Entry), read: Nat, pel: [Consumers -> SUBSET Nat]]

EmptyStream(Consumers) ==
    [log |-> <<>>, read |-> 0, pel |-> [c \in Consumers |-> {}]]

\* XINFO GROUPS: "lag" counts the undelivered entries, "pending" the PEL's.
Undelivered(st) == {i \in DOMAIN st.log : i > st.read}
Pending(st) == {i \in DOMAIN st.log : \E c \in DOMAIN st.pel : i \in st.pel[c]}

\* What mediator and workers take as "there is still something to do".
HasActivity(st) == Undelivered(st) # {} \/ Pending(st) # {}

\* The entries that a consumer may still come to process.
LiveEntries(st) == {st.log[i] : i \in Undelivered(st) \cup Pending(st)}

XAdd(st, entries) == [st EXCEPT !.log = @ \o entries]

\* XREADGROUP with ">": the ids, in order, become pending for the consumer.
Deliver(st, c, ids) ==
    [st EXCEPT !.read = IF ids = <<>> THEN @ ELSE ids[Len(ids)],
               !.pel[c] = @ \cup {ids[i] : i \in DOMAIN ids}]

\* XACK removes the ids from whoever holds them.
XAck(st, ids) ==
    [st EXCEPT !.pel = [c \in DOMAIN @ |-> @[c] \ {ids[i] : i \in DOMAIN ids}]]

\* XAUTOCLAIM: the ids change owner.
Claim(st, c, ids) ==
    [st EXCEPT !.pel = [d \in DOMAIN @ |->
                            IF d = c THEN @[d] \cup ids ELSE @[d] \ ids]]

Ascending(ids) == \A i, j \in DOMAIN ids : i < j => ids[i] < ids[j]

\* The oldest entries among S, at most count of them, in stream order: what a
\* read with COUNT returns (exactly one sequence).
Oldest(S, count) ==
    {ids \in UNION {[1 .. k -> S] : k \in 0 .. count} :
        /\ Ascending(ids)
        /\ LET taken == {ids[i] : i \in DOMAIN ids}
           IN  /\ \A i \in S \ taken : \A j \in taken : j < i
               /\ Len(ids) = count \/ taken = S}

Entries(st, ids) == [i \in DOMAIN ids |-> st.log[ids[i]]]
=============================================================================
