-------------------------- MODULE RedisQueueProofs --------------------------
(***************************************************************************)
(* Type correctness of RedisQueue, and Accounted: nothing that entered the *)
(* processing stream is forgotten, for any number of workers, messages,    *)
(* handlers, runs, crashes and failures.  First, what the stream commands  *)
(* preserve.                                                               *)
(***************************************************************************)
EXTENDS RedisQueue, FiniteSetTheorems, TLAPS

-----------------------------------------------------------------------------
(* The stream commands: types, the log and the live entries *)

\* The elements of a sequence.
Elements(s) == {s[i] : i \in DOMAIN s}

\* The group never reads past the end of the log.
WellRead(st) == st.read <= Len(st.log)

\* A read returns at most a sequence over what it could read from.
LEMMA OldestType ==
    ASSUME NEW S, NEW count \in Nat, NEW ids \in Oldest(S, count)
    PROVE  ids \in Seq(S)
<1>1. PICK k \in 0 .. count : ids \in [1 .. k -> S]
  BY DEF Oldest
<1>2. k \in Nat
  BY <1>1
<1>. QED
  BY <1>1, <1>2

\* The entries of a batch are entries of the log.
LEMMA EntriesType ==
    ASSUME NEW E, NEW C, NEW st \in Stream(E, C), NEW ids \in Seq(DOMAIN st.log)
    PROVE  /\ Entries(st, ids) \in Seq(E)
           /\ DOMAIN Entries(st, ids) = DOMAIN ids
           /\ \A i \in DOMAIN ids : Entries(st, ids)[i] = st.log[ids[i]]
<1>1. st.log \in Seq(E)
  BY DEF Stream
<1>2. \A i \in DOMAIN ids : ids[i] \in DOMAIN st.log
  OBVIOUS
<1>3. \A i \in DOMAIN ids : st.log[ids[i]] \in E
  BY <1>1, <1>2
<1>. QED
  BY <1>3 DEF Entries

\* XADD keeps the stream's type, position and earlier entries.
LEMMA XAddFacts ==
    ASSUME NEW E, NEW C, NEW st \in Stream(E, C), NEW new \in Seq(E)
    PROVE  /\ XAdd(st, new) \in Stream(E, C)
           /\ XAdd(st, new).read = st.read
           /\ XAdd(st, new).pel = st.pel
           /\ XAdd(st, new).log = st.log \o new
           /\ DOMAIN st.log \subseteq DOMAIN XAdd(st, new).log
           /\ \A i \in DOMAIN st.log : XAdd(st, new).log[i] = st.log[i]
           /\ \A i \in DOMAIN new : XAdd(st, new).log[Len(st.log) + i] = new[i]
           /\ WellRead(st) => WellRead(XAdd(st, new))
<1>1. /\ st.log \in Seq(E)
      /\ st.read \in Nat
  BY DEF Stream
<1>2. /\ st.log \o new \in Seq(E)
      /\ Len(st.log \o new) = Len(st.log) + Len(new)
      /\ \A i \in DOMAIN st.log : (st.log \o new)[i] = st.log[i]
      /\ \A i \in DOMAIN new : (st.log \o new)[Len(st.log) + i] = new[i]
  BY <1>1
<1>3. DOMAIN st.log \subseteq DOMAIN (st.log \o new)
  BY <1>1, <1>2
<1>4. /\ XAdd(st, new) \in Stream(E, C)
      /\ XAdd(st, new).log = st.log \o new
      /\ XAdd(st, new).read = st.read
      /\ XAdd(st, new).pel = st.pel
  <2>1. st.pel \in [C -> SUBSET Nat]
    BY DEF Stream
  <2> DEFINE longer == st.log \o new
  <2>2. longer \in Seq(E) /\ XAdd(st, new) = [st EXCEPT !.log = longer]
    BY <1>2 DEF XAdd
  <2> HIDE DEF longer
  <2>3. /\ XAdd(st, new) \in Stream(E, C)
        /\ XAdd(st, new).log = longer
        /\ XAdd(st, new).read = st.read
        /\ XAdd(st, new).pel = st.pel
    BY <1>1, <2>1, <2>2 DEF Stream
  <2>. QED
    BY <2>3 DEF longer
<1>5. WellRead(st) => WellRead(XAdd(st, new))
  <2>1. Len(st.log) \in Nat /\ Len(new) \in Nat
    BY <1>1
  <2>. QED
    BY <1>1, <1>2, <1>4, <2>1 DEF WellRead
<1>. QED
  BY <1>2, <1>3, <1>4, <1>5

\* Nothing to process is lost by XADD, and what it adds is to be processed.
LEMMA XAddLive ==
    ASSUME NEW E, NEW C, NEW st \in Stream(E, C), NEW new \in Seq(E), WellRead(st)
    PROVE  LiveEntries(st) \cup Elements(new) \subseteq LiveEntries(XAdd(st, new))
<1> DEFINE nst == XAdd(st, new)
<1>1. /\ st.log \in Seq(E)
      /\ st.read \in Nat
      /\ st.read <= Len(st.log)
  BY DEF Stream, WellRead
<1>2. /\ nst.read = st.read
      /\ nst.pel = st.pel
      /\ DOMAIN st.log \subseteq DOMAIN nst.log
      /\ \A i \in DOMAIN st.log : nst.log[i] = st.log[i]
      /\ \A i \in DOMAIN new : nst.log[Len(st.log) + i] = new[i]
      /\ nst.log = st.log \o new
  BY XAddFacts
<1> HIDE DEF nst
<1>3. Undelivered(st) \subseteq Undelivered(nst)
  BY <1>2 DEF Undelivered
<1>4. Pending(st) \subseteq Pending(nst)
  BY <1>2 DEF Pending
<1>5. Undelivered(st) \cup Pending(st) \subseteq DOMAIN st.log
  BY DEF Undelivered, Pending
<1>6. LiveEntries(st) \subseteq LiveEntries(nst)
  BY <1>2, <1>3, <1>4, <1>5 DEF LiveEntries
<1>7. ASSUME NEW i \in DOMAIN new
      PROVE  new[i] \in LiveEntries(nst)
  <2>1. Len(st.log) + i \in DOMAIN nst.log /\ Len(st.log) + i > st.read
    BY <1>1, <1>2
  <2>2. Len(st.log) + i \in Undelivered(nst)
    BY <1>2, <2>1 DEF Undelivered
  <2>. QED
    BY <1>2, <2>2 DEF LiveEntries
<1>. QED
  BY <1>6, <1>7 DEF Elements, nst

\* The three commands of the group leave the log alone.
LEMMA GroupFacts ==
    ASSUME NEW E, NEW C, NEW st \in Stream(E, C), NEW c \in C
    PROVE  /\ \A ids \in Seq(Nat) :
                /\ Deliver(st, c, ids) \in Stream(E, C)
                /\ Deliver(st, c, ids).log = st.log
                /\ XAck(st, ids) \in Stream(E, C)
                /\ XAck(st, ids).log = st.log
                /\ XAck(st, ids).read = st.read
           /\ \A ids \in SUBSET Nat :
                /\ Claim(st, c, ids) \in Stream(E, C)
                /\ Claim(st, c, ids).log = st.log
                /\ Claim(st, c, ids).read = st.read
<1>1. /\ st.read \in Nat
      /\ st.pel \in [C -> SUBSET Nat]
  BY DEF Stream
<1>2. ASSUME NEW ids \in Seq(Nat)
      PROVE  /\ Deliver(st, c, ids) \in Stream(E, C)
             /\ Deliver(st, c, ids).log = st.log
  <2>1. {ids[i] : i \in DOMAIN ids} \subseteq Nat
    OBVIOUS
  <2>2. ids # <<>> => ids[Len(ids)] \in Nat
    OBVIOUS
  <2>. QED
    BY <1>1, <2>1, <2>2 DEF Deliver, Stream
<1>3. ASSUME NEW ids \in Seq(Nat)
      PROVE  /\ XAck(st, ids) \in Stream(E, C)
             /\ XAck(st, ids).log = st.log
             /\ XAck(st, ids).read = st.read
  BY <1>1 DEF XAck, Stream
<1>4. ASSUME NEW ids \in SUBSET Nat
      PROVE  /\ Claim(st, c, ids) \in Stream(E, C)
             /\ Claim(st, c, ids).log = st.log
             /\ Claim(st, c, ids).read = st.read
  BY <1>1 DEF Claim, Stream
<1>. QED
  BY <1>2, <1>3, <1>4

\* XREADGROUP moves what it delivers into the reader's PEL: since it takes the
\* oldest undelivered entries, none is skipped.
LEMMA DeliverLive ==
    ASSUME NEW E, NEW C, NEW st \in Stream(E, C), NEW c \in C,
           NEW count \in Nat, NEW ids \in Oldest(Undelivered(st), count),
           ids # <<>>
    PROVE  /\ LiveEntries(st) \subseteq LiveEntries(Deliver(st, c, ids))
           /\ WellRead(Deliver(st, c, ids))
           /\ ids \in Seq(DOMAIN st.log)
<1> DEFINE taken == {ids[i] : i \in DOMAIN ids}
           nst == Deliver(st, c, ids)
<1>1. /\ st.log \in Seq(E)
      /\ st.read \in Nat
      /\ st.pel \in [C -> SUBSET Nat]
  BY DEF Stream
<1>2. ids \in Seq(Undelivered(st))
  BY OldestType
<1>3. /\ Undelivered(st) \subseteq DOMAIN st.log
      /\ Undelivered(st) \subseteq Nat
  BY <1>1 DEF Undelivered
<1>4. ids \in Seq(DOMAIN st.log) /\ ids \in Seq(Nat)
  BY <1>2, <1>3
<1>5. Len(ids) \in DOMAIN ids /\ ids[Len(ids)] \in DOMAIN st.log
  BY <1>4
<1>6. \A i \in Undelivered(st) \ taken : ids[Len(ids)] < i
  BY <1>5 DEF Oldest
<1>7. /\ nst.log = st.log
      /\ nst.read = ids[Len(ids)]
      /\ nst.pel = [st.pel EXCEPT ![c] = @ \cup taken]
  BY <1>1 DEF Deliver, Stream
<1>8. ASSUME NEW i \in Undelivered(st)
      PROVE  i \in Undelivered(nst) \cup Pending(nst)
  <2>1. CASE i \in taken
    <3>1. i \in nst.pel[c] /\ c \in DOMAIN nst.pel
      BY <1>1, <1>7, <2>1
    <3>. QED
      BY <1>3, <1>7, <3>1 DEF Pending
  <2>2. CASE i \notin taken
    BY <1>3, <1>6, <1>7, <2>2 DEF Undelivered
  <2>. QED
    BY <2>1, <2>2
<1>9. Pending(st) \subseteq Pending(nst)
  BY <1>1, <1>7 DEF Pending
<1>10. LiveEntries(st) \subseteq LiveEntries(nst)
  BY <1>7, <1>8, <1>9 DEF LiveEntries
<1>11. WellRead(nst)
  BY <1>1, <1>5, <1>7 DEF WellRead
<1>. QED
  BY <1>4, <1>10, <1>11

\* XACK takes out the entries it names and no other.
LEMMA AckLive ==
    ASSUME NEW E, NEW C, NEW st \in Stream(E, C), NEW ids \in Seq(DOMAIN st.log)
    PROVE  LiveEntries(st) \subseteq
               LiveEntries(XAck(st, ids)) \cup Elements(Entries(st, ids))
<1> DEFINE taken == {ids[i] : i \in DOMAIN ids}
           nst == XAck(st, ids)
<1>1. /\ st.log \in Seq(E)
      /\ st.pel \in [C -> SUBSET Nat]
  BY DEF Stream
<1>2. /\ nst.log = st.log
      /\ nst.read = st.read
      /\ nst.pel = [d \in C |-> st.pel[d] \ taken]
  BY <1>1 DEF XAck, Stream
<1>3. Undelivered(nst) = Undelivered(st)
  BY <1>2 DEF Undelivered
<1>4. Pending(st) \subseteq Pending(nst) \cup taken
  BY <1>1, <1>2 DEF Pending
<1>5. \A i \in taken : st.log[i] \in Elements(Entries(st, ids))
  BY DEF Elements, Entries
<1>. QED
  BY <1>2, <1>3, <1>4, <1>5 DEF LiveEntries

\* XAUTOCLAIM only changes who holds an entry.
LEMMA ClaimLive ==
    ASSUME NEW E, NEW C, NEW st \in Stream(E, C), NEW c \in C,
           NEW ids \in SUBSET Pending(st)
    PROVE  LiveEntries(st) \subseteq LiveEntries(Claim(st, c, ids))
<1> DEFINE nst == Claim(st, c, ids)
<1>1. /\ st.log \in Seq(E)
      /\ st.pel \in [C -> SUBSET Nat]
  BY DEF Stream
<1>2. /\ nst.log = st.log
      /\ nst.read = st.read
      /\ nst.pel = [d \in C |-> IF d = c THEN st.pel[d] \cup ids
                                         ELSE st.pel[d] \ ids]
  BY <1>1 DEF Claim, Stream
<1>3. Undelivered(nst) = Undelivered(st)
  BY <1>2 DEF Undelivered
<1>4. Pending(st) \subseteq Pending(nst)
  BY <1>1, <1>2 DEF Pending
<1>. QED
  BY <1>2, <1>3, <1>4 DEF LiveEntries

-----------------------------------------------------------------------------
(* The inductive invariant *)

\* A group has never read past the end of its stream.
ReadInside == \A s \in Streams : WellRead(streams[s])

\* A batch names entries of the stream its handler reads, and outside the
\* processing of a batch there is none: a phase never changes under it.
BatchInPlace(h) ==
    /\ batch[h] \in Seq(DOMAIN streams[Source(h)].log)
    /\ batch[h] # <<>> => pc[h] \in {"exec", "ack", "push", "exit"}

BatchOK == main # "returned" => \A h \in Handlers : BatchInPlace(h)

\* The insert worker acknowledges what it has written.
AckedIsWritten(h) ==
    pc[h] = "ack" => /\ WorkerOf(h) = Inserter
                     /\ Elements(BatchMsgs(h)) \subseteq Written

AckWritten == main # "returned" => \A h \in Handlers : AckedIsWritten(h)

\* The inductive invariant.
IInv == TypeOK /\ ReadInside /\ BatchOK /\ AckWritten /\ Accounted

-----------------------------------------------------------------------------
(* The helpers' types *)

\* Where a handler is, what it reads and what its worker is called.
LEMMA HandlerFacts ==
    ASSUME NEW h \in Handlers
    PROVE  /\ WorkerOf(h) \in AllWorkers
           /\ h[2] \in Slots
           /\ StreamOf(WorkerOf(h)) \in Streams
           /\ DlqOf(WorkerOf(h)) \in Streams
           /\ Source(h) \in Streams
BY DEF Handlers, WorkerOf, StreamOf, DlqOf, Source, Streams

\* The messages of a batch, as a sequence and as a set.
LEMMA BatchFacts ==
    ASSUME TypeOK, BatchOK, main # "returned", NEW h \in Handlers
    PROVE  /\ streams[Source(h)] \in Stream(Msgs, AllWorkers)
           /\ batch[h] \in Seq(DOMAIN streams[Source(h)].log)
           /\ batch[h] \in Seq(Nat)
           /\ BatchMsgs(h) \in Seq(Msgs)
           /\ DOMAIN BatchMsgs(h) = DOMAIN batch[h]
           /\ Elements(BatchMsgs(h)) = {BatchMsgs(h)[i] : i \in DOMAIN batch[h]}
           /\ Elements(BatchMsgs(h)) \subseteq Msgs
<1>1. streams[Source(h)] \in Stream(Msgs, AllWorkers)
  BY HandlerFacts DEF TypeOK
<1>2. batch[h] \in Seq(DOMAIN streams[Source(h)].log)
  BY DEF BatchOK, BatchInPlace
<1>3. batch[h] \in Seq(Nat)
  BY DEF TypeOK
<1>4. BatchMsgs(h) \in Seq(Msgs) /\ DOMAIN BatchMsgs(h) = DOMAIN batch[h]
  BY <1>1, <1>2, EntriesType DEF BatchMsgs
<1>5. Elements(BatchMsgs(h)) = {BatchMsgs(h)[i] : i \in DOMAIN batch[h]}
  BY <1>4 DEF Elements
<1>6. Elements(BatchMsgs(h)) \subseteq Msgs
  BY <1>4 DEF Elements
<1>. QED
  BY <1>1, <1>2, <1>3, <1>4, <1>5, <1>6

\* What is in hand are messages.
LEMMA InHandType ==
    ASSUME TypeOK, BatchOK, main # "returned"
    PROVE  /\ \A h \in Handlers : InHand(h) \subseteq Msgs
           /\ AllInHand \subseteq Msgs
<1>1. ASSUME NEW h \in Handlers
      PROVE  InHand(h) \subseteq Msgs
  BY BatchFacts DEF InHand
<1>. QED
  BY <1>1 DEF AllInHand

\* Starting workers only moves handlers that are off.
LEMMA StartedType ==
    ASSUME TypeOK, NEW ws
    PROVE  /\ Started(ws) \in [Handlers -> Pcs]
           /\ \A h \in Handlers :
                Started(ws)[h] # pc[h] => pc[h] = "off" /\ Started(ws)[h] = "init"
<1>1. ASSUME NEW h \in Handlers, IsFirstFree(h)
      PROVE  pc[h] = "off"
  <2>1. h = <<WorkerOf(h), h[2]>>
    BY DEF Handlers, WorkerOf
  <2>. QED
    BY <1>1, <2>1 DEF IsFirstFree, FreeSlots
<1>. QED
  BY <1>1 DEF Started, TypeOK, Pcs

\* A post keeps the ports' type.
LEMMA PostType ==
    ASSUME TypeOK, NEW h \in Handlers, NEW event \in PortEvents
    PROVE  Post(h, event) \in [Handlers -> Seq(PortEvents)]
<1>1. port \in [Handlers -> Seq(PortEvents)]
  BY DEF TypeOK
<1>2. Append(port[h], event) \in Seq(PortEvents)
  BY <1>1
<1>. QED
  BY <1>1, <1>2 DEF Post

\* Every stream of a function on streams stays typed when one is replaced.
LEMMA StreamsType ==
    ASSUME TypeOK, NEW s \in Streams, NEW st \in Stream(Msgs, AllWorkers)
    PROVE  [streams EXCEPT ![s] = st] \in [Streams -> Stream(Msgs, AllWorkers)]
BY DEF TypeOK

LEMMA EmptyStreamFacts ==
    /\ EmptyStream(AllWorkers) \in Stream(Msgs, AllWorkers)
    /\ WellRead(EmptyStream(AllWorkers))
    /\ EmptyStream(AllWorkers).log = <<>>
BY DEF EmptyStream, Stream, WellRead
-----------------------------------------------------------------------------
(* Type correctness *)

LEMMA TypeInit == Init => TypeOK
<1> SUFFICES ASSUME Init PROVE TypeOK
  OBVIOUS
<1>1. streams \in [Streams -> Stream(Msgs, AllWorkers)]
  BY EmptyStreamFacts DEF Init
<1>2. next \in 1 .. N + 1
  BY ConstantsAssumption DEF Init
<1>. QED
  BY <1>1, <1>2 DEF Init, TypeOK, Stages, Statuses, Pcs, Phases

\* The death of the process leaves a typed state.
LEMMA TypeDie ==
    ASSUME TypeOK, BatchOK, main # "returned", Die,
           runs' \in Nat, restarts' \in Nat, crashes' \in Nat, failures' \in Nat
    PROVE  TypeOK'
<1>1. dropped' \subseteq Msgs
  BY InHandType DEF Die, TypeOK
<1>2. next' \in 1 .. N + 1
  BY ConstantsAssumption DEF Die
<1>. QED
  BY <1>1, <1>2 DEF Die, TypeOK, redis, Stages, Statuses, Pcs, Phases

\* The steps of the main thread.
LEMMA TypeQueue ==
    ASSUME TypeOK, Queue PROVE TypeOK'
<1>1. next' \in 1 .. N + 1
  BY ConstantsAssumption DEF Queue, ResumePoint, TypeOK, Msgs
<1>2. PICK c \in Crews :
        /\ crew' = c
        /\ status' = [w \in AllWorkers |-> IF w \in c THEN "running" ELSE "idle"]
        /\ pc' = Started(c)
  BY DEF Queue
<1>3. crew' \subseteq Workers
  BY <1>2, ConstantsAssumption
<1>4. pc' \in [Handlers -> Pcs]
  BY <1>2, StartedType
<1>5. status' \in [AllWorkers -> Statuses]
  BY <1>2 DEF Statuses
<1>6. /\ runs' \in Nat
      /\ lastMessage' \in Msgs \cup {NoKey, INITIALIZING, JOB_ENDED}
      /\ lastInsert' \in {NoKey, INITIALIZING, Payload, JOB_ENDED}
      /\ main' \in Stages
  BY DEF Queue, TypeOK, Stages
<1>. QED
  BY <1>1, <1>3, <1>4, <1>5, <1>6 DEF Queue, TypeOK

\* The batcher's next batch is a piece of the input.
LEMMA NextBatch ==
    ASSUME TypeOK, next <= N
    PROVE  /\ next \in Msgs
           /\ LastOfBatch \in Msgs
           /\ LastOfBatch + 1 \in 1 .. N + 1
           /\ [i \in 1 .. LastOfBatch - next + 1 |-> next + i - 1] \in Seq(Msgs)
<1>1. next \in Nat /\ next >= 1 /\ N \in Nat /\ BatchSize \in Nat /\ BatchSize >= 1
  BY ConstantsAssumption DEF TypeOK
<1>2. LastOfBatch \in Nat /\ LastOfBatch >= next /\ LastOfBatch <= N
  BY <1>1 DEF LastOfBatch
<1>3. next \in Msgs /\ LastOfBatch \in Msgs /\ LastOfBatch + 1 \in 1 .. N + 1
  BY <1>1, <1>2 DEF Msgs
<1>4. [i \in 1 .. LastOfBatch - next + 1 |-> next + i - 1] \in Seq(Msgs)
  <2>1. LastOfBatch - next + 1 \in Nat
    BY <1>1, <1>2
  <2>2. \A i \in 1 .. LastOfBatch - next + 1 : next + i - 1 \in Msgs
    BY <1>1, <1>2 DEF Msgs
  <2>. QED
    BY <2>1, <2>2
<1>. QED
  BY <1>3, <1>4

LEMMA TypeEnqueueBatch ==
    ASSUME TypeOK, EnqueueBatch PROVE TypeOK'
<1> DEFINE new == [i \in 1 .. LastOfBatch - next + 1 |-> next + i - 1]
<1>1. /\ streams' = [streams EXCEPT !["process"] = XAdd(@, new)]
      /\ lastMessage' = LastOfBatch
      /\ next' = LastOfBatch + 1
      /\ next <= N
  BY DEF EnqueueBatch
<1>2. /\ LastOfBatch \in Msgs
      /\ next' \in 1 .. N + 1
      /\ new \in Seq(Msgs)
  BY <1>1, NextBatch
<1> HIDE DEF new
<1>3. "process" \in Streams
  BY DEF Streams
<1>4. XAdd(streams["process"], new) \in Stream(Msgs, AllWorkers)
  BY <1>2, <1>3, XAddFacts DEF TypeOK
<1>5. streams' \in [Streams -> Stream(Msgs, AllWorkers)]
  BY <1>1, <1>3, <1>4, StreamsType
<1>. QED
  BY <1>1, <1>2, <1>5 DEF EnqueueBatch, TypeOK, threads, bounds

LEMMA TypeMainControl ==
    ASSUME TypeOK,
           \/ CloseEnqueuer \/ AwaitAll \/ CheckProcess \/ CheckInsert
           \/ DeclineRestart
    PROVE  TypeOK'
BY DEF TypeOK, CloseEnqueuer, AwaitAll, CheckProcess, CheckInsert,
       DeclineRestart, redis, threads, bounds, Stages

LEMMA TypeOnMessage ==
    ASSUME TypeOK, BatchOK, NEW h \in Handlers, OnMessage(h)
    PROVE  TypeOK'
<1> DEFINE w == WorkerOf(h)
<1>1. w \in AllWorkers
  BY HandlerFacts
<1>2. CASE Die
  <2>1. main # "returned" /\ UNCHANGED bounds
    BY DEF OnMessage
  <2>2. /\ runs' \in Nat /\ restarts' \in Nat /\ crashes' \in Nat
        /\ failures' \in Nat
    BY <2>1 DEF TypeOK, bounds
  <2>. QED
    BY <1>2, <2>1, <2>2, TypeDie
<1>3. CASE ~Die
  <2>1. Tail(port[h]) \in Seq(PortEvents)
    BY DEF OnMessage, TypeOK
  <2>2. port' \in [Handlers -> Seq(PortEvents)]
    BY <1>3, <2>1 DEF OnMessage, TypeOK
  <2>3. CASE Head(port[h]) = "INTERRUPTED"
    <3>1. status' \in [AllWorkers -> Statuses]
      BY <1>1, <1>3, <2>3 DEF OnMessage, TypeOK, Statuses
    <3>. QED
      BY <1>3, <2>2, <2>3, <3>1 DEF OnMessage, TypeOK, redis, bounds
  <2>4. CASE Head(port[h]) # "INTERRUPTED"
    <3>1. Started({Inserter}) \in [Handlers -> Pcs]
      BY StartedType
    <3>2. ASSUME NEW stat \in [AllWorkers -> Statuses], InitInsertIfIdle(stat)
          PROVE  /\ status' \in [AllWorkers -> Statuses]
                 /\ pc' \in [Handlers -> Pcs]
      BY <3>1, <3>2 DEF InitInsertIfIdle, TypeOK, Statuses
    <3>3. IF Head(port[h]) = "DONE" THEN OnDone(w) ELSE OnFinished(w)
      BY <1>3, <2>4 DEF OnMessage
    <3>4. [status EXCEPT ![w] = "stopped"] \in [AllWorkers -> Statuses]
      BY <1>1 DEF TypeOK, Statuses
    <3>5. /\ status' \in [AllWorkers -> Statuses]
          /\ pc' \in [Handlers -> Pcs]
          /\ doneCount' \in Nat
      <4>1. CASE Head(port[h]) = "DONE"
        <5> DEFINE stopped == [status EXCEPT ![w] = "stopped"]
        <5>1. /\ stopped \in [AllWorkers -> Statuses]
              /\ OnDone(w)
          BY <3>3, <3>4, <4>1
        <5>2. /\ \/ InitInsertIfIdle(stopped)
                 \/ status' = stopped /\ UNCHANGED pc
              /\ doneCount' \in {doneCount, doneCount + 1}
          BY <5>1 DEF OnDone
        <5> HIDE DEF stopped
        <5>. QED
          BY <3>2, <5>1, <5>2 DEF TypeOK
      <4>2. CASE Head(port[h]) # "DONE"
        BY <3>2, <3>3, <4>2 DEF OnFinished, TypeOK
      <4>. QED
        BY <4>1, <4>2
    <3>. QED
      BY <1>3, <2>2, <2>4, <3>5 DEF OnMessage, TypeOK, redis, bounds
  <2>. QED
    BY <2>3, <2>4
<1>. QED
  BY <1>2, <1>3

LEMMA TypeHealthcheck ==
    ASSUME TypeOK, Healthcheck PROVE TypeOK'
<1> DEFINE sick == {w \in crew : status[w] = "interrupted"}
<1>1. pc' = Started(sick) /\ Started(sick) \in [Handlers -> Pcs]
  BY StartedType DEF Healthcheck
<1>2. status' \in [AllWorkers -> Statuses]
  BY DEF Healthcheck, TypeOK, Statuses
<1>. QED
  BY <1>1, <1>2 DEF Healthcheck, TypeOK, redis, bounds

LEMMA TypeConfirmRestart ==
    ASSUME TypeOK, ConfirmRestart PROVE TypeOK'
<1>1. pc' = Started(crew) /\ Started(crew) \in [Handlers -> Pcs]
  BY StartedType DEF ConfirmRestart
<1>2. /\ status' \in [AllWorkers -> Statuses]
      /\ port' \in [Handlers -> Seq(PortEvents)]
      /\ restarts' \in Nat
      /\ main' \in Stages
  BY DEF ConfirmRestart, TypeOK, Statuses, Stages
<1>. QED
  BY <1>1, <1>2 DEF ConfirmRestart, TypeOK, redis

LEMMA TypeClearPersisted ==
    ASSUME TypeOK, ClearPersisted PROVE TypeOK'
<1>1. /\ streams' \in [Streams -> Stream(Msgs, AllWorkers)]
      /\ port' \in [Handlers -> Seq(PortEvents)]
      /\ main' \in Stages
  BY EmptyStreamFacts DEF ClearPersisted, Stages
<1>. QED
  BY <1>1 DEF ClearPersisted, TypeOK, threads, bounds
-----------------------------------------------------------------------------
(* Type correctness: the steps of a handler *)

LEMMA TypeGoto ==
    ASSUME TypeOK, NEW h \in Handlers, NEW label \in Pcs, Goto(h, label)
    PROVE  pc' \in [Handlers -> Pcs]
BY DEF Goto, TypeOK

LEMMA TypeConnecting ==
    ASSUME TypeOK, BatchOK, NEW h \in Handlers,
           ReceiveInit(h) \/ Connect(h) \/ LoadContext(h)
    PROVE  TypeOK'
<1>1. WorkerOf(h) \in AllWorkers /\ h[2] \in Slots
  BY HandlerFacts
<1>2. CASE ReceiveInit(h)
  <2>1. pc' \in [Handlers -> Pcs]
    BY <1>2, TypeGoto DEF ReceiveInit, Pcs
  <2>. QED
    BY <1>1, <1>2, <2>1 DEF ReceiveInit, TypeOK, redis, control, bounds
<1>3. CASE Connect(h)
  <2>1. pc' \in [Handlers -> Pcs]
    BY <1>3, TypeGoto DEF Connect, Pcs
  <2>. QED
    BY <1>1, <1>3, <2>1 DEF Connect, TypeOK, redis, control, bounds
<1>4. CASE LoadContext(h)
  <2>1. CASE Connected(h)
    <3>1. pc' \in [Handlers -> Pcs]
      BY <1>4, <2>1, TypeGoto DEF LoadContext, Pcs
    <3>. QED
      BY <1>4, <2>1, <3>1 DEF LoadContext, TypeOK, redis, control, bounds
  <2>2. CASE ~Connected(h)
    <3>1. Die /\ main # "returned" /\ UNCHANGED bounds
      BY <1>4, <2>2 DEF LoadContext, Up
    <3>2. /\ runs' \in Nat /\ restarts' \in Nat /\ crashes' \in Nat
          /\ failures' \in Nat
      BY <3>1 DEF TypeOK, bounds
    <3>. QED
      BY <3>1, <3>2, TypeDie
  <2>. QED
    BY <2>1, <2>2
<1>. QED
  BY <1>2, <1>3, <1>4

\* What a handler may claim or read are positions of its stream.
LEMMA ReadableType ==
    ASSUME TypeOK, NEW h \in Handlers
    PROVE  /\ streams[Source(h)] \in Stream(Msgs, AllWorkers)
           /\ DOMAIN streams[Source(h)].log \subseteq Nat
           /\ Undelivered(streams[Source(h)]) \subseteq DOMAIN streams[Source(h)].log
           /\ Pending(streams[Source(h)]) \subseteq DOMAIN streams[Source(h)].log
           /\ Own(h) \subseteq DOMAIN streams[Source(h)].log
<1>1. streams[Source(h)] \in Stream(Msgs, AllWorkers)
  BY HandlerFacts DEF TypeOK
<1>2. streams[Source(h)].log \in Seq(Msgs)
  BY <1>1 DEF Stream
<1>3. DOMAIN streams[Source(h)].log \subseteq Nat
  BY <1>2
<1>. QED
  BY <1>1, <1>3 DEF Undelivered, Pending, Own

LEMMA TypeAutoClaim ==
    ASSUME TypeOK, NEW h \in Handlers, AutoClaim(h) PROVE TypeOK'
<1> DEFINE s == Source(h)
<1>1. PICK ids \in SUBSET Pending(streams[s]) :
        streams' = [streams EXCEPT ![s] = Claim(@, WorkerOf(h), ids)]
  BY DEF AutoClaim
<1>2. ids \in SUBSET Nat /\ WorkerOf(h) \in AllWorkers /\ s \in Streams
  BY <1>1, ReadableType, HandlerFacts
<1>3. Claim(streams[s], WorkerOf(h), ids) \in Stream(Msgs, AllWorkers)
  BY <1>2, ReadableType, GroupFacts
<1>4. streams' \in [Streams -> Stream(Msgs, AllWorkers)]
  BY <1>1, <1>2, <1>3, StreamsType
<1>5. pc' \in [Handlers -> Pcs]
  BY TypeGoto DEF AutoClaim, Pcs
<1>. QED
  BY <1>4, <1>5 DEF AutoClaim, TypeOK, control, bounds

LEMMA TypeReadNew ==
    ASSUME TypeOK, NEW h \in Handlers, ReadNew(h) PROVE TypeOK'
<1> DEFINE s == Source(h)
<1>1. PICK ids \in Oldest(Undelivered(streams[s]), ReadCount) :
        /\ streams' = [streams EXCEPT ![s] = Deliver(@, WorkerOf(h), ids)]
        /\ batch' = [batch EXCEPT ![h] = ids]
  BY DEF ReadNew
<1>2. ids \in Seq(Undelivered(streams[s])) /\ Undelivered(streams[s]) \subseteq Nat
  BY <1>1, OldestType, ReadableType, ConstantsAssumption DEF ReadCount
<1>3. ids \in Seq(Nat) /\ WorkerOf(h) \in AllWorkers /\ s \in Streams
  BY <1>2, HandlerFacts
<1>4. Deliver(streams[s], WorkerOf(h), ids) \in Stream(Msgs, AllWorkers)
  BY <1>3, ReadableType, GroupFacts
<1>5. streams' \in [Streams -> Stream(Msgs, AllWorkers)]
  BY <1>1, <1>3, <1>4, StreamsType
<1>6. batch' \in [Handlers -> Seq(Nat)]
  BY <1>1, <1>3 DEF TypeOK
<1>7. pc' \in [Handlers -> Pcs]
  BY TypeGoto DEF ReadNew, Pcs
<1>. QED
  BY <1>5, <1>6, <1>7 DEF ReadNew, TypeOK, control, bounds

LEMMA TypeReadPending ==
    ASSUME TypeOK, NEW h \in Handlers, ReadPending(h) PROVE TypeOK'
<1>1. PICK ids \in Oldest(Own(h), ReadCount) : batch' = [batch EXCEPT ![h] = ids]
  BY DEF ReadPending
<1>2. ids \in Seq(Own(h))
  BY <1>1, OldestType, ConstantsAssumption DEF ReadCount
<1>3. ids \in Seq(Nat)
  BY <1>2, ReadableType
<1>4. batch' \in [Handlers -> Seq(Nat)]
  BY <1>1, <1>3 DEF TypeOK
<1>5. pc' \in [Handlers -> Pcs]
  BY TypeGoto DEF ReadPending, Pcs
<1>. QED
  BY <1>4, <1>5 DEF ReadPending, TypeOK, redis, control, bounds

LEMMA TypeReadNothing ==
    ASSUME TypeOK, NEW h \in Handlers, ReadNothing(h) PROVE TypeOK'
<1>1. /\ \/ Goto(h, "claim") \/ Goto(h, "read") \/ Goto(h, "producer")
      /\ \/ phase' = [phase EXCEPT ![h] = "pending"]
         \/ phase' = [phase EXCEPT ![h] = "poll"]
         \/ phase' = phase
  <2>1. phase[h] \in Phases
    BY DEF TypeOK
  <2>. QED
    BY <2>1 DEF ReadNothing, Phases
<1>2. pc' \in [Handlers -> Pcs]
  BY <1>1, TypeGoto DEF Pcs
<1>3. phase' \in [Handlers -> Phases]
  BY <1>1 DEF TypeOK, Phases
<1>. QED
  BY <1>2, <1>3 DEF ReadNothing, TypeOK, redis, control, bounds

\* The positions of a batch that satisfy anything are finitely many.
LEMMA PositionsFinite ==
    ASSUME TypeOK, NEW h \in Handlers, NEW positions, positions \subseteq DOMAIN batch[h]
    PROVE  IsFiniteSet(positions) /\ Cardinality(positions) \in Nat
<1>1. batch[h] \in Seq(Nat)
  BY DEF TypeOK
<1>2. DOMAIN batch[h] = 1 .. Len(batch[h]) /\ Len(batch[h]) \in Nat
  BY <1>1
<1>3. IsFiniteSet(DOMAIN batch[h])
  BY <1>2, FS_Interval
<1>. QED
  BY <1>3, FS_Subset, FS_CardinalityType

LEMMA TypeInsert ==
    ASSUME TypeOK, BatchOK, NEW h \in Handlers, Insert(h) PROVE TypeOK'
<1> DEFINE At(m) == {i \in DOMAIN batch[h] : BatchMsgs(h)[i] = m}
<1>1. \A m \in Msgs : At(m) \subseteq DOMAIN batch[h]
  OBVIOUS
<1>2. rows' = [m \in Msgs |-> rows[m] + Cardinality(At(m))]
  BY DEF Insert
<1> HIDE DEF At
<1>3. \A m \in Msgs : Cardinality(At(m)) \in Nat
  BY <1>1, PositionsFinite
<1>4. rows' \in [Msgs -> Nat]
  BY <1>2, <1>3 DEF TypeOK
<1>5. pc' \in [Handlers -> Pcs]
  BY TypeGoto DEF Insert, Pcs
<1>. QED
  BY <1>4, <1>5 DEF Insert, TypeOK, control, bounds

\* Acknowledging keeps the streams' type.
LEMMA AckType ==
    ASSUME TypeOK, NEW h \in Handlers
    PROVE  /\ XAck(streams[Source(h)], batch[h]) \in Stream(Msgs, AllWorkers)
           /\ [streams EXCEPT ![Source(h)] = XAck(@, batch[h])]
                 \in [Streams -> Stream(Msgs, AllWorkers)]
<1>1. batch[h] \in Seq(Nat) /\ WorkerOf(h) \in AllWorkers /\ Source(h) \in Streams
  BY HandlerFacts DEF TypeOK
<1>2. XAck(streams[Source(h)], batch[h]) \in Stream(Msgs, AllWorkers)
  BY <1>1, ReadableType, GroupFacts
<1>. QED
  BY <1>1, <1>2, StreamsType

\* A processed batch is over: the handler goes back to its loop.
LEMMA TypeResume ==
    ASSUME TypeOK, NEW h \in Handlers
    PROVE  /\ Goto(h, Resume(h)) => pc' \in [Handlers -> Pcs]
           /\ [batch EXCEPT ![h] = <<>>] \in [Handlers -> Seq(Nat)]
<1>1. Resume(h) \in Pcs
  BY DEF Resume, Pcs
<1>. QED
  BY <1>1, TypeGoto DEF TypeOK

LEMMA TypeAcknowledge ==
    ASSUME TypeOK, NEW h \in Handlers, Acknowledge(h) PROVE TypeOK'
<1>1. streams' \in [Streams -> Stream(Msgs, AllWorkers)]
  BY AckType DEF Acknowledge
<1>2. batch' \in [Handlers -> Seq(Nat)] /\ pc' \in [Handlers -> Pcs]
  <2>1. CASE WorkerOf(h) = Inserter
    BY <2>1, TypeResume DEF Acknowledge
  <2>2. CASE WorkerOf(h) # Inserter
    BY <2>2, TypeGoto DEF Acknowledge, TypeOK, Pcs
  <2>. QED
    BY <2>1, <2>2
<1>. QED
  BY <1>1, <1>2 DEF Acknowledge, TypeOK, control, bounds

LEMMA TypePush ==
    ASSUME TypeOK, BatchOK, NEW h \in Handlers, Push(h) PROVE TypeOK'
<1>1. main # "returned"
  BY DEF Push, Up
<1>2. BatchMsgs(h) \in Seq(Msgs)
  BY <1>1, BatchFacts
<1>3. "insert" \in Streams
  BY DEF Streams
<1>4. XAdd(streams["insert"], BatchMsgs(h)) \in Stream(Msgs, AllWorkers)
  BY <1>2, <1>3, XAddFacts DEF TypeOK
<1>5. streams' \in [Streams -> Stream(Msgs, AllWorkers)]
  BY <1>3, <1>4, StreamsType DEF Push, Forwarded
<1>6. port' \in [Handlers -> Seq(PortEvents)]
  BY PostType DEF Push, PortEvents
<1>7. batch' \in [Handlers -> Seq(Nat)] /\ pc' \in [Handlers -> Pcs]
  BY TypeResume DEF Push
<1>. QED
  BY <1>5, <1>6, <1>7 DEF Push, TypeOK, bounds

LEMMA TypeFail ==
    ASSUME TypeOK, BatchOK, NEW h \in Handlers, Fail(h) PROVE TypeOK'
<1> DEFINE s == Source(h)
           dlq == DlqOf(WorkerOf(h))
           acked == [streams EXCEPT ![s] = XAck(@, batch[h])]
<1>1. main # "returned"
  BY DEF Fail, Up
<1>2. acked \in [Streams -> Stream(Msgs, AllWorkers)]
  BY AckType
<1>3. /\ \/ streams' = acked /\ dropped' = dropped \cup
                             {BatchMsgs(h)[i] : i \in DOMAIN batch[h]}
         \/ /\ streams' = [acked EXCEPT ![dlq] = XAdd(@, BatchMsgs(h))]
            /\ dropped' = dropped
  BY DEF Fail, DeadLettered
<1> HIDE DEF acked
<1>4. dropped' \subseteq Msgs
  <2>1. {BatchMsgs(h)[i] : i \in DOMAIN batch[h]} \subseteq Msgs
    BY <1>1, BatchFacts
  <2>. QED
    BY <1>3, <2>1 DEF TypeOK
<1>5. streams' \in [Streams -> Stream(Msgs, AllWorkers)]
  <2>1. dlq \in Streams /\ BatchMsgs(h) \in Seq(Msgs)
    BY <1>1, HandlerFacts, BatchFacts
  <2>2. XAdd(acked[dlq], BatchMsgs(h)) \in Stream(Msgs, AllWorkers)
    BY <1>2, <2>1, XAddFacts
  <2>. QED
    BY <1>2, <1>3, <2>1, <2>2
<1>6. port' \in [Handlers -> Seq(PortEvents)]
  BY PostType DEF Fail, PortEvents
<1>7. batch' \in [Handlers -> Seq(Nat)] /\ pc' \in [Handlers -> Pcs]
  BY TypeResume DEF Fail
<1>8. failures' \in Nat
  BY DEF Fail, TypeOK
<1>. QED
  BY <1>4, <1>5, <1>6, <1>7, <1>8 DEF Fail, TypeOK

LEMMA TypeChecks ==
    ASSUME TypeOK, NEW h \in Handlers,
           CheckProducer(h) \/ CheckLag(h) \/ EndJob(h)
    PROVE  TypeOK'
<1>1. pc' \in [Handlers -> Pcs]
  <2>1. \E label \in {"lag", "read", "exit", "ended"} : Goto(h, label)
    BY DEF CheckProducer, CheckLag, EndJob
  <2>. QED
    BY <2>1, TypeGoto DEF Pcs
<1>2. lastInsert' \in {NoKey, INITIALIZING, Payload, JOB_ENDED}
  BY DEF CheckProducer, CheckLag, EndJob, TypeOK, redis
<1>. QED
  BY <1>1, <1>2 DEF CheckProducer, CheckLag, EndJob, TypeOK, redis, control, bounds

LEMMA TypeCommandError ==
    ASSUME TypeOK, BatchOK, NEW h \in Handlers, CommandError(h) PROVE TypeOK'
<1>1. pc' \in [Handlers -> Pcs]
  BY TypeGoto DEF CommandError, Pcs
<1>2. port' \in [Handlers -> Seq(PortEvents)]
  BY PostType DEF CommandError, PortEvents
<1>3. dropped' \subseteq Msgs
  BY InHandType DEF CommandError, Up, TypeOK
<1>. QED
  BY <1>1, <1>2, <1>3 DEF CommandError, TypeOK, redis, bounds

LEMMA TypeExit ==
    ASSUME TypeOK, NEW h \in Handlers, Exit(h) PROVE TypeOK'
<1>1. pc' \in [Handlers -> Pcs]
  BY TypeGoto DEF Exit, Pcs
<1>2. port' \in [Handlers -> Seq(PortEvents)]
  BY PostType DEF Exit, PortEvents
<1>3. /\ conn' \in [AllWorkers -> Slots \cup {0}]
      /\ phase' \in [Handlers -> Phases]
      /\ batch' \in [Handlers -> Seq(Nat)]
      /\ orphans' \subseteq Handlers
  <2>1. /\ conn' = [conn EXCEPT ![WorkerOf(h)] = 0]
        /\ phase' = [phase EXCEPT ![h] = "dlq"]
        /\ batch' = [batch EXCEPT ![h] = <<>>]
        /\ orphans' = orphans \ {h}
    BY DEF Exit
  <2>2. conn' \in [AllWorkers -> Slots \cup {0}]
    BY <2>1 DEF TypeOK
  <2>3. phase' \in [Handlers -> Phases]
    BY <2>1 DEF TypeOK, Phases
  <2>4. batch' \in [Handlers -> Seq(Nat)]
    BY <2>1, TypeResume
  <2>5. orphans' \subseteq Handlers
    BY <2>1 DEF TypeOK
  <2>. QED
    BY <2>2, <2>3, <2>4, <2>5
<1>. QED
  BY <1>1, <1>2, <1>3 DEF Exit, TypeOK, redis, bounds

LEMMA TypeLoseConnection ==
    ASSUME TypeOK, NEW w \in AllWorkers, LoseConnection(w) PROVE TypeOK'
<1>1. conn' \in [AllWorkers -> Slots \cup {0}] /\ failures' \in Nat
  BY DEF LoseConnection, TypeOK
<1>. QED
  BY <1>1 DEF LoseConnection, TypeOK, redis, control

\* Every step, from a state whose batches name entries of their streams.
LEMMA TypeNext ==
    ASSUME TypeOK, BatchOK, [Next]_vars
    PROVE  TypeOK'
<1>1. CASE Quit \/ Crash
  <2>1. Die /\ main # "returned"
    BY <1>1 DEF Quit, Crash, Up
  <2>2. /\ runs' \in Nat /\ restarts' \in Nat /\ crashes' \in Nat
        /\ failures' \in Nat
    BY <1>1 DEF Quit, Crash, bounds, TypeOK
  <2>. QED
    BY <2>1, <2>2, TypeDie
<1>2. CASE \E h \in Handlers : HandlerStep(h)
  BY <1>2, TypeConnecting, TypeAutoClaim, TypeReadNew, TypeReadPending,
     TypeReadNothing, TypeInsert, TypeAcknowledge, TypePush, TypeChecks,
     TypeCommandError, TypeExit DEF HandlerStep
<1>3. CASE \E h \in Handlers : Fail(h) \/ OnMessage(h)
  BY <1>3, TypeFail, TypeOnMessage
<1>4. CASE UNCHANGED vars
  BY <1>4 DEF vars, TypeOK
<1>. QED
  BY <1>1, <1>2, <1>3, <1>4, TypeQueue, TypeEnqueueBatch, TypeMainControl,
     TypeHealthcheck, TypeConfirmRestart, TypeClearPersisted, TypeLoseConnection
  DEF Next, MainStep, Finished
-----------------------------------------------------------------------------
(* Nothing is forgotten *)

\* Where a message may be, once it has entered.
Safe == InStreams \cup AllInHand \cup Written \cup dropped

\* No log loses or changes an entry.
LogsKept ==
    \A s \in Streams :
        /\ DOMAIN streams[s].log \subseteq DOMAIN streams'[s].log
        /\ \A i \in DOMAIN streams[s].log : streams'[s].log[i] = streams[s].log[i]

Untouched(h) ==
    batch'[h] = batch[h] /\ phase'[h] = phase[h] /\ pc'[h] = pc[h]

\* A handler that does not move keeps its batch, as long as the logs do.
LEMMA UntouchedKeeps ==
    ASSUME IInv, main # "returned", LogsKept, Written \subseteq Written',
           NEW h \in Handlers, Untouched(h)
    PROVE  /\ BatchInPlace(h)'
           /\ AckedIsWritten(h)'
           /\ InHand(h)' = InHand(h)
<1>1. Source(h)' = Source(h) /\ Source(h) \in Streams
  BY HandlerFacts DEF Untouched, Source
<1>2. batch[h] \in Seq(DOMAIN streams[Source(h)].log)
  BY BatchFacts DEF IInv
<1>3. DOMAIN streams[Source(h)].log \subseteq DOMAIN streams'[Source(h)].log
  BY <1>1 DEF LogsKept
<1>4. batch[h] \in Seq(DOMAIN streams'[Source(h)].log)
  BY <1>2, <1>3
<1>5. BatchInPlace(h)'
  BY <1>1, <1>4 DEF Untouched, BatchInPlace, IInv, BatchOK
<1>6. BatchMsgs(h)' = BatchMsgs(h)
  <2>1. \A i \in DOMAIN batch[h] :
            streams'[Source(h)].log[batch[h][i]] = streams[Source(h)].log[batch[h][i]]
    BY <1>1, <1>2 DEF LogsKept
  <2>. QED
    BY <1>1, <2>1 DEF Untouched, BatchMsgs, Entries
<1>7. AckedIsWritten(h)'
  BY <1>6 DEF Untouched, AckedIsWritten, IInv, AckWritten
<1>8. InHand(h)' = InHand(h)
  BY <1>6 DEF Untouched, InHand
<1>. QED
  BY <1>5, <1>7, <1>8

\* What a step has to respect for the invariant to survive it.
LEMMA StepKeeps ==
    ASSUME IInv, TypeOK', ReadInside', main # "returned", LogsKept,
           Written \subseteq Written', dropped \subseteq dropped',
           Enqueued' \subseteq Enqueued \cup InStreams',
           InStreams \subseteq Safe',
           \A h \in Handlers :
               \/ Untouched(h)
               \/ BatchInPlace(h)' /\ AckedIsWritten(h)' /\ InHand(h) \subseteq Safe'
    PROVE  IInv'
<1>1. BatchOK' /\ AckWritten'
  BY UntouchedKeeps DEF BatchOK, AckWritten
<1>2. ASSUME NEW h \in Handlers
      PROVE  InHand(h) \subseteq Safe'
  <2>1. CASE Untouched(h)
    <3>1. InHand(h)' = InHand(h)
      BY <2>1, UntouchedKeeps
    <3>2. InHand(h)' \subseteq AllInHand'
      BY DEF AllInHand
    <3>. QED
      BY <3>1, <3>2 DEF Safe
  <2>2. CASE ~Untouched(h)
    BY <2>2
  <2>. QED
    BY <2>1, <2>2
<1>3. Enqueued \subseteq Safe
  BY DEF IInv, Accounted, Safe
<1>4. AllInHand \subseteq Safe'
  BY <1>2 DEF AllInHand
<1>5. Enqueued' \subseteq Safe'
  BY <1>3, <1>4 DEF Safe
<1>6. Accounted'
  BY <1>5 DEF Accounted, Safe
<1>. QED
  BY <1>1, <1>6 DEF IInv

\* A step that leaves streams, rows and batches alone.
LEMMA QuietStep ==
    ASSUME IInv, TypeOK', main # "returned",
           streams' = streams, rows' = rows, batch' = batch, phase' = phase,
           dropped \subseteq dropped',
           \A h \in Handlers :
               pc'[h] # pc[h] =>
                   /\ pc'[h] # "ack"
                   /\ batch[h] # <<>> => pc'[h] = "exit"
                   /\ InHand(h) \subseteq dropped'
    PROVE  IInv'
<1>1. /\ ReadInside' /\ LogsKept
      /\ Written' = Written
      /\ Enqueued' = Enqueued
      /\ InStreams' = InStreams
  BY DEF IInv, ReadInside, LogsKept, Written, Enqueued, InStreams
<1>2. ASSUME NEW h \in Handlers, ~Untouched(h)
      PROVE  BatchInPlace(h)' /\ AckedIsWritten(h)' /\ InHand(h) \subseteq Safe'
  <2>1. pc'[h] # pc[h]
    BY <1>2 DEF Untouched
  <2>2. Source(h)' = Source(h)
    BY DEF Source
  <2>3. BatchInPlace(h)'
    BY <2>1, <2>2 DEF BatchInPlace, IInv, BatchOK
  <2>4. AckedIsWritten(h)'
    BY <2>1 DEF AckedIsWritten
  <2>. QED
    BY <2>1, <2>3, <2>4 DEF Safe
<1>. QED
  BY <1>1, <1>2, StepKeeps DEF Safe

\* A handler that has no batch has nothing in hand.
LEMMA IdleHandler ==
    ASSUME IInv, main # "returned", NEW h \in Handlers,
           pc[h] \notin {"exec", "ack", "push", "exit"}
    PROVE  batch[h] = <<>> /\ InHand(h) = {}
BY DEF IInv, BatchOK, BatchInPlace, InHand

\* Starting workers is quiet: only handlers that are off move.
LEMMA StartedIsQuiet ==
    ASSUME IInv, main # "returned", NEW ws, pc' = Started(ws), NEW h \in Handlers,
           pc'[h] # pc[h]
    PROVE  /\ pc'[h] # "ack"
           /\ batch[h] # <<>> => pc'[h] = "exit"
           /\ InHand(h) \subseteq dropped'
<1>1. pc[h] = "off" /\ pc'[h] = "init"
  BY StartedType DEF IInv
<1>. QED
  BY <1>1, IdleHandler

\* A death counts what was in hand.
LEMMA DieKeeps ==
    ASSUME IInv, TypeOK', main # "returned", Die
    PROVE  IInv'
<1>1. /\ streams' = streams /\ rows' = rows
      /\ dropped' = dropped \cup AllInHand
      /\ \A h \in Handlers : batch'[h] = <<>> /\ pc'[h] = "off"
  BY DEF Die, redis
<1>2. ReadInside' /\ Written' = Written /\ Enqueued' = Enqueued /\ InStreams' = InStreams
  BY <1>1 DEF IInv, ReadInside, Written, Enqueued, InStreams
<1>3. BatchOK' /\ AckWritten'
  <2>1. ASSUME NEW h \in Handlers
        PROVE  BatchInPlace(h)' /\ AckedIsWritten(h)'
    <3> DEFINE ids == DOMAIN streams'[Source(h)'].log
    <3>1. <<>> \in Seq(ids)
      OBVIOUS
    <3>. QED
      BY <1>1, <3>1 DEF BatchInPlace, AckedIsWritten
  <2>. QED
    BY <2>1 DEF BatchOK, AckWritten
<1>4. Accounted'
  BY <1>1, <1>2 DEF IInv, Accounted
<1>. QED
  BY <1>2, <1>3, <1>4 DEF IInv

\* Replacing one stream by one that keeps its log.
LEMMA OneStream ==
    ASSUME IInv, NEW s \in Streams, NEW st \in Stream(Msgs, AllWorkers),
           streams' = [streams EXCEPT ![s] = st], WellRead(st),
           DOMAIN streams[s].log \subseteq DOMAIN st.log,
           \A i \in DOMAIN streams[s].log : st.log[i] = streams[s].log[i],
           NEW rest, LiveEntries(streams[s]) \subseteq LiveEntries(st) \cup rest
    PROVE  /\ ReadInside'
           /\ LogsKept
           /\ InStreams \subseteq InStreams' \cup rest
           /\ LiveEntries(st) \subseteq InStreams'
<1>1. \A t \in Streams : streams'[t] = IF t = s THEN st ELSE streams[t]
  BY DEF IInv, TypeOK
<1>2. ReadInside' /\ LogsKept
  BY <1>1 DEF IInv, ReadInside, LogsKept
<1>3. LiveEntries(st) \subseteq InStreams'
  BY <1>1 DEF InStreams
<1>4. ASSUME NEW t \in Streams
      PROVE  LiveEntries(streams[t]) \subseteq InStreams' \cup rest
  <2>1. CASE t = s
    BY <1>3, <2>1
  <2>2. CASE t # s
    <3>1. streams'[t] = streams[t]
      BY <1>1, <2>2
    <3>2. LiveEntries(streams'[t]) \subseteq InStreams'
      BY DEF InStreams
    <3>. QED
      BY <3>1, <3>2
  <2>. QED
    BY <2>1, <2>2
<1>5. InStreams \subseteq InStreams' \cup rest
  BY <1>4 DEF InStreams
<1>. QED
  BY <1>2, <1>3, <1>5

\* The entries of the processing stream are what has been enqueued.
LEMMA SameEnqueued ==
    ASSUME streams'["process"].log = streams["process"].log
    PROVE  Enqueued' = Enqueued
BY DEF Enqueued

LEMMA EnqueueBatchKeeps ==
    ASSUME IInv, TypeOK', EnqueueBatch PROVE IInv'
<1> DEFINE new == [i \in 1 .. LastOfBatch - next + 1 |-> next + i - 1]
           old == streams["process"]
<1>1. next <= N
  BY DEF EnqueueBatch
<1>2. new \in Seq(Msgs)
  BY <1>1, NextBatch DEF IInv
<1>3. streams' = [streams EXCEPT !["process"] = XAdd(old, new)]
  BY DEF EnqueueBatch
<1> HIDE DEF new
<1>4. /\ "process" \in Streams
      /\ old \in Stream(Msgs, AllWorkers)
      /\ WellRead(old)
  BY DEF Streams, IInv, TypeOK, ReadInside
<1> DEFINE st == XAdd(old, new)
<1>5. /\ st \in Stream(Msgs, AllWorkers)
      /\ WellRead(st)
      /\ DOMAIN old.log \subseteq DOMAIN st.log
      /\ \A i \in DOMAIN old.log : st.log[i] = old.log[i]
      /\ st.log = old.log \o new
  <2> HIDE DEF old
  <2>. QED
    BY <1>2, <1>4, XAddFacts
<1>6. LiveEntries(old) \cup Elements(new) \subseteq LiveEntries(st)
  BY <1>2, <1>4, XAddLive
<1> HIDE DEF st
<1>7. streams' = [streams EXCEPT !["process"] = st]
  BY <1>3 DEF st
<1>8. /\ ReadInside' /\ LogsKept
      /\ InStreams \subseteq InStreams' \cup {}
      /\ LiveEntries(st) \subseteq InStreams'
  BY <1>4, <1>5, <1>6, <1>7, OneStream
<1>9. Enqueued' \subseteq Enqueued \cup InStreams'
  <2>1. Enqueued' = {st.log[i] : i \in DOMAIN st.log}
    BY <1>4, <1>7 DEF Enqueued, IInv, TypeOK
  <2>2. old.log \in Seq(Msgs)
    BY <1>4 DEF Stream
  <2>3. ASSUME NEW i \in DOMAIN st.log
        PROVE  st.log[i] \in Enqueued \cup Elements(new)
    <3>1. CASE i \in DOMAIN old.log
      BY <1>5, <3>1 DEF Enqueued
    <3>2. CASE i \notin DOMAIN old.log
      <4>1. i - Len(old.log) \in DOMAIN new /\ st.log[i] = new[i - Len(old.log)]
        BY <1>2, <1>5, <2>2, <3>2
      <4>. QED
        BY <4>1 DEF Elements
    <3>. QED
      BY <3>1, <3>2
  <2>. QED
    BY <1>6, <1>8, <2>1, <2>3
<1>10. \A h \in Handlers : Untouched(h)
  BY DEF EnqueueBatch, threads, Untouched
<1>11. /\ main # "returned"
       /\ Written' = Written /\ dropped' = dropped
  BY DEF EnqueueBatch, Written
<1>12. InStreams \subseteq Safe'
  BY <1>8 DEF Safe
<1>. QED
  BY <1>8, <1>9, <1>10, <1>11, <1>12, StepKeeps

\* The steps of a handler that touch no batch and no stream.
LEMMA QuietHandlerKeeps ==
    ASSUME IInv, TypeOK', NEW h \in Handlers,
           \/ ReceiveInit(h) \/ Connect(h) \/ (LoadContext(h) /\ Connected(h))
           \/ CheckProducer(h) \/ CheckLag(h) \/ EndJob(h)
    PROVE  IInv'
<1>1. /\ main # "returned"
      /\ pc[h] \in {"init", "connect", "context", "producer", "lag", "ended"}
  BY DEF ReceiveInit, Connect, LoadContext, CheckProducer, CheckLag, EndJob, Up
<1>2. /\ streams' = streams /\ rows' = rows /\ batch' = batch /\ phase' = phase
      /\ dropped' = dropped
  BY DEF ReceiveInit, Connect, LoadContext, CheckProducer, CheckLag, EndJob, redis
<1>3. \E label \in Pcs \ {"ack"} : Goto(h, label)
  BY DEF ReceiveInit, Connect, LoadContext, CheckProducer, CheckLag, EndJob, Pcs
<1>4. /\ pc'[h] # "ack"
      /\ \A g \in Handlers : pc'[g] # pc[g] => g = h
  BY <1>3 DEF Goto, IInv, TypeOK
<1>5. batch[h] = <<>> /\ InHand(h) = {}
  BY <1>1, IdleHandler
<1>. QED
  BY <1>1, <1>2, <1>4, <1>5, QuietStep

\* A handler that fails lets go of what it had in hand, and that is counted.
LEMMA CommandErrorKeeps ==
    ASSUME IInv, TypeOK', NEW h \in Handlers, CommandError(h) PROVE IInv'
<1>1. /\ main # "returned"
      /\ streams' = streams /\ rows' = rows /\ batch' = batch /\ phase' = phase
      /\ dropped' = dropped \cup InHand(h)
      /\ Goto(h, "exit")
  BY DEF CommandError, Up, redis
<1>2. /\ pc'[h] = "exit"
      /\ \A g \in Handlers : pc'[g] # pc[g] => g = h
  BY <1>1 DEF Goto, IInv, TypeOK
<1>. QED
  BY <1>1, <1>2, QuietStep
-----------------------------------------------------------------------------
(* The steps that read, process and hand on a batch *)

\* A step of one handler leaves the others alone.
LEMMA OthersUntouched ==
    ASSUME TypeOK, NEW h \in Handlers, NEW label, Goto(h, label),
           batch' = batch \/ \E ids : batch' = [batch EXCEPT ![h] = ids],
           phase' = phase \/ \E p : phase' = [phase EXCEPT ![h] = p]
    PROVE  /\ pc'[h] = label
           /\ \A g \in Handlers \ {h} : Untouched(g)
BY DEF Goto, TypeOK, Untouched

LEMMA AutoClaimKeeps ==
    ASSUME IInv, TypeOK', NEW h \in Handlers, AutoClaim(h) PROVE IInv'
<1> DEFINE s == Source(h)
           old == streams[s]
<1>1. PICK ids \in SUBSET Pending(old) :
        streams' = [streams EXCEPT ![s] = Claim(old, WorkerOf(h), ids)]
  BY DEF AutoClaim
<1> DEFINE st == Claim(old, WorkerOf(h), ids)
<1>2. /\ s \in Streams
      /\ old \in Stream(Msgs, AllWorkers)
      /\ WorkerOf(h) \in AllWorkers
      /\ ids \in SUBSET Nat
      /\ WellRead(old)
  BY <1>1, HandlerFacts, ReadableType DEF IInv, ReadInside
<1>3. /\ st \in Stream(Msgs, AllWorkers)
      /\ st.log = old.log
      /\ st.read = old.read
  BY <1>2, GroupFacts
<1>4. LiveEntries(old) \subseteq LiveEntries(st)
  BY <1>1, <1>2, ClaimLive
<1>5. WellRead(st)
  BY <1>2, <1>3 DEF WellRead
<1>6. streams' = [streams EXCEPT ![s] = st]
  BY <1>1
<1> HIDE DEF st
<1>7. /\ ReadInside' /\ LogsKept
      /\ InStreams \subseteq InStreams' \cup {}
  BY <1>2, <1>3, <1>4, <1>5, <1>6, OneStream
<1>8. Enqueued' = Enqueued
  BY <1>2, <1>3, <1>6, SameEnqueued DEF IInv, TypeOK, Streams
<1>9. /\ main # "returned" /\ pc[h] = "claim"
      /\ Written' = Written /\ dropped' = dropped
      /\ batch' = batch /\ phase' = phase /\ Goto(h, "read")
  BY DEF AutoClaim, Up, control, Written
<1>10. pc'[h] = "read" /\ \A g \in Handlers \ {h} : Untouched(g)
  BY <1>9, OthersUntouched DEF IInv
<1>11. batch[h] = <<>> /\ InHand(h) = {}
  BY <1>9, IdleHandler
<1>12. BatchInPlace(h)' /\ AckedIsWritten(h)'
  BY <1>9, <1>10, <1>11 DEF BatchInPlace, AckedIsWritten
<1>13. InStreams \subseteq Safe'
  BY <1>7 DEF Safe
<1>. QED
  BY <1>7, <1>8, <1>9, <1>10, <1>11, <1>12, <1>13, StepKeeps

LEMMA ReadNewKeeps ==
    ASSUME IInv, TypeOK', NEW h \in Handlers, ReadNew(h) PROVE IInv'
<1> DEFINE s == Source(h)
           old == streams[s]
<1>1. PICK ids \in Oldest(Undelivered(old), ReadCount) :
        /\ ids # <<>>
        /\ streams' = [streams EXCEPT ![s] = Deliver(old, WorkerOf(h), ids)]
        /\ batch' = [batch EXCEPT ![h] = ids]
  BY DEF ReadNew
<1> DEFINE st == Deliver(old, WorkerOf(h), ids)
<1>2. /\ s \in Streams
      /\ old \in Stream(Msgs, AllWorkers)
      /\ WorkerOf(h) \in AllWorkers
      /\ ReadCount \in Nat
  BY HandlerFacts, ReadableType, ConstantsAssumption DEF IInv, ReadCount
<1>3. /\ LiveEntries(old) \subseteq LiveEntries(st)
      /\ WellRead(st)
      /\ ids \in Seq(DOMAIN old.log)
  BY <1>1, <1>2, DeliverLive
<1>4. /\ st \in Stream(Msgs, AllWorkers)
      /\ st.log = old.log
  <2>1. ids \in Seq(Nat)
    BY <1>3, ReadableType DEF IInv
  <2>. QED
    BY <1>2, <2>1, GroupFacts
<1>5. streams' = [streams EXCEPT ![s] = st]
  BY <1>1
<1> HIDE DEF st
<1>6. /\ ReadInside' /\ LogsKept
      /\ InStreams \subseteq InStreams' \cup {}
  BY <1>2, <1>3, <1>4, <1>5, OneStream
<1>7. Enqueued' = Enqueued
  BY <1>2, <1>4, <1>5, SameEnqueued DEF IInv, TypeOK, Streams
<1>8. /\ main # "returned" /\ pc[h] = "read"
      /\ Written' = Written /\ dropped' = dropped
      /\ phase' = phase /\ Goto(h, "exec")
  BY DEF ReadNew, Up, control, Written
<1>9. pc'[h] = "exec" /\ \A g \in Handlers \ {h} : Untouched(g)
  BY <1>1, <1>8, OthersUntouched DEF IInv
<1>10. InHand(h) = {}
  BY <1>8, IdleHandler
<1>11. BatchInPlace(h)' /\ AckedIsWritten(h)'
  <2>1. Source(h)' = s
    BY <1>8 DEF Source
  <2>2. batch'[h] = ids
    BY <1>1 DEF IInv, TypeOK
  <2>3. streams'[s].log = old.log
    BY <1>2, <1>4, <1>5 DEF IInv, TypeOK
  <2>. QED
    BY <1>3, <1>9, <2>1, <2>2, <2>3 DEF BatchInPlace, AckedIsWritten
<1>12. InStreams \subseteq Safe'
  BY <1>6 DEF Safe
<1>. QED
  BY <1>6, <1>7, <1>8, <1>9, <1>10, <1>11, <1>12, StepKeeps

LEMMA ReadPendingKeeps ==
    ASSUME IInv, TypeOK', NEW h \in Handlers, ReadPending(h) PROVE IInv'
<1>1. PICK ids \in Oldest(Own(h), ReadCount) : batch' = [batch EXCEPT ![h] = ids]
  BY DEF ReadPending
<1>2. /\ ids \in Seq(Own(h))
      /\ Own(h) \subseteq DOMAIN streams[Source(h)].log
  BY <1>1, OldestType, ReadableType, ConstantsAssumption DEF IInv, ReadCount
<1>3. ids \in Seq(DOMAIN streams[Source(h)].log)
  BY <1>2
<1>4. /\ main # "returned" /\ pc[h] = "read"
      /\ streams' = streams /\ rows' = rows /\ dropped' = dropped
      /\ phase' = phase /\ Goto(h, "exec")
  BY DEF ReadPending, Up, redis, control
<1>5. pc'[h] = "exec" /\ \A g \in Handlers \ {h} : Untouched(g)
  BY <1>1, <1>4, OthersUntouched DEF IInv
<1>6. /\ ReadInside' /\ LogsKept
      /\ Written' = Written
      /\ Enqueued' = Enqueued
      /\ InStreams' = InStreams
  BY <1>4 DEF IInv, ReadInside, LogsKept, Written, Enqueued, InStreams
<1>7. InHand(h) = {}
  BY <1>4, IdleHandler
<1>8. BatchInPlace(h)' /\ AckedIsWritten(h)'
  <2>1. Source(h)' = Source(h)
    BY <1>4 DEF Source
  <2>2. batch'[h] = ids
    BY <1>1 DEF IInv, TypeOK
  <2>. QED
    BY <1>3, <1>4, <1>5, <2>1, <2>2 DEF BatchInPlace, AckedIsWritten
<1>9. InStreams \subseteq Safe'
  BY <1>6 DEF Safe
<1>. QED
  BY <1>4, <1>5, <1>6, <1>7, <1>8, <1>9, StepKeeps

\* A phase ends, and a handler exits, only with no batch left.
LEMMA NoBatchKeeps ==
    ASSUME IInv, TypeOK', NEW h \in Handlers, ReadNothing(h) \/ Exit(h)
    PROVE  IInv'
<1>1. /\ main # "returned"
      /\ streams' = streams /\ rows' = rows /\ dropped' = dropped
  BY DEF ReadNothing, Exit, Up, redis, control
<1>2. /\ phase' = phase \/ \E p : phase' = [phase EXCEPT ![h] = p]
      /\ \E label \in {"claim", "read", "producer", "off"} : Goto(h, label)
  <2>1. CASE ReadNothing(h)
    <3>1. phase[h] \in Phases
      BY DEF IInv, TypeOK
    <3>. QED
      BY <2>1, <3>1 DEF ReadNothing, Phases
  <2>2. CASE Exit(h)
    BY <2>2 DEF Exit
  <2>. QED
    BY <2>1, <2>2
<1>3. /\ batch'[h] = <<>>
      /\ batch' = batch \/ batch' = [batch EXCEPT ![h] = <<>>]
      /\ InHand(h) = {}
  <2>1. CASE ReadNothing(h)
    BY <1>1, <2>1, IdleHandler DEF ReadNothing
  <2>2. CASE Exit(h)
    BY <2>2 DEF Exit, InHand, IInv, TypeOK
  <2>. QED
    BY <2>1, <2>2
<1>4. PICK label \in {"claim", "read", "producer", "off"} : Goto(h, label)
  BY <1>2
<1>5. pc'[h] = label /\ \A g \in Handlers \ {h} : Untouched(g)
  BY <1>2, <1>3, <1>4, OthersUntouched DEF IInv
<1>6. /\ ReadInside' /\ LogsKept
      /\ Written' = Written
      /\ Enqueued' = Enqueued
      /\ InStreams' = InStreams
  BY <1>1 DEF IInv, ReadInside, LogsKept, Written, Enqueued, InStreams
<1>7. BatchInPlace(h)' /\ AckedIsWritten(h)'
  <2> DEFINE ids == DOMAIN streams'[Source(h)'].log
  <2>1. <<>> \in Seq(ids)
    OBVIOUS
  <2>. QED
    BY <1>3, <1>5, <2>1 DEF BatchInPlace, AckedIsWritten
<1>8. InStreams \subseteq Safe'
  BY <1>6 DEF Safe
<1>. QED
  BY <1>1, <1>3, <1>5, <1>6, <1>7, <1>8, StepKeeps

LEMMA InsertKeeps ==
    ASSUME IInv, TypeOK', NEW h \in Handlers, Insert(h) PROVE IInv'
<1> DEFINE At(m) == {i \in DOMAIN batch[h] : BatchMsgs(h)[i] = m}
<1>1. /\ main # "returned" /\ pc[h] = "exec" /\ WorkerOf(h) = Inserter
      /\ streams' = streams /\ dropped' = dropped
      /\ batch' = batch /\ phase' = phase /\ Goto(h, "ack")
      /\ rows' = [m \in Msgs |-> rows[m] + Cardinality(At(m))]
  BY DEF Insert, Up, control
<1>2. pc'[h] = "ack" /\ \A g \in Handlers \ {h} : Untouched(g)
  BY <1>1, OthersUntouched DEF IInv
<1>3. BatchMsgs(h) \in Seq(Msgs) /\ DOMAIN BatchMsgs(h) = DOMAIN batch[h]
  BY <1>1, BatchFacts DEF IInv
<1>4. /\ \A m \in Msgs : At(m) \subseteq DOMAIN batch[h]
      /\ \A m \in Elements(BatchMsgs(h)) : m \in Msgs /\ At(m) # {}
  BY <1>3 DEF Elements
<1> HIDE DEF At
<1>5. \A m \in Msgs : IsFiniteSet(At(m)) /\ Cardinality(At(m)) \in Nat
  BY <1>4, PositionsFinite DEF IInv
<1>6. \A m \in Msgs : rows[m] \in Nat /\ rows'[m] = rows[m] + Cardinality(At(m))
  BY <1>1 DEF IInv, TypeOK
<1>7. Written \subseteq Written'
  BY <1>5, <1>6 DEF Written
<1>8. Elements(BatchMsgs(h)) \subseteq Written'
  <2>1. ASSUME NEW m \in Elements(BatchMsgs(h))
        PROVE  m \in Msgs /\ Cardinality(At(m)) \in Nat \ {0}
    BY <1>4, <1>5, FS_EmptySet
  <2>. QED
    BY <1>6, <2>1 DEF Written
<1>9. /\ ReadInside' /\ LogsKept
      /\ Enqueued' = Enqueued
      /\ InStreams' = InStreams
  BY <1>1 DEF IInv, ReadInside, LogsKept, Enqueued, InStreams
<1>10. BatchInPlace(h)' /\ AckedIsWritten(h)'
  <2>1. Source(h)' = Source(h) /\ BatchMsgs(h)' = BatchMsgs(h)
    BY <1>1 DEF Source, BatchMsgs
  <2>. QED
    BY <1>1, <1>2, <1>8, <2>1 DEF BatchInPlace, AckedIsWritten, IInv, BatchOK
<1>11. InHand(h) = {} /\ InStreams \subseteq Safe'
  BY <1>1, <1>9 DEF InHand, Safe
<1>. QED
  BY <1>1, <1>2, <1>7, <1>9, <1>10, <1>11, StepKeeps

\* What XACK does to the stream a handler reads.
LEMMA AckFacts ==
    ASSUME IInv, main # "returned", NEW h \in Handlers
    PROVE  LET old == streams[Source(h)]
               st == XAck(old, batch[h])
           IN  /\ st \in Stream(Msgs, AllWorkers)
               /\ WellRead(st)
               /\ st.log = old.log
               /\ LiveEntries(old) \subseteq LiveEntries(st) \cup Elements(BatchMsgs(h))
<1> DEFINE old == streams[Source(h)]
           st == XAck(old, batch[h])
<1>1. /\ old \in Stream(Msgs, AllWorkers)
      /\ batch[h] \in Seq(DOMAIN old.log)
      /\ batch[h] \in Seq(Nat)
      /\ Source(h) \in Streams
      /\ WorkerOf(h) \in AllWorkers
  BY BatchFacts, HandlerFacts DEF IInv
<1>2. /\ st \in Stream(Msgs, AllWorkers)
      /\ st.log = old.log
      /\ st.read = old.read
  BY <1>1, GroupFacts
<1>3. WellRead(st)
  BY <1>1, <1>2 DEF WellRead, IInv, ReadInside
<1>4. LiveEntries(old) \subseteq LiveEntries(st) \cup Elements(Entries(old, batch[h]))
  BY <1>1, AckLive
<1>. QED
  BY <1>2, <1>3, <1>4 DEF BatchMsgs

LEMMA AcknowledgeKeeps ==
    ASSUME IInv, TypeOK', NEW h \in Handlers, Acknowledge(h) PROVE IInv'
<1> DEFINE s == Source(h)
           old == streams[s]
           st == XAck(old, batch[h])
           msgs == Elements(BatchMsgs(h))
<1>1. /\ main # "returned" /\ pc[h] \in {"exec", "ack"}
      /\ streams' = [streams EXCEPT ![s] = st]
      /\ Written' = Written /\ dropped' = dropped /\ phase' = phase
  BY DEF Acknowledge, Up, control, Written
<1>2. /\ s \in Streams
      /\ st \in Stream(Msgs, AllWorkers)
      /\ WellRead(st)
      /\ st.log = old.log
      /\ LiveEntries(old) \subseteq LiveEntries(st) \cup msgs
  BY <1>1, AckFacts, HandlerFacts
<1> HIDE DEF st, msgs
<1>3. /\ ReadInside' /\ LogsKept
      /\ InStreams \subseteq InStreams' \cup msgs
  BY <1>1, <1>2, OneStream
<1>4. Enqueued' = Enqueued
  BY <1>1, <1>2, SameEnqueued DEF IInv, TypeOK, Streams
<1>5. InHand(h) = {}
  BY <1>1 DEF InHand
<1>6. /\ Source(h)' = s
      /\ streams'[s].log = old.log
  BY <1>1, <1>2 DEF Source, IInv, TypeOK
<1>7. CASE WorkerOf(h) = Inserter
  <2>1. /\ pc[h] = "ack" /\ Goto(h, Resume(h))
        /\ batch' = [batch EXCEPT ![h] = <<>>]
    BY <1>7 DEF Acknowledge
  <2>2. pc'[h] = Resume(h) /\ \A g \in Handlers \ {h} : Untouched(g)
    BY <1>1, <2>1, OthersUntouched DEF IInv
  <2>3. msgs \subseteq Written
    BY <1>1, <2>1 DEF msgs, IInv, AckWritten, AckedIsWritten
  <2>4. BatchInPlace(h)' /\ AckedIsWritten(h)'
    <3> DEFINE ids == DOMAIN streams'[Source(h)'].log
    <3>1. <<>> \in Seq(ids)
      OBVIOUS
    <3>2. batch'[h] = <<>> /\ pc'[h] # "ack"
      BY <2>1, <2>2 DEF IInv, TypeOK, Resume
    <3>. QED
      BY <3>1, <3>2 DEF BatchInPlace, AckedIsWritten
  <2>5. InStreams \subseteq Safe'
    BY <1>1, <1>3, <2>3 DEF Safe
  <2>. QED
    BY <1>1, <1>3, <1>4, <1>5, <2>2, <2>4, <2>5, StepKeeps
<1>8. CASE WorkerOf(h) # Inserter
  <2>1. Goto(h, "push") /\ batch' = batch
    BY <1>8 DEF Acknowledge
  <2>2. pc'[h] = "push" /\ \A g \in Handlers \ {h} : Untouched(g)
    BY <1>1, <2>1, OthersUntouched DEF IInv
  <2>3. BatchMsgs(h)' = BatchMsgs(h)
    BY <1>6, <2>1 DEF BatchMsgs, Entries
  <2>4. msgs \subseteq InHand(h)'
    <3>1. msgs = {BatchMsgs(h)[i] : i \in DOMAIN batch[h]}
      BY <1>1, BatchFacts DEF msgs, IInv
    <3>. QED
      BY <2>1, <2>2, <2>3, <3>1 DEF InHand
  <2>5. BatchInPlace(h)' /\ AckedIsWritten(h)'
    BY <1>1, <1>6, <2>1, <2>2 DEF BatchInPlace, AckedIsWritten, IInv, BatchOK
  <2>6. InStreams \subseteq Safe'
    BY <1>3, <2>4 DEF Safe, AllInHand
  <2>. QED
    BY <1>1, <1>3, <1>4, <1>5, <2>2, <2>5, <2>6, StepKeeps
<1>. QED
  BY <1>7, <1>8

LEMMA PushKeeps ==
    ASSUME IInv, TypeOK', NEW h \in Handlers, Push(h) PROVE IInv'
<1> DEFINE old == streams["insert"]
           st == XAdd(old, BatchMsgs(h))
<1>1. /\ main # "returned" /\ pc[h] = "push"
      /\ streams' = [streams EXCEPT !["insert"] = st]
      /\ Written' = Written /\ dropped' = dropped /\ phase' = phase
      /\ Goto(h, Resume(h)) /\ batch' = [batch EXCEPT ![h] = <<>>]
  BY DEF Push, Forwarded, Up, Written
<1>2. /\ "insert" \in Streams
      /\ old \in Stream(Msgs, AllWorkers)
      /\ WellRead(old)
      /\ BatchMsgs(h) \in Seq(Msgs)
  BY <1>1, BatchFacts DEF Streams, IInv, TypeOK, ReadInside
<1>3. /\ st \in Stream(Msgs, AllWorkers)
      /\ WellRead(st)
      /\ DOMAIN old.log \subseteq DOMAIN st.log
      /\ \A i \in DOMAIN old.log : st.log[i] = old.log[i]
  <2> HIDE DEF old
  <2>. QED
    BY <1>2, XAddFacts
<1>4. LiveEntries(old) \cup Elements(BatchMsgs(h)) \subseteq LiveEntries(st)
  BY <1>2, XAddLive
<1> HIDE DEF st
<1>5. /\ ReadInside' /\ LogsKept
      /\ InStreams \subseteq InStreams' \cup {}
      /\ LiveEntries(st) \subseteq InStreams'
  BY <1>1, <1>2, <1>3, <1>4, OneStream
<1>6. Enqueued' = Enqueued
  BY <1>1, SameEnqueued DEF IInv, TypeOK, Streams
<1>7. InHand(h) \subseteq Safe'
  <2>1. InHand(h) = Elements(BatchMsgs(h))
    BY <1>1, BatchFacts DEF InHand, IInv
  <2>. QED
    BY <1>4, <1>5, <2>1 DEF Safe
<1>8. pc'[h] = Resume(h) /\ \A g \in Handlers \ {h} : Untouched(g)
  BY <1>1, OthersUntouched DEF IInv
<1>9. BatchInPlace(h)' /\ AckedIsWritten(h)'
  <2> DEFINE ids == DOMAIN streams'[Source(h)'].log
  <2>1. <<>> \in Seq(ids)
    OBVIOUS
  <2>2. batch'[h] = <<>> /\ pc'[h] # "ack"
    BY <1>1, <1>8 DEF IInv, TypeOK, Resume
  <2>. QED
    BY <2>1, <2>2 DEF BatchInPlace, AckedIsWritten
<1>10. InStreams \subseteq Safe'
  BY <1>5 DEF Safe
<1>. QED
  BY <1>1, <1>5, <1>6, <1>7, <1>8, <1>9, <1>10, StepKeeps

\* A failed batch moves to the dead-letter stream, or, if it came from there,
\* is dropped and counted.
LEMMA FailKeeps ==
    ASSUME IInv, TypeOK', NEW h \in Handlers, Fail(h) PROVE IInv'
<1> DEFINE s == Source(h)
           dlq == DlqOf(WorkerOf(h))
           old == streams[s]
           st == XAck(old, batch[h])
           acked == [streams EXCEPT ![s] = st]
           dead == XAdd(streams[dlq], BatchMsgs(h))
           msgs == Elements(BatchMsgs(h))
<1>1. /\ main # "returned" /\ pc[h] = "exec"
      /\ Written' = Written /\ phase' = phase
      /\ Goto(h, Resume(h)) /\ batch' = [batch EXCEPT ![h] = <<>>]
  BY DEF Fail, Up, Written
<1>2. /\ s \in Streams /\ dlq \in Streams
      /\ st \in Stream(Msgs, AllWorkers)
      /\ WellRead(st)
      /\ st.log = old.log
      /\ LiveEntries(old) \subseteq LiveEntries(st) \cup msgs
  BY <1>1, AckFacts, HandlerFacts
<1>3. InHand(h) = {}
  BY <1>1 DEF InHand
<1>4. pc'[h] = Resume(h) /\ \A g \in Handlers \ {h} : Untouched(g)
  BY <1>1, OthersUntouched DEF IInv
<1>5. BatchInPlace(h)' /\ AckedIsWritten(h)'
  <2> DEFINE ids == DOMAIN streams'[Source(h)'].log
  <2>1. <<>> \in Seq(ids)
    OBVIOUS
  <2>2. batch'[h] = <<>> /\ pc'[h] # "ack"
    BY <1>1, <1>4 DEF IInv, TypeOK, Resume
  <2>. QED
    BY <2>1, <2>2 DEF BatchInPlace, AckedIsWritten
<1>6. CASE phase[h] = "dlq"
  <2>1. /\ streams' = acked
        /\ dropped' = dropped \cup {BatchMsgs(h)[i] : i \in DOMAIN batch[h]}
    BY <1>6 DEF Fail
  <2>2. dropped' = dropped \cup msgs
    BY <1>1, <2>1, BatchFacts DEF IInv
  <2> HIDE DEF st, msgs
  <2>3. /\ ReadInside' /\ LogsKept
        /\ InStreams \subseteq InStreams' \cup msgs
    BY <1>2, <2>1, OneStream
  <2>4. Enqueued' = Enqueued
    BY <1>2, <2>1, SameEnqueued DEF IInv, TypeOK, Streams
  <2>5. InStreams \subseteq Safe'
    BY <2>2, <2>3 DEF Safe
  <2>. QED
    BY <1>1, <1>3, <1>4, <1>5, <2>2, <2>3, <2>4, <2>5, StepKeeps
<1>7. CASE phase[h] # "dlq"
  <2>1. /\ streams' = [acked EXCEPT ![dlq] = XAdd(@, BatchMsgs(h))]
        /\ dropped' = dropped
    BY <1>7 DEF Fail, DeadLettered
  <2>2. dlq # s /\ "process" # dlq
    BY <1>7 DEF Source, StreamOf, DlqOf
  <2>3. /\ streams[dlq] \in Stream(Msgs, AllWorkers)
        /\ WellRead(streams[dlq])
        /\ BatchMsgs(h) \in Seq(Msgs)
    BY <1>1, <1>2, BatchFacts DEF IInv, TypeOK, ReadInside
  <2>4. /\ dead \in Stream(Msgs, AllWorkers)
        /\ WellRead(dead)
        /\ DOMAIN streams[dlq].log \subseteq DOMAIN dead.log
        /\ \A i \in DOMAIN streams[dlq].log : dead.log[i] = streams[dlq].log[i]
    BY <2>3, XAddFacts
  <2>5. LiveEntries(streams[dlq]) \cup msgs \subseteq LiveEntries(dead)
    BY <2>3, XAddLive
  <2>6. acked[dlq] = streams[dlq]
    BY <1>2, <2>2 DEF IInv, TypeOK
  <2> HIDE DEF st, msgs
  <2>7. \A t \in Streams :
            streams'[t] = IF t = dlq THEN dead ELSE IF t = s THEN st ELSE streams[t]
    BY <1>2, <2>1, <2>2, <2>6 DEF IInv, TypeOK
  <2> HIDE DEF dead
  <2>8. /\ ReadInside' /\ LogsKept
    BY <1>2, <2>4, <2>7 DEF IInv, ReadInside, LogsKept
  <2>9. Enqueued' = Enqueued
    <3>1. streams'["process"].log = streams["process"].log
      BY <1>2, <2>2, <2>7 DEF Streams
    <3>. QED
      BY <3>1, SameEnqueued
  <2>10. ASSUME NEW t \in Streams
         PROVE  LiveEntries(streams[t]) \subseteq InStreams'
    <3>1. LiveEntries(streams'[dlq]) \subseteq InStreams'
      BY <1>2 DEF InStreams
    <3>2. LiveEntries(streams'[t]) \subseteq InStreams'
      BY DEF InStreams
    <3>. QED
      BY <1>2, <2>2, <2>5, <2>7, <3>1, <3>2
  <2>11. InStreams \subseteq Safe'
    BY <2>10 DEF InStreams, Safe
  <2>. QED
    BY <1>1, <1>3, <1>4, <1>5, <2>1, <2>8, <2>9, <2>11, StepKeeps
<1>. QED
  BY <1>6, <1>7

\* Returning forgets the streams; nothing is claimed of them any more.
LEMMA ClearPersistedKeeps ==
    ASSUME IInv, TypeOK', ClearPersisted PROVE IInv'
<1>1. main' = "returned" /\ \A s \in Streams : streams'[s] = EmptyStream(AllWorkers)
  BY DEF ClearPersisted
<1>2. ReadInside'
  BY <1>1, EmptyStreamFacts DEF ReadInside
<1>. QED
  BY <1>1, <1>2 DEF IInv, BatchOK, AckWritten, Accounted

\* The steps of the main thread that leave Redis to the workers.
LEMMA MainKeeps ==
    ASSUME IInv, TypeOK',
           \/ Queue \/ CloseEnqueuer \/ AwaitAll \/ CheckProcess \/ CheckInsert
           \/ Healthcheck \/ ConfirmRestart \/ DeclineRestart
           \/ \E w \in AllWorkers : LoseConnection(w)
    PROVE  IInv'
<1>1. CASE main # "returned"
  <2>1. /\ streams' = streams /\ rows' = rows /\ batch' = batch /\ phase' = phase
        /\ dropped' = dropped
    BY DEF Queue, CloseEnqueuer, AwaitAll, CheckProcess, CheckInsert, Healthcheck,
           ConfirmRestart, DeclineRestart, LoseConnection, redis, control, threads
  <2>2. pc' = pc \/ \E ws : pc' = Started(ws)
    BY DEF Queue, CloseEnqueuer, AwaitAll, CheckProcess, CheckInsert, Healthcheck,
           ConfirmRestart, DeclineRestart, LoseConnection, threads
  <2>. QED
    BY <1>1, <2>1, <2>2, StartedIsQuiet, QuietStep
<1>2. CASE main = "returned"
  BY <1>2 DEF Queue, CloseEnqueuer, AwaitAll, CheckProcess, CheckInsert,
              Healthcheck, ConfirmRestart, DeclineRestart, LoseConnection, Up
<1>. QED
  BY <1>1, <1>2

LEMMA OnMessageKeeps ==
    ASSUME IInv, TypeOK', NEW h \in Handlers, OnMessage(h) PROVE IInv'
<1>1. main # "returned"
  BY DEF OnMessage
<1>2. CASE Die
  BY <1>1, <1>2, DieKeeps
<1>3. CASE ~Die
  <2>1. /\ streams' = streams /\ rows' = rows /\ batch' = batch /\ phase' = phase
        /\ dropped' = dropped
    BY <1>3 DEF OnMessage, redis
  <2>2. pc' = pc \/ pc' = Started({Inserter})
    BY <1>3 DEF OnMessage, OnDone, OnFinished, InitInsertIfIdle
  <2>. QED
    BY <1>1, <2>1, <2>2, StartedIsQuiet, QuietStep
<1>. QED
  BY <1>2, <1>3

\* Stuttering.
LEMMA UnchangedKeeps ==
    ASSUME IInv, UNCHANGED vars
    PROVE  IInv'
<1>1. TypeOK'
  BY DEF IInv, TypeOK, vars
<1>2. BatchOK'
  BY DEF IInv, BatchOK, BatchInPlace, Source, vars
<1>3. AckWritten'
  BY DEF IInv, AckWritten, AckedIsWritten, BatchMsgs, Source, Written, vars
<1>4. ReadInside'
  BY DEF IInv, ReadInside, vars
<1>5. Accounted'
  BY DEF IInv, Accounted, Enqueued, InStreams, AllInHand, InHand, BatchMsgs, Source,
         Written, vars
<1>. QED
  BY <1>1, <1>2, <1>3, <1>4, <1>5 DEF IInv

LEMMA Inductive ==
    ASSUME IInv, [Next]_vars
    PROVE  IInv'
<1>1. TypeOK'
  BY TypeNext DEF IInv
<1>2. CASE Quit \/ Crash
  <2>1. Die /\ main # "returned"
    BY <1>2 DEF Quit, Crash, Up
  <2>. QED
    BY <1>1, <2>1, DieKeeps
<1>3. CASE \E h \in Handlers : HandlerStep(h)
  <2>1. PICK h \in Handlers : HandlerStep(h)
    BY <1>3
  <2>2. CASE LoadContext(h) /\ ~Connected(h)
    <3>1. Die /\ main # "returned"
      BY <2>2 DEF LoadContext, Up
    <3>. QED
      BY <1>1, <3>1, DieKeeps
  <2>3. CASE \/ ReceiveInit(h) \/ Connect(h) \/ (LoadContext(h) /\ Connected(h))
            \/ CheckProducer(h) \/ CheckLag(h) \/ EndJob(h)
    BY <1>1, <2>3, QuietHandlerKeeps
  <2>4. CASE AutoClaim(h) \/ ReadNew(h) \/ ReadPending(h)
    BY <1>1, <2>4, AutoClaimKeeps, ReadNewKeeps, ReadPendingKeeps
  <2>5. CASE ReadNothing(h) \/ Exit(h)
    BY <1>1, <2>5, NoBatchKeeps
  <2>6. CASE Insert(h) \/ Acknowledge(h) \/ Push(h)
    BY <1>1, <2>6, InsertKeeps, AcknowledgeKeeps, PushKeeps
  <2>7. CASE CommandError(h)
    BY <1>1, <2>7, CommandErrorKeeps
  <2>8. \/ ReceiveInit(h) \/ Connect(h) \/ LoadContext(h)
        \/ CheckProducer(h) \/ CheckLag(h) \/ EndJob(h)
        \/ AutoClaim(h) \/ ReadNew(h) \/ ReadPending(h)
        \/ ReadNothing(h) \/ Exit(h)
        \/ Insert(h) \/ Acknowledge(h) \/ Push(h)
        \/ CommandError(h)
    BY <2>1, Zenon DEF HandlerStep
  <2>. QED
    BY <2>2, <2>3, <2>4, <2>5, <2>6, <2>7, <2>8, Zenon
<1>4. CASE \E h \in Handlers : Fail(h) \/ OnMessage(h)
  BY <1>1, <1>4, FailKeeps, OnMessageKeeps
<1>5. CASE EnqueueBatch \/ ClearPersisted
  BY <1>1, <1>5, EnqueueBatchKeeps, ClearPersistedKeeps
<1>6. CASE UNCHANGED vars
  BY <1>6, UnchangedKeeps
<1>. QED
  BY <1>1, <1>2, <1>3, <1>4, <1>5, <1>6, MainKeeps DEF Next, MainStep, Finished

LEMMA InvInit ==
    ASSUME Init PROVE IInv
<1>1. TypeOK
  BY TypeInit
<1>2. ReadInside
  BY EmptyStreamFacts DEF Init, ReadInside
<1>3. BatchOK /\ AckWritten
  <2>1. ASSUME NEW h \in Handlers
        PROVE  BatchInPlace(h) /\ AckedIsWritten(h)
    <3> DEFINE ids == DOMAIN streams[Source(h)].log
    <3>1. <<>> \in Seq(ids)
      OBVIOUS
    <3>2. batch[h] = <<>> /\ pc[h] = "off"
      BY DEF Init
    <3>. QED
      BY <3>1, <3>2 DEF BatchInPlace, AckedIsWritten
  <2>. QED
    BY <2>1 DEF BatchOK, AckWritten
<1>4. Accounted
  <2>1. streams["process"].log = <<>>
    BY EmptyStreamFacts DEF Init, Streams
  <2>. QED
    BY <2>1 DEF Accounted, Enqueued
<1>. QED
  BY <1>1, <1>2, <1>3, <1>4 DEF IInv

\* The inductive invariant holds in every reachable state.
THEOREM Invariance == Spec => []IInv
<1>1. Init => IInv
  BY InvInit
<1>2. IInv /\ [Next]_vars => IInv'
  BY Inductive
<1>. QED
  BY <1>1, <1>2, PTL DEF Spec

\* Every state of the queue is typed, whatever the constants: among others, no
\* step looks up an entry a stream does not have.
THEOREM TypeCorrect == Spec => []TypeOK
<1>1. IInv => TypeOK
  BY DEF IInv
<1>. QED
  BY <1>1, Invariance, PTL

\* processBatch, the drains and the recovery after a crash forget no message:
\* what entered the processing stream is in a stream, in hand, written or
\* counted as dropped, for any number of workers, handlers and interruptions.
THEOREM NothingForgotten == Spec => []Accounted
<1>1. IInv => Accounted
  BY DEF IInv
<1>. QED
  BY <1>1, Invariance, PTL
=============================================================================
